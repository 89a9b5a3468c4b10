--------------------------- MODULE DiskScheduler ----------------------------
(***************************************************************************)
(* The disk scheduler and its request channel                              *)
(* (src/src/storage/disk/disk_scheduler.cpp, src/src/include/common/       *)
(* channel.h): client threads put requests on a queue, one worker thread   *)
(* executes them on the disk manager and answers through promises.         *)
(*                                                                         *)
(* The disk manager is what module DiskStore promises.  A client leaves    *)
(* the buffer of a request alone until it has the answer, as the buffer    *)
(* pool does, so a write request carries its data.                         *)
(***************************************************************************)
EXTENDS Naturals, Sequences, FiniteSets

CONSTANTS Clients,
          Pages,
          Values,        \* contents that are written
          Unspecified,   \* contents of a page that was not written
          MaxBatch,      \* requests in one call of Schedule
          MaxPromises,   \* promises in use at a time
          DiskThrows,    \* whether the disk manager may throw
          Nullopt        \* the end marker in the queue

Promises == 1 .. MaxPromises

\* A DiskRequest; expects is what its page holds when every request put
\* before it has been executed.
Request == [is_write_ : BOOLEAN, page_id_ : Pages, data_ : Values \cup {Unspecified},
            callback_ : Promises, expects : Values \cup {Unspecified}]

ASSUME SchedulerAssumption ==
    /\ MaxBatch \in Nat /\ MaxPromises \in Nat /\ DiskThrows \in BOOLEAN
    /\ Nullopt \notin Request

VARIABLES request_queue,
          worker,     \* the request the worker executes: <<r>>, or <<>>
          returned,   \* the worker thread has returned
          batch,      \* client -> the requests its Schedule has still to put
          futures,    \* client -> the promises it will wait for
          promises,   \* promise -> "unused", "pending", "true" or "false"
          disk,       \* page -> contents
          thrown,     \* the disk manager has thrown so far
          scheduler   \* "alive", "joining" its worker, or "destroyed"

vars == <<request_queue, worker, returned, batch, futures, promises, disk, thrown, scheduler>>

\* The constructor starts the worker.
Init ==
    /\ request_queue = <<>>
    /\ worker = <<>>
    /\ returned = FALSE
    /\ batch = [c \in Clients |-> <<>>]
    /\ futures = [c \in Clients |-> {}]
    /\ promises = [i \in Promises |-> "unused"]
    /\ disk = [p \in Pages |-> Unspecified]
    /\ thrown = FALSE
    /\ scheduler = "alive"

\* The requests the channel and the worker hold, oldest first.
InFlight == SelectSeq(worker \o request_queue, LAMBDA r : r # Nullopt)

\* What page p holds when they are executed.
After(p) ==
    LET w == SelectSeq(InFlight, LAMBDA r : r.is_write_ /\ r.page_id_ = p)
    IN  IF w = <<>> THEN disk[p] ELSE w[Len(w)].data_

\* Channel::Put
Put(element) == request_queue' = Append(request_queue, element)

-----------------------------------------------------------------------------
(* The clients                                                             *)

\* A write of a value, or a read
NewRequests(i) ==
    [is_write_ : {TRUE}, page_id_ : Pages, data_ : Values, callback_ : {i}, expects : {Unspecified}]
      \cup
    [is_write_ : {FALSE}, page_id_ : Pages, data_ : {Unspecified}, callback_ : {i}, expects : {Unspecified}]

Unused == {i \in Promises : promises[i] = "unused"}
NextUnused == CHOOSE i \in Unused : \A j \in Unused : i <= j

\* CreatePromise, and one more request in the vector of client c
AddRequest(c) ==
    /\ scheduler = "alive"
    /\ Unused # {} /\ Len(batch[c]) < MaxBatch
    /\ \E r \in NewRequests(NextUnused) : batch' = [batch EXCEPT ![c] = Append(@, r)]
    /\ futures' = [futures EXCEPT ![c] = @ \cup {NextUnused}]
    /\ promises' = [promises EXCEPT ![NextUnused] = "pending"]
    /\ UNCHANGED <<request_queue, worker, returned, disk, thrown, scheduler>>

\* One round of Schedule's loop
Schedule(c) ==
    /\ batch[c] # <<>>
    /\ LET r == Head(batch[c]) IN Put([r EXCEPT !.expects = After(r.page_id_)])
    /\ batch' = [batch EXCEPT ![c] = Tail(@)]
    /\ UNCHANGED <<worker, returned, futures, promises, disk, thrown, scheduler>>

\* future.get()
Await(c, i) ==
    /\ i \in futures[c] /\ promises[i] # "pending"
    /\ futures' = [futures EXCEPT ![c] = @ \ {i}]
    /\ promises' = [promises EXCEPT ![i] = "unused"]
    /\ UNCHANGED <<request_queue, worker, returned, batch, disk, thrown, scheduler>>

\* DeallocatePage runs on the caller's thread, past the queue; the buffer pool
\* calls it for a page that no request is about.
DeallocatePage(c, p) ==
    /\ scheduler = "alive"
    /\ \A d \in Clients : \A i \in DOMAIN batch[d] : batch[d][i].page_id_ # p
    /\ \A i \in DOMAIN InFlight : InFlight[i].page_id_ # p
    /\ disk' = [disk EXCEPT ![p] = Unspecified]
    /\ UNCHANGED <<request_queue, worker, returned, batch, futures, promises, thrown, scheduler>>

-----------------------------------------------------------------------------
(* The destructor and the worker thread                                    *)

DestroyWithoutMarker ==
    /\ scheduler = "alive" /\ \A c \in Clients : batch[c] = <<>>
    /\ scheduler' = "joining"
    /\ UNCHANGED <<request_queue, worker, returned, batch, futures, promises, disk, thrown>>

\* The destructor may run while answers are outstanding, but not while a
\* thread is inside Schedule.
Destroy ==
    /\ scheduler = "alive" /\ \A c \in Clients : batch[c] = <<>>
    /\ Put(Nullopt)
    /\ scheduler' = "joining"
    /\ UNCHANGED <<worker, returned, batch, futures, promises, disk, thrown>>

\* background_thread_->join()
Join ==
    /\ scheduler = "joining" /\ returned
    /\ scheduler' = "destroyed"
    /\ UNCHANGED <<request_queue, worker, returned, batch, futures, promises, disk, thrown>>

\* Faulty variant: the newest request first.
GetNewest ==
    /\ ~returned /\ worker = <<>> /\ request_queue # <<>>
    /\ LET n == Len(request_queue)
       IN  /\ returned' = (request_queue[n] = Nullopt)
           /\ worker' = IF returned' THEN <<>> ELSE <<request_queue[n]>>
           /\ request_queue' = SubSeq(request_queue, 1, n - 1)
    /\ UNCHANGED <<batch, futures, promises, disk, thrown, scheduler>>

\* The worker waits for an element; the end marker makes it return.
Get ==
    /\ ~returned /\ worker = <<>> /\ request_queue # <<>>
    /\ returned' = (Head(request_queue) = Nullopt)
    /\ worker' = IF returned' THEN <<>> ELSE <<Head(request_queue)>>
    /\ request_queue' = Tail(request_queue)
    /\ UNCHANGED <<batch, futures, promises, disk, thrown, scheduler>>

\* The request on the disk manager: DiskManager::WritePage or ReadPage
OnDisk(r) == disk' = IF r.is_write_ THEN [disk EXCEPT ![r.page_id_] = r.data_] ELSE disk

\* Faulty variants: the catch block sets no value, or the exception ends the
\* worker.
ExecuteNoAnswer(r) ==
    /\ \/ /\ OnDisk(r) /\ UNCHANGED thrown
          /\ promises' = [promises EXCEPT ![r.callback_] = "true"]
       \/ DiskThrows /\ thrown' = TRUE /\ UNCHANGED <<disk, promises>>
    /\ worker' = <<>>
    /\ UNCHANGED <<request_queue, returned, batch, futures, scheduler>>

ExecuteDies(r) ==
    /\ returned' \in BOOLEAN
    /\ promises' = [promises EXCEPT ![r.callback_] = IF returned' THEN "false" ELSE "true"]
    /\ \/ ~returned' /\ OnDisk(r) /\ UNCHANGED thrown
       \/ DiskThrows /\ returned' /\ thrown' = TRUE /\ UNCHANGED disk
    /\ worker' = <<>>
    /\ UNCHANGED <<request_queue, batch, futures, scheduler>>

\* The worker executes request r and sets its promise.
Execute(r) ==
    /\ \/ /\ OnDisk(r)
          /\ promises' = [promises EXCEPT ![r.callback_] = "true"]
          /\ UNCHANGED thrown
       \/ /\ DiskThrows /\ thrown' = TRUE
          /\ promises' = [promises EXCEPT ![r.callback_] = "false"]
          /\ UNCHANGED disk
    /\ worker' = <<>>
    /\ UNCHANGED <<request_queue, returned, batch, futures, scheduler>>

\* One step of StartWorkerThread
StartWorkerThread == Get \/ (worker # <<>> /\ Execute(worker[1]))

Next ==
    \/ \E c \in Clients : AddRequest(c) \/ Schedule(c)
    \/ \E c \in Clients, i \in Promises : Await(c, i)
    \/ \E c \in Clients, p \in Pages : DeallocatePage(c, p)
    \/ Destroy \/ Join
    \/ StartWorkerThread

\* The threads run: the worker, and a client inside Schedule.
Fairness ==
    /\ WF_vars(StartWorkerThread) /\ WF_vars(Join)
    /\ \A c \in Clients : WF_vars(Schedule(c))

Spec == Init /\ [][Next]_vars /\ Fairness

-----------------------------------------------------------------------------
(* Properties                                                              *)

TypeOK ==
    /\ request_queue \in Seq(Request \cup {Nullopt}) /\ Len(request_queue) <= MaxPromises + 1
    /\ worker \in Seq(Request) /\ Len(worker) <= 1
    /\ returned \in BOOLEAN
    /\ batch \in [Clients -> Seq(Request)]
    /\ futures \in [Clients -> SUBSET Promises]
    /\ promises \in [Promises -> {"unused", "pending", "true", "false"}]
    /\ disk \in [Pages -> Values \cup {Unspecified}]
    /\ thrown \in BOOLEAN
    /\ scheduler \in {"alive", "joining", "destroyed"}

\* A read finds the page as the requests put before it left it, and nothing
\* that was put later: as long as none fails, requests take effect in the
\* order they were put.
ReadsAsScheduled ==
    ~thrown => \A i \in DOMAIN worker : ~worker[i].is_write_ => disk[worker[i].page_id_] = worker[i].expects

Holding(i) == {c \in Clients : \E k \in DOMAIN batch[c] : batch[c][k].callback_ = i}

\* A promise is pending exactly while one request that will set it is with a
\* client, in the queue or with the worker; so it is set once, and always.
OneRequestPerPromise ==
    \A i \in Promises :
       LET n == Cardinality({k \in DOMAIN InFlight : InFlight[k].callback_ = i})
       IN  IF promises[i] = "pending" THEN n + Cardinality(Holding(i)) = 1
                                      ELSE n + Cardinality(Holding(i)) = 0

\* When the worker has returned, every scheduled request has been executed:
\* the destructor finishes all scheduled jobs.
AllJobsFinished ==
    returned => request_queue = <<>> /\ \A i \in Promises : promises[i] # "pending"

\* Every promise is set once, by the worker, before it returns: clients, queue,
\* worker and promises agree on the requests that are outstanding.
PromisesKept == TypeOK /\ OneRequestPerPromise /\ AllJobsFinished

\* Every request is answered, also when the disk manager throws.
EveryRequestAnswered == \A i \in Promises : promises[i] = "pending" ~> promises[i] # "pending"

\* The destructor returns.
DestructorReturns == scheduler = "joining" ~> scheduler = "destroyed"

=============================================================================
