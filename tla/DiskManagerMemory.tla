-------------------------- MODULE DiskManagerMemory -------------------------
(***************************************************************************)
(* The two disk managers in memory                                         *)
(* (src/src/storage/disk/disk_manager_memory.cpp).  The one over an array  *)
(* has no latch: the scheduler's thread is its only caller, and a call is  *)
(* one step.  The array is not initialised.  WritePage asserts that the    *)
(* page is within the capacity; ReadPage does not look, and its callers    *)
(* read no page beyond it.                                                 *)
(***************************************************************************)
EXTENDS Integers, FiniteSets

CONSTANTS Capacity,     \* page_capacity_
          PageIds,      \* page ids the callers use
          Data,         \* contents of a page
          Unspecified

VARIABLES memory,       \* memory_: page -> contents
          aborted,      \* the assertion of WritePage failed
          stored,       \* pages that hold something, for a caller: a history variable
          mem_ret       \* how the last call returned

memory_vars == <<memory, aborted, stored, mem_ret>>

InMemory == {p \in PageIds : p < Capacity}

MemoryInit ==
    /\ memory \in [InMemory -> Data]
    /\ aborted = FALSE
    /\ stored = {}
    /\ mem_ret = [call |-> "none"]

WriteMemory(p, d) ==
    /\ ~aborted
    /\ IF p < Capacity
         THEN /\ memory' = [memory EXCEPT ![p] = d]
              /\ stored' = stored \cup {p}
              /\ mem_ret' = [call |-> "write"]
              /\ UNCHANGED aborted
         ELSE aborted' = TRUE /\ UNCHANGED <<memory, stored, mem_ret>>

ReadMemory(p) ==
    /\ ~aborted /\ p < Capacity
    /\ mem_ret' = [call |-> "read", data |-> memory[p]]
    /\ stored' = stored \cup {p}
    /\ UNCHANGED <<memory, aborted>>

\* DiskManager::DeletePage finds no slot of the page and returns.
DeleteMemory(p) ==
    /\ ~aborted
    /\ mem_ret' = [call |-> "none"]
    /\ stored' = stored \ {p}
    /\ UNCHANGED <<memory, aborted>>

\* The constructor, in a new process
Restart ==
    /\ aborted
    /\ memory' \in [InMemory -> Data]
    /\ aborted' = FALSE
    /\ stored' = {}
    /\ mem_ret' = [call |-> "none"]

MemoryNext ==
    \/ Restart
    \/ \E p \in PageIds : ReadMemory(p) \/ DeleteMemory(p) \/ \E d \in Data : WriteMemory(p, d)

-----------------------------------------------------------------------------

Store == INSTANCE DiskStore WITH
           Pages <- PageIds, ret <- mem_ret, broken <- aborted,
           store <- [p \in PageIds |-> IF p \in stored THEN memory[p] ELSE Unspecified]

\* The array keeps the promise of the disk layer.
MemoryImplementsDiskStore == Store!Spec

-----------------------------------------------------------------------------
(* The disk manager over a growing vector of pages, which several threads  *)
(* call.  A thread finds the page under mutex_, waits for the page's own   *)
(* latch while it holds mutex_, and copies the page with mutex_ released.  *)
(* memcpy copies the two halves of a page one after the other.  The        *)
(* simulated latency is a pause of any length before mutex_ is taken;      *)
(* thread_id_, which only a test reads, is left out.                       *)

CONSTANTS Callers,      \* threads
          VectorIds,      \* page ids the callers use
          Words,        \* what half a page holds
          ZeroWord,
          InitialPages, \* page_capacity_ + 1
          NoPage        \* nullptr

Filled(w) == <<w, w>>

VARIABLES data,         \* data_: index -> page or nullptr
          mutex,        \* threads that hold mutex_
          readers,      \* page -> threads with a shared lock
          writers,      \* page -> threads with a unique lock
          call,         \* thread -> its call
          contents,     \* page -> what it holds, for a caller: a history variable
          copy_ret       \* how the last copy ended

unlimited_vars == <<data, mutex, readers, writers, call, contents, copy_ret>>

Idle == [pc |-> "idle"]
At(t, pc) == call[t].pc = pc

UnlimitedInit ==
    /\ data = [i \in 0 .. InitialPages - 1 |-> Filled(ZeroWord)]
    /\ mutex = {}
    /\ readers = [p \in VectorIds |-> {}] /\ writers = [p \in VectorIds |-> {}]
    /\ call = [t \in Callers |-> Idle]
    /\ contents = [p \in VectorIds |-> Unspecified]
    /\ copy_ret = [call |-> "none"]

\* WritePage and ReadPage, up to the end of the simulated latency
BeginCall(t, c) ==
    /\ At(t, "idle")
    /\ call' = [call EXCEPT ![t] = c]
    /\ UNCHANGED <<data, mutex, readers, writers, contents, copy_ret>>

\* data_ after resize(page_id + 1) and make_shared of a page of zeros
WithPage(p) ==
    LET n == IF p + 1 > Cardinality(DOMAIN data) THEN p + 1 ELSE Cardinality(DOMAIN data)
        resized == [i \in 0 .. n - 1 |-> IF i \in DOMAIN data THEN data[i] ELSE NoPage]
    IN  IF resized[p] = NoPage THEN [resized EXCEPT ![p] = Filled(ZeroWord)] ELSE resized

FindPage(t) ==
    /\ At(t, "begun") /\ mutex = {}
    /\ mutex' = {t}
    /\ data' = WithPage(call[t].page)
    /\ call' = [call EXCEPT ![t].pc = "found"]
    /\ UNCHANGED <<readers, writers, contents, copy_ret>>


\* The latch of the page, for a write the unique one; mutex_ is released.
LatchPage(t) ==
    LET p == call[t].page
    IN  /\ At(t, "found") /\ writers[p] = {}
        /\ IF call[t].op = "write"
             THEN /\ readers[p] = {}
                  /\ writers' = [writers EXCEPT ![p] = {t}] /\ UNCHANGED readers
             ELSE readers' = [readers EXCEPT ![p] = @ \cup {t}] /\ UNCHANGED writers
        /\ mutex' = {}
        /\ call' = [call EXCEPT ![t].pc = "first"]
        /\ UNCHANGED <<data, contents, copy_ret>>

\* memcpy of the first half, and of the second
CopyFirst(t) ==
    LET c == call[t]
    IN  /\ At(t, "first")
        /\ data' = IF c.op = "write" THEN [data EXCEPT ![c.page][1] = c.buffer[1]] ELSE data
        /\ call' = [call EXCEPT ![t].pc = "second",
                      ![t].buffer[1] = IF c.op = "write" THEN @ ELSE data[c.page][1]]
        /\ UNCHANGED <<mutex, readers, writers, contents, copy_ret>>

CopySecond(t) ==
    LET c == call[t]
        buffer == IF c.op = "write" THEN c.buffer ELSE <<c.buffer[1], data[c.page][2]>>
    IN  /\ At(t, "second")
        /\ data' = IF c.op = "write" THEN [data EXCEPT ![c.page][2] = c.buffer[2]] ELSE data
        /\ call' = [call EXCEPT ![t].pc = "copied", ![t].buffer = buffer]
        /\ contents' = [contents EXCEPT ![c.page] = buffer]
        /\ copy_ret' = IF c.op = "write" THEN [call |-> "write"]
                      ELSE [call |-> "read", data |-> buffer]
        /\ UNCHANGED <<mutex, readers, writers>>

\* PostProcessLatency, and the latch is released on return.
ReturnCall(t) ==
    LET p == call[t].page
    IN  /\ At(t, "copied")
        /\ readers' = [readers EXCEPT ![p] = @ \ {t}]
        /\ writers' = [writers EXCEPT ![p] = @ \ {t}]
        /\ call' = [call EXCEPT ![t] = Idle]
        /\ UNCHANGED <<data, mutex, contents, copy_ret>>

\* DeletePage does nothing.
DeleteUnlimited(t, p) ==
    /\ At(t, "idle")
    /\ contents' = [contents EXCEPT ![p] = Unspecified]
    /\ copy_ret' = [call |-> "none"]
    /\ UNCHANGED <<data, mutex, readers, writers, call>>

Request(op, p, buffer) == [pc |-> "begun", op |-> op, page |-> p, buffer |-> buffer]

UnlimitedNext ==
    \E t \in Callers :
       \/ FindPage(t) \/ LatchPage(t) \/ CopyFirst(t) \/ CopySecond(t) \/ ReturnCall(t)
       \/ \E p \in VectorIds :
             \/ DeleteUnlimited(t, p)
             \/ BeginCall(t, Request("read", p, Filled(ZeroWord)))
             \/ \E w \in Words : BeginCall(t, Request("write", p, Filled(w)))

-----------------------------------------------------------------------------

VectorStore == INSTANCE DiskStore WITH
                 Pages <- VectorIds, Data <- {Filled(w) : w \in Words}, ret <- copy_ret,
                 broken <- FALSE, store <- contents

\* The vector keeps the promise of the disk layer whatever calls overlap, a
\* deleted page included: a read never returns a page half written, and calls
\* take effect one by one, at the end of their copy.
UnlimitedImplementsDiskStore == VectorStore!Spec

=============================================================================
