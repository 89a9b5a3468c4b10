--------------------------- MODULE CountMinSketch ---------------------------
(***************************************************************************)
(* The count-min sketch (src/src/primer/count_min_sketch.cpp) under        *)
(* concurrent calls: counters are single atomics, the tracked top-k items  *)
(* are protected by top_k_latch_.                                          *)
(*                                                                         *)
(* A step is one atomic access to a counter, or what a thread does to the  *)
(* top-k state in one go while it holds the latch.  op[t] is thread t's    *)
(* position in its call.  The order of top_k_heap_ is left out: it is the  *)
(* map from the items it holds to their counts.                            *)
(***************************************************************************)
EXTENDS Integers, FiniteSetsExt, Functions, Maps

CONSTANTS Threads,
          Sketches,       \* sketches of the same dimensions
          Keys,
          Depth, Width,
          HashFunctions,  \* row -> key -> column: what the hashes may be
          Ks,             \* the values of k that TopK is called with
          MaxCalls,       \* calls in a behaviour
          None

ASSUME SketchAssumption ==
    /\ Depth \in Nat \ {0} /\ Width \in Nat \ {0}
    /\ HashFunctions \subseteq [0 .. Depth - 1 -> [Keys -> 0 .. Width - 1]]
    /\ Ks \subseteq Nat /\ MaxCalls \in Nat
    /\ None \notin Threads

Cells == (0 .. Depth - 1) \X (0 .. Width - 1)

VARIABLES hash_functions,     \* a member of HashFunctions
          sketch,             \* sketch -> cell -> counter
          top_k_latch,        \* sketch -> the thread that holds it, or None
          top_k_initialized, initial_k, item_set, top_k_heap,
          op,
          calls               \* calls made so far

top_k == <<top_k_initialized, initial_k, item_set, top_k_heap>>
vars == <<hash_functions, sketch, top_k_latch, top_k, op, calls>>

Idle == [pc |-> "idle", todo |-> {}]

\* The constructor
Init ==
    /\ hash_functions \in HashFunctions
    /\ sketch = [s \in Sketches |-> [c \in Cells |-> 0]]
    /\ top_k_latch = [s \in Sketches |-> None]
    /\ top_k_initialized = [s \in Sketches |-> FALSE]
    /\ initial_k = [s \in Sketches |-> 0]
    /\ item_set = [s \in Sketches |-> {}]
    /\ top_k_heap = [s \in Sketches |-> EmptyMap]
    /\ op = [t \in Threads |-> Idle]
    /\ calls = 0

CellOf(row, x) == <<row, hash_functions[row][x]>>

\* What Count(item) returns in a sketch that nobody changes
Count(s, x) == Min({sketch[s][CellOf(row, x)] : row \in 0 .. Depth - 1})

At(t, pc) == op[t].pc = pc

Goto(t, pc) == op' = [op EXCEPT ![t].pc = pc]

Return(t) == op' = [op EXCEPT ![t] = Idle]

\* Loops visit the cells in row-major order.
First(cells) ==
    CHOOSE c \in cells : \A d \in cells : c[1] < d[1] \/ (c[1] = d[1] /\ c[2] <= d[2])

-----------------------------------------------------------------------------
(* Calls                                                                   *)

Begin(t, call) ==
    /\ At(t, "idle") /\ calls < MaxCalls
    /\ calls' = calls + 1
    /\ op' = [op EXCEPT ![t] = call]
    /\ UNCHANGED <<hash_functions, sketch, top_k_latch, top_k>>

Insert(t, s, x) ==
    Begin(t, [pc |-> "add", s |-> s, item |-> x, todo |-> {CellOf(r, x) : r \in 0 .. Depth - 1}])

Merge(t, s, other) ==
    /\ s # other
    /\ Begin(t, [pc |-> "load", s |-> s, other |-> other, todo |-> Cells])

Clear(t, s) == Begin(t, [pc |-> "zero", s |-> s, todo |-> Cells])

TopK(t, s, k, candidates) ==
    Begin(t, [pc |-> "topk", s |-> s, k |-> k, candidates |-> candidates, todo |-> {}])

\* The loads that Count makes for the items xs
Loads(xs) == xs \X (0 .. Depth - 1)

\* Count the items xs; reply are the items to count for the caller afterwards.
Counting(pc, s, xs, reply) ==
    [pc |-> pc, s |-> s, counts |-> EmptyMap, todo |-> Loads(xs), reply |-> reply]

CallCount(t, s, x) == Begin(t, Counting("count", s, {x}, {}))

-----------------------------------------------------------------------------
(* The counters                                                            *)

\* Faulty variant: load and store; an increment that races another is lost.
AddLost(t) ==
    /\ At(t, "add")
    /\ LET c == First(op[t].todo)
           races == \E u \in Threads \ {t} : At(u, "add")
       IN  /\ \E n \in {1, IF races THEN 0 ELSE 1} : sketch' = [sketch EXCEPT ![op[t].s][c] = @ + n]
           /\ op' = [op EXCEPT ![t].todo = @ \ {c}, ![t].pc = IF op[t].todo = {c} THEN "check" ELSE @]
    /\ UNCHANGED <<hash_functions, top_k_latch, top_k, calls>>

\* One row of Insert: fetch_add(1)
Add(t) ==
    /\ At(t, "add")
    /\ LET c == First(op[t].todo)
       IN  /\ sketch' = [sketch EXCEPT ![op[t].s][c] = @ + 1]
           /\ op' = [op EXCEPT ![t].todo = @ \ {c}, ![t].pc = IF op[t].todo = {c} THEN "check" ELSE @]
    /\ UNCHANGED <<hash_functions, top_k_latch, top_k, calls>>

\* One counter of Merge: a load of the other sketch's, then fetch_add
MergeLoad(t) ==
    /\ At(t, "load")
    /\ LET c == First(op[t].todo)
       IN  op' = [op EXCEPT ![t] = [pc |-> "merge", s |-> @.s, other |-> @.other, todo |-> @.todo,
                                    other_count |-> sketch[@.other][c]]]
    /\ UNCHANGED <<hash_functions, sketch, top_k_latch, top_k, calls>>

MergeAdd(t) ==
    /\ At(t, "merge")
    /\ LET c == First(op[t].todo)
       IN  /\ sketch' = [sketch EXCEPT ![op[t].s][c] = @ + op[t].other_count]
           /\ op' = [op EXCEPT ![t] = [pc |-> IF @.todo = {c} THEN "mergetopk" ELSE "load",
                                       s |-> @.s, other |-> @.other, todo |-> @.todo \ {c}]]
    /\ UNCHANGED <<hash_functions, top_k_latch, top_k, calls>>

\* One counter of Clear
Zero(t) ==
    /\ At(t, "zero")
    /\ LET c == First(op[t].todo)
       IN  /\ sketch' = [sketch EXCEPT ![op[t].s][c] = 0]
           /\ op' = [op EXCEPT ![t].todo = @ \ {c}, ![t].pc = IF op[t].todo = {c} THEN "clear" ELSE @]
    /\ UNCHANGED <<hash_functions, top_k_latch, top_k, calls>>

\* One load of Count, the items being in any order: the minimum so far
Load(t) ==
    /\ op[t].pc \in {"count", "track"}
    /\ \E l \in op[t].todo :
          /\ \A m \in op[t].todo : m[1] = l[1] => l[2] <= m[2]
          /\ LET n == sketch[op[t].s][CellOf(l[2], l[1])]
                 old == op[t].counts
             IN  op' = [op EXCEPT ![t].todo = @ \ {l},
                          ![t].counts = Put(@, l[1], IF l[1] \in DOMAIN old THEN Min({n, old[l[1]]}) ELSE n)]
    /\ UNCHANGED <<hash_functions, sketch, top_k_latch, top_k, calls>>

CountReturns(t) ==
    /\ At(t, "count") /\ op[t].todo = {}
    /\ Return(t)
    /\ UNCHANGED <<hash_functions, sketch, top_k_latch, top_k, calls>>

-----------------------------------------------------------------------------
(* The top-k items                                                         *)

Free(s) == top_k_latch[s] = None

\* Insert looks whether items are tracked, and lets go of the latch.
Check(t) ==
    /\ At(t, "check") /\ Free(op[t].s)
    /\ IF top_k_initialized[op[t].s] /\ initial_k[op[t].s] > 0 THEN Goto(t, "insert") ELSE Return(t)
    /\ UNCHANGED <<hash_functions, sketch, top_k_latch, top_k, calls>>

\* With the latches taken, items join the tracked ones, and counting starts.
Track(t, latches, items, reply) ==
    LET s == op[t].s
    IN  /\ top_k_latch' = [l \in Sketches |-> IF l \in latches THEN t ELSE top_k_latch[l]]
        /\ item_set' = [item_set EXCEPT ![s] = @ \cup items]
        /\ op' = [op EXCEPT ![t] = Counting("track", s, item_set'[s], reply)]

\* Faulty variant: an item that is tracked already changes nothing.
InsertTrackNew(t) ==
    /\ At(t, "insert") /\ Free(op[t].s)
    /\ IF op[t].item \in item_set[op[t].s]
       THEN Return(t) /\ UNCHANGED <<top_k_latch, item_set>>
       ELSE Track(t, {op[t].s}, {op[t].item}, {})
    /\ UNCHANGED <<hash_functions, sketch, top_k_initialized, initial_k, top_k_heap, calls>>

InsertTrack(t) ==
    /\ At(t, "insert") /\ Free(op[t].s)
    /\ Track(t, {op[t].s}, {op[t].item}, {})
    /\ UNCHANGED <<hash_functions, sketch, top_k_initialized, initial_k, top_k_heap, calls>>

\* Faulty variant: the other latch is taken after the own one.
MergeTrackInOrder(t) ==
    LET s == op[t].s
        other == op[t].other
    IN  /\ At(t, "mergetopk")
        /\ \/ /\ Free(s)
              /\ top_k_latch' = [top_k_latch EXCEPT ![s] = t]
              /\ UNCHANGED <<item_set, op>>
           \/ /\ top_k_latch[s] = t /\ Free(other)
              /\ Track(t, {s, other}, item_set[other], {})
        /\ UNCHANGED <<hash_functions, sketch, top_k_initialized, initial_k, top_k_heap, calls>>

\* scoped_lock takes both latches, or waits for both.
MergeTrack(t) ==
    LET s == op[t].s
        other == op[t].other
    IN  /\ At(t, "mergetopk") /\ Free(s) /\ Free(other)
        /\ top_k_initialized' = [top_k_initialized EXCEPT ![s] = @ \/ top_k_initialized[other]]
        /\ initial_k' = [initial_k EXCEPT ![s] =
                            IF ~top_k_initialized[s] /\ top_k_initialized[other]
                            THEN initial_k[other] ELSE @]
        /\ Track(t, {s, other}, item_set[other], {})
        /\ UNCHANGED <<hash_functions, sketch, top_k_heap, calls>>

TopKTrack(t) ==
    LET s == op[t].s
        k == IF top_k_initialized[s] THEN initial_k[s] ELSE op[t].k
    IN  /\ At(t, "topk") /\ Free(s)
        /\ top_k_initialized' = [top_k_initialized EXCEPT ![s] = TRUE]
        /\ initial_k' = [initial_k EXCEPT ![s] = k]
        /\ Track(t, {s}, op[t].candidates, op[t].candidates)
        /\ UNCHANGED <<hash_functions, sketch, top_k_heap, calls>>

\* The k items of items with the largest counts; any of them where counts tie.
Largest(counts, k) ==
    {Restrict(counts, top) : top \in {xs \in SUBSET DOMAIN counts :
        /\ Cardinality(xs) = Min({k, Cardinality(DOMAIN counts)})
        /\ \A x \in xs, y \in DOMAIN counts \ xs : counts[x] >= counts[y]}}

Release(t) == top_k_latch' = [s \in Sketches |-> IF top_k_latch[s] = t THEN None ELSE top_k_latch[s]]

\* Counts are sorted and cut to initial_k_.  (Merge and TopK skip this where
\* initial_k_ is 0, and the heap is empty then.)
Tracked(t) ==
    /\ At(t, "track") /\ op[t].todo = {}
    /\ \E heap \in Largest(op[t].counts, initial_k[op[t].s]) :
          top_k_heap' = [top_k_heap EXCEPT ![op[t].s] = heap]
    /\ Release(t)
    /\ IF op[t].reply = {} THEN Return(t)
       ELSE op' = [op EXCEPT ![t] = Counting("count", @.s, @.reply, {})]
    /\ UNCHANGED <<hash_functions, sketch, top_k_initialized, initial_k, item_set, calls>>

\* The end of Clear
ClearTopK(t) ==
    LET s == op[t].s
    IN  /\ At(t, "clear") /\ Free(s)
        /\ item_set' = [item_set EXCEPT ![s] = {}]
        /\ top_k_heap' = [top_k_heap EXCEPT ![s] = EmptyMap]
        /\ top_k_initialized' = [top_k_initialized EXCEPT ![s] = FALSE]
        /\ initial_k' = [initial_k EXCEPT ![s] = 0]
        /\ Return(t)
        /\ UNCHANGED <<hash_functions, sketch, top_k_latch, calls>>

-----------------------------------------------------------------------------
Call(t) ==
    \E s \in Sketches :
       \/ \E x \in Keys : Insert(t, s, x) \/ CallCount(t, s, x)
       \/ \E other \in Sketches : Merge(t, s, other)
       \/ Clear(t, s)
       \/ \E k \in Ks, candidates \in SUBSET Keys \ {{}} : TopK(t, s, k, candidates)

Step(t) ==
    \/ Add(t) \/ MergeLoad(t) \/ MergeAdd(t) \/ Zero(t) \/ Load(t)
    \/ Check(t) \/ InsertTrack(t) \/ MergeTrack(t) \/ TopKTrack(t) \/ Tracked(t)
    \/ ClearTopK(t) \/ CountReturns(t)

Next == \E t \in Threads : Call(t) \/ Step(t)

Spec == Init /\ [][Next]_vars

-----------------------------------------------------------------------------
(* Properties                                                              *)

\* The shape of the state; the heap holds tracked items, at most initial_k_.
TypeOK ==
    /\ sketch \in [Sketches -> [Cells -> Nat]]
    /\ top_k_latch \in [Sketches -> Threads \cup {None}]
    /\ top_k_initialized \in [Sketches -> BOOLEAN]
    /\ item_set \in [Sketches -> SUBSET Keys]
    /\ \A s \in Sketches :
          /\ initial_k[s] \in IF top_k_initialized[s] THEN Ks ELSE {0}
          /\ IsMap(top_k_heap[s], item_set[s], Nat)
          /\ Cardinality(DOMAIN top_k_heap[s]) <= initial_k[s]
    /\ calls \in 0 .. MaxCalls

\* No Insert, Merge, Clear or TopK is changing sketch s.
Quiet(s) == \A t \in Threads : At(t, "idle") \/ At(t, "count") \/ op[t].s # s

\* When the calls on a sketch have returned, its heap holds the k tracked items
\* with the largest counts, and their present counts: no increment is missed
\* although the counters change outside the latch.
HeapCurrent ==
    TypeOK /\ \A s \in Sketches :
       Quiet(s) /\ top_k_initialized[s] =>
          top_k_heap[s] \in Largest([x \in item_set[s] |-> Count(s, x)], initial_k[s])

\* Positions in which a thread waits for a latch
LatchPCs == {"check", "insert", "mergetopk", "topk", "clear"}

\* When every call in progress wants a latch, one of them gets it: there is no
\* circle of latches, also when two sketches are merged into each other.
NoDeadlock ==
    LET busy == {t \in Threads : ~At(t, "idle")}
    IN  busy # {} /\ (\A t \in busy : op[t].pc \in LatchPCs)
          => \E t \in busy : ENABLED Step(t)

=============================================================================
