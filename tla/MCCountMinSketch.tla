-------------------------- MODULE MCCountMinSketch --------------------------
(***************************************************************************)
(* CountMinSketch for TLC, with history variables for what a count owes:   *)
(* inserts that returned, in the sketch or merged into it, since it was    *)
(* last cleared.                                                           *)
(***************************************************************************)
EXTENDS CountMinSketch, TLC

\* Row 1 tells the keys apart; row 0 may or may not.
MCHashFunctions ==
    {h \in [0 .. Depth - 1 -> [Keys -> 0 .. Width - 1]] :
        \A x, y \in Keys : h[1][x] = h[1][y] => x = y}

VARIABLES floor,   \* sketch -> key -> inserts a count has to include
          base,    \* thread -> floor of the sketch it reads, when its call began
          valid    \* thread -> no Clear has overlapped its call

hvars == <<vars, floor, base, valid>>

Nothing == [x \in Keys |-> 0]

HInit ==
    /\ Init
    /\ floor = [s \in Sketches |-> Nothing]
    /\ base = [t \in Threads |-> Nothing]
    /\ valid = [t \in Threads |-> FALSE]

Uses(call) == IF call.pc = "idle" THEN {}
              ELSE IF call.pc \in {"load", "merge", "mergetopk"} THEN {call.s, call.other} ELSE {call.s}

Begins(t) == At(t, "idle") /\ op'[t] # Idle

Clearing(call) == call.pc = "zero"

\* The sketches that a Clear is zeroing, or begins to
BeingCleared == {s \in Sketches : \E t \in Threads : Clearing(op'[t]) /\ op'[t].s = s}

Read(call) == IF call.pc = "load" THEN call.other ELSE call.s

\* What the step adds to floor[s][x]: an insert is complete, or a merge
Owed(t, s, x) ==
    IF op[t] = Idle \/ ~valid[t] THEN 0
    ELSE IF op[t].s # s THEN 0
    ELSE IF At(t, "add") /\ op'[t].pc = "check" /\ op[t].item = x THEN 1
    ELSE IF At(t, "merge") /\ op'[t].pc = "mergetopk" THEN base[t][x] ELSE 0

History ==
    /\ valid' = [t \in Threads |-> /\ op'[t] # Idle
                                   /\ Begins(t) \/ valid[t]
                                   /\ Uses(op'[t]) \cap BeingCleared = {}]
    /\ base' = [t \in Threads |-> IF op'[t] = Idle THEN Nothing
                                  ELSE IF Begins(t) THEN floor[Read(op'[t])] ELSE base[t]]
    /\ floor' = [s \in Sketches |-> [x \in Keys |->
                    IF s \in BeingCleared THEN 0
                    ELSE floor[s][x] + Max({Owed(t, s, x) : t \in Threads})]]

HSpec == HInit /\ [][Next /\ History]_hvars

\* A count, also one that TopK returns, is never below the number of inserts of
\* the item that had returned when the call began, into this sketch or into
\* one that had been merged into it; calls that a Clear overlaps aside.
NeverUnderestimates ==
    \A t \in Threads :
       At(t, "count") /\ op[t].todo = {} /\ valid[t] =>
          \A x \in DOMAIN op[t].counts : op[t].counts[x] >= base[t][x]

Symmetry == Permutations(Threads) \cup Permutations(Sketches) \cup Permutations(Keys)

=============================================================================
