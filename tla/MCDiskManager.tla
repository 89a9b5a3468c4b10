---------------------------- MODULE MCDiskManager ---------------------------
(***************************************************************************)
(* The three disk managers, one of them at a time: over a file, over an    *)
(* array and over a growing vector of pages; and the log beside the file.  *)
(***************************************************************************)
EXTENDS DiskManager

CONSTANTS Callers, Words, ZeroWord, NoPage

VARIABLES device,
          memory, aborted, stored, mem_ret,
          data, mutex, readers, writers, call, contents, copy_ret

Memory == INSTANCE DiskManagerMemory WITH Capacity <- 2, PageIds <- 0 .. 2, Data <- Values,
                                          VectorIds <- 1 .. 2, InitialPages <- 1

memory_vars == <<memory, aborted, stored, mem_ret>>
unlimited_vars == <<data, mutex, readers, writers, call, contents, copy_ret>>
dvars == <<vars, device, memory_vars, unlimited_vars, log_vars>>

DInit ==
    /\ device \in {"file", "memory", "unlimited", "log"}
    /\ Init /\ Memory!MemoryInit /\ Memory!UnlimitedInit /\ LogInit
    /\ device # "memory" => \A p, q \in DOMAIN memory : memory[p] = memory[q]

DNext ==
    \/ /\ device = "file" /\ Next
       /\ UNCHANGED <<device, memory_vars, unlimited_vars, log_vars>>
    \/ /\ device = "memory" /\ Memory!MemoryNext
       /\ UNCHANGED <<device, vars, unlimited_vars, log_vars>>
    \/ /\ device = "unlimited" /\ Memory!UnlimitedNext
       /\ UNCHANGED <<device, vars, memory_vars, log_vars>>
    \/ /\ device = "log" /\ LogNext
       /\ UNCHANGED <<device, vars, memory_vars, unlimited_vars>>

DSpec == DInit /\ [][DNext]_dvars


=============================================================================
