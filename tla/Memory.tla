--------------------------------- MODULE Memory ---------------------------------
(* The program memory, src/basic/memory/src/main.c: it checks its command line,    *)
(* parses the whole of its input before it executes any of it, and runs one of     *)
(* two simulations on it, whose result is its exit status. The operations and      *)
(* pages of an accepted input are chosen when they are executed.                  *)
EXTENDS Integers

CONSTANTS Owners, MaxMemory,                \* of Partition
          Pages, MaxFrames, MaxReferences   \* of Paging

VARIABLES mode, algorithm,                 \* options --mode and --algorithm
          phase,                           \* "parse", "run" or "exit"
          exit_status,                     \* -1 until the program exits
          status,                          \* of the last operation, or of run_paging
          memory_size, partitions, had_error,
          frame_count, frames, loaded_at, last_used_at, i, step, faults,
          more_frames, more_loaded_at, more_last_used_at, more_step, more_faults

program == <<mode, phase, exit_status>>
partition_vars == <<memory_size, partitions, had_error>>
paging_vars == <<frame_count, frames, loaded_at, last_used_at, i, step, faults, more_frames,
                 more_loaded_at, more_last_used_at, more_step, more_faults>>
vars == <<program, algorithm, status, partition_vars, paging_vars>>

Part == INSTANCE Partition
Pag == INSTANCE PagingPair

MemoryAssumption == Part!PartitionAssumption /\ Pag!PagingAssumption
ASSUME MemoryAssumption

Unused == "unused"   \* a variable of the other mode

NoPartition == memory_size = Unused /\ partitions = Unused /\ had_error = Unused
NoPaging ==
    /\ frame_count = Unused /\ i = Unused
    /\ frames = Unused /\ loaded_at = Unused /\ last_used_at = Unused
    /\ step = Unused /\ faults = Unused
    /\ more_frames = Unused /\ more_loaded_at = Unused /\ more_last_used_at = Unused
    /\ more_step = Unused /\ more_faults = Unused

Init ==
    /\ phase = "parse" /\ exit_status = -1
    /\ \/ mode = "partition" /\ Part!Init /\ NoPaging
       \/ mode = "paging" /\ Pag!PairInit /\ NoPartition
--------------------------------------------------------------------------------
Exit(code) == phase' = "exit" /\ exit_status' = code

(* An option that is unknown, missing or wrong for its mode, an input with a       *)
(* malformed line or without its first line or its pages, or no memory for it.     *)
Reject ==
    /\ phase = "parse" /\ Exit(1)
    /\ UNCHANGED <<mode, algorithm, status, partition_vars, paging_vars>>

Accept ==
    /\ phase = "parse" /\ phase' = "run"
    /\ UNCHANGED <<mode, exit_status, algorithm, status, partition_vars, paging_vars>>

RunPartition ==
    /\ phase = "run" /\ mode = "partition"
    /\ \/ Part!Next /\ UNCHANGED <<program, paging_vars>>
       \/ /\ Exit(IF had_error THEN 1 ELSE 0)
          /\ UNCHANGED <<mode, algorithm, status, partition_vars, paging_vars>>

RunPaging ==
    /\ phase = "run" /\ mode = "paging"
    /\ \/ Pag!PairNext /\ UNCHANGED <<program, partition_vars>>
       \/ /\ status # "run" /\ Exit(IF status = "done" THEN 0 ELSE 1)
          /\ UNCHANGED <<mode, algorithm, status, partition_vars, paging_vars>>

Next == Reject \/ Accept \/ RunPartition \/ RunPaging

Spec == Init /\ [][Next]_vars
--------------------------------------------------------------------------------
(* Types of the program and of the simulation of its mode.                        *)
TypeOK ==
    /\ phase \in {"parse", "run", "exit"}
    /\ exit_status \in {-1, 0, 1} /\ (exit_status = -1 <=> phase # "exit")
    /\ \/ mode = "partition" /\ Part!TypeOK
       \/ mode = "paging" /\ Pag!TypeOK

(* The list of partitions tiles the memory in address order, without two free      *)
(* neighbours and without two partitions of one owner (partition.c:71 and 108).    *)
Tiling == mode = "partition" => Part!Tiling

(* With one frame more LRU never faults more often (run_paging, --algorithm lru).   *)
Inclusion == mode = "paging" => Pag!Inclusion

(* The list of partitions implements the map of regions and maximal holes:         *)
(* allocations go to the hole that first or best fit names, and fail only without   *)
(* one; a rejected input changes nothing, and the exit changes nothing more.       *)
ImplementsMap ==
    /\ mode = "partition" => Part!Map!Init
    /\ [][mode = "partition" => Part!Map!Next \/ UNCHANGED Part!Map!vars]_vars

(* Frames and time stamps implement the victim queue: every eviction takes the     *)
(* page that was loaded (FIFO) or used (LRU) the longest ago.                     *)
ImplementsCache ==
    /\ mode = "paging" => Pag!Cache!Init
    /\ [][mode = "paging" => Pag!Cache!Next \/ UNCHANGED Pag!Cache!vars]_vars
================================================================================
