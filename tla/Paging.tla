--------------------------------- MODULE Paging ---------------------------------
(* Page replacement, src/basic/memory/src/paging.c: an array of frames with the   *)
(* step at which each was loaded and last used.                                   *)
EXTENDS Integers, FiniteSets

CONSTANTS Pages,         \* page numbers, not negative (parser.c:194)
          MaxFrames,     \* largest frame_count
          MaxReferences  \* longest reference string

PagingAssumption ==
    Pages \subseteq Nat /\ MaxFrames \in Nat \ {0} /\ MaxReferences \in Nat \ {0}

VARIABLES algorithm,     \* "fifo" or "lru"
          frame_count,
          frames,        \* page in each frame, -1 when empty
          loaded_at, last_used_at,
          i,             \* references done
          step,          \* what the last reference recorded: fault and evicted page
          faults,
          status         \* "run", or how run_paging ended

vars == <<algorithm, frame_count, frames, loaded_at, last_used_at, i, step, faults, status>>

Empty == -1
Frames == 0..frame_count - 1

Init ==
    /\ algorithm \in {"fifo", "lru"}
    /\ frame_count \in 1..MaxFrames
    /\ frames = [f \in Frames |-> Empty]
    /\ loaded_at = [f \in Frames |-> -1]
    /\ last_used_at = [f \in Frames |-> -1]
    /\ i = 0 /\ faults = 0
    /\ step = [fault |-> FALSE, evicted |-> Empty]
    /\ status = "run"
--------------------------------------------------------------------------------
(* The first frame with that content (find_page, find_empty_frame).              *)
Holding(page) == {f \in Frames : frames[f] = page}
First(S) == CHOOSE f \in S : \A g \in S : f <= g

(* select_victim: the first frame with the smallest value.                       *)
Victim(values) == First({f \in Frames : \A g \in Frames : values[f] <= values[g]})

Hit_NoStamp(f) == step' = [fault |-> FALSE, evicted |-> Empty]
                  /\ UNCHANGED <<frames, loaded_at, last_used_at, faults>>   \* mutant
Hit(f) ==
    /\ step' = [fault |-> FALSE, evicted |-> Empty]
    /\ last_used_at' = IF algorithm = "lru" THEN [last_used_at EXCEPT ![f] = i] ELSE last_used_at
    /\ UNCHANGED <<frames, loaded_at, faults>>

Target == IF Holding(Empty) # {} THEN First(Holding(Empty))
          ELSE Victim(IF algorithm = "fifo" THEN loaded_at ELSE last_used_at)

(* Mutant: a load into a reused frame keeps the frame's old load time.            *)
Fault_OldLoad(page) ==
    /\ step' = [fault |-> TRUE, evicted |-> frames[Target]]
    /\ faults' = faults + 1
    /\ frames' = [frames EXCEPT ![Target] = page]
    /\ loaded_at' = IF frames[Target] = Empty THEN [loaded_at EXCEPT ![Target] = i] ELSE loaded_at
    /\ last_used_at' = [last_used_at EXCEPT ![Target] = i]
Fault(page) ==
    /\ step' = [fault |-> TRUE, evicted |-> frames[Target]]   \* -1 for an empty frame
    /\ faults' = faults + 1
    /\ frames' = [frames EXCEPT ![Target] = page]
    /\ loaded_at' = [loaded_at EXCEPT ![Target] = i]
    /\ last_used_at' = [last_used_at EXCEPT ![Target] = i]

Reference(page) ==
    /\ status = "run" /\ i < MaxReferences
    /\ \/ Holding(page) # {} /\ Hit(First(Holding(page)))
       \/ Holding(page) = {} /\ Fault(page)
    /\ i' = i + 1
    /\ UNCHANGED <<algorithm, frame_count, status>>

(* The end of the reference string, or an allocation that fails.                  *)
End ==
    /\ status = "run"
    /\ \/ i > 0 /\ status' = "done"
       \/ status' = "failed"
    /\ UNCHANGED <<algorithm, frame_count, frames, loaded_at, last_used_at, i, step, faults>>

Next == End \/ \E page \in Pages : Reference(page)

Spec == Init /\ [][Next]_vars
--------------------------------------------------------------------------------
(* Types; no stamp lies ahead of the references done.                            *)
TypeOK ==
    /\ algorithm \in {"fifo", "lru"} /\ frame_count \in 1..MaxFrames
    /\ i \in 0..MaxReferences /\ faults \in 0..i
    /\ frames \in [Frames -> Pages \cup {Empty}]
    /\ loaded_at \in [Frames -> -1..i - 1] /\ last_used_at \in [Frames -> -1..i - 1]
    /\ step \in [fault : BOOLEAN, evicted : Pages \cup {Empty}]
    /\ status \in {"run", "done", "failed"}

(* The frames and the stamps that count implement the queue of PageCache: every     *)
(* eviction takes the page that was loaded, or used, the longest ago.              *)
Stamp == IF algorithm = "fifo" THEN loaded_at ELSE last_used_at
Loaded == {f \in Frames : frames[f] # Empty}
Older(f) == {g \in Loaded : Stamp[g] < Stamp[f]}

Cache == INSTANCE PageCache
         WITH None <- Empty, capacity <- frame_count, answer <- step,
              queue <- [k \in 1..Cardinality(Loaded) |->
                          frames[CHOOSE f \in Loaded : Cardinality(Older(f)) = k - 1]]
================================================================================
