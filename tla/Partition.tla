------------------------------- MODULE Partition -------------------------------
(* Dynamic partitions, src/basic/memory/src/partition.c: the linked list of        *)
(* partitions in address order, first or best fit, split on allocation and merge  *)
(* on release.                                                                  *)
EXTENDS Integers, SequencesExt

CONSTANTS Owners,    \* names of allocations
          MaxMemory  \* largest memory_size


VARIABLES algorithm,    \* "ff" or "bf"
          memory_size,
          partitions,   \* the list from its head
          status,       \* of the last operation
          had_error

vars == <<algorithm, memory_size, partitions, status, had_error>>

NoOwner == "none"   \* a free partition

PartitionAssumption == MaxMemory \in Nat \ {0} /\ NoOwner \notin Owners

Block(start, size, owner) == [start |-> start, size |-> size, owner |-> owner]
IsFree(p) == p.owner = NoOwner

Init ==
    /\ algorithm \in {"ff", "bf"}
    /\ memory_size \in 1..MaxMemory
    /\ partitions = <<Block(0, memory_size, NoOwner)>>
    /\ status = "none" /\ had_error = FALSE

(* find_owner: the places of the owner's partitions, the first of which counts.   *)
Places(o) == {k \in DOMAIN partitions : partitions[k].owner = o}

Fail(why) ==
    /\ status' = why /\ had_error' = TRUE
    /\ UNCHANGED partitions
Succeed == status' = "success" /\ UNCHANGED had_error
--------------------------------------------------------------------------------
(* select_free_partition.                                                       *)
Fitting(n) == {k \in DOMAIN partitions : IsFree(partitions[k]) /\ partitions[k].size >= n}

BetterFit_LastTie(k, j) == partitions[k].size < partitions[j].size
                           \/ (partitions[k].size = partitions[j].size
                               /\ partitions[k].start >= partitions[j].start)  \* mutant
BetterFit(k, j) == partitions[k].size < partitions[j].size
                   \/ (partitions[k].size = partitions[j].size
                       /\ partitions[k].start <= partitions[j].start)

Selected(n) == CHOOSE k \in Fitting(n) : \A j \in Fitting(n) :
                   IF algorithm = "ff" THEN k <= j ELSE BetterFit(k, j)

(* The part of a partition that an allocation leaves over, if any.                *)
Leftover_Empty(p, n) == <<Block(p.start + n, p.size - n, NoOwner)>>   \* mutant
Leftover(p, n) == IF p.size > n THEN <<Block(p.start + n, p.size - n, NoOwner)>> ELSE << >>

Alloc(o, n) ==
    /\ IF Places(o) # {} THEN Fail("duplicate")
       ELSE IF Fitting(n) = {} THEN Fail("full")
       ELSE LET k == Selected(n)
                p == partitions[k]
            IN  \/ /\ partitions' = SubSeq(partitions, 1, k - 1)
                                    \o <<Block(p.start, n, o)>> \o Leftover(p, n)
                                    \o SubSeq(partitions, k + 1, Len(partitions))
                   /\ Succeed
                \/ Leftover(p, n) # << >> /\ Fail("memory")
    /\ UNCHANGED <<algorithm, memory_size>>
--------------------------------------------------------------------------------
(* merge_free_partitions: one scan of the list from its head.                     *)
MergeOne(list, p) ==
    IF list # << >> /\ IsFree(Last(list)) /\ IsFree(p)
    THEN [list EXCEPT ![Len(list)].size = @ + p.size]
    ELSE Append(list, p)

(* Mutant: the freed partition swallows its successor but not its predecessor.     *)
Merged_Forward(list, k) ==
    IF k < Len(list) /\ IsFree(list[k + 1])
    THEN SubSeq(list, 1, k - 1) \o <<[list[k] EXCEPT !.size = @ + list[k + 1].size]>>
         \o SubSeq(list, k + 2, Len(list))
    ELSE list
Merged(list, k) ==
    LET scan[j \in 0..Len(list)] ==
            IF j = 0 THEN << >> ELSE MergeOne(scan[j - 1], list[j])
    IN  scan[Len(list)]

Free(o) ==
    /\ IF Places(o) = {} THEN Fail("unknown")
       ELSE LET k == CHOOSE k \in Places(o) : \A j \in Places(o) : k <= j
            IN  /\ partitions' = Merged([partitions EXCEPT ![k].owner = NoOwner], k)
                /\ Succeed
    /\ UNCHANGED <<algorithm, memory_size>>

Next == \E o \in Owners : Free(o) \/ \E n \in 1..memory_size + 1 : Alloc(o, n)

Spec == Init /\ [][Next]_vars
--------------------------------------------------------------------------------
(* Types; no partition is empty.                                                *)
TypeOK ==
    /\ algorithm \in {"ff", "bf"}
    /\ memory_size \in 1..MaxMemory
    /\ \A k \in DOMAIN partitions :
         /\ partitions[k].start \in 0..memory_size - 1
         /\ partitions[k].size \in 1..memory_size
         /\ partitions[k].owner \in Owners \cup {NoOwner}
    /\ status \in {"none", "success", "duplicate", "full", "memory", "unknown"}
    /\ had_error \in BOOLEAN

(* The list tiles the memory in address order, without two free neighbours and     *)
(* without two partitions of one owner (the comments at partition.c:71 and 108).   *)
Tiling ==
    /\ partitions[1].start = 0
    /\ \A k \in 1..Len(partitions) - 1 :
         /\ partitions[k + 1].start = partitions[k].start + partitions[k].size
         /\ ~(IsFree(partitions[k]) /\ IsFree(partitions[k + 1]))
    /\ Last(partitions).start + Last(partitions).size = memory_size
    /\ \A o \in Owners : Cardinality(Places(o)) <= 1

(* The list implements the map: what is free for the list is free memory, an       *)
(* allocation goes to the hole the algorithm names, and it fails for lack of memory *)
(* only when no hole is long enough.                                             *)
Map == INSTANCE MemoryMap
       WITH regions <- [o \in {partitions[k].owner : k \in DOMAIN partitions} \ {NoOwner} |->
                          LET p == partitions[CHOOSE k \in Places(o) : TRUE]
                          IN  [start |-> p.start, size |-> p.size]]
================================================================================
