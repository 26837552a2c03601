------------------------------- MODULE MemoryMap -------------------------------
(* What the dynamic partitions of src/basic/memory promise, without the list: each*)
(* owner has one region of the memory, regions do not overlap, and an allocation  *)
(* fails for lack of memory only when no hole is long enough.                     *)
EXTENDS Integers, FiniteSets

CONSTANT Owners

VARIABLES algorithm,    \* "ff" or "bf"
          memory_size,
          regions,      \* start and size of the region of each owner that has one
          status        \* answer of the last operation

vars == <<algorithm, memory_size, regions, status>>

Init ==
    /\ algorithm \in {"ff", "bf"}
    /\ memory_size \in Nat \ {0}
    /\ regions = << >>
    /\ status = "none"

Cells(start, size) == start..start + size - 1

FreeCells == {a \in 0..memory_size - 1 :
                \A o \in DOMAIN regions : a \notin Cells(regions[o].start, regions[o].size)}

(* The holes: the longest stretches of free cells.                               *)
Holes ==
    LET free == FreeCells
    IN  {h \in [start : {a \in free : a - 1 \notin free}, size : 1..memory_size] :
           /\ Cells(h.start, h.size) \subseteq free
           /\ h.start + h.size \notin free}

Fitting(n) == {h \in Holes : h.size >= n}

(* First fit takes the lowest hole, best fit the lowest of the smallest ones.     *)
Preferred(g, h) ==
    \/ algorithm = "ff" /\ g.start <= h.start
    \/ algorithm = "bf" /\ (g.size < h.size \/ (g.size = h.size /\ g.start <= h.start))

Alloc(o, n) ==
    /\ o \notin DOMAIN regions
    /\ LET fitting == Fitting(n) IN \E g \in fitting :
         /\ \A h \in fitting : Preferred(g, h)
         /\ regions' = [q \in DOMAIN regions \cup {o} |->
                          IF q = o THEN [start |-> g.start, size |-> n] ELSE regions[q]]
    /\ status' = "success"

Free(o) ==
    /\ o \in DOMAIN regions
    /\ regions' = [q \in DOMAIN regions \ {o} |-> regions[q]]
    /\ status' = "success"

AllocFails(o, n) ==
    /\ \/ o \in DOMAIN regions /\ status' = "duplicate"
       \/ Fitting(n) = {} /\ status' = "full"
       \/ status' = "memory"         \* no memory for the list itself
    /\ UNCHANGED regions

FreeFails(o) == o \notin DOMAIN regions /\ status' = "unknown" /\ UNCHANGED regions

Next ==
    /\ \E o \in Owners :
         \/ Free(o) \/ FreeFails(o)
         \/ \E n \in 1..memory_size + 1 : Alloc(o, n) \/ AllocFails(o, n)
    /\ UNCHANGED <<algorithm, memory_size>>

Spec == Init /\ [][Next]_vars
================================================================================
