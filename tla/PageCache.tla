------------------------------- MODULE PageCache -------------------------------
(* What page replacement promises, without frames and time stamps: a queue of the *)
(* resident pages, oldest first by load ("fifo") or by last use ("lru"), whose   *)
(* head is evicted when there is no room.                                        *)
EXTENDS Integers, SequencesExt

CONSTANTS Pages, None

VARIABLES algorithm, capacity,
          queue,      \* resident pages, next victim first
          answer,     \* fault and evicted page of the last reference
          faults

vars == <<algorithm, capacity, queue, answer, faults>>

Resident == {queue[k] : k \in DOMAIN queue}

Init ==
    /\ algorithm \in {"fifo", "lru"} /\ capacity \in Nat \ {0}
    /\ queue = << >>
    /\ answer = [fault |-> FALSE, evicted |-> None]
    /\ faults = 0

Hit(page) ==
    /\ \E k \in DOMAIN queue :
         /\ queue[k] = page
         /\ queue' = IF algorithm = "lru" THEN Append(RemoveAt(queue, k), page) ELSE queue
    /\ answer' = [fault |-> FALSE, evicted |-> None]
    /\ UNCHANGED faults

Load(page) ==
    /\ page \notin Resident
    /\ \/ /\ Len(queue) < capacity
          /\ queue' = Append(queue, page)
          /\ answer' = [fault |-> TRUE, evicted |-> None]
       \/ /\ Len(queue) = capacity
          /\ queue' = Append(Tail(queue), page)
          /\ answer' = [fault |-> TRUE, evicted |-> Head(queue)]
    /\ faults' = faults + 1

Next == (\E page \in Pages : Hit(page) \/ Load(page)) /\ UNCHANGED <<algorithm, capacity>>

Spec == Init /\ [][Next]_vars
================================================================================
