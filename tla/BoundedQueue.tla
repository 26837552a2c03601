----------------------------- MODULE BoundedQueue ------------------------------
(* What the producer-consumer buffer promises: a FIFO queue of bounded length.  *)
(* The k-th item a producer inserts is <<producer, k>>, k from 0.               *)
EXTENDS Naturals, Sequences

CONSTANTS Producers

VARIABLES capacity, \* chosen once
          q,        \* items inserted and not yet taken, oldest first
          put,      \* items inserted by each producer
          taken     \* items taken

vars == <<capacity, q, put, taken>>

Init ==
    /\ capacity \in Nat \ {0}
    /\ q = << >>
    /\ put = [p \in Producers |-> 0]
    /\ taken = 0

Put(p) ==
    /\ Len(q) < capacity
    /\ q' = Append(q, <<p, put[p]>>)
    /\ put' = [put EXCEPT ![p] = @ + 1]
    /\ UNCHANGED <<capacity, taken>>

Take ==
    /\ q # << >>
    /\ q' = Tail(q)
    /\ taken' = taken + 1
    /\ UNCHANGED <<capacity, put>>

Next == Take \/ \E p \in Producers : Put(p)

Spec == Init /\ [][Next]_vars
================================================================================
