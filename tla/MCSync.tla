--------------------------------- MODULE MCSync ---------------------------------
(* Instances of Sync for TLC.  All problems, all capacities 1..MaxCapacity and all *)
(* counts 1..MaxCount are initial states of one run.                             *)
EXTENDS Sync

CONSTANTS p1, p2, p3, c1, c2, c3, r1, r2, r3, w1, w2

TwoProducers   == {p1, p2}
ThreeProducers == {p1, p2, p3}
TwoConsumers   == {c1, c2}
ThreeConsumers == {c1, c2, c3}
OneReader      == {r1}
ThreeReaders   == {r1, r2, r3}
OneWriter      == {w1}
TwoWriters     == {w1, w2}

TheBuffer   == {"producer_consumer"}
AllProblems == {"producer_consumer", "readers_writers", "dining_philosophers"}
================================================================================
