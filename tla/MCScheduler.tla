------------------------------- MODULE MCScheduler -------------------------------
(* Scheduler with up to three processes whose arrivals leave gaps and ties.       *)
EXTENDS Scheduler

CONSTANTS MaxProcs, Arrivals, Bursts, Priorities

MCWorkloads ==
    UNION {[1..n -> [arrival : Arrivals, burst : Bursts, priority : Priorities]] : n \in 1..MaxProcs}
================================================================================
