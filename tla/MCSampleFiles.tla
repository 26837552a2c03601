----------------------------- MODULE MCSampleFiles -----------------------------
EXTENDS SampleFiles

MCDecimal == [n \in 0..MaxValue |-> ToString(n)]

(* Readings with all names at one number, except those in other.                  *)
At(n, other, oslab) == [found |-> [name \in Names |-> IF name \in DOMAIN other
                                                      THEN other[name] ELSE n],
                        oslab |-> oslab]

Absent(names) == [name \in names |-> NotFound]

(* Rising and falling numbers, without and with all or part of overview, and without  *)
(* "full" lines and optional keys; one without a "some" line or a required key.     *)
MCReadings ==
    {At(1, Absent({"cpu_full_total", "cgroup_cpu_user_usec"}), FALSE), At(2, << >>, TRUE),
     At(0, Absent({"oslab_total_tasks"}), TRUE), At(1, Absent({"io_some_total"}), TRUE),
     At(2, Absent({"cgroup_memory_events_high"}), TRUE)}
================================================================================
