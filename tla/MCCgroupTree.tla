------------------------------ MODULE MCCgroupTree ------------------------------
(* Two runs of one profile and two cleanups.                                     *)
EXTENDS CgroupTree, TLC

CONSTANT cpu

MCProfile == [r \in Runs |-> cpu]
Symmetry == Permutations(Runs) \cup Permutations(Cleaners)

(* The states are told apart by what can still matter: not by the history of a run    *)
(* that has no child and will have none, nor by that of a cleanup that is over,      *)
(* beyond what is said of its end.                                               *)
Measurable == {r \in Runs : r \in alive \/ pc[r] \notin {"working", "rmdir_run",
                                              "rmdir_profile", "rmdir_root", "ended"}}
View == <<system, pc, cleanup, undercut \cap Measurable, excused,
          [c \in Cleaners |-> IF step[c] = "stat" \/ ~result[c] THEN {} ELSE old[c]],
          [c \in Cleaners |-> step[c] \notin {"stat", "ok", "killed"} /\ alone[c]]>>
================================================================================
