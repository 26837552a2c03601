------------------------------- MODULE CgroupTree -------------------------------
(* The cgroup tree that every `tracebench run` and `tracebench cleanup` of one    *)
(* cgroup name share (extension/tracebench/src/cgroup.c): <root>/<profile>/<run>. *)
(* Runs make their path downwards and take it away upwards, cleanups walk the     *)
(* whole tree, and any of them may be killed between two system calls.            *)
(*                                                                             *)
(* The kernel: mkdir needs the parent, rmdir an empty directory without processes,*)
(* and a directory has the controllers that its parent's subtree_control holds.   *)
EXTENDS Naturals

CONSTANTS Runs, Profiles, Cleaners,
          Root,          \* root_path, /sys/fs/cgroup/<cgroup name>
          Profile        \* the profile directory of each run

ASSUME TreeAssumption ==
    /\ Profile \in [Runs -> Profiles]
    /\ Runs \cap Profiles = {} /\ Root \notin Runs \cup Profiles

VARIABLES
    dirs,          \* the directories that exist
    subtree,       \* those whose subtree_control has the memory controller
    alive,         \* the runs whose workload child lives in their cgroup
    pc,            \* of each run
    step, at,      \* of each cleanup: its next step, and the directory it is at
    listing,       \* what its open directories held when opened, not yet met
    met,           \* what its readdir calls have returned
    result         \* of each cleanup, as "no error so far"

(* History: what existed when a cleanup began and has not been removed since;     *)
(* whether it has been alone since, with none of its calls refused; the runs that  *)
(* lost a directory above the one they were about to make, or did not manage to     *)
(* enable the controller; whether something was killed, cut short or refused.      *)
VARIABLES old, alone, undercut, excused

system  == <<dirs, subtree, alive>>
cleanup == <<step, at, listing, met, result>>
history == <<old, alone, undercut, excused>>
vars    == <<system, pc, cleanup, history>>

Dir == {Root} \cup Profiles \cup Runs
Parent(d) == IF d \in Runs THEN Profile[d] ELSE Root
Children(d) == {e \in dirs \ {Root} : Parent(e) = d}

Init ==
    /\ dirs = {} /\ subtree = {} /\ alive = {}
    /\ pc = [r \in Runs |-> "mkdir_root"]
    /\ step = [c \in Cleaners |-> "stat"] /\ at = [c \in Cleaners |-> Root]
    /\ listing = [c \in Cleaners |-> {}] /\ met = [c \in Cleaners |-> {}]
    /\ result = [c \in Cleaners |-> TRUE]
    /\ old = [c \in Cleaners |-> {}] /\ alone = [c \in Cleaners |-> FALSE]
    /\ undercut = {} /\ excused = FALSE
--------------------------------------------------------------------------------
(* mkdir of a directory whose parent exists (ensure_dir: EEXIST is no error).     *)
Reachable(d) == d = Root \/ Parent(d) \in dirs
MakeDir(d) ==
    /\ dirs' = dirs \cup {d}
    /\ alone' = IF d \in dirs THEN alone ELSE [c \in Cleaners |-> FALSE]
    /\ UNCHANGED <<subtree, old>>

(* rmdir; by is empty, or the one cleanup that calls it.                           *)
Removable(d) == d \in dirs /\ Children(d) = {} /\ d \notin alive
Making(r) == pc[r] \in {"ctl_root", "mkdir_profile", "ctl_profile", "mkdir_run"}
RemoveDir(d, by) ==
    /\ dirs' = dirs \ {d} /\ subtree' = subtree \ {d}
    /\ old' = [c \in Cleaners |-> old[c] \ {d}]
    /\ listing' = [c \in Cleaners |-> listing[c] \ {d}]
    /\ alone' = [c \in Cleaners |-> alone[c] /\ c \in by]
    /\ undercut' = undercut \cup {r \in Runs : Making(r) /\ d \in {Root, Profile[r]}}

Goto(r, where) == pc' = [pc EXCEPT ![r] = where]
--------------------------------------------------------------------------------
(* tb_cgroup_create: three ensure_dir, each of which may also fail for another      *)
(* reason, and the controllers in between.                                       *)
Target(where, r) == CASE where = "mkdir_root"    -> Root
                      [] where = "mkdir_profile" -> Profile[r]
                      [] where = "mkdir_run"     -> r
AfterMkdir_NoRoot(where) == CASE where = "mkdir_root"    -> "mkdir_profile"
                              [] where = "mkdir_profile" -> "ctl_profile"
                              [] where = "mkdir_run"     -> "join"     \* mutant
AfterMkdir(where) == CASE where = "mkdir_root"    -> "ctl_root"
                       [] where = "mkdir_profile" -> "ctl_profile"
                       [] where = "mkdir_run"     -> "join"

EnsureDir(r) ==
    /\ pc[r] \in {"mkdir_root", "mkdir_profile", "mkdir_run"}
    /\ LET d == Target(pc[r], r)
       IN  \/ /\ Reachable(d)
              /\ MakeDir(d) /\ Goto(r, AfterMkdir(pc[r]))
              /\ UNCHANGED excused
           \/ /\ Goto(r, "ended")
              /\ excused' = (excused \/ Reachable(d))
              /\ UNCHANGED <<dirs, subtree, old, alone>>
    /\ UNCHANGED <<alive, cleanup, undercut>>

(* enable_child_controllers: only what the directory itself has can be enabled, and *)
(* a failed read of cgroup.controllers or write of subtree_control goes unnoticed.  *)
(* Of cpu, memory and io only memory is told apart: the samples cannot do without.  *)
Offered(d) == d \in dirs /\ (d = Root \/ Parent(d) \in subtree)
Enable(r, d) ==
    \/ subtree' = subtree \cup {e \in {d} : Offered(e)} /\ UNCHANGED undercut
    \/ undercut' = undercut \cup {r} /\ UNCHANGED subtree
EnableControllers(r) ==
    /\ \/ pc[r] = "ctl_root" /\ Enable(r, Root) /\ Goto(r, "mkdir_profile")
       \/ pc[r] = "ctl_profile" /\ Enable(r, Profile[r]) /\ Goto(r, "mkdir_run")
    /\ UNCHANGED <<dirs, alive, cleanup, old, alone, excused>>

(* tb_cgroup_add_pid, which fails when the directory is gone or for another reason, *)
(* as what comes before it may: the child is reaped and the run goes to its cleanup.*)
Join(r) ==
    /\ pc[r] = "join"
    /\ \/ /\ r \in dirs
          /\ alive' = alive \cup {r}
          /\ alone' = [c \in Cleaners |-> FALSE]
          /\ Goto(r, "working")
       \/ Goto(r, "rmdir_run") /\ UNCHANGED <<alive, alone>>
    /\ UNCHANGED <<dirs, subtree, cleanup, old, undercut, excused>>

ChildEnds(r) ==
    /\ r \in alive
    /\ alive' = alive \ {r}
    /\ UNCHANGED <<dirs, subtree, pc, cleanup, history>>

(* The run is over, whatever its samples were, and has waited for its child; a      *)
(* signal may cut the wait short.                                                *)
EndRun(r) ==
    /\ pc[r] = "working"
    /\ Goto(r, "rmdir_run")
    /\ excused' = (excused \/ r \in alive)
    /\ UNCHANGED <<system, cleanup, old, alone, undercut>>

(* tb_cgroup_remove_run: it stops at a run directory that it could not remove,       *)
(* while the two above it may be in use.                                         *)
AfterRmdir_RootFirst(where, removed) ==       \* mutant: the two in the wrong order
    CASE where = "rmdir_run"     -> IF removed THEN "rmdir_root" ELSE "ended"
      [] where = "rmdir_root"    -> "rmdir_profile"
      [] where = "rmdir_profile" -> "ended"
AfterRmdir(where, removed) ==
    CASE where = "rmdir_run"     -> IF removed THEN "rmdir_profile" ELSE "ended"
      [] where = "rmdir_profile" -> "rmdir_root"
      [] where = "rmdir_root"    -> "ended"
RunRmdir(r) ==
    /\ pc[r] \in {"rmdir_run", "rmdir_profile", "rmdir_root"}
    /\ LET d == CASE pc[r] = "rmdir_run"     -> r
                  [] pc[r] = "rmdir_profile" -> Profile[r]
                  [] pc[r] = "rmdir_root"    -> Root
       IN  /\ Goto(r, AfterRmdir(pc[r], Removable(d)))
           /\ IF Removable(d) THEN RemoveDir(d, {})
                              ELSE UNCHANGED <<dirs, subtree, listing, old, alone, undercut>>
    /\ UNCHANGED <<alive, step, at, met, result, excused>>

(* The parent is killed, and ends without a cleanup of its own; its child may live on. *)
RunKilled(r) ==
    /\ pc[r] \notin {"mkdir_root", "ended"}
    /\ Goto(r, "ended")
    /\ excused' = TRUE
    /\ UNCHANGED <<system, cleanup, old, alone, undercut>>

Run(r) == \/ EnsureDir(r) \/ EnableControllers(r) \/ Join(r) \/ EndRun(r) \/ RunRmdir(r)
          \/ ChildEnds(r)
--------------------------------------------------------------------------------
Step(c, next, d) == step' = [step EXCEPT ![c] = next] /\ at' = [at EXCEPT ![c] = d]
Report(c, fine) == result' = [result EXCEPT ![c] = @ /\ fine]

(* A call may be refused for a reason that has nothing to do with the tree.         *)
Refused(c) == alone' = [alone EXCEPT ![c] = FALSE] /\ excused' = TRUE

(* cleanup_cgroup_root: a root that does not exist is success.                     *)
Stat(c) ==
    /\ step[c] = "stat"
    /\ old' = [old EXCEPT ![c] = dirs]
    /\ \/ /\ Step(c, IF Root \in dirs THEN "open" ELSE "ok", Root)
          /\ alone' = [alone EXCEPT ![c] = alive = {}]
          /\ UNCHANGED excused
       \/ Step(c, "failed", Root) /\ Refused(c)
    /\ UNCHANGED <<system, pc, listing, met, result, undercut>>

(* cleanup_cgroup_children of the directory; one that is gone is no error, and one   *)
(* that cannot be opened is still tried to remove.                               *)
Open(c) ==
    /\ step[c] = "open"
    /\ \/ /\ Step(c, IF at[c] \in dirs THEN "read" ELSE "procs", at[c])
          /\ listing' = [listing EXCEPT ![c] = @ \cup Children(at[c])]
          /\ UNCHANGED <<result, alone, excused>>
       \/ /\ Step(c, "procs", at[c]) /\ Report(c, FALSE) /\ Refused(c)
          /\ UNCHANGED listing
    /\ UNCHANGED <<system, pc, met, old, undercut>>

(* readdir and stat: an entry that has been there since opendir is met sooner or   *)
(* later, one that is new may be met or not, one that stat does not find is skipped.*)
Met(c, e) ==
    /\ met' = [met EXCEPT ![c] = @ \cup {e}]
    /\ listing' = [listing EXCEPT ![c] = @ \ {e}]
Enter_Flat(c, e) == Step(c, "procs", e)        \* mutant: only one level
Enter(c, e) == Step(c, IF e \in Runs THEN "procs" ELSE "open", e)
Skip(c) == UNCHANGED <<step, at>> /\ Refused(c)
Read(c) ==
    /\ step[c] = "read"
    /\ \/ \E e \in Children(at[c]) \ met[c] :
             /\ Met(c, e)
             /\ (Enter(c, e) /\ UNCHANGED <<alone, excused>>) \/ Skip(c)
       \/ /\ listing[c] \cap Children(at[c]) = {}
          /\ Step(c, "procs", at[c])
          /\ met' = [met EXCEPT ![c] = {e \in @ : Parent(e) # at[c]}]   \* closedir
          /\ UNCHANGED <<listing, alone, excused>>
    /\ UNCHANGED <<system, pc, result, old, undercut>>

(* Back from a directory, to the loop of the one above or to the caller.           *)
Leave(c, fine) ==
    /\ Report(c, fine)
    /\ IF at[c] # Root THEN Step(c, "read", Parent(at[c]))
       ELSE Step(c, IF result[c] /\ fine THEN "ok" ELSE "failed", Root)

(* cgroup_has_processes, which a directory without cgroup.procs "has".             *)
HasProcesses(d) == d \notin dirs \/ d \in alive
Procs(c) ==
    /\ step[c] = "procs"
    /\ \/ /\ IF HasProcesses(at[c]) THEN Leave(c, FALSE)
                                    ELSE Step(c, "rmdir", at[c]) /\ UNCHANGED result
          /\ UNCHANGED <<alone, excused>>
       \/ Leave(c, FALSE) /\ Refused(c)
    /\ UNCHANGED <<system, pc, listing, met, old, undercut>>

Tolerated_Any(d) == TRUE                      \* mutant: errno not looked at
Tolerated(d) == d \notin dirs                 \* ENOENT
CleanupRmdir(c) ==
    /\ step[c] = "rmdir"
    /\ LET d == at[c]
       IN  /\ Leave(c, Removable(d) \/ Tolerated(d))
           /\ IF Removable(d) THEN RemoveDir(d, {c})
                              ELSE UNCHANGED <<dirs, subtree, listing, old, alone, undercut>>
    /\ UNCHANGED <<alive, pc, met, excused>>

CleanupKilled(c) ==
    /\ step[c] \notin {"stat", "ok", "failed", "killed"}
    /\ Step(c, "killed", Root)
    /\ listing' = [listing EXCEPT ![c] = {}] /\ met' = [met EXCEPT ![c] = {}]
    /\ result' = [result EXCEPT ![c] = TRUE]
    /\ old' = [old EXCEPT ![c] = {}] /\ alone' = [alone EXCEPT ![c] = FALSE]
    /\ excused' = TRUE
    /\ UNCHANGED <<system, pc, undercut>>

Cleanup(c) == Stat(c) \/ Open(c) \/ Read(c) \/ Procs(c) \/ CleanupRmdir(c)

Next ==
    \/ \E r \in Runs : Run(r) \/ RunKilled(r)
    \/ \E c \in Cleaners : Cleanup(c) \/ CleanupKilled(c)

Spec == Init /\ [][Next]_vars
--------------------------------------------------------------------------------
(* Types.                                                                       *)
TypeOK ==
    /\ dirs \subseteq Dir /\ subtree \subseteq dirs /\ alive \subseteq Runs
    /\ pc \in [Runs -> {"mkdir_root", "ctl_root", "mkdir_profile", "ctl_profile", "mkdir_run",
                        "join", "working", "rmdir_run", "rmdir_profile", "rmdir_root",
                        "ended"}]
    /\ step \in [Cleaners -> {"stat", "open", "read", "procs", "rmdir", "ok", "failed", "killed"}]
    /\ at \in [Cleaners -> Dir]
    /\ listing \in [Cleaners -> SUBSET Dir] /\ met \in [Cleaners -> SUBSET Dir]
    /\ result \in [Cleaners -> BOOLEAN]
    /\ old \in [Cleaners -> SUBSET Dir] /\ alone \in [Cleaners -> BOOLEAN]
    /\ undercut \subseteq Runs /\ excused \in BOOLEAN

(* The last one to go leaves nothing behind: when nobody is at work, the tree is     *)
(* gone, although a run that could not remove its own directory leaves the two      *)
(* above it alone and the others' rmdir may have come too early (cgroup.c:271-291).  *)
(* Not so after a kill, a wait cut short or a call refused, which cleanup is for.    *)
AllGone ==
    /\ \A r \in Runs : pc[r] \in {"mkdir_root", "ended"}
    /\ \A c \in Cleaners : step[c] \in {"stat", "ok", "failed"}
LastOneCleansUp == AllGone /\ ~excused => dirs = {}

(* A cleanup that reports success has removed everything that it found, or someone   *)
(* else did (cgroup.c:355-389).                                                  *)
CleanupComplete == \A c \in Cleaners : step[c] = "ok" => old[c] = {}

(* A cleanup reports a failure only if a workload was alive when it began, the tree  *)
(* was changed under it or a call of its own was refused: what a killed run leaves   *)
(* can always be removed.                                                       *)
FailureHasCause == \A c \in Cleaners : step[c] = "failed" => ~alone[c]

(* A workload's cgroup has the controller that its samples are read from             *)
(* (memory.current and memory.events, cgroup.c:251-262), unless a directory above it *)
(* was removed while the run was on its way down or the run itself failed, unnoticed,*)
(* to enable it (cgroup.c:36-72): neither the end of a neighbour nor one that did    *)
(* not get the controller, before or after, takes it from a run that did.            *)
MeasuredUndisturbed ==
    \A r \in alive \ undercut : {Root, Profile[r]} \subseteq subtree /\ r \in dirs
================================================================================
