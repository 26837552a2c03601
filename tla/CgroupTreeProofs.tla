---------------------------- MODULE CgroupTreeProofs ----------------------------
(* Proofs about CgroupTree for any number of runs, profiles and cleanups.        *)
EXTENDS CgroupTree, TLAPS

USE TreeAssumption

LEMMA ParentType == ASSUME NEW d \in Dir PROVE Parent(d) \in Dir
  BY DEF Dir, Parent

LEMMA ChildrenType == ASSUME dirs \subseteq Dir, NEW d PROVE Children(d) \subseteq Dir
  BY DEF Children

(* Where a run's and a cleanup's next directory lies.                            *)
LEMMA TargetType ==
  ASSUME NEW r \in Runs, NEW w \in {"mkdir_root", "mkdir_profile", "mkdir_run"}
  PROVE  /\ Target(w, r) \in Dir
         /\ AfterMkdir(w) \in {"ctl_root", "ctl_profile", "join"}
  BY DEF Target, AfterMkdir, Dir
--------------------------------------------------------------------------------
(* Type correctness.                                                            *)
LEMMA InitTypes == Init => TypeOK
  BY DEF Init, TypeOK, Dir

(* The system calls keep the types of what they change.                          *)
LEMMA MakeDirTypes ==
  ASSUME TypeOK, NEW d \in Dir, MakeDir(d)
  PROVE  /\ dirs' \subseteq Dir /\ subtree' \subseteq dirs'
         /\ old' \in [Cleaners -> SUBSET Dir] /\ alone' \in [Cleaners -> BOOLEAN]
  BY DEF TypeOK, MakeDir

LEMMA RemoveDirTypes ==
  ASSUME TypeOK, NEW d, NEW by, RemoveDir(d, by)
  PROVE  /\ dirs' \subseteq Dir /\ subtree' \subseteq dirs'
         /\ old' \in [Cleaners -> SUBSET Dir] /\ listing' \in [Cleaners -> SUBSET Dir]
         /\ alone' \in [Cleaners -> BOOLEAN] /\ undercut' \subseteq Runs
<1>1. \A c \in Cleaners : (alone[c] /\ c \in by) \in BOOLEAN
  BY Zenon
<1>2. alone' \in [Cleaners -> BOOLEAN]
  BY <1>1 DEF RemoveDir
<1> QED BY <1>2 DEF TypeOK, RemoveDir

LEMMA RunTypes ==
  ASSUME TypeOK, NEW r \in Runs, Run(r) \/ RunKilled(r) PROVE TypeOK'
<1> USE DEF TypeOK, Goto, system, cleanup, history
<1>1. CASE EnsureDir(r)
  <2>1. PICK w \in {"mkdir_root", "mkdir_profile", "mkdir_run"} : pc[r] = w
    BY <1>1 DEF EnsureDir
  <2>2. Target(w, r) \in Dir /\ AfterMkdir(w) \in {"ctl_root", "ctl_profile", "join"}
    BY TargetType
  <2>3. excused' \in BOOLEAN
    <3>1. (excused \/ Reachable(Target(w, r))) \in BOOLEAN
      BY Zenon
    <3> QED BY <1>1, <2>1, <3>1 DEF EnsureDir
  <2>4. pc' \in [Runs -> {"mkdir_root", "ctl_root", "mkdir_profile", "ctl_profile", "mkdir_run",
                        "join", "working", "rmdir_run", "rmdir_profile", "rmdir_root",
                        "ended"}]
    BY <1>1, <2>1, <2>2 DEF EnsureDir
  <2>5. /\ dirs' \subseteq Dir /\ subtree' \subseteq dirs'
        /\ old' \in [Cleaners -> SUBSET Dir] /\ alone' \in [Cleaners -> BOOLEAN]
    BY <1>1, <2>1, <2>2, MakeDirTypes DEF EnsureDir
  <2> QED BY <1>1, <2>3, <2>4, <2>5 DEF EnsureDir
<1>2. CASE EnableControllers(r)
  BY <1>2 DEF EnableControllers, Enable, Offered
<1>3. CASE Join(r)
  BY <1>3 DEF Join
<1>4. CASE EndRun(r)
  BY <1>4 DEF EndRun
<1>5. CASE RunRmdir(r)
  <2>1. AfterRmdir(pc[r], TRUE) \in {"rmdir_profile", "rmdir_root", "ended"}
        /\ AfterRmdir(pc[r], FALSE) \in {"rmdir_profile", "rmdir_root", "ended"}
    BY <1>5 DEF RunRmdir, AfterRmdir
  <2>2. \A d : Removable(d) \in BOOLEAN
    BY DEF Removable
  <2>3. pc' \in [Runs -> {"mkdir_root", "ctl_root", "mkdir_profile", "ctl_profile", "mkdir_run",
                        "join", "working", "rmdir_run", "rmdir_profile", "rmdir_root",
                        "ended"}]
    BY <1>5, <2>1, <2>2 DEF RunRmdir
  <2>4. /\ dirs' \subseteq Dir /\ subtree' \subseteq dirs'
        /\ old' \in [Cleaners -> SUBSET Dir] /\ listing' \in [Cleaners -> SUBSET Dir]
        /\ alone' \in [Cleaners -> BOOLEAN] /\ undercut' \subseteq Runs
    BY <1>5, RemoveDirTypes DEF RunRmdir
  <2> QED BY <1>5, <2>3, <2>4 DEF RunRmdir
<1>6. CASE ChildEnds(r)
  BY <1>6 DEF ChildEnds
<1>7. CASE RunKilled(r)
  BY <1>7 DEF RunKilled
<1> QED BY <1>1, <1>2, <1>3, <1>4, <1>5, <1>6, <1>7 DEF Run

LEMMA LeaveTypes ==
  ASSUME TypeOK, NEW c \in Cleaners, NEW fine \in BOOLEAN, Leave(c, fine)
  PROVE  /\ step' \in [Cleaners -> {"stat", "open", "read", "procs", "rmdir", "ok", "failed", "killed"}]
         /\ at' \in [Cleaners -> Dir] /\ result' \in [Cleaners -> BOOLEAN]
<1>1. Parent(at[c]) \in Dir /\ Root \in Dir
  BY ParentType DEF TypeOK, Dir
<1>2. (result[c] /\ fine) \in BOOLEAN
  BY Zenon
<1>3. result' \in [Cleaners -> BOOLEAN]
  BY <1>2 DEF Leave, Report, TypeOK
<1> QED BY <1>1, <1>3 DEF Leave, Step, TypeOK

LEMMA CleanupTypes ==
  ASSUME TypeOK, NEW c \in Cleaners, Cleanup(c) \/ CleanupKilled(c) PROVE TypeOK'
<1> USE DEF TypeOK, Step, system, cleanup, history
<1>0. Parent(at[c]) \in Dir /\ Root \in Dir
  BY ParentType DEF Dir
<1>1. CASE Stat(c)
  <2>1. (alive = {}) \in BOOLEAN
    BY Zenon
  <2>2. alone' \in [Cleaners -> BOOLEAN] /\ excused' \in BOOLEAN
    BY <1>1, <2>1 DEF Stat, Refused
  <2> QED BY <1>1, <1>0, <2>2 DEF Stat, Dir
<1>2. CASE Open(c)
  <2>1. /\ alone' \in [Cleaners -> BOOLEAN] /\ excused' \in BOOLEAN
        /\ result' \in [Cleaners -> BOOLEAN]
    BY <1>2 DEF Open, Refused, Report
  <2>2. listing' \in [Cleaners -> SUBSET Dir]
    <3>1. Children(at[c]) \subseteq Dir
      BY ChildrenType
    <3>2. listing[c] \cup Children(at[c]) \in SUBSET Dir
      BY <3>1
    <3>3. listing' \in {listing, [listing EXCEPT ![c] = listing[c] \cup Children(at[c])]}
      BY <1>2 DEF Open
    <3> QED BY <3>2, <3>3
  <2>3. step' \in [Cleaners -> {"stat", "open", "read", "procs", "rmdir", "ok", "failed", "killed"}]
        /\ at' \in [Cleaners -> Dir]
    <3>1. \E s \in {"read", "procs"} : Step(c, s, at[c])
      BY <1>2 DEF Open
    <3> QED BY <3>1
  <2> QED BY <1>2, <2>1, <2>2, <2>3 DEF Open
<1>3. CASE Read(c)
  <2>1. alone' \in [Cleaners -> BOOLEAN] /\ excused' \in BOOLEAN
    BY <1>3 DEF Read, Skip, Refused
  <2>2. step' \in [Cleaners -> {"stat", "open", "read", "procs", "rmdir", "ok", "failed", "killed"}]
        /\ at' \in [Cleaners -> Dir]
    BY <1>3 DEF Read, Children, Enter, Skip
  <2>3. listing' \in [Cleaners -> SUBSET Dir] /\ met' \in [Cleaners -> SUBSET Dir]
    BY <1>3 DEF Read, Children, Met
  <2> QED BY <1>3, <2>1, <2>2, <2>3 DEF Read
<1>4. CASE Procs(c)
  <2>1. alone' \in [Cleaners -> BOOLEAN] /\ excused' \in BOOLEAN
    BY <1>4 DEF Procs, Refused
  <2>2. Leave(c, FALSE) \/ (Step(c, "rmdir", at[c]) /\ UNCHANGED result)
    BY <1>4 DEF Procs
  <2>3. /\ step' \in [Cleaners -> {"stat", "open", "read", "procs", "rmdir", "ok", "failed", "killed"}]
        /\ at' \in [Cleaners -> Dir] /\ result' \in [Cleaners -> BOOLEAN]
    BY <2>2, LeaveTypes
  <2> QED BY <1>4, <2>1, <2>3 DEF Procs
<1>5. CASE CleanupRmdir(c)
  <2>1. (Removable(at[c]) \/ Tolerated(at[c])) \in BOOLEAN
    BY Zenon
  <2>2. /\ step' \in [Cleaners -> {"stat", "open", "read", "procs", "rmdir", "ok", "failed", "killed"}]
        /\ at' \in [Cleaners -> Dir] /\ result' \in [Cleaners -> BOOLEAN]
    BY <1>5, <2>1, LeaveTypes DEF CleanupRmdir
  <2>3. /\ dirs' \subseteq Dir /\ subtree' \subseteq dirs'
        /\ old' \in [Cleaners -> SUBSET Dir] /\ listing' \in [Cleaners -> SUBSET Dir]
        /\ alone' \in [Cleaners -> BOOLEAN] /\ undercut' \subseteq Runs
    BY <1>5, RemoveDirTypes DEF CleanupRmdir
  <2> QED BY <1>5, <2>2, <2>3 DEF CleanupRmdir
<1>6. CASE CleanupKilled(c)
  BY <1>6, <1>0 DEF CleanupKilled
<1> QED BY <1>1, <1>2, <1>3, <1>4, <1>5, <1>6 DEF Cleanup

(* Every state is well typed.                                                   *)
THEOREM TypeCorrect == Spec => []TypeOK
<1>1. TypeOK /\ [Next]_vars => TypeOK'
  <2> SUFFICES ASSUME TypeOK, [Next]_vars PROVE TypeOK'
    OBVIOUS
  <2>1. CASE Next
    BY <2>1, RunTypes, CleanupTypes DEF Next
  <2>2. CASE UNCHANGED vars
    BY <2>2 DEF TypeOK, vars, system, cleanup, history
  <2> QED BY <2>1, <2>2
<1> QED BY InitTypes, <1>1, PTL DEF Spec
--------------------------------------------------------------------------------
(* The tree is closed upwards, and a process lives in a directory that exists.      *)
Closed == /\ \A d \in dirs \ {Root} : Parent(d) \in dirs
          /\ alive \subseteq dirs

LEMMA MakeDirClosed ==
  ASSUME TypeOK, Closed, NEW d \in Dir, Reachable(d), MakeDir(d), UNCHANGED alive
  PROVE  Closed'
  BY DEF TypeOK, Closed, MakeDir, Reachable, Dir, Parent

LEMMA RemoveDirClosed ==
  ASSUME TypeOK, Closed, NEW d, NEW by, Removable(d), RemoveDir(d, by), UNCHANGED alive
  PROVE  Closed'
<1>1. \A e \in dirs \ {Root} : Parent(e) # d
  BY DEF Removable, Children
<1> QED BY <1>1 DEF TypeOK, Closed, RemoveDir, Removable, Dir, Parent

(* A step that makes or removes no directory and lets no process in.               *)
LEMMA QuietClosed ==
  ASSUME Closed, UNCHANGED dirs, alive' \subseteq alive PROVE Closed'
  BY DEF Closed, Parent

LEMMA ClosedStep ==
  ASSUME TypeOK, Closed, [Next]_vars PROVE Closed'
<1>1. ASSUME NEW r \in Runs, Run(r) \/ RunKilled(r) PROVE Closed'
  <2>1. CASE EnsureDir(r)
    <3>1. PICK w \in {"mkdir_root", "mkdir_profile", "mkdir_run"} : pc[r] = w
      BY <2>1 DEF EnsureDir
    <3>2. Target(w, r) \in Dir
      BY TargetType
    <3>3. UNCHANGED alive
      BY <2>1 DEF EnsureDir
    <3>4. \/ Reachable(Target(w, r)) /\ MakeDir(Target(w, r))
          \/ UNCHANGED dirs
      BY <2>1, <3>1 DEF EnsureDir
    <3> QED BY <3>2, <3>3, <3>4, MakeDirClosed, QuietClosed
  <2>2. CASE Join(r)
    BY <2>2 DEF Join, Closed, Parent
  <2>3. CASE RunRmdir(r)
    <3>1. PICK d : \/ Removable(d) /\ RemoveDir(d, {})
                   \/ UNCHANGED dirs
      BY <2>3 DEF RunRmdir
    <3>2. UNCHANGED alive
      BY <2>3 DEF RunRmdir
    <3> QED BY <3>1, <3>2, RemoveDirClosed, QuietClosed
  <2>4. CASE EnableControllers(r) \/ EndRun(r) \/ ChildEnds(r) \/ RunKilled(r)
    <3>1. UNCHANGED dirs /\ alive' \subseteq alive
      BY <2>4 DEF EnableControllers, EndRun, ChildEnds, RunKilled, system
    <3> QED BY <3>1, QuietClosed
  <2> QED BY <1>1, <2>1, <2>2, <2>3, <2>4 DEF Run
<1>2. ASSUME NEW c \in Cleaners, Cleanup(c) \/ CleanupKilled(c) PROVE Closed'
  <2>1. CASE CleanupRmdir(c)
    <3>1. \/ Removable(at[c]) /\ RemoveDir(at[c], {c})
          \/ UNCHANGED dirs
      BY <2>1 DEF CleanupRmdir
    <3>2. UNCHANGED alive
      BY <2>1 DEF CleanupRmdir
    <3> QED BY <3>1, <3>2, RemoveDirClosed, QuietClosed
  <2>2. CASE ~CleanupRmdir(c)
    <3>1. UNCHANGED dirs /\ alive' \subseteq alive
      BY <1>2, <2>2 DEF Cleanup, Stat, Open, Read, Procs, CleanupKilled, system
    <3> QED BY <3>1, QuietClosed
  <2> QED BY <2>1, <2>2
<1>3. CASE UNCHANGED vars
  BY <1>3, QuietClosed DEF vars, system
<1> QED BY <1>1, <1>2, <1>3 DEF Next

(* In every state the tree is closed upwards.                                    *)
THEOREM TreeClosed == Spec => [](TypeOK /\ Closed)
<1>1. Init => Closed
  BY DEF Init, Closed
<1> QED BY <1>1, TypeCorrect, ClosedStep, PTL DEF Spec
--------------------------------------------------------------------------------
(* LastOneCleansUp.  While nothing was killed or refused, every directory that      *)
(* exists has somebody who is going to remove it, or something below it that has.    *)
AtWork == {"open", "read", "procs", "rmdir"}
Inside(c, p) == /\ step[c] \in AtWork
                /\ at[c] = p \/ (at[c] \in Runs /\ Parent(at[c]) = p)
Keeps(r, p) == /\ Profile[r] = p
               /\ pc[r] \in {"ctl_profile", "mkdir_run", "rmdir_profile"} \/ r \in dirs

LiveWorks == \A r \in alive : pc[r] = "working"
RunKept == \A r \in Runs : r \in dirs => pc[r] \in {"join", "working", "rmdir_run"}
ProfileKept ==
    \A p \in Profiles : p \in dirs =>
        (\E r \in Runs : Keeps(r, p)) \/ \E c \in Cleaners : Inside(c, p)
RootKept ==
    Root \in dirs =>
        \/ \E p \in Profiles : p \in dirs
        \/ \E r \in Runs : pc[r] \in {"ctl_root", "mkdir_profile", "rmdir_root"}
        \/ \E c \in Cleaners : step[c] \in AtWork
Kept == ~excused => LiveWorks /\ RunKept /\ ProfileKept /\ RootKept

(* A directory that somebody failed to remove is gone or keeps another one.         *)
LEMMA NotRemovable ==
  ASSUME TypeOK, NEW d \in Dir, d \in dirs, ~Removable(d)
  PROVE  \/ d \in alive
         \/ d \in Profiles /\ \E r \in Runs : r \in dirs /\ Profile[r] = d
         \/ d = Root /\ \E p \in Profiles : p \in dirs
<1>1. d \in alive \/ \E e \in dirs \ {Root} : Parent(e) = d
  BY DEF Removable, Children
<1> QED BY <1>1 DEF TypeOK, Dir, Parent

LEMMA EnsureDirKept ==
  ASSUME TypeOK, Closed, Kept, NEW r \in Runs, EnsureDir(r) PROVE Kept'
<1> SUFFICES ASSUME ~excused' PROVE (LiveWorks /\ RunKept /\ ProfileKept /\ RootKept)'
  BY DEF Kept
<1> USE DEF EnsureDir, MakeDir, Goto, TypeOK, cleanup
<1>0. ~excused /\ UNCHANGED <<alive, step, at>>
  OBVIOUS
<1>1. LiveWorks /\ RunKept /\ ProfileKept /\ RootKept
  BY <1>0 DEF Kept
<1>2. PICK w \in {"mkdir_root", "mkdir_profile", "mkdir_run"} : pc[r] = w
  OBVIOUS
<1>3. r \notin dirs /\ r \notin alive
  BY <1>1, <1>2 DEF RunKept, LiveWorks
<1>4. \/ /\ dirs' = dirs \cup {Target(w, r)}
         /\ pc' = [pc EXCEPT ![r] = AfterMkdir(w)]
      \/ /\ ~Reachable(Target(w, r)) /\ dirs' = dirs
         /\ pc' = [pc EXCEPT ![r] = "ended"]
  BY <1>2
<1>5. LiveWorks'
  BY <1>0, <1>1, <1>3, <1>4 DEF LiveWorks
<1>6. \/ w = "mkdir_root" /\ dirs' = dirs \cup {Root} /\ pc' = [pc EXCEPT ![r] = "ctl_root"]
      \/ w = "mkdir_profile" /\ dirs' = dirs \cup {Profile[r]} /\ pc' = [pc EXCEPT ![r] = "ctl_profile"]
      \/ w = "mkdir_run" /\ dirs' = dirs \cup {r} /\ pc' = [pc EXCEPT ![r] = "join"]
      \/ w = "mkdir_profile" /\ Root \notin dirs /\ dirs' = dirs /\ pc' = [pc EXCEPT ![r] = "ended"]
      \/ w = "mkdir_run" /\ Profile[r] \notin dirs /\ dirs' = dirs /\ pc' = [pc EXCEPT ![r] = "ended"]
  BY <1>4 DEF Target, AfterMkdir, Reachable, Parent
<1> HIDE DEF EnsureDir, MakeDir, Goto, cleanup
<1>7. RunKept'
  BY <1>1, <1>3, <1>6 DEF RunKept
<1>8. ProfileKept'
  <2> SUFFICES ASSUME NEW p \in Profiles, p \in dirs'
               PROVE (\E q \in Runs : Keeps(q, p)') \/ \E c \in Cleaners : Inside(c, p)'
    BY DEF ProfileKept
  <2>1. CASE p \notin dirs
    <3>1. Keeps(r, p)'
      BY <1>6, <2>1 DEF Keeps
    <3> QED BY <3>1
  <2>2. CASE p \in dirs
    <3>1. CASE \E c \in Cleaners : Inside(c, p)
      BY <3>1, <1>0 DEF Inside, Parent
    <3>2. ASSUME NEW q \in Runs, Keeps(q, p) PROVE \E x \in Runs : Keeps(x, p)'
      <4>1. Keeps(q, p)'
        BY <3>2, <2>2, <1>2, <1>3, <1>6 DEF Keeps
      <4> QED BY <4>1
    <3> QED BY <1>1, <2>2, <3>1, <3>2 DEF ProfileKept
  <2> QED BY <2>1, <2>2
<1>9. RootKept'
  BY <1>0, <1>1, <1>2, <1>6 DEF RootKept, AtWork
<1> QED BY <1>5, <1>7, <1>8, <1>9

(* Steps of a run that keep the directories, other than its rmdir.                 *)
LEMMA RunQuietKept ==
  ASSUME TypeOK, Closed, Kept, NEW r \in Runs,
         EnableControllers(r) \/ Join(r) \/ EndRun(r) \/ ChildEnds(r) \/ RunKilled(r)
  PROVE  Kept'
<1> SUFFICES ASSUME ~excused' PROVE (LiveWorks /\ RunKept /\ ProfileKept /\ RootKept)'
  BY DEF Kept
<1>1. ~RunKilled(r)
  BY DEF RunKilled
<1>2. ~excused /\ dirs' = dirs /\ UNCHANGED <<step, at>>
  <2>1. CASE EnableControllers(r) \/ ChildEnds(r)
    <3>1. UNCHANGED <<dirs, step, at, excused>>
      BY <2>1 DEF EnableControllers, ChildEnds, history, cleanup
    <3> QED BY <3>1
  <2>2. CASE Join(r)
    <3>1. UNCHANGED <<dirs, step, at, excused>>
      BY <2>2 DEF Join, cleanup
    <3> QED BY <3>1
  <2>3. CASE EndRun(r)
    <3>1. UNCHANGED <<dirs, step, at>> /\ excused' = (excused \/ r \in alive)
      BY <2>3 DEF EndRun, cleanup, system
    <3> QED BY <3>1
  <2> QED BY <1>1, <2>1, <2>2, <2>3
<1>3. LiveWorks /\ RunKept /\ ProfileKept /\ RootKept
  BY <1>2 DEF Kept
<1>4. \/ pc[r] = "ctl_root" /\ pc' = [pc EXCEPT ![r] = "mkdir_profile"] /\ alive' = alive
      \/ pc[r] = "ctl_profile" /\ pc' = [pc EXCEPT ![r] = "mkdir_run"] /\ alive' = alive
      \/ pc[r] = "join" /\ pc' = [pc EXCEPT ![r] = "working"] /\ alive' = alive \cup {r}
      \/ pc[r] = "join" /\ pc' = [pc EXCEPT ![r] = "rmdir_run"] /\ alive' = alive
      \/ pc[r] = "working" /\ r \notin alive
         /\ pc' = [pc EXCEPT ![r] = "rmdir_run"] /\ alive' = alive
      \/ pc' = pc /\ alive' = alive \ {r}
  BY <1>1 DEF EnableControllers, Join, EndRun, ChildEnds, Goto, system, TypeOK
<1>5. LiveWorks'
  BY <1>3, <1>4 DEF LiveWorks, TypeOK
<1>6. RunKept'
  BY <1>2, <1>3, <1>4 DEF RunKept, TypeOK
<1>7. ProfileKept'
  <2> SUFFICES ASSUME NEW p \in Profiles, p \in dirs
               PROVE (\E q \in Runs : Keeps(q, p)') \/ \E c \in Cleaners : Inside(c, p)'
    BY <1>2 DEF ProfileKept
  <2>1. CASE \E c \in Cleaners : Inside(c, p)
    BY <2>1, <1>2 DEF Inside, Parent
  <2>2. ASSUME NEW q \in Runs, Keeps(q, p) PROVE \E x \in Runs : Keeps(x, p)'
    <3>1. Keeps(q, p)'
      BY <2>2, <1>2, <1>4 DEF Keeps, TypeOK
    <3> QED BY <3>1
  <2> QED BY <1>3, <2>1, <2>2 DEF ProfileKept
<1>8. RootKept'
  BY <1>2, <1>3, <1>4 DEF RootKept, AtWork, TypeOK
<1> QED BY <1>5, <1>6, <1>7, <1>8

LEMMA RunRmdirKept ==
  ASSUME TypeOK, Closed, Kept, NEW r \in Runs, RunRmdir(r) PROVE Kept'
<1> SUFFICES ASSUME ~excused' PROVE (LiveWorks /\ RunKept /\ ProfileKept /\ RootKept)'
  BY DEF Kept
<1>1. ~excused /\ UNCHANGED <<alive, step, at>>
  BY DEF RunRmdir
<1>2. LiveWorks /\ RunKept /\ ProfileKept /\ RootKept
  BY <1>1 DEF Kept
<1>3. PICK w \in {"rmdir_run", "rmdir_profile", "rmdir_root"} : pc[r] = w
  BY DEF RunRmdir
<1>4. r \notin alive
  BY <1>2, <1>3 DEF LiveWorks
<1>5. \/ w = "rmdir_run" /\ r \in dirs /\ dirs' = dirs \ {r}
         /\ pc' = [pc EXCEPT ![r] = "rmdir_profile"]
      \/ w = "rmdir_run" /\ r \notin dirs /\ dirs' = dirs /\ pc' = [pc EXCEPT ![r] = "ended"]
      \/ w = "rmdir_profile" /\ dirs' = dirs \ {Profile[r]} /\ pc' = [pc EXCEPT ![r] = "rmdir_root"]
      \/ w = "rmdir_profile" /\ dirs' = dirs /\ pc' = [pc EXCEPT ![r] = "rmdir_root"]
         /\ (Profile[r] \in dirs => \E q \in Runs : q \in dirs /\ Profile[q] = Profile[r])
      \/ w = "rmdir_root" /\ dirs' = dirs \ {Root} /\ pc' = [pc EXCEPT ![r] = "ended"]
      \/ w = "rmdir_root" /\ dirs' = dirs /\ pc' = [pc EXCEPT ![r] = "ended"]
         /\ (Root \in dirs => \E p \in Profiles : p \in dirs)
  <2>1. r \in dirs => Removable(r)
    BY <1>4, NotRemovable DEF Dir
  <2>2. Profile[r] \in dirs /\ ~Removable(Profile[r])
           => \E q \in Runs : q \in dirs /\ Profile[q] = Profile[r]
    <3>1. Profile[r] \in Profiles /\ Profile[r] \in Dir
      BY DEF Dir
    <3>2. Profile[r] \notin alive /\ Profile[r] # Root
      BY <3>1 DEF TypeOK
    <3> QED BY <3>1, <3>2, NotRemovable
  <2>3. Root \in dirs /\ ~Removable(Root) => \E p \in Profiles : p \in dirs
    <3>1. Root \notin alive /\ Root \in Dir
      BY DEF TypeOK, Dir
    <3> QED BY <3>1, NotRemovable
  <2>4. CASE w = "rmdir_run"
    <3>1. /\ pc' = [pc EXCEPT ![r] = IF Removable(r) THEN "rmdir_profile" ELSE "ended"]
          /\ IF Removable(r) THEN dirs' = dirs \ {r} ELSE dirs' = dirs
      BY <1>3, <2>4 DEF RunRmdir, RemoveDir, AfterRmdir, Goto
    <3> QED BY <2>4, <3>1, <2>1 DEF Removable
  <2>5. CASE w = "rmdir_profile"
    <3>1. /\ pc' = [pc EXCEPT ![r] = "rmdir_root"]
          /\ IF Removable(Profile[r]) THEN dirs' = dirs \ {Profile[r]} ELSE dirs' = dirs
      BY <1>3, <2>5 DEF RunRmdir, RemoveDir, AfterRmdir, Goto
    <3> QED BY <2>5, <3>1, <2>2
  <2>6. CASE w = "rmdir_root"
    <3>1. /\ pc' = [pc EXCEPT ![r] = "ended"]
          /\ IF Removable(Root) THEN dirs' = dirs \ {Root} ELSE dirs' = dirs
      BY <1>3, <2>6 DEF RunRmdir, RemoveDir, AfterRmdir, Goto
    <3> QED BY <2>6, <3>1, <2>3
  <2> QED BY <2>4, <2>5, <2>6
<1>6. LiveWorks'
  BY <1>1, <1>2, <1>4, <1>5 DEF LiveWorks, TypeOK
<1>7. RunKept'
  BY <1>2, <1>3, <1>5 DEF RunKept, TypeOK
<1>8. ProfileKept'
  <2> SUFFICES ASSUME NEW p \in Profiles, p \in dirs'
               PROVE (\E q \in Runs : Keeps(q, p)') \/ \E c \in Cleaners : Inside(c, p)'
    BY DEF ProfileKept
  <2>0. p \in dirs
    BY <1>5
  <2>1. CASE \E c \in Cleaners : Inside(c, p)
    BY <2>1, <1>1 DEF Inside, Parent
  <2>2. ASSUME NEW q \in Runs, Keeps(q, p) PROVE \E x \in Runs : Keeps(x, p)'
    <3>1. CASE w = "rmdir_profile" /\ p = Profile[r]
      <4>1. \E x \in Runs : x \in dirs' /\ Profile[x] = p
        BY <3>1, <2>0, <1>5
      <4> QED BY <4>1 DEF Keeps
    <3>2. CASE ~(w = "rmdir_profile" /\ p = Profile[r])
      <4>1. Keeps(q, p)'
        BY <3>2, <2>2, <1>3, <1>5 DEF Keeps, TypeOK
      <4> QED BY <4>1
    <3> QED BY <3>1, <3>2
  <2> QED BY <1>2, <2>0, <2>1, <2>2 DEF ProfileKept
<1>9. RootKept'
  <2>1. CASE w = "rmdir_profile"
    <3>1. pc'[r] = "rmdir_root"
      BY <2>1, <1>5 DEF TypeOK
    <3> QED BY <3>1 DEF RootKept
  <2>2. CASE w = "rmdir_root"
    <3>1. Root \in dirs' => dirs' = dirs /\ \E p \in Profiles : p \in dirs
      BY <2>2, <1>5
    <3> QED BY <3>1 DEF RootKept
  <2>3. CASE w = "rmdir_run"
    <3>1. Root \in dirs' => Root \in dirs
      BY <1>5
    <3>2. \A p \in Profiles : p \in dirs => p \in dirs'
      BY <2>3, <1>5
    <3>3. \A q \in Runs : pc[q] \in {"ctl_root", "mkdir_profile", "rmdir_root"} => pc'[q] = pc[q]
      BY <2>3, <1>3, <1>5 DEF TypeOK
    <3> QED BY <1>1, <1>2, <3>1, <3>2, <3>3 DEF RootKept
  <2> QED BY <2>1, <2>2, <2>3
<1> QED BY <1>6, <1>7, <1>8, <1>9

(* The steps of a cleanup.  On the way up from a run it stays inside the profile,    *)
(* and it leaves a directory only when that is gone or has something else in it.     *)
LEMMA CleanupKept ==
  ASSUME TypeOK, Closed, Kept, NEW c \in Cleaners, Cleanup(c) PROVE Kept'
<1> SUFFICES ASSUME ~excused' PROVE (LiveWorks /\ RunKept /\ ProfileKept /\ RootKept)'
  BY DEF Kept
<1>0. ~Refused(c)
  BY DEF Refused
<1>1. ~excused /\ UNCHANGED <<alive, pc>>
  <2>1. UNCHANGED <<alive, pc, excused>>
    BY <1>0 DEF Cleanup, Stat, Open, Read, Skip, Procs, CleanupRmdir, system
  <2> QED BY <2>1
<1>2. LiveWorks /\ RunKept /\ ProfileKept /\ RootKept
  BY <1>1 DEF Kept
<1>3. dirs' \subseteq dirs
  BY DEF Cleanup, Stat, Open, Read, Procs, CleanupRmdir, system, RemoveDir
<1>4. \A b \in Cleaners \ {c} : step'[b] = step[b] /\ at'[b] = at[b]
  BY <1>0 DEF Cleanup, Stat, Open, Read, Skip, Procs, CleanupRmdir, Leave, Enter, Step, TypeOK
<1>5. at[c] \in Dir /\ at[c] \notin Profiles \cup {Root} => at[c] \in Runs
  BY DEF TypeOK, Dir
<1>6. LiveWorks'
  BY <1>1, <1>2 DEF LiveWorks
<1>7. RunKept'
  BY <1>1, <1>2, <1>3 DEF RunKept
<1>8. \A e \in dirs \ dirs' : e = at[c] /\ step[c] = "rmdir" /\ Removable(e)
  BY DEF Cleanup, Stat, Open, Read, Procs, CleanupRmdir, system, RemoveDir
<1>9. ASSUME NEW p \in Profiles, p \in dirs', Inside(c, p)
      PROVE  Inside(c, p)' \/ \E q \in Runs : q \in dirs' /\ Profile[q] = p
  <2>1. p \in dirs /\ p \notin alive /\ p # Root /\ p \notin Runs
    BY <1>3, <1>9 DEF TypeOK
  <2>2. CASE Stat(c)
    BY <2>2, <1>9 DEF Stat, Inside, AtWork
  <2>3. CASE Open(c)
    BY <2>3, <1>0, <1>9 DEF Open, Inside, AtWork, Step, TypeOK, Parent
  <2>4. CASE Read(c)
    <3>1. CASE step'[c] = "procs" /\ at'[c] = at[c]
      BY <3>1, <1>9 DEF Inside, AtWork, Parent
    <3>2. ASSUME NEW e \in Children(at[c]), Enter(c, e) PROVE Inside(c, p)'
      <4>1. Parent(e) = at[c] /\ e \in Dir
        BY <3>2 DEF Children, TypeOK
      <4>2. at[c] \notin Runs
        BY <4>1, <2>1 DEF Parent, Dir
      <4>3. at[c] = p
        BY <4>2, <1>9 DEF Inside
      <4>4. e \in Runs
        BY <4>1, <4>3, <2>1 DEF Parent
      <4>5. step'[c] \in AtWork /\ at'[c] = e
        BY <3>2 DEF Enter, Step, AtWork, TypeOK
      <4> QED BY <4>1, <4>3, <4>4, <4>5 DEF Inside, Parent
    <3>3. (step'[c] = "procs" /\ at'[c] = at[c]) \/ \E e \in Children(at[c]) : Enter(c, e)
      BY <2>4, <1>0 DEF Read, Skip, Step, TypeOK
    <3> QED BY <3>1, <3>2, <3>3
  <2>5. CASE Procs(c) \/ CleanupRmdir(c)
    <3>1. \/ step'[c] = "rmdir" /\ at'[c] = at[c]
          \/ at[c] # Root /\ step'[c] = "read" /\ at'[c] = Parent(at[c])
          \/ at[c] = Root
      BY <2>5 DEF Procs, CleanupRmdir, Leave, Step, TypeOK
    <3>2. CASE step'[c] = "rmdir" /\ at'[c] = at[c]
      BY <3>2, <1>9 DEF Inside, AtWork, Parent
    <3>3. CASE at[c] = Root
      BY <3>3, <1>9, <2>1 DEF Inside
    <3>4. CASE at[c] \in Runs /\ step'[c] = "read" /\ at'[c] = Parent(at[c])
      BY <3>4, <1>9, <2>1 DEF Inside, AtWork
    <3>5. CASE at[c] = p /\ step'[c] = "read"
      <4>1. ~HasProcesses(p)
        BY <2>1 DEF HasProcesses
      <4>2. CleanupRmdir(c) /\ dirs' = dirs /\ ~Removable(p)
        <5>1. CleanupRmdir(c)
          BY <3>5, <4>1, <2>5, <1>0 DEF Procs, Step, TypeOK
        <5>2. IF Removable(p) THEN dirs' = dirs \ {p} ELSE dirs' = dirs
          BY <5>1, <3>5 DEF CleanupRmdir, RemoveDir
        <5> QED BY <5>1, <5>2, <1>9
      <4>3. \E q \in Runs : q \in dirs /\ Profile[q] = p
        BY <4>2, <2>1, NotRemovable DEF Dir
      <4> QED BY <4>2, <4>3
    <3> QED BY <1>5, <1>9, <2>1, <3>1, <3>2, <3>3, <3>4, <3>5 DEF Inside
  <2> QED BY <2>2, <2>3, <2>4, <2>5 DEF Cleanup
<1>10. ASSUME NEW e, e \in dirs \ dirs', e # Root
       PROVE  step'[c] = "read" /\ at'[c] = Parent(e) /\ e = at[c]
  <2>1. CleanupRmdir(c) /\ e = at[c]
    BY <1>8, <1>10 DEF Cleanup, Stat, Open, Read, Procs, CleanupRmdir, system
  <2> QED BY <2>1, <1>10 DEF CleanupRmdir, Leave, Step, TypeOK
<1>11. ProfileKept'
  <2> SUFFICES ASSUME NEW p \in Profiles, p \in dirs'
               PROVE (\E q \in Runs : Keeps(q, p)') \/ \E b \in Cleaners : Inside(b, p)'
    BY DEF ProfileKept
  <2>1. ASSUME NEW q \in Runs, Keeps(q, p)
        PROVE  (\E x \in Runs : Keeps(x, p)') \/ \E b \in Cleaners : Inside(b, p)'
    <3>1. CASE q \in dirs \ dirs'
      <4>1. step'[c] = "read" /\ at'[c] = Parent(q)
        BY <3>1, <1>10
      <4>2. Parent(q) = p
        BY <2>1 DEF Keeps, Parent
      <4> QED BY <4>1, <4>2 DEF Inside, AtWork
    <3>2. CASE q \notin dirs \ dirs'
      <4>1. Keeps(q, p)'
        BY <3>2, <2>1, <1>1 DEF Keeps
      <4> QED BY <4>1
    <3> QED BY <3>1, <3>2
  <2>2. ASSUME NEW b \in Cleaners, Inside(b, p)
        PROVE  (\E x \in Runs : Keeps(x, p)') \/ \E a \in Cleaners : Inside(a, p)'
    <3>1. CASE b = c
      <4>1. (\E q \in Runs : q \in dirs' /\ Profile[q] = p) => \E q \in Runs : Keeps(q, p)'
        BY DEF Keeps
      <4> QED BY <4>1, <3>1, <2>2, <1>9
    <3>2. CASE b # c
      <4>1. Inside(b, p)'
        BY <3>2, <2>2, <1>4 DEF Inside, Parent
      <4> QED BY <4>1
    <3> QED BY <3>1, <3>2
  <2> QED BY <1>2, <1>3, <2>1, <2>2 DEF ProfileKept
<1>12. RootKept'
  <2> SUFFICES ASSUME Root \in dirs' PROVE RootKept'
    BY DEF RootKept
  <2>1. Root \in dirs /\ Root \notin alive /\ Root \in Dir
    BY <1>3 DEF TypeOK, Dir
  <2>2. ASSUME NEW p \in Profiles, p \in dirs PROVE RootKept'
    <3>1. p \in dirs' \/ step'[c] = "read"
      BY <2>2, <1>10
    <3> QED BY <3>1 DEF RootKept, AtWork
  <2>3. ASSUME NEW r \in Runs, pc[r] \in {"ctl_root", "mkdir_profile", "rmdir_root"} PROVE RootKept'
    BY <2>3, <1>1 DEF RootKept
  <2>4. ASSUME NEW b \in Cleaners, step[b] \in AtWork, b # c PROVE RootKept'
    BY <2>4, <1>4 DEF RootKept
  <2>5. ASSUME step[c] \in AtWork PROVE RootKept'
    <3>1. CASE step'[c] \in AtWork
      BY <3>1 DEF RootKept
    <3>2. CASE step'[c] \notin AtWork
      <4>1. (Procs(c) \/ CleanupRmdir(c)) /\ at[c] = Root
        BY <3>2, <2>5, <1>0 DEF Cleanup, Stat, Open, Read, Skip, Enter, Procs, CleanupRmdir,
                               Leave, Step, AtWork, TypeOK
      <4>2. CleanupRmdir(c)
        BY <4>1, <3>2, <2>1, <1>0 DEF Procs, HasProcesses, Step, AtWork, TypeOK
      <4>3. IF Removable(Root) THEN dirs' = dirs \ {Root} ELSE dirs' = dirs
        BY <4>1, <4>2 DEF CleanupRmdir, RemoveDir
      <4>4. ~Removable(Root) /\ dirs' = dirs
        BY <4>3
      <4>5. \E p \in Profiles : p \in dirs
        BY <4>4, <2>1, NotRemovable
      <4> QED BY <4>4, <4>5 DEF RootKept
    <3> QED BY <3>1, <3>2
  <2> QED BY <1>2, <2>1, <2>2, <2>3, <2>4, <2>5 DEF RootKept
<1> QED BY <1>6, <1>7, <1>11, <1>12

LEMMA KeptStep ==
  ASSUME TypeOK, Closed, Kept, [Next]_vars PROVE Kept'
<1>1. ASSUME NEW r \in Runs, Run(r) \/ RunKilled(r) PROVE Kept'
  BY <1>1, EnsureDirKept, RunQuietKept, RunRmdirKept DEF Run
<1>2. ASSUME NEW c \in Cleaners, Cleanup(c) PROVE Kept'
  BY <1>2, CleanupKept
<1>3. ASSUME NEW c \in Cleaners, CleanupKilled(c) PROVE Kept'
  BY <1>3 DEF CleanupKilled, Kept
<1>4. CASE UNCHANGED vars
  BY <1>4 DEF vars, system, cleanup, history, Kept, LiveWorks, RunKept, ProfileKept, RootKept,
              Keeps, Inside, Parent
<1> QED BY <1>1, <1>2, <1>3, <1>4 DEF Next

(* The last run or cleanup to end leaves no directory behind, for any number of     *)
(* them, if none was killed, cut short or refused a call.                          *)
THEOREM LastOneCleans == Spec => []LastOneCleansUp
<1>1. Init => Kept
  BY DEF Init, Kept, LiveWorks, RunKept, ProfileKept, RootKept
<1>2. TypeOK /\ Kept => LastOneCleansUp
  <2> SUFFICES ASSUME TypeOK, Kept, AllGone, ~excused PROVE dirs = {}
    BY DEF LastOneCleansUp
  <2>1. \A r \in Runs : r \notin dirs
    BY DEF Kept, RunKept, AllGone
  <2>2. \A c \in Cleaners : step[c] \notin AtWork
    BY DEF AllGone, AtWork
  <2>3. \A p \in Profiles : p \notin dirs
    BY <2>1, <2>2 DEF Kept, ProfileKept, Keeps, Inside, AllGone
  <2>4. Root \notin dirs
    BY <2>2, <2>3 DEF Kept, RootKept, AllGone
  <2> QED BY <2>1, <2>3, <2>4 DEF TypeOK, Dir
<1> QED BY <1>1, <1>2, TreeClosed, KeptStep, PTL DEF Spec
--------------------------------------------------------------------------------
(* CleanupComplete and FailureHasCause.  While a cleanup is alone it has met no      *)
(* error, what it found is the tree, and what still exists of it lies ahead.        *)
Ahead(c, e) ==
    \/ e \in listing[c] \/ Parent(e) \in listing[c]
    \/ e = at[c] \/ (at[c] \in Runs /\ e = Parent(at[c]))
    \/ step[c] = "open" /\ (at[c] = Root \/ Parent(e) = at[c])
Rising(c) == step[c] \in {"procs", "rmdir"}

Found(c)   == /\ old[c] \subseteq dirs /\ Root \notin listing[c]
              /\ \A e \in old[c] \ {Root} : Parent(e) \in old[c]
Placed(c)  == /\ step[c] = "stat" => listing[c] = {} /\ result[c]
              /\ step[c] \in AtWork => at[c] \notin listing[c]
              /\ step[c] \in AtWork /\ at[c] \in Runs =>
                     Rising(c) /\ Parent(at[c]) \notin listing[c]
Pending(c) == step[c] \in AtWork /\ alone[c] =>
                 \A e \in old[c] \ {Root} : Ahead(c, e) /\ (Rising(c) => Parent(e) # at[c])
Alone(c)   == step[c] \in AtWork /\ alone[c] =>
                 result[c] /\ old[c] = dirs /\ alive = {} /\ at[c] \in dirs
Outcome(c) == /\ step[c] = "ok" => old[c] = {}
              /\ step[c] = "failed" => ~alone[c]
Sweep(c) == Found(c) /\ Placed(c) /\ Pending(c) /\ Alone(c) /\ Outcome(c)

(* What a step of somebody else does to a cleanup.                                 *)
Elsewhere(c) ==
    /\ step'[c] = step[c] /\ at'[c] = at[c] /\ result'[c] = result[c]
    /\ \/ /\ old'[c] = old[c] /\ listing'[c] = listing[c] /\ dirs \subseteq dirs'
          /\ alone'[c] => alone[c] /\ dirs' = dirs /\ alive' \subseteq alive
       \/ \E d : /\ Removable(d) /\ dirs' = dirs \ {d}
                 /\ old'[c] = old[c] \ {d} /\ listing'[c] = listing[c] \ {d}
                 /\ ~alone'[c]

LEMMA ElsewhereSweep ==
  ASSUME TypeOK, NEW c \in Cleaners, Sweep(c), Elsewhere(c) PROVE Sweep(c)'
<1>1. CASE /\ old'[c] = old[c] /\ listing'[c] = listing[c] /\ dirs \subseteq dirs'
           /\ alone'[c] => alone[c] /\ dirs' = dirs /\ alive' \subseteq alive
  <2>1. step'[c] = step[c] /\ at'[c] = at[c] /\ result'[c] = result[c]
    BY DEF Elsewhere
  <2>2. Found(c)' /\ Placed(c)' /\ Pending(c)'
    BY <1>1, <2>1 DEF Sweep, Found, Placed, Pending, Ahead, Rising, Parent
  <2>3. Alone(c)' /\ Outcome(c)'
    BY <1>1, <2>1 DEF Sweep, Alone, Outcome
  <2> QED BY <2>2, <2>3 DEF Sweep
<1>2. ASSUME NEW d, Removable(d), dirs' = dirs \ {d}, old'[c] = old[c] \ {d},
             listing'[c] = listing[c] \ {d}, ~alone'[c]
      PROVE  Sweep(c)'
  <2>1. step'[c] = step[c] /\ at'[c] = at[c] /\ result'[c] = result[c]
    BY DEF Elsewhere
  <2>2. \A e \in old[c] \ {Root} : Parent(e) # d
    BY <1>2 DEF Sweep, Found, Removable, Children
  <2>3. Found(c)' /\ Placed(c)'
    BY <1>2, <2>1, <2>2 DEF Sweep, Found, Placed, Rising, Parent
  <2>4. Pending(c)'
    BY <1>2, <2>1, <2>2 DEF Sweep, Pending, Ahead, Rising, Parent
  <2>5. Alone(c)' /\ Outcome(c)'
    BY <1>2, <2>1 DEF Sweep, Alone, Outcome
  <2> QED BY <2>3, <2>4, <2>5 DEF Sweep
<1> QED BY <1>1, <1>2 DEF Elsewhere

LEMMA RemovedElsewhere ==
  ASSUME TypeOK, NEW c \in Cleaners, NEW d, NEW by, c \notin by, Removable(d), RemoveDir(d, by),
         step'[c] = step[c] /\ at'[c] = at[c] /\ result'[c] = result[c]
  PROVE  Elsewhere(c)
<1>1. dirs' = dirs \ {d} /\ old'[c] = old[c] \ {d} /\ listing'[c] = listing[c] \ {d}
  BY DEF RemoveDir
<1>2. alone'[c] = (alone[c] /\ c \in by)
  BY DEF RemoveDir
<1>3. ~alone'[c]
  BY <1>2
<1> QED BY <1>1, <1>3 DEF Elsewhere

LEMMA RunElsewhere ==
  ASSUME TypeOK, NEW c \in Cleaners, NEW r \in Runs, Run(r) \/ RunKilled(r)
  PROVE  Elsewhere(c)
<1>1. CASE RunRmdir(r)
  <2>1. UNCHANGED <<step, at, result, alive>>
    BY <1>1 DEF RunRmdir
  <2>2. (\E d : Removable(d) /\ RemoveDir(d, {})) \/ UNCHANGED <<dirs, listing, old, alone>>
    BY <1>1 DEF RunRmdir
  <2> QED BY <2>1, <2>2, RemovedElsewhere DEF Elsewhere
<1>2. CASE EnsureDir(r)
  <2>1. UNCHANGED <<step, at, result, alive, listing>>
    BY <1>2 DEF EnsureDir, cleanup
  <2>2. (\E d : MakeDir(d)) \/ UNCHANGED <<dirs, old, alone>>
    BY <1>2 DEF EnsureDir
  <2>3. ASSUME NEW d, MakeDir(d) PROVE Elsewhere(c)
    <3>1. CASE d \in dirs
      BY <3>1, <2>1, <2>3 DEF MakeDir, Elsewhere
    <3>2. CASE d \notin dirs
      <4>1. ~alone'[c]
        BY <3>2, <2>3 DEF MakeDir
      <4> QED BY <4>1, <2>1, <2>3 DEF MakeDir, Elsewhere
    <3> QED BY <3>1, <3>2
  <2> QED BY <2>1, <2>2, <2>3 DEF Elsewhere
<1>3. CASE Join(r)
  <2>1. UNCHANGED <<step, at, result, dirs, listing, old>>
    BY <1>3 DEF Join, cleanup
  <2>2. ~alone'[c] \/ UNCHANGED <<alive, alone>>
    BY <1>3 DEF Join
  <2> QED BY <2>1, <2>2 DEF Elsewhere
<1>4. CASE EnableControllers(r) \/ EndRun(r) \/ ChildEnds(r) \/ RunKilled(r)
  <2>1. UNCHANGED <<step, at, result, dirs, listing, old, alone>>
    BY <1>4 DEF EnableControllers, EndRun, ChildEnds, RunKilled, cleanup, system, history
  <2>2. alive' \subseteq alive
    BY <1>4 DEF EnableControllers, EndRun, ChildEnds, RunKilled, system
  <2> QED BY <2>1, <2>2 DEF Elsewhere
<1> QED BY <1>1, <1>2, <1>3, <1>4 DEF Run

LEMMA CleanupElsewhere ==
  ASSUME TypeOK, NEW c \in Cleaners, NEW b \in Cleaners, b # c, Cleanup(b) \/ CleanupKilled(b)
  PROVE  Elsewhere(c)
<1>1. step'[c] = step[c] /\ at'[c] = at[c] /\ result'[c] = result[c]
  BY DEF Cleanup, Stat, Open, Read, Skip, Procs, CleanupRmdir, CleanupKilled, Leave, Report,
         Enter, Step, TypeOK
<1>2. CASE CleanupRmdir(b)
  <2>1. \/ Removable(at[b]) /\ RemoveDir(at[b], {b})
        \/ UNCHANGED <<dirs, listing, old, alone>>
    BY <1>2 DEF CleanupRmdir
  <2>2. UNCHANGED alive
    BY <1>2 DEF CleanupRmdir
  <2> QED BY <1>1, <2>1, <2>2, RemovedElsewhere DEF Elsewhere
<1>3. CASE ~CleanupRmdir(b)
  <2>1. UNCHANGED <<dirs, alive>>
    BY <1>3 DEF Cleanup, Stat, Open, Read, Procs, CleanupKilled, system
  <2>2. old'[c] = old[c] /\ alone'[c] = alone[c]
    BY <1>3 DEF Cleanup, Stat, Open, Read, Skip, Procs, CleanupKilled, Refused, TypeOK
  <2>3. listing'[c] = listing[c]
    BY <1>3 DEF Cleanup, Stat, Open, Read, Met, Procs, CleanupKilled, TypeOK
  <2> QED BY <1>1, <2>1, <2>2, <2>3 DEF Elsewhere
<1> QED BY <1>2, <1>3

LEMMA StatSweep ==
  ASSUME TypeOK, Closed, NEW c \in Cleaners, Sweep(c), Stat(c) PROVE Sweep(c)'
<1>1. /\ at'[c] = Root /\ dirs' = dirs /\ alive' = alive /\ old'[c] = dirs
      /\ listing'[c] = listing[c] /\ result'[c] = result[c]
  BY DEF Stat, Step, system, TypeOK
<1>2. \/ /\ step'[c] = IF Root \in dirs THEN "open" ELSE "ok"
         /\ alone'[c] = (alive = {})
      \/ step'[c] = "failed" /\ ~alone'[c]
  BY DEF Stat, Step, Refused, TypeOK
<1>3. listing[c] = {} /\ result[c] /\ Root \notin Runs
  BY DEF Stat, Sweep, Placed
<1>4. Root \notin dirs => dirs = {}
  BY DEF TypeOK, Closed, Dir, Parent
<1>5. Found(c)'
  BY <1>1, <1>3 DEF Found, Closed, Parent
<1>6. Placed(c)'
  BY <1>1, <1>2, <1>3 DEF Placed, AtWork
<1>7. Pending(c)'
  BY <1>1, <1>2 DEF Pending, Ahead, Rising, AtWork
<1>8. Alone(c)' /\ Outcome(c)'
  BY <1>1, <1>2, <1>3, <1>4 DEF Alone, Outcome, AtWork
<1> QED BY <1>5, <1>6, <1>7, <1>8 DEF Sweep

LEMMA OpenSweep ==
  ASSUME TypeOK, Closed, NEW c \in Cleaners, Sweep(c), Open(c) PROVE Sweep(c)'
<1>0. CASE step'[c] = "procs" /\ ~alone'[c] /\ listing'[c] = listing[c]
  <2>1. /\ at'[c] = at[c] /\ dirs' = dirs /\ old'[c] = old[c]
        /\ step[c] = "open"
    BY DEF Open, Step, system, TypeOK
  <2> QED BY <1>0, <2>1 DEF Sweep, Found, Placed, Pending, Alone, Outcome, Rising, AtWork, Parent
<1> SUFFICES ASSUME ~(step'[c] = "procs" /\ ~alone'[c] /\ listing'[c] = listing[c])
             PROVE  Sweep(c)'
  BY <1>0
<1>1. /\ at'[c] = at[c] /\ dirs' = dirs /\ alive' = alive /\ old'[c] = old[c]
      /\ listing'[c] = listing[c] \cup Children(at[c]) /\ result'[c] = result[c]
      /\ step'[c] = IF at[c] \in dirs THEN "read" ELSE "procs"
      /\ alone'[c] = alone[c] /\ step[c] = "open"
  BY DEF Open, Step, Refused, system, TypeOK
<1>2. at[c] \notin Runs /\ at[c] \in Dir
  BY <1>1 DEF Sweep, Placed, Rising, AtWork, TypeOK
<1>3. at[c] \notin Children(at[c]) /\ Root \notin Children(at[c])
  BY <1>2 DEF Children, Dir, Parent
<1>4. Found(c)'
  BY <1>1, <1>3 DEF Sweep, Found, Parent
<1>5. Placed(c)'
  BY <1>1, <1>2, <1>3 DEF Sweep, Placed, AtWork
<1>6. Pending(c)'
  <2> SUFFICES ASSUME alone[c], NEW e \in old[c] \ {Root}
               PROVE  Ahead(c, e)' /\ (Rising(c) => Parent(e) # at[c])'
    BY <1>1 DEF Pending
  <2>1. e \in dirs /\ Parent(e) \in old[c] /\ Parent(e) \in dirs
    BY DEF Sweep, Found
  <2>2. Ahead(c, e)
    BY <1>1 DEF Sweep, Pending, AtWork
  <2>3. Parent(e) = at[c] => e \in listing'[c]
    BY <1>1, <2>1 DEF Children
  <2>4. at[c] = Root => e \in listing'[c] \/ Parent(e) \in listing'[c]
    <3>1. ASSUME at[c] = Root, Parent(e) # Root PROVE Parent(e) \in listing'[c]
      <4>1. Parent(Parent(e)) = Root
        BY <3>1 DEF Parent, TypeOK
      <4> QED BY <1>1, <2>1, <3>1, <4>1 DEF Children
    <3> QED BY <2>3, <3>1
  <2>5. Ahead(c, e)'
    BY <1>1, <2>2, <2>3, <2>4 DEF Ahead, Parent
  <2>6. (Rising(c) => Parent(e) # at[c])'
    BY <1>1, <2>1 DEF Rising, Parent
  <2> QED BY <2>5, <2>6
<1>7. Alone(c)' /\ Outcome(c)'
  BY <1>1 DEF Sweep, Alone, Outcome, AtWork
<1> QED BY <1>4, <1>5, <1>6, <1>7 DEF Sweep

LEMMA ReadSweep ==
  ASSUME TypeOK, Closed, NEW c \in Cleaners, Sweep(c), Read(c) PROVE Sweep(c)'
<1>0. CASE Skip(c)
  <2>1. step'[c] = step[c] /\ at'[c] = at[c] /\ ~alone'[c]
    BY <1>0 DEF Skip, Refused, TypeOK
  <2>2. step[c] = "read" /\ dirs' = dirs /\ old'[c] = old[c]
    BY DEF Read, system
  <2>3. listing'[c] \subseteq listing[c]
    BY DEF Read, Met, TypeOK
  <2> QED BY <2>1, <2>2, <2>3 DEF Sweep, Found, Placed, Pending, Alone, Outcome, Rising, AtWork, Parent
<1> SUFFICES ASSUME ~Skip(c) PROVE Sweep(c)'
  BY <1>0
<1>1. /\ dirs' = dirs /\ alive' = alive /\ old'[c] = old[c]
      /\ result'[c] = result[c] /\ alone'[c] = alone[c] /\ step[c] = "read"
  BY DEF Read, system
<1>2. at[c] \notin Runs /\ at[c] \in Dir /\ at[c] \notin listing[c] /\ Root \notin listing[c]
  BY <1>1 DEF Sweep, Placed, Found, Rising, AtWork, TypeOK
<1>3. CASE listing[c] \cap Children(at[c]) = {} /\ Step(c, "procs", at[c]) /\ listing' = listing
  <2>1. step'[c] = "procs" /\ at'[c] = at[c] /\ listing'[c] = listing[c]
    BY <1>3 DEF Step, TypeOK
  <2>2. Found(c)' /\ Placed(c)'
    BY <1>1, <1>2, <2>1 DEF Sweep, Found, Placed, Parent, AtWork
  <2>3. Pending(c)'
    <3> SUFFICES ASSUME alone[c], NEW e \in old[c] \ {Root}
                 PROVE  Ahead(c, e)' /\ Parent(e) # at[c]
      BY <1>1, <2>1 DEF Pending, Parent
    <3>1. Ahead(c, e)
      BY <1>1 DEF Sweep, Pending, AtWork
    <3>2. Ahead(c, e)'
      BY <1>1, <2>1, <3>1 DEF Ahead, Parent
    <3>3. e \in dirs \ {Root} /\ (Parent(e) = at[c] => e \notin listing[c])
      BY <1>3 DEF Sweep, Found, Children
    <3>4. Parent(e) # e /\ e \in Dir
      BY <3>3 DEF Parent, Dir, TypeOK
    <3> QED BY <1>1, <1>2, <3>1, <3>2, <3>3, <3>4 DEF Ahead
  <2>4. Alone(c)' /\ Outcome(c)'
    BY <1>1, <2>1 DEF Sweep, Alone, Outcome, AtWork
  <2> QED BY <2>2, <2>3, <2>4 DEF Sweep
<1>4. ASSUME NEW d \in Children(at[c]), Met(c, d), Enter(c, d) PROVE Sweep(c)'
  <2>1. /\ at'[c] = d /\ listing'[c] = listing[c] \ {d}
        /\ step'[c] = IF d \in Runs THEN "procs" ELSE "open"
    BY <1>4 DEF Met, Enter, Step, TypeOK
  <2>2. d \in dirs /\ d # Root /\ Parent(d) = at[c] /\ d \in Dir
    BY DEF Children, TypeOK
  <2>3. Found(c)' /\ Placed(c)'
    BY <1>1, <1>2, <2>1, <2>2 DEF Sweep, Found, Placed, Rising, Parent, AtWork
  <2>4. Pending(c)'
    <3> SUFFICES ASSUME alone[c], NEW e \in old[c] \ {Root}
                 PROVE  Ahead(c, e)' /\ (Rising(c) => Parent(e) # at[c])'
      BY <1>1 DEF Pending
    <3>1. Ahead(c, e) /\ e \in Dir
      BY <1>1 DEF Sweep, Pending, Found, AtWork, TypeOK
    <3>2. Parent(e) \notin Runs
      BY <3>1 DEF Dir, Parent
    <3>3. (Rising(c) => Parent(e) # at[c])'
      BY <2>1, <3>2 DEF Rising, Parent
    <3>4. CASE e = at[c]
      <4>1. d \in Runs
        BY <2>2, <3>4 DEF Dir, Parent
      <4> QED BY <2>1, <2>2, <3>3, <3>4, <4>1 DEF Ahead, Parent
    <3>5. CASE e \in listing[c]
      BY <2>1, <3>3, <3>5 DEF Ahead, Parent
    <3>6. CASE Parent(e) \in listing[c]
      <4>1. CASE Parent(e) = d
        BY <2>1, <3>2, <3>3, <4>1 DEF Ahead, Parent
      <4>2. CASE Parent(e) # d
        BY <2>1, <3>3, <3>6, <4>2 DEF Ahead, Parent
      <4> QED BY <4>1, <4>2
    <3> QED BY <1>1, <1>2, <3>1, <3>4, <3>5, <3>6 DEF Ahead
  <2>5. Alone(c)' /\ Outcome(c)'
    BY <1>1, <2>1, <2>2 DEF Sweep, Alone, Outcome, AtWork
  <2> QED BY <2>3, <2>4, <2>5 DEF Sweep
<1> QED BY <1>3, <1>4 DEF Read

(* A cleanup leaves a directory: on the way up nothing of what it found is lost, and *)
(* with the root the whole tree is gone.                                         *)
LEMMA LeaveSweep ==
  ASSUME TypeOK, Closed, NEW c \in Cleaners, Sweep(c), Rising(c),
         NEW fine \in BOOLEAN, Leave(c, fine),
         fine => at[c] \notin dirs', alone'[c] => alone[c] /\ fine, UNCHANGED alive,
         dirs' = dirs \ {at[c]} \/ dirs' = dirs, Removable(at[c]) \/ dirs' = dirs,
         old'[c] = old[c] \cap dirs',
         listing'[c] = listing[c]
  PROVE  Sweep(c)'
<1>1. /\ step[c] \in AtWork /\ step[c] # "open" /\ at[c] \in Dir /\ at[c] \notin listing[c]
      /\ Root \notin listing[c]
  BY DEF Sweep, Placed, Found, Rising, AtWork, TypeOK
<1>2. result'[c] = (result[c] /\ fine)
  BY DEF Leave, Report, TypeOK
<1>3. IF at[c] # Root THEN step'[c] = "read" /\ at'[c] = Parent(at[c])
      ELSE step'[c] = (IF result[c] /\ fine THEN "ok" ELSE "failed") /\ at'[c] = Root
  BY DEF Leave, Step, TypeOK
<1>4. \A e \in old'[c] \ {Root} : Parent(e) \in old'[c]
  <2> SUFFICES ASSUME NEW e \in old'[c] \ {Root} PROVE Parent(e) \in old'[c]
    OBVIOUS
  <2>1. e \in old[c] /\ e \in dirs /\ Parent(e) \in old[c] /\ Parent(e) \in dirs
    BY DEF Sweep, Found
  <2>2. Removable(at[c]) => Parent(e) # at[c]
    BY <2>1 DEF Removable, Children
  <2> QED BY <2>1, <2>2
<1>5. Found(c)'
  BY <1>4 DEF Sweep, Found, Parent
<1>6. Placed(c)'
  <2>1. CASE at[c] \in Runs
    <3>1. Parent(at[c]) \in Profiles /\ at[c] # Root
      BY <2>1 DEF Parent
    <3> QED BY <1>1, <1>3, <2>1, <3>1 DEF Sweep, Placed
  <2>2. CASE at[c] \in Profiles
    <3>1. Parent(at[c]) = Root /\ at[c] # Root /\ Root \notin Runs
      BY <2>2 DEF Parent
    <3> QED BY <1>1, <1>3, <3>1 DEF Placed
  <2>3. CASE at[c] = Root
    BY <1>3, <2>3 DEF Placed, AtWork
  <2> QED BY <1>1, <2>1, <2>2, <2>3 DEF Dir
<1>7. Pending(c)'
  <2> SUFFICES ASSUME step'[c] \in AtWork, alone'[c], NEW e \in old'[c] \ {Root}
               PROVE  Ahead(c, e)' /\ (Rising(c) => Parent(e) # at[c])'
    BY DEF Pending
  <2>1. at[c] # Root /\ step'[c] = "read" /\ at'[c] = Parent(at[c])
    BY <1>3 DEF AtWork
  <2>2. alone[c] /\ fine
    OBVIOUS
  <2>3. Ahead(c, e) /\ e # at[c]
    BY <1>1, <2>2 DEF Sweep, Pending
  <2>4. Ahead(c, e)'
    BY <1>1, <2>1, <2>3 DEF Ahead, Parent
  <2> QED BY <2>1, <2>4 DEF Rising
<1>8. Alone(c)'
  <2> SUFFICES ASSUME step'[c] \in AtWork, alone'[c]
               PROVE result'[c] /\ old'[c] = dirs' /\ alive' = {} /\ at'[c] \in dirs'
    BY DEF Alone
  <2>1. at[c] # Root /\ at'[c] = Parent(at[c])
    BY <1>3 DEF AtWork
  <2>2. alone[c] /\ fine
    OBVIOUS
  <2>3. result[c] /\ old[c] = dirs /\ alive = {} /\ at[c] \in dirs
    BY <1>1, <2>2 DEF Sweep, Alone
  <2>4. Parent(at[c]) \in dirs /\ Parent(at[c]) # at[c]
    BY <1>1, <2>1, <2>3 DEF Closed, Parent, Dir
  <2> QED BY <1>2, <2>1, <2>2, <2>3, <2>4
<1>9. Outcome(c)'
  <2>1. CASE at[c] # Root
    BY <1>3, <2>1 DEF Outcome
  <2>2. CASE at[c] = Root
    <3>1. ASSUME step'[c] = "failed" PROVE ~alone'[c]
      BY <1>1, <1>3, <2>2, <3>1 DEF Sweep, Alone
    <3>2. ASSUME step'[c] = "ok" PROVE old'[c] = {}
      <4>1. Root \notin dirs'
        BY <1>3, <2>2, <3>2
      <4>2. \A e \in old'[c] : e # Root /\ Parent(e) \in old'[c]
        BY <1>4, <4>1
      <4>3. ASSUME NEW e \in old'[c] PROVE FALSE
        <5>1. Parent(e) # Root /\ Parent(Parent(e)) # Root
          BY <4>2
        <5> QED BY <5>1 DEF Parent
      <4> QED BY <4>3
    <3> QED BY <3>1, <3>2 DEF Outcome
  <2> QED BY <2>1, <2>2
<1> QED BY <1>5, <1>6, <1>7, <1>8, <1>9 DEF Sweep

LEMMA ProcsSweep ==
  ASSUME TypeOK, Closed, NEW c \in Cleaners, Sweep(c), Procs(c) PROVE Sweep(c)'
<1>0. CASE Leave(c, FALSE) /\ ~alone'[c]
  <2>1. /\ dirs' = dirs /\ UNCHANGED alive /\ step[c] = "procs" /\ listing'[c] = listing[c]
        /\ old'[c] = old[c]
    BY DEF Procs, system
  <2>2. old[c] = old[c] \cap dirs'
    BY <2>1 DEF Sweep, Found
  <2> QED BY <1>0, <2>1, <2>2, LeaveSweep DEF Rising
<1> SUFFICES ASSUME ~(Leave(c, FALSE) /\ ~alone'[c]) PROVE Sweep(c)'
  BY <1>0
<1>1. /\ dirs' = dirs /\ alive' = alive /\ old'[c] = old[c] /\ listing'[c] = listing[c]
      /\ alone'[c] = alone[c] /\ step[c] = "procs"
  BY DEF Procs, Refused, system, TypeOK
<1>2. CASE HasProcesses(at[c])
  <2>1. Leave(c, FALSE)
    BY <1>2 DEF Procs
  <2>2. ~alone[c]
    BY <1>1, <1>2 DEF Sweep, Alone, AtWork, HasProcesses
  <2>3. old[c] = old[c] \cap dirs'
    BY <1>1 DEF Sweep, Found
  <2> QED BY <1>1, <2>1, <2>2, <2>3, LeaveSweep DEF Rising
<1>3. CASE ~HasProcesses(at[c])
  <2>1. step'[c] = "rmdir" /\ at'[c] = at[c] /\ result'[c] = result[c]
    BY <1>3 DEF Procs, Refused, Step, TypeOK
  <2>2. Found(c)' /\ Placed(c)' /\ Alone(c)' /\ Outcome(c)'
    BY <1>1, <2>1 DEF Sweep, Found, Placed, Alone, Outcome, Rising, AtWork, Parent
  <2>3. Pending(c)'
    BY <1>1, <2>1 DEF Sweep, Pending, Ahead, Rising, AtWork, Parent
  <2> QED BY <2>2, <2>3 DEF Sweep
<1> QED BY <1>2, <1>3

LEMMA RmdirSweep ==
  ASSUME TypeOK, Closed, NEW c \in Cleaners, Sweep(c), CleanupRmdir(c) PROVE Sweep(c)'
<1>1. /\ step[c] = "rmdir" /\ UNCHANGED alive
      /\ Leave(c, Removable(at[c]) \/ Tolerated(at[c]))
  BY DEF CleanupRmdir
<1>2. (Removable(at[c]) \/ Tolerated(at[c])) \in BOOLEAN
  BY Zenon
<1>3. old[c] \subseteq dirs /\ at[c] \notin listing[c]
  BY <1>1 DEF Sweep, Found, Placed, AtWork
<1>4. CASE Removable(at[c])
  <2>1. RemoveDir(at[c], {c})
    BY <1>4 DEF CleanupRmdir
  <2>2. /\ dirs' = dirs \ {at[c]} /\ old'[c] = old[c] \cap dirs' /\ listing'[c] = listing[c]
    BY <1>3, <2>1 DEF RemoveDir
  <2>3. alone'[c] => alone[c]
    BY <2>1 DEF RemoveDir
  <2> QED BY <1>1, <1>2, <1>4, <2>2, <2>3, LeaveSweep DEF Rising
<1>5. CASE ~Removable(at[c])
  <2>1. UNCHANGED <<dirs, listing, old, alone>>
    BY <1>5 DEF CleanupRmdir
  <2>2. old'[c] = old[c] \cap dirs'
    BY <1>3, <2>1
  <2>3. Tolerated(at[c]) => at[c] \notin dirs'
    BY <2>1 DEF Tolerated
  <2>4. alone[c] => Removable(at[c])
    <3> SUFFICES ASSUME alone[c] PROVE Removable(at[c])
      OBVIOUS
    <3>1. result[c] /\ old[c] = dirs /\ alive = {} /\ at[c] \in dirs
      BY <1>1 DEF Sweep, Alone, AtWork
    <3>2. \A e \in dirs \ {Root} : Parent(e) # at[c]
      BY <1>1, <3>1 DEF Sweep, Pending, Rising, AtWork
    <3> QED BY <3>1, <3>2 DEF Removable, Children
  <2>5. ~alone'[c]
    BY <1>5, <2>1, <2>4
  <2> QED BY <1>1, <1>2, <1>5, <2>1, <2>2, <2>3, <2>5, LeaveSweep DEF Rising
<1> QED BY <1>4, <1>5

LEMMA KilledSweep ==
  ASSUME TypeOK, NEW c \in Cleaners, Sweep(c), CleanupKilled(c) PROVE Sweep(c)'
<1>1. step'[c] = "killed" /\ listing'[c] = {} /\ old'[c] = {}
  BY DEF CleanupKilled, Step, TypeOK
<1> QED BY <1>1 DEF Sweep, Found, Placed, Pending, Alone, Outcome, AtWork

Sweeps == \A c \in Cleaners : Sweep(c)

LEMMA SweepsStep ==
  ASSUME TypeOK, Closed, Sweeps, [Next]_vars PROVE Sweeps'
<1> SUFFICES ASSUME NEW c \in Cleaners PROVE Sweep(c)'
  BY DEF Sweeps
<1>0. Sweep(c)
  BY DEF Sweeps
<1>1. CASE \E r \in Runs : Run(r) \/ RunKilled(r)
  BY <1>0, <1>1, RunElsewhere, ElsewhereSweep
<1>2. CASE \E b \in Cleaners \ {c} : Cleanup(b) \/ CleanupKilled(b)
  BY <1>0, <1>2, CleanupElsewhere, ElsewhereSweep
<1>3. CASE Cleanup(c) \/ CleanupKilled(c)
  BY <1>0, <1>3, StatSweep, OpenSweep, ReadSweep, ProcsSweep, RmdirSweep, KilledSweep DEF Cleanup
<1>4. CASE UNCHANGED vars
  <2>1. Elsewhere(c)
    BY <1>4 DEF vars, system, cleanup, history, Elsewhere
  <2> QED BY <1>0, <2>1, ElsewhereSweep
<1> QED BY <1>1, <1>2, <1>3, <1>4 DEF Next

LEMMA SweepsInvariant == Spec => []Sweeps
<1>1. Init => Sweeps
  BY DEF Init, Sweeps, Sweep, Found, Placed, Pending, Alone, Outcome, AtWork
<1> QED BY <1>1, TreeClosed, SweepsStep, PTL DEF Spec

(* A cleanup that reports success has removed all that it found, whatever the runs   *)
(* and the other cleanups do meanwhile.                                           *)
THEOREM CleanupCompletes == Spec => []CleanupComplete
<1>1. Sweeps => CleanupComplete
  BY DEF Sweeps, Sweep, Outcome, CleanupComplete
<1> QED BY <1>1, SweepsInvariant, PTL

(* A cleanup that nobody disturbs does not fail.                                   *)
THEOREM AloneSucceeds == Spec => []FailureHasCause
<1>1. Sweeps => FailureHasCause
  BY DEF Sweeps, Sweep, Outcome, FailureHasCause
<1> QED BY <1>1, SweepsInvariant, PTL
--------------------------------------------------------------------------------
(* MeasuredUndisturbed, from what each run has made on its way down.                *)
Above(r) == {Root, Profile[r]}
Way(r) == r \notin undercut =>
    /\ pc[r] = "ctl_root" => Root \in dirs
    /\ pc[r] = "mkdir_profile" => Root \in subtree
    /\ pc[r] = "ctl_profile" => Root \in subtree /\ Profile[r] \in dirs
    /\ pc[r] = "mkdir_run" \/ r \in dirs => Above(r) \subseteq subtree

LEMMA RemoveDirWay ==
  ASSUME TypeOK, Closed, NEW r \in Runs, Way(r), NEW d, NEW by, Removable(d), RemoveDir(d, by),
         pc'[r] = pc[r] \/ pc'[r] \in {"ended", "rmdir_profile", "rmdir_root"}
  PROVE  Way(r)'
<1>1. dirs' = dirs \ {d} /\ subtree' = subtree \ {d}
  BY DEF RemoveDir
<1>2. r \notin undercut' => r \notin undercut /\ (Making(r) => d \notin Above(r))
  BY DEF RemoveDir, Above
<1>3. r \in dirs => d \notin Above(r)
  <2>1. \A e \in dirs \ {Root} : Parent(e) # d
    BY DEF Removable, Children
  <2>2. r \in dirs => Parent(r) = Profile[r] /\ Profile[r] \in dirs /\ Profile[r] # Root
                      /\ Parent(Profile[r]) = Root /\ r # Root
    BY DEF Closed, Parent
  <2> QED BY <2>1, <2>2 DEF Above
<1> QED BY <1>1, <1>2, <1>3 DEF Way, Above, Making

LEMMA WayStep ==
  ASSUME TypeOK, Closed, NEW r \in Runs, Way(r), [Next]_vars PROVE Way(r)'
<1>1. ASSUME NEW q \in Runs, EnsureDir(q) PROVE Way(r)'
  <2>1. UNCHANGED <<subtree, undercut>>
    BY <1>1 DEF EnsureDir, MakeDir
  <2>2. PICK w \in {"mkdir_root", "mkdir_profile", "mkdir_run"} : pc[q] = w
    BY <1>1 DEF EnsureDir
  <2>3. \/ dirs' = dirs \cup {Target(w, q)} /\ pc' = [pc EXCEPT ![q] = AfterMkdir(w)]
        \/ dirs' = dirs /\ pc' = [pc EXCEPT ![q] = "ended"]
    BY <1>1, <2>2 DEF EnsureDir, MakeDir, Goto
  <2>4. \/ w = "mkdir_root" /\ dirs' = dirs \cup {Root} /\ pc' = [pc EXCEPT ![q] = "ctl_root"]
        \/ w = "mkdir_profile" /\ dirs' = dirs \cup {Profile[q]}
           /\ pc' = [pc EXCEPT ![q] = "ctl_profile"]
        \/ w = "mkdir_run" /\ dirs' = dirs \cup {q} /\ pc' = [pc EXCEPT ![q] = "join"]
        \/ dirs' = dirs /\ pc' = [pc EXCEPT ![q] = "ended"]
    BY <2>3 DEF Target, AfterMkdir
  <2>5. CASE q = r
    BY <2>1, <2>2, <2>4, <2>5 DEF Way, Above, TypeOK
  <2>6. CASE q # r
    <3>1. pc'[r] = pc[r] /\ dirs \subseteq dirs' /\ (r \in dirs' => r \in dirs)
      BY <2>4, <2>6 DEF TypeOK
    <3> QED BY <2>1, <3>1 DEF Way, Above
  <2> QED BY <2>5, <2>6
<1>2. ASSUME NEW q \in Runs, EnableControllers(q) PROVE Way(r)'
  <2>1. UNCHANGED dirs /\ subtree \subseteq subtree' /\ undercut \subseteq undercut'
    BY <1>2 DEF EnableControllers, Enable
  <2>2. CASE q \in undercut'
    <3>1. q # r => pc'[r] = pc[r]
      BY <1>2 DEF EnableControllers, Goto, TypeOK
    <3> QED BY <2>1, <2>2, <3>1 DEF Way, Above
  <2>3. CASE q \notin undercut'
    <3>1. \/ pc[q] = "ctl_root" /\ pc' = [pc EXCEPT ![q] = "mkdir_profile"]
             /\ (Root \in dirs => Root \in subtree')
          \/ pc[q] = "ctl_profile" /\ pc' = [pc EXCEPT ![q] = "mkdir_run"]
             /\ (Profile[q] \in dirs /\ Root \in subtree => Profile[q] \in subtree')
      BY <1>2, <2>3 DEF EnableControllers, Enable, Offered, Goto, Parent
    <3> QED BY <2>1, <3>1 DEF Way, Above, TypeOK
  <2> QED BY <2>2, <2>3
<1>3. ASSUME NEW q \in Runs, Join(q) \/ EndRun(q) \/ ChildEnds(q) \/ RunKilled(q) PROVE Way(r)'
  <2>1. UNCHANGED <<dirs, subtree, undercut>>
    BY <1>3 DEF Join, EndRun, ChildEnds, RunKilled, system, history
  <2>2. pc'[r] = pc[r] \/ pc'[r] \in {"working", "rmdir_run", "ended"}
    BY <1>3 DEF Join, EndRun, ChildEnds, RunKilled, Goto, TypeOK
  <2> QED BY <2>1, <2>2 DEF Way, Above
<1>4. ASSUME NEW q \in Runs, RunRmdir(q) PROVE Way(r)'
  <2>1. pc'[r] = pc[r] \/ pc'[r] \in {"ended", "rmdir_profile", "rmdir_root"}
    BY <1>4 DEF RunRmdir, AfterRmdir, Goto, TypeOK
  <2>2. (\E d : Removable(d) /\ RemoveDir(d, {})) \/ UNCHANGED <<dirs, subtree, undercut>>
    BY <1>4 DEF RunRmdir
  <2> QED BY <2>1, <2>2, RemoveDirWay DEF Way, Above
<1>5. ASSUME NEW c \in Cleaners, Cleanup(c) \/ CleanupKilled(c) PROVE Way(r)'
  <2>1. UNCHANGED pc
    BY <1>5 DEF Cleanup, Stat, Open, Read, Procs, CleanupRmdir, CleanupKilled
  <2>2. \/ Removable(at[c]) /\ RemoveDir(at[c], {c})
        \/ UNCHANGED <<dirs, subtree, undercut>>
    BY <1>5 DEF Cleanup, Stat, Open, Read, Procs, CleanupRmdir, CleanupKilled, system
  <2> QED BY <2>1, <2>2, RemoveDirWay DEF Way, Above
<1>6. CASE UNCHANGED vars
  BY <1>6 DEF vars, system, history, Way, Above
<1> QED BY <1>1, <1>2, <1>3, <1>4, <1>5, <1>6 DEF Next, Run

(* Every workload that nobody undercut, and whose run did enable the controller, is  *)
(* measured: its cgroup exists and has the controller, whatever its neighbours do.  *)
THEOREM Measured == Spec => []MeasuredUndisturbed
<1> DEFINE Ways == \A r \in Runs : Way(r)
<1>1. Init => Ways
  BY DEF Init, Way
<1>2. TypeOK /\ Closed /\ Ways /\ [Next]_vars => Ways'
  BY WayStep
<1>3. TypeOK /\ Closed /\ Ways => MeasuredUndisturbed
  BY DEF TypeOK, Closed, Way, Above, MeasuredUndisturbed
<1> HIDE DEF Ways
<1> QED BY <1>1, <1>2, <1>3, TreeClosed, PTL DEF Spec
================================================================================
