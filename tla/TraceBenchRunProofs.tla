-------------------------- MODULE TraceBenchRunProofs --------------------------
(* What every run of `tracebench run` satisfies, for any number of samples, units *)
(* of load and signals.                                                         *)
EXTENDS TraceBenchRun, TLAPS

(* TypeOK in two halves: the Booleans, and the rest.                             *)
Flags ==
    /\ enabled \in BOOLEAN /\ io \in BOOLEAN
    /\ run_interrupted \in BOOLEAN /\ active_child_pid \in BOOLEAN /\ child_pid \in BOOLEAN
    /\ child_ok \in BOOLEAN /\ in_cgroup \in BOOLEAN
    /\ run_dir \in BOOLEAN /\ tmp \in BOOLEAN /\ summary \in BOOLEAN
    /\ stop_asked \in BOOLEAN /\ cut \in BOOLEAN

States ==
    /\ pc \in {"setup", "cgroup", "handlers", "csv", "fork", "add_pid", "signal",
               "publish", "loop", "row", "sleep", "wait", "cleanup", "reap",
               "reap_unstarted", "remove", "summary", "exited", "killed"}
    /\ result \in {0, 1}
    /\ active_child_pid => child_pid
    /\ pipe \in {"none", "open", "byte", "closed"}
    /\ child \in {"none", "start", "failing", "working", "exited", "reaped"}
    /\ in_cgroup => enabled
    /\ pc = "row" => rows < MaxRows
    /\ rows \in 0..MaxRows /\ load \in 0..MaxLoad /\ signals \in 0..MaxSignals

LEMMA TypeHalves == Flags /\ States => TypeOK
BY DEF TypeOK, Flags, States

(* The pipe: it is open while the parent is between the fork and the start byte,  *)
(* the byte is only written for a child that has joined the cgroup, and only the  *)
(* byte makes a child work.                                                     *)
PipeInv ==
    /\ pc \in {"setup", "cgroup", "handlers", "csv", "fork"} => child = "none"
    /\ child = "none" <=> pipe = "none"
    /\ pipe = "open" <=> pc \in {"add_pid", "signal"}
    /\ child = "working" => pipe = "byte"
    /\ Live /\ enabled /\ (pc = "signal" \/ pipe = "byte") => in_cgroup

(* Which child the parent still has to reap, and until when the run directory may *)
(* be there.                                                                    *)
CleanupInv ==
    /\ pc \in {"publish", "loop", "row", "sleep", "wait", "reap"} =>
           child_pid /\ child # "none"
    /\ child_pid => child # "none"
    /\ pc \in {"setup", "cgroup", "handlers", "csv", "fork", "add_pid", "signal"} => ~child_pid
    /\ pc = "reap_unstarted" => ~child_pid /\ child # "none"
    /\ ~cut /\ (pc \in {"remove", "summary", "exited"} \/ (pc = "cleanup" /\ ~child_pid))
           => child \in {"none", "reaped"}
    /\ pc \in {"setup", "cgroup", "summary"} => ~run_dir
    /\ pc = "exited" /\ ~cut => ~run_dir
    /\ run_dir => enabled

(* What exit status 0 rests on.                                                 *)
SuccessInv ==
    /\ child_ok => child \in {"exited", "reaped"} /\ ~tmp
    /\ result = 0 => /\ pc \in {"cleanup", "remove", "summary", "exited", "killed"}
                     /\ ~child_pid /\ child = "reaped" /\ child_ok
    /\ pc = "summary" => result = 0
    /\ pc = "exited" /\ result = 0 => rows > 0 /\ summary /\ ~run_dir

IInv == States /\ PipeInv /\ CleanupInv /\ SuccessInv

LEMMA InitInv == Init => Flags /\ IInv
<1>1. Init => Flags
  BY DEF Init, Flags
<1>2. Init => States
  BY RunAssumption, SMT DEF Init, States
<1>3. Init => PipeInv /\ CleanupInv /\ SuccessInv
  BY DEF Init, PipeInv, CleanupInv, SuccessInv, Live
<1> QED
  BY <1>1, <1>2, <1>3 DEF IInv

(* The Booleans stay Booleans.                                                  *)
LEMMA ParentKeepsFlags == Flags /\ Parent => Flags'
<1> SUFFICES ASSUME Flags, Parent PROVE Flags'
  OBVIOUS
<1> USE DEF Flags, Live, config, process, files
<1>1. CASE Setup
  BY <1>1 DEF Setup
<1>2. CASE CreateCgroup
  BY <1>2 DEF CreateCgroup
<1>3. CASE InstallHandlers
  BY <1>3 DEF InstallHandlers
<1>4. CASE OpenCsv
  BY <1>4 DEF OpenCsv
<1>5. CASE Fork
  BY <1>5 DEF Fork
<1>6. CASE AddPid
  BY <1>6 DEF AddPid, Joins, GiveUpStart, ChildSignalled
<1>7. CASE SignalStart
  <2>1. UNCHANGED <<config, run_interrupted, active_child_pid, child_ok, in_cgroup, files, cut>>
    BY <1>7 DEF SignalStart
  <2>2. child_pid' \in BOOLEAN /\ stop_asked' \in BOOLEAN
    BY <1>7 DEF SignalStart, GiveUpStart, ChildSignalled
  <2> QED
    BY <2>1, <2>2
<1>8. CASE PublishChild
  BY <1>8 DEF PublishChild
<1>9. CASE LoopHead
  BY <1>9 DEF LoopHead, LoopReturns, LoopFails, ChildSignalled
<1>10. CASE SampleRow
  <2>1. UNCHANGED <<config, run_interrupted, active_child_pid, child_pid, child_ok, in_cgroup,
                    run_dir, tmp, summary, cut>>
    BY <1>10 DEF SampleRow
  <2>2. stop_asked' \in BOOLEAN
    BY <1>10 DEF SampleRow, LoopReturns, LoopFails, ChildSignalled
  <2> QED
    BY <2>1, <2>2
<1>11. CASE SleepEnds
  BY <1>11 DEF SleepEnds
<1>12. CASE WaitForChild
  BY <1>12 DEF WaitForChild, WaitReturns, Reaped, ChildSucceeded
<1>13. CASE Cleanup
  BY <1>13 DEF Cleanup, ChildSignalled
<1>14. CASE Reap
  BY <1>14 DEF Reap, WaitReturns, Reaped, AfterReap
<1>15. CASE RemoveRun
  BY <1>15 DEF RemoveRun, Busy
<1>16. CASE WriteSummary
  <2>1. UNCHANGED <<config, run_interrupted, active_child_pid, child_pid, process, run_dir,
                    tmp, cut>>
    BY <1>16 DEF WriteSummary
  <2>2. summary' \in BOOLEAN
    BY <1>16 DEF WriteSummary
  <2> QED
    BY <2>1, <2>2
<1> QED
  BY <1>1, <1>2, <1>3, <1>4, <1>5, <1>6, <1>7, <1>8, <1>9, <1>10, <1>11, <1>12,
     <1>13, <1>14, <1>15, <1>16 DEF Parent

LEMMA OthersKeepFlags ==
    Flags /\ (\/ Child \/ \E group \in BOOLEAN : SignalParent(group)
             \/ ParentKilled \/ ChildKilled \/ OtherCleanup \/ UNCHANGED vars) => Flags'
<1> SUFFICES ASSUME Flags,
                    \/ Child \/ \E group \in BOOLEAN : SignalParent(group)
                    \/ ParentKilled \/ ChildKilled \/ OtherCleanup \/ UNCHANGED vars
             PROVE  Flags'
  OBVIOUS
<1> USE DEF Flags, Live, Ended, config, parent,
            process, files
<1>1. CASE ChildStarts
  BY <1>1 DEF ChildStarts, StartReceived
<1>2. CASE ChildWorks
  BY <1>2 DEF ChildWorks
<1>3. CASE ChildFinishes
  BY <1>3 DEF ChildFinishes
<1>4. CASE ChildFails
  BY <1>4 DEF ChildFails
<1>5. ASSUME NEW group \in BOOLEAN, SignalParent(group) PROVE Flags'
  <2>1. CASE ~Handlers
    BY <1>5, <2>1, RunAssumption DEF SignalParent, Handlers
  <2>2. CASE Handlers /\ UNCHANGED <<pc, active_child_pid, cut>>
    BY <1>5, <2>2, RunAssumption DEF SignalParent, Handlers, ChildSignalled
  <2>3. CASE Handlers /\ cut' = TRUE /\ Live /\ AfterReap /\ pc \in {"reap", "reap_unstarted"}
    BY <1>5, <2>3, RunAssumption DEF SignalParent, Handlers, ChildSignalled, AfterReap
  <2> QED
    BY <1>5, <2>1, <2>2, <2>3 DEF SignalParent
<1>6. CASE ParentKilled
  BY <1>6 DEF ParentKilled
<1>7. CASE ChildKilled
  BY <1>7 DEF ChildKilled
<1>8. CASE OtherCleanup
  BY <1>8 DEF OtherCleanup, Busy
<1>9. CASE UNCHANGED vars
  BY <1>9 DEF vars
<1> QED
  BY <1>1, <1>2, <1>3, <1>4, <1>5, <1>6, <1>7, <1>8, <1>9 DEF Child

(* All that a signal does to the child, as far as the invariant is concerned.      *)
LEMMA SignalledChild ==
    ChildSignalled => \/ child' = child
                      \/ child = "start" /\ pipe = "open" /\ child' = "failing"
BY DEF ChildSignalled

(* The steps of the parent keep the invariant.                                   *)
LEMMA ParentKeepsInv == IInv /\ Parent => IInv'
<1> SUFFICES ASSUME IInv, Parent PROVE IInv'
  OBVIOUS
<1> USE DEF IInv, States, PipeInv, CleanupInv, SuccessInv, Live, config, process, files
<1>1. CASE Setup
  BY <1>1 DEF Setup
<1>2. CASE CreateCgroup
  BY <1>2 DEF CreateCgroup
<1>3. CASE InstallHandlers
  BY <1>3 DEF InstallHandlers
<1>4. CASE OpenCsv
  BY <1>4 DEF OpenCsv
<1>5. CASE Fork
  BY <1>5 DEF Fork
<1>6. CASE AddPid
  <2>1. CASE (enabled => run_dir) /\ in_cgroup' = Joins /\ pc' = "signal"
                /\ UNCHANGED <<pipe, child>>
    <3>1. in_cgroup' <=> enabled /\ Live
      BY <2>1 DEF Joins
    <3> QED
      BY <1>6, <2>1, <3>1 DEF AddPid
  <2>2. CASE GiveUpStart /\ UNCHANGED in_cgroup
    BY <1>6, <2>2, SignalledChild DEF AddPid, GiveUpStart, PipeOnError
  <2> QED
    BY <1>6, <2>1, <2>2 DEF AddPid
<1>7. CASE SignalStart
  <2>1. CASE child # "exited" /\ pipe' = "byte" /\ child_pid' = TRUE /\ pc' = "publish"
                /\ UNCHANGED child
    BY <1>7, <2>1 DEF SignalStart
  <2>2. CASE pc' = "killed" /\ pipe' = "closed" /\ UNCHANGED <<child, child_pid>>
    BY <1>7, <2>2 DEF SignalStart
  <2>3. CASE GiveUpStart /\ UNCHANGED child_pid
    BY <1>7, <2>3, SignalledChild DEF SignalStart, GiveUpStart, PipeOnError
  <2> QED
    BY <1>7, <2>1, <2>2, <2>3 DEF SignalStart
<1>8. CASE PublishChild
  BY <1>8 DEF PublishChild
<1>9. CASE LoopHead
  BY <1>9, SignalledChild DEF LoopHead, LoopReturns, LoopFails
<1>10. CASE SampleRow
  <2>1. rows' = rows \/ (rows' = rows + 1 /\ rows < MaxRows)
    BY <1>10, SMT DEF SampleRow
  <2>2. \/ pc' \in {"sleep", "wait"} /\ child' = child
        \/ pc' = "cleanup" /\ ChildSignalled
    BY <1>10 DEF SampleRow, LoopReturns, LoopFails
  <2>3. UNCHANGED <<config, result, run_interrupted, active_child_pid, child_pid, pipe, child_ok,
                    in_cgroup, run_dir, tmp, summary, load, signals, cut>>
    BY <1>10 DEF SampleRow
  <2> QED
    BY <1>10, <2>1, <2>2, <2>3, SignalledChild, RunAssumption DEF SampleRow
<1>11. CASE SleepEnds
  BY <1>11 DEF SleepEnds
<1>12. CASE WaitForChild
  BY <1>12 DEF WaitForChild, WaitReturns, Reaped, ChildSucceeded
<1>13. CASE Cleanup
  <2>1. CASE child_pid
    BY <1>13, <2>1, SignalledChild DEF Cleanup
  <2>2. CASE ~child_pid
    BY <1>13, <2>2 DEF Cleanup
  <2> QED
    BY <2>1, <2>2
<1>14. CASE Reap
  BY <1>14 DEF Reap, WaitReturns, Reaped, AfterReap
<1>15. CASE RemoveRun
  <2>1. run_dir' => run_dir /\ in_cgroup /\ Live
    BY <1>15 DEF RemoveRun, Busy
  <2>2. CASE pc' = "summary" /\ UNCHANGED result
    BY <1>15, <2>1, <2>2 DEF RemoveRun, Busy
  <2>3. CASE pc' = "exited" /\ result' = 1
    BY <1>15, <2>1, <2>3 DEF RemoveRun
  <2> QED
    BY <1>15, <2>2, <2>3 DEF RemoveRun
<1>16. CASE WriteSummary
  BY <1>16 DEF WriteSummary
<1> QED
  BY <1>1, <1>2, <1>3, <1>4, <1>5, <1>6, <1>7, <1>8, <1>9, <1>10, <1>11, <1>12,
     <1>13, <1>14, <1>15, <1>16 DEF Parent

(* And so do those of the child, of the signals and of the other processes.       *)
LEMMA OthersKeepInv ==
    IInv /\ (\/ Child \/ \E group \in BOOLEAN : SignalParent(group)
             \/ ParentKilled \/ ChildKilled \/ OtherCleanup \/ UNCHANGED vars) => IInv'
<1> SUFFICES ASSUME IInv,
                    \/ Child \/ \E group \in BOOLEAN : SignalParent(group)
                    \/ ParentKilled \/ ChildKilled \/ OtherCleanup \/ UNCHANGED vars
             PROVE  IInv'
  OBVIOUS
<1> USE DEF IInv, States, PipeInv, CleanupInv, SuccessInv, Live, Ended, config, parent,
            process, files
<1>1. CASE ChildStarts
  BY <1>1 DEF ChildStarts, StartReceived
<1>2. CASE ChildWorks
  BY <1>2, RunAssumption DEF ChildWorks
<1>3. CASE ChildFinishes
  BY <1>3 DEF ChildFinishes
<1>4. CASE ChildFails
  BY <1>4 DEF ChildFails
<1>5. ASSUME NEW group \in BOOLEAN, SignalParent(group) PROVE IInv'
  <2>1. CASE ~Handlers
    BY <1>5, <2>1, RunAssumption DEF SignalParent, Handlers
  <2>2. CASE Handlers /\ UNCHANGED <<pc, active_child_pid, cut>>
    BY <1>5, <2>2, SignalledChild, RunAssumption DEF SignalParent, Handlers
  <2>3. CASE Handlers /\ cut' = TRUE /\ Live /\ AfterReap /\ pc \in {"reap", "reap_unstarted"}
    BY <1>5, <2>3, SignalledChild, RunAssumption DEF SignalParent, Handlers, AfterReap
  <2> QED
    BY <1>5, <2>1, <2>2, <2>3 DEF SignalParent
<1>6. CASE ParentKilled
  BY <1>6, SignalledChild DEF ParentKilled
<1>7. CASE ChildKilled
  BY <1>7 DEF ChildKilled
<1>8. CASE OtherCleanup
  <2>1. (run_dir' => run_dir) /\ ~tmp'
    BY <1>8 DEF OtherCleanup
  <2>2. UNCHANGED <<config, parent, process, rows, summary, load, signals, cut>>
    BY <1>8 DEF OtherCleanup
  <2> QED
    BY <2>1, <2>2
<1>9. CASE UNCHANGED vars
  BY <1>9 DEF vars
<1> QED
  BY <1>1, <1>2, <1>3, <1>4, <1>5, <1>6, <1>7, <1>8, <1>9 DEF Child

LEMMA StepInv == Flags /\ IInv /\ [Next]_vars => Flags' /\ IInv'
BY ParentKeepsFlags, OthersKeepFlags, ParentKeepsInv, OthersKeepInv DEF Next

LEMMA RunInvariant == Spec => [](Flags /\ IInv)
BY InitInv, StepInv, PTL DEF Spec

(* The state of the two processes is always well formed; in particular the signal *)
(* handler never knows a child that was not started.                             *)
THEOREM TypeCorrect == Spec => []TypeOK
<1>1. Flags /\ IInv => TypeOK
  BY TypeHalves DEF IInv
<1> QED
  BY <1>1, RunInvariant, PTL

(* No load is generated outside the cgroup of the run, whatever fails or dies.    *)
THEOREM LoadAlwaysMeasured == Spec => []LoadIsMeasured
<1>1. IInv => LoadIsMeasured
  BY DEF IInv, PipeInv, LoadIsMeasured, Live
<1> QED
  BY <1>1, RunInvariant, PTL

(* Exit status 0 is only returned by a complete run.                             *)
THEOREM SuccessAlwaysComplete == Spec => []SuccessIsComplete
<1>1. IInv => SuccessIsComplete
  BY DEF IInv, SuccessInv, SuccessIsComplete
<1> QED
  BY <1>1, RunInvariant, PTL

(* A child or a run directory stays behind an exit only after a cut waitpid.      *)
THEOREM LeavesNothingBehind == Spec => []NothingLeftBehind
<1>1. IInv => NothingLeftBehind
  BY DEF IInv, CleanupInv, NothingLeftBehind
<1> QED
  BY <1>1, RunInvariant, PTL
================================================================================
