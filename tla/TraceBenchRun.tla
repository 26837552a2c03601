----------------------------- MODULE TraceBenchRun -----------------------------
(* One `tracebench run` (extension/tracebench): the parent that makes the cgroup,*)
(* samples and cleans up, the workload child that it forks, the pipe that holds  *)
(* the child back until it is in the cgroup, the signals that may reach them at  *)
(* any step, and another user's `tracebench cleanup`.                            *)
(*                                                                             *)
(* Time is left out: a sleep, and the duration of the loop and of the workload,  *)
(* end at any moment.  Of the directories only the run directory is modelled.    *)
EXTENDS Integers

CONSTANTS MaxRows,     \* samples of a duration
          MaxLoad,     \* units of load counted
          MaxSignals   \* signals delivered to the parent

ASSUME RunAssumption ==
    MaxRows \in Nat /\ MaxLoad \in Nat /\ MaxSignals \in Nat

VARIABLES
    enabled,          \* cgroup->enabled: no --no-cgroup
    io,               \* the profile is io: the workload has a temporary file
    pc, result,       \* the parent: where tb_run_command is, and its exit status
    run_interrupted, active_child_pid, child_pid,   \* pids as "is set"
    pipe,             \* "none", "open", "byte" (written, then closed), "closed"
    child, child_ok, in_cgroup,   \* the child, its exit status, its cgroup
    run_dir, tmp, rows, summary,  \* run_path, tracebench_io.tmp, csv, summary.txt
    load,             \* units of load generated
    signals,          \* signals delivered so far
    stop_asked,       \* the child has received a SIGTERM
    cut               \* a signal ended a waitpid that is not retried

parent  == <<pc, result, run_interrupted, active_child_pid, child_pid>>
process == <<pipe, child, child_ok, in_cgroup, stop_asked>>
files   == <<run_dir, tmp, rows, summary>>
config  == <<enabled, io>>
vars    == <<config, parent, process, files, load, signals, cut>>

Init ==
    /\ enabled \in BOOLEAN /\ io \in BOOLEAN
    /\ pc = "setup" /\ result = 1
    /\ run_interrupted = FALSE /\ active_child_pid = FALSE /\ child_pid = FALSE
    /\ pipe = "none" /\ child = "none" /\ child_ok = FALSE /\ in_cgroup = FALSE
    /\ run_dir = FALSE /\ tmp = FALSE /\ rows = 0 /\ summary = FALSE
    /\ load = 0 /\ signals = 0 /\ stop_asked = FALSE /\ cut = FALSE

Live     == child \in {"start", "failing", "working"}
Handlers == pc \notin {"setup", "cgroup", "handlers", "exited", "killed"}
Ended    == pc \in {"exited", "killed"}
--------------------------------------------------------------------------------
(* tb_run_command up to the first fork.  Every early return leaves exit status 1.*)
Setup ==
    /\ pc = "setup"
    /\ pc' \in {"cgroup", "exited"}
    /\ UNCHANGED <<config, result, run_interrupted, active_child_pid, child_pid,
                   process, files, load, signals, cut>>

(* tb_cgroup_create.                                                            *)
CreateCgroup ==
    /\ pc = "cgroup"
    /\ \/ pc' = "handlers" /\ run_dir' = enabled
       \/ enabled /\ pc' = "exited" /\ UNCHANGED run_dir
    /\ UNCHANGED <<config, result, run_interrupted, active_child_pid, child_pid,
                   process, tmp, rows, summary, load, signals, cut>>

InstallHandlers ==
    /\ pc = "handlers"
    /\ pc' = "csv"
    /\ UNCHANGED <<config, result, run_interrupted, active_child_pid, child_pid,
                   process, files, load, signals, cut>>

OpenCsv ==
    /\ pc = "csv"
    /\ pc' \in {"fork", "cleanup"}
    /\ UNCHANGED <<config, result, run_interrupted, active_child_pid, child_pid,
                   process, files, load, signals, cut>>

(* pipe and fork.  The child closes its copy of the write end at once.           *)
Fork ==
    /\ pc = "fork"
    /\ \/ pc' = "add_pid" /\ pipe' = "open" /\ child' = "start"
       \/ pc' = "cleanup" /\ UNCHANGED <<pipe, child>>
    /\ UNCHANGED <<config, result, run_interrupted, active_child_pid, child_pid,
                   child_ok, in_cgroup, stop_asked, files, load, signals, cut>>
--------------------------------------------------------------------------------
(* What a SIGTERM or SIGINT does to the child.  It inherits the parent's handler  *)
(* (with no child of its own to kill), so that the signal only ends its blocking  *)
(* read of the start byte, when it is in it.                                     *)
ChildSignalled ==
    /\ stop_asked' = (stop_asked \/ Live)
    /\ \/ child = "start" /\ pipe = "open" /\ child' = "failing"
       \/ UNCHANGED child

(* The error paths of start_workload_child: SIGTERM, close, then waitpid.         *)
PipeOnError_Kept == "open"                    \* mutant: waitpid before the close
PipeOnError == "closed"
GiveUpStart ==
    /\ ChildSignalled
    /\ pipe' = PipeOnError
    /\ pc' = "reap_unstarted"

(* tb_cgroup_add_pid: it does nothing with --no-cgroup, and fails when the run    *)
(* directory is gone, or for another reason.                                    *)
Joins == enabled /\ Live
AddPid ==
    /\ pc = "add_pid"
    /\ \/ /\ enabled => run_dir
          /\ in_cgroup' = Joins
          /\ pc' = "signal"
          /\ UNCHANGED <<pipe, child, stop_asked>>
       \/ enabled /\ GiveUpStart /\ UNCHANGED in_cgroup
    /\ UNCHANGED <<config, result, run_interrupted, active_child_pid, child_pid,
                   child_ok, files, load, signals, cut>>

(* The write of the start byte.  A child that is gone, or has closed its end on   *)
(* the way out, makes it a SIGPIPE, or an error if the caller ignores SIGPIPE.    *)
SignalStart ==
    /\ pc = "signal"
    /\ \/ /\ child # "exited"
          /\ pipe' = "byte" /\ child_pid' = TRUE /\ pc' = "publish"
          /\ UNCHANGED <<child, stop_asked>>
       \/ /\ child \in {"failing", "exited"}
          /\ \/ pc' = "killed" /\ pipe' = "closed" /\ UNCHANGED <<child, stop_asked>>
             \/ GiveUpStart
          /\ UNCHANGED child_pid
    /\ UNCHANGED <<config, result, run_interrupted, active_child_pid,
                   child_ok, in_cgroup, files, load, signals, cut>>

PublishChild ==
    /\ pc = "publish"
    /\ active_child_pid' = TRUE
    /\ pc' = "loop"
    /\ UNCHANGED <<config, result, run_interrupted, child_pid, process, files, load,
                   signals, cut>>
--------------------------------------------------------------------------------
(* run_sampling_loop returns: interrupted, or a row failed, or the time is up.    *)
LoopFails ==
    /\ ChildSignalled
    /\ pc' = "cleanup"

LoopReturns == IF run_interrupted THEN LoopFails
                                  ELSE pc' = "wait" /\ UNCHANGED <<child, stop_asked>>

LoopHead ==
    /\ pc = "loop"
    /\ \/ LoopReturns                                         \* or the time is up
       \/ /\ ~run_interrupted /\ rows < MaxRows
          /\ pc' = "row" /\ UNCHANGED <<child, stop_asked>>
    /\ UNCHANGED <<config, result, run_interrupted, active_child_pid, child_pid,
                   pipe, child_ok, in_cgroup, files, load, signals, cut>>

(* One sample, which fails for sure when the cgroup files are gone.               *)
SampleRow ==
    /\ pc = "row"
    /\ \/ /\ enabled => run_dir
          /\ rows' = rows + 1
          /\ \/ pc' = "sleep" /\ UNCHANGED <<child, stop_asked>>
             \/ LoopReturns                                   \* sleep_ms <= 0
       \/ LoopFails /\ UNCHANGED rows
    /\ UNCHANGED <<config, result, run_interrupted, active_child_pid, child_pid,
                   pipe, child_ok, in_cgroup, run_dir, tmp, summary, load, signals, cut>>

SleepEnds ==
    /\ pc = "sleep"
    /\ pc' = "loop"
    /\ UNCHANGED <<config, result, run_interrupted, active_child_pid, child_pid,
                   process, files, load, signals, cut>>

WaitReturns_Nohang == child # "none"          \* mutant: WNOHANG
WaitReturns == child \in {"exited", "reaped"}
Reaped == IF child = "exited" THEN "reaped" ELSE child

(* wait_for_child and the success path.  A child that was waited for but failed   *)
(* is handed to the cleanup, its pid still set.                                  *)
ChildSucceeded_Unchecked == TRUE              \* mutant: status not looked at
ChildSucceeded == child_ok
WaitForChild ==
    /\ pc = "wait"
    /\ WaitReturns
    /\ child' = Reaped
    /\ pc' = "cleanup"
    /\ IF ~run_interrupted /\ ChildSucceeded
       THEN child_pid' = FALSE /\ active_child_pid' = FALSE /\ result' = 0
       ELSE UNCHANGED <<child_pid, active_child_pid, result>>
    /\ UNCHANGED <<config, run_interrupted, pipe, child_ok, in_cgroup, stop_asked,
                   files, load, signals, cut>>
--------------------------------------------------------------------------------
Cleanup ==
    /\ pc = "cleanup"
    /\ IF child_pid THEN pc' = "reap" /\ ChildSignalled
                    ELSE pc' = "remove" /\ UNCHANGED <<child, stop_asked>>
    /\ UNCHANGED <<config, result, run_interrupted, active_child_pid, child_pid,
                   pipe, child_ok, in_cgroup, files, load, signals, cut>>

(* The two waitpid calls without a retry; the first returns to the cleanup label.  *)
AfterReap ==
    IF pc = "reap" THEN pc' = "remove" /\ active_child_pid' = FALSE
                   ELSE pc' = "cleanup" /\ UNCHANGED active_child_pid

Reap ==
    /\ pc \in {"reap", "reap_unstarted"}
    /\ WaitReturns
    /\ child' = Reaped
    /\ AfterReap
    /\ UNCHANGED <<config, result, run_interrupted, child_pid, pipe, child_ok, in_cgroup,
                   stop_asked, files, load, signals, cut>>

(* tb_cgroup_remove_run: rmdir refuses a cgroup with a live process.              *)
Busy == in_cgroup /\ Live
RemoveRun ==
    /\ pc = "remove"
    /\ LET removed == run_dir /\ ~Busy
       IN  /\ run_dir' = (run_dir /\ Busy)
           /\ IF result = 0 /\ (enabled => removed)
              THEN pc' = "summary" /\ UNCHANGED result
              ELSE pc' = "exited" /\ result' = 1
    /\ UNCHANGED <<config, run_interrupted, active_child_pid, child_pid, process, tmp,
                   rows, summary, load, signals, cut>>

(* tb_write_summary_file needs a sample.                                         *)
WriteSummary ==
    /\ pc = "summary"
    /\ pc' = "exited"
    /\ \/ rows > 0 /\ summary' = TRUE /\ UNCHANGED result
       \/ result' = 1 /\ UNCHANGED summary
    /\ UNCHANGED <<config, run_interrupted, active_child_pid, child_pid, process,
                   run_dir, tmp, rows, load, signals, cut>>

Parent ==
    \/ Setup \/ CreateCgroup \/ InstallHandlers \/ OpenCsv \/ Fork \/ AddPid
    \/ SignalStart \/ PublishChild \/ LoopHead \/ SampleRow \/ SleepEnds
    \/ WaitForChild \/ Cleanup \/ Reap \/ RemoveRun \/ WriteSummary
--------------------------------------------------------------------------------
(* A SIGINT or SIGTERM for the parent, or (group) for parent and child at once.   *)
(* Before the handlers are installed it kills.  A handler passes it on to the     *)
(* child it knows of, and may cut a waitpid short that has a child to wait for.   *)
SignalParent(group) ==
    /\ ~Ended /\ signals < MaxSignals
    /\ signals' = signals + 1
    /\ IF ~Handlers
       THEN /\ pc' = "killed"
            /\ UNCHANGED <<run_interrupted, active_child_pid, child, stop_asked, cut>>
       ELSE /\ run_interrupted' = TRUE
            /\ IF active_child_pid \/ group THEN ChildSignalled
                                            ELSE UNCHANGED <<child, stop_asked>>
            /\ \/ UNCHANGED <<pc, active_child_pid, cut>>
               \/ /\ pc \in {"reap", "reap_unstarted"} /\ Live
                  /\ AfterReap
                  /\ cut' = TRUE
    /\ UNCHANGED <<config, result, child_pid, pipe, child_ok, in_cgroup, files, load>>

(* The parent is killed outright.  The kernel closes its end of the pipe.         *)
ParentKilled ==
    /\ ~Ended
    /\ pc' = "killed"
    /\ pipe' = IF pipe = "open" THEN "closed" ELSE pipe
    /\ UNCHANGED <<config, result, run_interrupted, active_child_pid, child_pid, child,
                   child_ok, in_cgroup, stop_asked, files, load, signals, cut>>

(* `tracebench cleanup` from another shell: it takes an empty run directory and    *)
(* any temporary file away.                                                     *)
OtherCleanup ==
    /\ (run_dir /\ ~Busy) \/ tmp
    /\ run_dir' = (run_dir /\ Busy)
    /\ tmp' = FALSE
    /\ UNCHANGED <<config, parent, process, rows, summary, load, signals, cut>>
--------------------------------------------------------------------------------
(* The child: wait_for_start_signal returns on the byte or on end of file.        *)
StartReceived_AnyReturn == pipe # "open"      \* mutant: read's result not looked at
StartReceived == pipe = "byte"
ChildStarts ==
    /\ child = "start" /\ pipe # "open"
    /\ child' = IF StartReceived THEN "working" ELSE "failing"
    /\ UNCHANGED <<config, parent, pipe, child_ok, in_cgroup, stop_asked, files, load,
                   signals, cut>>

ChildWorks ==
    /\ child = "working" /\ load < MaxLoad
    /\ load' = load + 1
    /\ tmp' = io
    /\ UNCHANGED <<config, parent, process, run_dir, rows, summary, signals, cut>>

(* The duration is over: the exit status is 1 when something went wrong, as the    *)
(* removal of the temporary file may.                                           *)
ChildFinishes ==
    /\ child = "working"
    /\ child' = "exited"
    /\ \/ child_ok' = TRUE /\ tmp' = FALSE
       \/ child_ok' = FALSE /\ tmp' \in {FALSE, tmp}
    /\ UNCHANGED <<config, parent, pipe, in_cgroup, stop_asked, run_dir, rows, summary,
                   load, signals, cut>>

ChildFails ==
    /\ child = "failing"
    /\ child' = "exited"
    /\ UNCHANGED <<config, parent, pipe, child_ok, in_cgroup, stop_asked, files, load,
                   signals, cut>>

(* The child is killed outright, by the OOM killer for one.                       *)
ChildKilled ==
    /\ Live
    /\ child' = "exited"
    /\ UNCHANGED <<config, parent, pipe, child_ok, in_cgroup, stop_asked, files, load,
                   signals, cut>>

Child == ChildStarts \/ ChildWorks \/ ChildFinishes \/ ChildFails

Next ==
    \/ Parent \/ Child
    \/ \E group \in BOOLEAN : SignalParent(group)
    \/ ParentKilled \/ ChildKilled \/ OtherCleanup

(* The kernel schedules both processes; the workload's duration ends.             *)
Fairness ==
    /\ WF_vars(Parent)
    /\ WF_vars(ChildStarts \/ ChildFinishes \/ ChildFails)

Spec == Init /\ [][Next]_vars /\ Fairness
--------------------------------------------------------------------------------
(* Types; a child without a cgroup run belongs to no cgroup, and the handler only  *)
(* knows a child that was started.                                              *)
TypeOK ==
    /\ enabled \in BOOLEAN /\ io \in BOOLEAN
    /\ pc \in {"setup", "cgroup", "handlers", "csv", "fork", "add_pid", "signal",
               "publish", "loop", "row", "sleep", "wait", "cleanup", "reap",
               "reap_unstarted", "remove", "summary", "exited", "killed"}
    /\ result \in {0, 1}
    /\ run_interrupted \in BOOLEAN /\ active_child_pid \in BOOLEAN
    /\ child_pid \in BOOLEAN /\ (active_child_pid => child_pid)
    /\ pipe \in {"none", "open", "byte", "closed"}
    /\ child \in {"none", "start", "failing", "working", "exited", "reaped"}
    /\ child_ok \in BOOLEAN
    /\ in_cgroup \in BOOLEAN /\ (in_cgroup => enabled)
    /\ run_dir \in BOOLEAN /\ tmp \in BOOLEAN /\ summary \in BOOLEAN
    /\ rows \in 0..MaxRows /\ load \in 0..MaxLoad /\ signals \in 0..MaxSignals
    /\ stop_asked \in BOOLEAN /\ cut \in BOOLEAN

(* The pipe keeps its promise (workload.c:3-5, docs/TECHv2.md:244): no load is     *)
(* generated before the child is in the run's cgroup, and none at all by a child  *)
(* whose parent gave up or died before it said so.                              *)
LoadIsMeasured ==
    child = "working" => (enabled => in_cgroup) /\ pipe = "byte"

(* Exit status 0 means a complete run: the workload exited with 0 and is reaped,   *)
(* there are samples and a summary, and neither the run's cgroup nor the temporary *)
(* file is left, whatever the signals and the other cleanup did meanwhile.        *)
SuccessIsComplete ==
    pc = "exited" /\ result = 0 =>
        /\ child = "reaped" /\ child_ok
        /\ rows > 0 /\ summary
        /\ ~run_dir /\ ~tmp

(* A parent that exits, for whatever reason, has reaped its child and removed the  *)
(* run's cgroup, unless a signal cut short one of the waitpid calls that are not  *)
(* retried (report.c:465, 472 and 540).                                         *)
NothingLeftBehind ==
    pc = "exited" /\ ~cut => child \in {"none", "reaped"} /\ ~run_dir

(* Parent and child never wait for each other: both come to an end.               *)
Termination == <>[](Ended /\ ~Live)

(* What report.c:384 and docs/TECHv2.md:159 say of an interrupted run: the cleanup *)
(* stops the workload and soon has it back.  While the cleanup waits for a child   *)
(* that has received its SIGTERM, no more load is generated.                      *)
StopMeansStop == [][pc = "reap" /\ run_interrupted /\ stop_asked => load' = load]_vars
================================================================================
