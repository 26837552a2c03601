--------------------------------- MODULE Monitor ---------------------------------
(* The kernel module oslab_monitor and its command oslabctl: the module creates    *)
(* and removes its nodes under /proc one at a time while oslabctl processes stat,   *)
(* open, write and read them, and all of them share one target_pid.                *)
EXTENDS Integers, FiniteSets, Sequences

CONSTANTS Clients,   \* processes that use the nodes
          Shells,    \* those among them that do without oslabctl (echo, cat)
          Pids,      \* process numbers
          MaxLoads   \* how often the module is loaded

ASSUME MonitorAssumption == Shells \subseteq Clients /\ Pids \subseteq Nat /\ 1 \in Pids /\ 0 \notin Pids /\ MaxLoads \in Nat \ {0}

VARIABLES
    module,       \* "out", "init", "in" or "removing"
    step,         \* node that oslab_monitor_init creates next
    entries,      \* proc nodes that exist
    loads,
    target_pid,
    pc, command,  \* of each client
    opened,       \* the load of the module whose node the client has open
    pid,          \* local copy in pid_show
    task,         \* whose task pid_show holds a reference to, 0 for none
    shown,        \* what oslabctl printed: the pid line and whose details follow
    since         \* history: the targets there have been since the client's write

vars == <<module, step, entries, loads, target_pid, pc, command, opened, pid, task, shown, since>>
kernel == <<module, step, entries, loads>>

Nodes == <<"dir", "overview", "tasks", "pid">>
Commands == {[node |-> "overview"], [node |-> "tasks"]} \cup [node : {"pid"}, arg : Pids \cup {0}]

(* Where a client goes on to read: oslabctl calls ensure_module_loaded first.       *)
ToRead(c) == IF c \in Shells THEN "open_r" ELSE "stat_r"

Init ==
    /\ module = "out" /\ step = 1 /\ entries = {} /\ loads = 0
    /\ target_pid = 1
    /\ command \in [Clients -> Commands]
    /\ pc = [c \in Clients |-> IF command[c].node = "pid"
                               THEN IF c \in Shells THEN "open_w" ELSE "parse"
                               ELSE ToRead(c)]
    /\ opened = [c \in Clients |-> 0]
    /\ pid = [c \in Clients |-> 0]
    /\ task = [c \in Clients |-> 0]
    /\ shown = [c \in Clients |-> [pid |-> 0, task |-> 0]]
    /\ since = [c \in Clients |-> {}]

(* A new target enters the history of every client that has written its own.       *)
Retarget(p) ==
    /\ target_pid' = p
    /\ since' = [c \in Clients |-> IF since[c] = {} THEN {} ELSE since[c] \cup {p}]
--------------------------------------------------------------------------------
(* insmod: oslab_monitor_init on a fresh image of the module.                     *)
Insmod ==
    /\ module = "out" /\ loads < MaxLoads
    /\ module' = "init" /\ step' = 1 /\ loads' = loads + 1
    /\ Retarget(1)
    /\ UNCHANGED <<entries, pc, command, opened, pid, task, shown>>

(* A failing proc_mkdir ends it at once, a failing proc_create only after the last. *)
CreateNode ==
    /\ module = "init" /\ step <= Len(Nodes)
    /\ step' = step + 1
    /\ \/ entries' = entries \cup {Nodes[step]} /\ UNCHANGED module
       \/ /\ UNCHANGED entries
          /\ module' = IF step = 1 THEN "out" ELSE module
    /\ UNCHANGED <<loads, target_pid, pc, command, opened, pid, task, shown, since>>

AfterCreation_NoRollback == "in"   \* mutant: nodes that failed are not noticed
AfterCreation == IF Cardinality(entries) = Len(Nodes) THEN "in" ELSE "removing"

CheckNodes ==
    /\ module = "init" /\ step > Len(Nodes)
    /\ module' = AfterCreation
    /\ UNCHANGED <<step, entries, loads, target_pid, pc, command, opened, pid, task, shown, since>>

Rmmod ==
    /\ module = "in"
    /\ module' = "removing"
    /\ UNCHANGED <<step, entries, loads, target_pid, pc, command, opened, pid, task, shown, since>>

(* remove_proc_entries, last node first. proc_remove waits for the readers that     *)
(* are inside the node's show function.                                          *)
InShow(c) == pc[c] \in {"copy", "find", "print", "dump"}
Busy(node) == \E c \in Clients : command[c].node = node /\ InShow(c)

RemoveNode ==
    /\ module = "removing"
    /\ IF entries = {} THEN module' = "out" /\ UNCHANGED entries
       ELSE LET k == CHOOSE k \in DOMAIN Nodes :
                       Nodes[k] \in entries /\ \A j \in DOMAIN Nodes : j > k => Nodes[j] \notin entries
            IN  ~Busy(Nodes[k]) /\ entries' = entries \ {Nodes[k]} /\ UNCHANGED module
    /\ UNCHANGED <<step, loads, target_pid, pc, command, opened, pid, task, shown, since>>
--------------------------------------------------------------------------------
(* oslabctl. A pid must be a positive number for parse_pid_arg and for pid_write.     *)
Goto(c, label) == pc' = [pc EXCEPT ![c] = label]

Accepted(n) == n > 0

Parse(c) ==
    /\ pc[c] = "parse"
    /\ Goto(c, IF command[c].arg > 0 THEN "stat_w" ELSE "failed")
    /\ UNCHANGED <<kernel, target_pid, command, opened, pid, task, shown, since>>

(* ensure_module_loaded, before the write and again before the read.                *)
NotLoaded_Wait(c) == pc[c]   \* mutant: try again
NotLoaded(c) == "failed"

Stat(c) ==
    /\ pc[c] \in {"stat_w", "stat_r"}
    /\ Goto(c, IF "dir" \notin entries THEN NotLoaded(c) ELSE IF pc[c] = "stat_w" THEN "open_w" ELSE "open_r")
    /\ UNCHANGED <<kernel, target_pid, command, opened, pid, task, shown, since>>

(* fopen finds no node, or (for writing) lacks the permission.                    *)
Open(c) ==
    /\ pc[c] \in {"open_w", "open_r"}
    /\ \/ command[c].node \in entries /\ Goto(c, IF pc[c] = "open_w" THEN "write" ELSE "read")
       \/ /\ command[c].node \notin entries \/ pc[c] = "open_w"
          /\ Goto(c, "failed")
    /\ opened' = [opened EXCEPT ![c] = loads]
    /\ UNCHANGED <<kernel, target_pid, command, pid, task, shown, since>>

(* A call on an open file whose node has been removed since returns an error.       *)
Gone(c) == command[c].node \notin entries \/ opened[c] # loads

(* The flush in fclose: pid_write takes the lock for one assignment.               *)
Write(c) ==
    /\ pc[c] = "write"
    /\ IF Gone(c) \/ ~Accepted(command[c].arg)
       THEN Goto(c, "failed") /\ UNCHANGED <<target_pid, since>>
       ELSE /\ target_pid' = command[c].arg
            /\ since' = [d \in Clients |-> IF d = c THEN {command[c].arg}
                                            ELSE IF since[d] = {} THEN {}
                                            ELSE since[d] \cup {command[c].arg}]
            /\ Goto(c, ToRead(c))
    /\ UNCHANGED <<kernel, command, opened, pid, task, shown>>

Read(c) ==
    /\ pc[c] = "read"
    /\ Goto(c, IF Gone(c) THEN "failed" ELSE IF command[c].node = "pid" THEN "copy" ELSE "dump")
    /\ UNCHANGED <<kernel, target_pid, command, opened, pid, task, shown, since>>

(* overview_show, tasks_show: nothing shared with the others is written.           *)
Dump(c) ==
    /\ pc[c] = "dump"
    /\ Goto(c, "done")
    /\ UNCHANGED <<kernel, target_pid, command, opened, pid, task, shown, since>>

(* pid_show: copy the target, take a reference to its task, print, drop it.         *)
CopyTarget(c) ==
    /\ pc[c] = "copy"
    /\ pid' = [pid EXCEPT ![c] = target_pid]
    /\ Goto(c, "find")
    /\ UNCHANGED <<kernel, target_pid, command, opened, task, shown, since>>

LookedUp_Target(c) == target_pid   \* mutant
LookedUp(c) == pid[c]

FindTask(c) ==
    /\ pc[c] = "find"
    /\ \E t \in {0, LookedUp(c)} : task' = [task EXCEPT ![c] = t]   \* 0: not found
    /\ Goto(c, "print")
    /\ UNCHANGED <<kernel, target_pid, command, opened, pid, shown, since>>

PrintTask(c) ==
    /\ pc[c] = "print"
    /\ shown' = [shown EXCEPT ![c] = [pid |-> pid[c], task |-> task[c]]]
    /\ task' = [task EXCEPT ![c] = 0]
    /\ Goto(c, "done")
    /\ UNCHANGED <<kernel, target_pid, command, opened, pid, since>>
--------------------------------------------------------------------------------
Client(c) == Parse(c) \/ Stat(c) \/ Open(c) \/ Write(c) \/ Read(c) \/ Dump(c)
             \/ CopyTarget(c) \/ FindTask(c) \/ PrintTask(c)
Loader == CreateNode \/ CheckNodes \/ RemoveNode
Next == Insmod \/ Rmmod \/ Loader \/ \E c \in Clients : Client(c)

Spec == Init /\ [][Next]_vars /\ WF_vars(Loader) /\ \A c \in Clients : WF_vars(Client(c))
--------------------------------------------------------------------------------
(* Types.                                                                       *)
TypeOK ==
    /\ module \in {"out", "init", "in", "removing"}
    /\ step \in 1..Len(Nodes) + 1
    /\ entries \subseteq {Nodes[k] : k \in DOMAIN Nodes}
    /\ loads \in 0..MaxLoads
    /\ target_pid \in Pids
    /\ command \in [Clients -> Commands]
    /\ pc \in [Clients -> {"parse", "stat_w", "stat_r", "open_w", "open_r", "write", "read",
                           "copy", "find", "print", "dump", "done", "failed"}]
    /\ opened \in [Clients -> 0..MaxLoads]
    /\ pid \in [Clients -> Pids \cup {0}]
    /\ task \in [Clients -> Pids \cup {0}]
    /\ shown \in [Clients -> [pid : Pids \cup {0}, task : Pids \cup {0}]]
    /\ since \in [Clients -> SUBSET Pids]

(* A loaded module has all its nodes, and a module that is out has left no node, no   *)
(* code running and no task reference behind (the comment at oslab_monitor.c:298).  *)
AllOrNothing ==
    /\ module = "in" => Cardinality(entries) = Len(Nodes)
    /\ module = "out" => /\ entries = {}
                         /\ \A c \in Clients : ~InShow(c) /\ task[c] = 0

(* oslabctl pid N, or a shell, prints the number and the details of one process, and that is N   *)
(* or a target set after its own write, by another client or a reload.             *)
ShowsOneTarget ==
    \A c \in Clients : pc[c] = "done" /\ command[c].node = "pid" =>
        /\ shown[c].pid \in since[c]
        /\ shown[c].task \in {0, shown[c].pid}

(* Every client ends, and a module that goes is gone eventually.                 *)
Termination ==
    /\ \A c \in Clients : <>(pc[c] \in {"done", "failed"})
    /\ module = "removing" ~> module = "out"
================================================================================
