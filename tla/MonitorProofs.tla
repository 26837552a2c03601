----------------------------- MODULE MonitorProofs -----------------------------
(* Theorems about Monitor for all sets of clients, shells and process numbers and   *)
(* any number of loads.                                                          *)
EXTENDS Monitor, TLAPS

USE MonitorAssumption

NodeSet == {"dir", "overview", "tasks", "pid"}

LEMMA NodesFacts ==
    /\ Len(Nodes) = 4
    /\ DOMAIN Nodes = 1..4
    /\ {Nodes[k] : k \in DOMAIN Nodes} = NodeSet
    /\ \A k \in 1..4 : Nodes[k] \in NodeSet
  BY DEF Nodes, NodeSet

(* What a client has been given is a command.                                     *)
LEMMA CommandFacts ==
    ASSUME NEW x \in Commands
    PROVE  /\ x.node \in {"overview", "tasks", "pid"}
           /\ x.node = "pid" => x.arg \in Pids \cup {0}
  BY DEF Commands
--------------------------------------------------------------------------------
(* The places of a client, by what it has done there.                              *)
Labels == {"parse", "stat_w", "stat_r", "open_w", "open_r", "write", "read", "copy", "find",
           "print", "dump", "done", "failed"}
BeforeWrite == {"parse", "stat_w", "open_w", "write"}

(* Only a client with a pid command writes.                                       *)
Writers == \A c \in Clients : pc[c] \in BeforeWrite => command[c].node = "pid"

LEMMA TypeInit == Init => TypeOK /\ Writers
  <1> SUFFICES ASSUME Init PROVE TypeOK /\ Writers
    OBVIOUS
  <1>1. \A c \in Clients : /\ pc[c] \in Labels
                           /\ pc[c] \in BeforeWrite => command[c].node = "pid"
    BY DEF Init, ToRead, Labels, BeforeWrite
  <1>2. pc \in [Clients -> Labels]
    BY <1>1 DEF Init
  <1> QED
    BY <1>1, <1>2, NodesFacts DEF Init, TypeOK, Writers, Labels

LEMMA TypeNext == TypeOK /\ Writers /\ [Next]_vars => TypeOK' /\ Writers'
  <1> SUFFICES ASSUME TypeOK, Writers, [Next]_vars PROVE TypeOK' /\ Writers'
    OBVIOUS
  <1> USE NodesFacts DEF NodeSet
  <1>1. CASE Insmod
    BY <1>1 DEF Insmod, Retarget, TypeOK, Writers
  <1>2. CASE Rmmod
    BY <1>2 DEF Rmmod, TypeOK, Writers
  <1>3. CASE CreateNode
    BY <1>3 DEF CreateNode, TypeOK, Writers
  <1>4. CASE CheckNodes
    BY <1>4 DEF CheckNodes, AfterCreation, TypeOK, Writers
  <1>5. CASE RemoveNode
    <2>1. module' \in {"removing", "out"} /\ entries' \subseteq entries
      BY <1>5 DEF RemoveNode
    <2> QED
      BY <1>5, <2>1 DEF RemoveNode, TypeOK, Writers
  <1>6. ASSUME NEW c \in Clients, Client(c) PROVE TypeOK' /\ Writers'
    <2>0. command[c] \in Commands /\ pc[c] \in Labels
      BY DEF TypeOK, Labels
    <2>1. CASE Parse(c)
      BY <2>0, <2>1 DEF Parse, Goto, kernel, TypeOK, Writers, BeforeWrite
    <2>2. CASE Stat(c)
      BY <2>0, <2>2 DEF Stat, Goto, NotLoaded, kernel, TypeOK, Writers, BeforeWrite
    <2>3. CASE Open(c)
      BY <2>0, <2>3 DEF Open, Goto, kernel, TypeOK, Writers, BeforeWrite
    <2>4. CASE Write(c)
      <3>1. /\ command[c].node = "pid"
            /\ ToRead(c) \in Labels \ BeforeWrite
        BY <2>4 DEF Write, Writers, BeforeWrite, ToRead, Labels
      <3>2. command[c].arg \in Pids \cup {0}
        BY <2>0, <3>1, CommandFacts
      <3>3. /\ target_pid' \in Pids
            /\ since' \in [Clients -> SUBSET Pids]
        BY <2>4, <3>2 DEF Write, Accepted, TypeOK
      <3>4. /\ pc' \in [Clients -> Labels]
            /\ \A d \in Clients : d # c => pc'[d] = pc[d]
            /\ pc'[c] \notin BeforeWrite
        BY <2>4, <3>1 DEF Write, Goto, TypeOK, Labels, BeforeWrite
      <3> QED
        BY <2>4, <3>3, <3>4 DEF Write, kernel, TypeOK, Writers, Labels
    <2>5. CASE Read(c)
      BY <2>0, <2>5 DEF Read, Goto, kernel, TypeOK, Writers, BeforeWrite
    <2>6. CASE Dump(c)
      BY <2>0, <2>6 DEF Dump, Goto, kernel, TypeOK, Writers, BeforeWrite
    <2>7. CASE CopyTarget(c)
      BY <2>0, <2>7 DEF CopyTarget, Goto, kernel, TypeOK, Writers, BeforeWrite
    <2>8. CASE FindTask(c)
      BY <2>0, <2>8 DEF FindTask, LookedUp, Goto, kernel, TypeOK, Writers, BeforeWrite
    <2>9. CASE PrintTask(c)
      BY <2>0, <2>9 DEF PrintTask, Goto, kernel, TypeOK, Writers, BeforeWrite
    <2> QED
      BY <1>6, <2>1, <2>2, <2>3, <2>4, <2>5, <2>6, <2>7, <2>8, <2>9 DEF Client
  <1>7. CASE UNCHANGED vars
    BY <1>7 DEF vars, TypeOK, Writers
  <1> QED
    BY <1>1, <1>2, <1>3, <1>4, <1>5, <1>6, <1>7 DEF Next, Loader

(* The variables of the kernel module and of its clients keep their types.            *)
THEOREM TypeCorrect == Spec => []TypeOK
  BY TypeInit, TypeNext, PTL DEF Spec
--------------------------------------------------------------------------------
(* The nodes: counted when the module is in, none when it is out, and none before the  *)
(* first is created, so that a failing proc_mkdir may leave at once.               *)
NodesKept ==
    /\ module = "in" => Cardinality(entries) = Len(Nodes)
    /\ module = "out" => entries = {}
    /\ module = "init" /\ step = 1 => entries = {}

(* Whoever is inside a show function keeps its node there, and only a client that is    *)
(* about to print holds a reference to a task.                                    *)
Showing(c) ==
    /\ InShow(c) => command[c].node \in entries
    /\ task[c] # 0 => pc[c] = "print"

(* What a client that has written its pid knows, place by place: the target is one of    *)
(* those since its write until it is copied, and then the copy is.                  *)
Told(c) ==
    command[c].node = "pid" =>
        /\ pc[c] # "dump"
        /\ pc[c] \in {"stat_r", "open_r", "read", "copy"} => target_pid \in since[c]
        /\ pc[c] \in {"find", "print"} => pid[c] \in since[c]
        /\ pc[c] = "print" => task[c] \in {0, pid[c]}
        /\ pc[c] = "done" => shown[c].pid \in since[c] /\ shown[c].task \in {0, shown[c].pid}

Inv == NodesKept /\ \A c \in Clients : Showing(c) /\ Told(c)

LEMMA InvInit == Init => Inv
  <1> SUFFICES ASSUME Init PROVE Inv
    OBVIOUS
  <1>1. NodesKept
    BY DEF Init, NodesKept
  <1>2. ASSUME NEW c \in Clients PROVE Showing(c) /\ Told(c)
    <2>1. pc[c] \in {"open_w", "parse", "open_r", "stat_r"}
      BY DEF Init, ToRead
    <2>2. command[c].node = "pid" => pc[c] \in {"open_w", "parse"}
      BY DEF Init
    <2> QED
      BY <2>1, <2>2 DEF Init, Showing, Told, InShow
  <1> QED
    BY <1>1, <1>2 DEF Inv

(* No target is lost from the history while others write.                          *)
LEMMA SinceGrows ==
    ASSUME NEW c \in Clients, NEW p,
           since'[c] = IF since[c] = {} THEN {} ELSE since[c] \cup {p}
    PROVE  /\ since[c] \subseteq since'[c]
           /\ target_pid \in since[c] => p \in since'[c]
  OBVIOUS

(* A client that does not move is told no less than before, whatever the others do.     *)
LEMMA Elsewhere ==
    ASSUME NEW c \in Clients, Told(c),
           command' = command, pc'[c] = pc[c], pid'[c] = pid[c],
           task'[c] = task[c], shown'[c] = shown[c],
           \/ target_pid' = target_pid /\ since'[c] = since[c]
           \/ since'[c] = IF since[c] = {} THEN {} ELSE since[c] \cup {target_pid'}
    PROVE  Told(c)'
  <1>1. /\ since[c] \subseteq since'[c]
        /\ target_pid \in since[c] => target_pid' \in since'[c]
    BY SinceGrows
  <1> QED
    BY <1>1 DEF Told

(* The steps of the kernel: no client moves.                                      *)
LEMMA KernelStep ==
    ASSUME TypeOK, Inv, Insmod \/ Rmmod \/ Loader
    PROVE  Inv'
  <1> USE NodesFacts
  <1>0. UNCHANGED <<pc, command, opened, pid, task, shown>>
    BY DEF Insmod, Rmmod, Loader, CreateNode, CheckNodes, RemoveNode
  <1>1. NodesKept'
    <2>1. CASE Insmod
      BY <2>1 DEF Inv, NodesKept, Insmod
    <2>2. CASE Rmmod
      BY <2>2 DEF Inv, NodesKept, Rmmod
    <2>3. CASE CreateNode
      BY <2>3 DEF Inv, NodesKept, CreateNode, TypeOK
    <2>4. CASE CheckNodes
      BY <2>4 DEF Inv, NodesKept, CheckNodes, AfterCreation
    <2>5. CASE RemoveNode
      <3>1. \/ module' = "out" /\ entries = {} /\ entries' = {}
            \/ module' = "removing"
        BY <2>5 DEF RemoveNode
      <3> QED
        BY <3>1 DEF NodesKept
    <2> QED
      BY <2>1, <2>2, <2>3, <2>4, <2>5 DEF Loader
  <1>2. ASSUME NEW c \in Clients PROVE Showing(c)'
    <2>1. CASE entries \subseteq entries'
      BY <1>0, <2>1 DEF Inv, Showing, InShow
    <2>2. CASE RemoveNode /\ entries # {}
      <3>1. PICK n : ~Busy(n) /\ entries' = entries \ {n}
        BY <2>2 DEF RemoveNode
      <3>2. InShow(c) => command[c].node # n
        BY <3>1 DEF Busy
      <3> QED
        BY <1>0, <3>1, <3>2 DEF Inv, Showing, InShow
    <2> QED
      BY <2>1, <2>2 DEF Insmod, Rmmod, Loader, CreateNode, CheckNodes, RemoveNode
  <1>3. ASSUME NEW c \in Clients PROVE Told(c)'
    <2>1. \/ target_pid' = target_pid /\ since'[c] = since[c]
          \/ since'[c] = IF since[c] = {} THEN {} ELSE since[c] \cup {target_pid'}
      BY DEF Insmod, Retarget, Rmmod, Loader, CreateNode, CheckNodes, RemoveNode
    <2> QED
      BY <1>0, <2>1, Elsewhere DEF Inv
  <1> QED
    BY <1>1, <1>2, <1>3 DEF Inv

(* The steps of a client: the kernel's nodes stay, and only this client moves.         *)
LEMMA ClientStep ==
    ASSUME TypeOK, Writers, Inv, NEW c \in Clients, Client(c)
    PROVE  Inv'
  <1>0. UNCHANGED <<kernel, command>>
    BY DEF Client, Parse, Stat, Open, Write, Read, Dump, CopyTarget, FindTask, PrintTask
  <1>1. NodesKept'
    BY <1>0 DEF Inv, NodesKept, kernel
  <1>2. ASSUME NEW d \in Clients, d # c PROVE Showing(d)' /\ Told(d)'
    <2>1. pc'[d] = pc[d] /\ pid'[d] = pid[d] /\ task'[d] = task[d] /\ shown'[d] = shown[d]
      BY <1>2 DEF Client, Parse, Stat, Open, Write, Read, Dump, CopyTarget, FindTask, PrintTask,
                  Goto, TypeOK
    <2>2. \/ target_pid' = target_pid /\ since'[d] = since[d]
          \/ since'[d] = IF since[d] = {} THEN {} ELSE since[d] \cup {target_pid'}
      BY <1>2 DEF Client, Parse, Stat, Open, Write, Read, Dump, CopyTarget, FindTask, PrintTask
    <2>3. Told(d)'
      BY <1>0, <2>1, <2>2, Elsewhere DEF Inv
    <2> QED
      BY <1>0, <2>1, <2>3 DEF Inv, Showing, InShow, kernel
  <1>3. Showing(c)' /\ Told(c)'
    <2>1. CASE Parse(c)
      BY <1>0, <2>1 DEF Parse, Goto, Inv, Showing, Told, InShow, TypeOK
    <2>2. CASE Stat(c)
      BY <1>0, <2>2 DEF Stat, Goto, NotLoaded, Inv, Showing, Told, InShow, TypeOK
    <2>3. CASE Open(c)
      BY <1>0, <2>3 DEF Open, Goto, Inv, Showing, Told, InShow, TypeOK
    <2>4. CASE Write(c)
      <3>1. pc'[c] \in {"failed", "stat_r", "open_r"}
        BY <2>4 DEF Write, Goto, ToRead, TypeOK
      <3>2. pc'[c] # "failed" => target_pid' \in since'[c]
        BY <2>4 DEF Write, Goto, TypeOK
      <3>3. task'[c] = task[c] /\ pc[c] = "write"
        BY <2>4 DEF Write
      <3> QED
        BY <1>0, <3>1, <3>2, <3>3 DEF Inv, Showing, Told, InShow
    <2>5. CASE Read(c)
      BY <1>0, <2>5 DEF Read, Goto, Gone, kernel, Inv, Showing, Told, InShow, TypeOK
    <2>6. CASE Dump(c)
      BY <1>0, <2>6 DEF Dump, Goto, Inv, Showing, Told, InShow, TypeOK
    <2>7. CASE CopyTarget(c)
      BY <1>0, <2>7 DEF CopyTarget, Goto, kernel, Inv, Showing, Told, InShow, TypeOK
    <2>8. CASE FindTask(c)
      BY <1>0, <2>8 DEF FindTask, LookedUp, Goto, kernel, Inv, Showing, Told, InShow, TypeOK
    <2>9. CASE PrintTask(c)
      BY <1>0, <2>9 DEF PrintTask, Goto, kernel, Inv, Showing, Told, InShow, TypeOK
    <2> QED
      BY <2>1, <2>2, <2>3, <2>4, <2>5, <2>6, <2>7, <2>8, <2>9 DEF Client
  <1> QED
    BY <1>1, <1>2, <1>3 DEF Inv

LEMMA InvNext == TypeOK /\ Writers /\ Inv /\ [Next]_vars => Inv'
  <1>1. ASSUME Inv, UNCHANGED vars PROVE Inv'
    BY <1>1 DEF Inv, NodesKept, Showing, Told, InShow, vars
  <1> QED
    BY <1>1, KernelStep, ClientStep DEF Next

LEMMA Invariant == Spec => [](TypeOK /\ Writers /\ Inv)
  BY TypeInit, TypeNext, InvInit, InvNext, PTL DEF Spec

(* oslab_monitor_init leaves all nodes or none, and when the module has gone no node, no  *)
(* running show function and no reference to a task is left, whatever clients did.     *)
THEOREM NodesAllOrNone == Spec => []AllOrNothing
  <1>1. ASSUME Inv, module = "out", NEW c \in Clients PROVE ~InShow(c) /\ task[c] = 0
    <2>1. entries = {} /\ Showing(c)
      BY <1>1 DEF Inv, NodesKept
    <2> QED
      BY <2>1 DEF Showing, InShow
  <1>2. Inv => AllOrNothing
    BY <1>1 DEF Inv, NodesKept, AllOrNothing
  <1> QED
    BY <1>2, Invariant, PTL

(* pid_show prints number and details of one process, and that is the one the client has  *)
(* written or one that another write or a reload has set since.                     *)
THEOREM AlwaysOneTarget == Spec => []ShowsOneTarget
  <1>1. Inv => ShowsOneTarget
    BY DEF Inv, Told, ShowsOneTarget
  <1> QED
    BY <1>1, Invariant, PTL
================================================================================
