---------------------------------- MODULE Sync ----------------------------------
(* The program sync, src/basic/sync/src/main.c: it checks its command line and     *)
(* runs one of three synchronisation problems, whose threads share nothing with    *)
(* those of the others (main.c:3), and whose result is its exit status.           *)
EXTENDS Integers

CONSTANTS Problems,                                    \* those a run may choose
          Producers, Consumers, MaxCapacity, IntMod,   \* of ProducerConsumer
          Readers, Writers,                            \* of ReadersWriters
          N,                                           \* of DiningPhilosophers
          MaxCount                                     \* of all three

VARIABLES problem,                                     \* option --problem
          phase,                                       \* "parse", "run" or "exit"
          exit_status,                                 \* -1 until the program exits
          i,                                           \* loop counters of the threads
          main,                                        \* where the main thread is
          capacity, target_per_producer, target_total, items, head, tail, size,
          produced_total, consumed_total, not_full, not_empty, left,
          count, active_readers, active_writers, waiting_writers, shared_value,
          read_total, write_total, can_read, can_write, reading, queued, writing,
          target_count, in_room, room_available, chopsticks, eat_count, pc

program == <<problem, phase, exit_status>>
buffer_vars == <<capacity, target_per_producer, target_total, items, head, tail, size,
                 produced_total, consumed_total, not_full, not_empty, left>>
rw_vars == <<count, active_readers, active_writers, waiting_writers, shared_value,
             read_total, write_total, can_read, can_write, reading, queued, writing>>
dining_vars == <<target_count, in_room, room_available, chopsticks, eat_count, pc>>
vars == <<program, i, main, buffer_vars, rw_vars, dining_vars>>

PC == INSTANCE ProducerConsumer
RW == INSTANCE ReadersWriters
DP == INSTANCE DiningPhilosophers

SyncAssumption ==
    /\ Problems \subseteq {"producer_consumer", "readers_writers", "dining_philosophers"}
    /\ PC!PCAssumption /\ RW!RWAssumption /\ DP!DPAssumption
ASSUME SyncAssumption

Unused == "unused"   \* a variable of another problem

NoBuffer ==
    /\ capacity = Unused /\ target_per_producer = Unused /\ target_total = Unused
    /\ items = Unused /\ head = Unused /\ tail = Unused /\ size = Unused
    /\ produced_total = Unused /\ consumed_total = Unused
    /\ not_full = Unused /\ not_empty = Unused /\ left = Unused
NoReadersWriters ==
    /\ count = Unused /\ active_readers = Unused /\ active_writers = Unused
    /\ waiting_writers = Unused /\ shared_value = Unused
    /\ read_total = Unused /\ write_total = Unused
    /\ can_read = Unused /\ can_write = Unused
    /\ reading = Unused /\ queued = Unused /\ writing = Unused
NoTable ==
    /\ target_count = Unused /\ in_room = Unused /\ room_available = Unused
    /\ chopsticks = Unused /\ eat_count = Unused /\ pc = Unused

Init ==
    /\ problem \in Problems
    /\ phase = "parse" /\ exit_status = -1
    /\ \/ problem = "producer_consumer" /\ PC!Init /\ NoReadersWriters /\ NoTable
       \/ problem = "readers_writers" /\ RW!Init /\ NoBuffer /\ NoTable
       \/ /\ problem = "dining_philosophers" /\ DP!Init /\ NoBuffer /\ NoReadersWriters
          /\ i = Unused
--------------------------------------------------------------------------------
Exit(code) == phase' = "exit" /\ exit_status' = code

(* --help, which is not an error; or an option that is unknown or out of range, no *)
(* --problem, or no memory for the threads.                                      *)
Reject ==
    /\ phase = "parse"
    /\ \E code \in {0, 1} : Exit(code)
    /\ UNCHANGED <<problem, i, main, buffer_vars, rw_vars, dining_vars>>

(* From here on the threads run.                                                *)
Accept ==
    /\ phase = "parse" /\ phase' = "run"
    /\ UNCHANGED <<problem, exit_status, i, main, buffer_vars, rw_vars, dining_vars>>

Return ==
    /\ phase = "run" /\ main = "reported" /\ Exit(0)
    /\ UNCHANGED <<problem, i, main, buffer_vars, rw_vars, dining_vars>>

(* The threads of the problem run, and nothing else moves.                        *)
Buffer ==
    /\ phase = "run" /\ problem = "producer_consumer"
    /\ UNCHANGED <<program, rw_vars, dining_vars>>
ReadWrite ==
    /\ phase = "run" /\ problem = "readers_writers"
    /\ UNCHANGED <<program, buffer_vars, dining_vars>>
Dine ==
    /\ phase = "run" /\ problem = "dining_philosophers"
    /\ UNCHANGED <<program, i, buffer_vars, rw_vars>>

(* The process has exited.                                                      *)
Finished == phase = "exit" /\ UNCHANGED vars

Next ==
    \/ Reject \/ Accept \/ Return
    \/ Buffer /\ PC!Next
    \/ ReadWrite /\ RW!Next
    \/ Dine /\ DP!Next
    \/ Finished

(* Every runnable thread runs again; nothing is assumed of spurious wakeups.  Weak  *)
(* fairness is enough although a mutex may be taken and given back many times       *)
(* while a thread wants it: the rounds are finitely many.                          *)
Fairness ==
    /\ WF_vars(Reject \/ Accept) /\ WF_vars(Return)
    /\ \A p \in Producers : WF_vars(Buffer /\ PC!ProducerStep(p))
    /\ \A c \in Consumers : WF_vars(Buffer /\ PC!ConsumerStep(c))
    /\ WF_vars(Buffer /\ (PC!MainBroadcast \/ PC!MainReport))
    /\ \A r \in Readers : WF_vars(ReadWrite /\ RW!ReaderStep(r))
    /\ \A w \in Writers : WF_vars(ReadWrite /\ RW!WriterStep(w))
    /\ WF_vars(ReadWrite /\ RW!MainReport)
    /\ \A p \in DP!Philosophers : WF_vars(Dine /\ DP!Step(p))
    /\ WF_vars(Dine /\ DP!MainReport)

Spec     == Init /\ [][Next]_vars
FairSpec == Spec /\ Fairness
--------------------------------------------------------------------------------
(* Types of the program and of the problem it runs.                               *)
TypeOK ==
    /\ phase \in {"parse", "run", "exit"}
    /\ exit_status \in {-1, 0, 1} /\ (exit_status = -1 <=> phase # "exit")
    /\ \/ problem = "producer_consumer" /\ PC!TypeOK
       \/ problem = "readers_writers" /\ RW!TypeOK
       \/ problem = "dining_philosophers" /\ DP!TypeOK

(* The two indices, the size and the two totals of the buffer agree, although       *)
(* different threads update them (producer_consumer.c:28-30 and 54-56).            *)
RingConsistent == problem = "producer_consumer" => PC!RingConsistent

(* No wakeup of a producer or consumer is lost, with one pthread_cond_signal per     *)
(* item (producer_consumer.c:32 and 58).                                         *)
BufferWakeups == problem = "producer_consumer" => PC!NoLostWakeup

(* The buffer implements a bounded FIFO queue: it never overwrites an item that is   *)
(* still to be consumed and gives the items back in the order of insertion.        *)
BoundedFifo ==
    /\ problem = "producer_consumer" => PC!Queue!Init
    /\ [][problem = "producer_consumer" => PC!Queue!Next \/ UNCHANGED PC!Queue!vars]_vars

(* No reader reads while a writer writes, and one writer writes at a time           *)
(* (readers_writers.c:24 and 53).                                                *)
Exclusion == problem = "readers_writers" => RW!Exclusion

(* No wakeup of a reader or writer is lost (readers_writers.c:36 and 64).           *)
ReaderWriterWakeups == problem = "readers_writers" => RW!NoLostWakeup

(* From the moment a writer has queued, no reader starts before that writer has its  *)
(* turn (readers_writers.c:3).                                                   *)
WriterPriority == [][problem = "readers_writers" => RW!WriterPriority]_vars

(* Neighbours never eat at the same time (dining_philosophers.c:46 and 48).         *)
NeighboursExclude == problem = "dining_philosophers" => DP!NeighboursExclude

(* The limit of the room breaks the circular wait (dining_philosophers.c:3).        *)
NoCircularWait == problem = "dining_philosophers" => DP!NoCircularWait

(* Only a full room keeps a philosopher asleep (leave_room signals once).           *)
SleepOnlyWhenFull == problem = "dining_philosophers" => DP!SleepOnlyWhenFull

(* A finite workload ends (docs/PRD.md:180), and the totals that main prints then    *)
(* are those the user asked for.                                                 *)
Termination ==
    <>(/\ phase = "exit"
       /\ main = "reported" =>
            \/ problem = "producer_consumer" /\ PC!Totals
            \/ problem = "readers_writers" /\ RW!Totals
            \/ problem = "dining_philosophers" /\ DP!Totals)
================================================================================
