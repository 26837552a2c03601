---------------------------- MODULE ReadersWriters -----------------------------
(* The writer-priority readers-writers problem of                              *)
(* src/basic/sync/src/readers_writers.c: every thread enters count times, under *)
(* one mutex and two condition variables.                                      *)
(*                                                                             *)
(* An action is one critical section, except that a writer's is cut where it    *)
(* has set active_writers, so that the states with an active writer can be      *)
(* seen.  The writer keeps the mutex there: nobody else moves.                  *)
EXTENDS Integers, FiniteSets, PthreadCond

CONSTANTS Readers,  \* the reader threads
          Writers,  \* the writer threads
          MaxCount  \* largest --count (1000000 in parse_positive)

RWAssumption ==
    /\ IsFiniteSet(Readers) /\ Readers # {}
    /\ IsFiniteSet(Writers) /\ Writers # {}
    /\ Readers \cap Writers = {}
    /\ MaxCount \in Nat \ {0}

VARIABLES
    count,                                          \* set before any thread runs
    active_readers, active_writers, waiting_writers,
    shared_value, read_total, write_total,
    can_read, can_write,                            \* the condition variables
    reading,                                        \* readers past read_start
    queued,                                         \* writers past waiting_writers++
    writing,                                        \* writers past write_start
    i,                                              \* loop counter of each thread
    main                                            \* where the main thread is

counters == <<active_readers, active_writers, waiting_writers>>
data     == <<shared_value, read_total, write_total>>
vars     == <<count, counters, data, can_read, can_write, reading, queued, writing,
              i, main>>

Threads == Readers \cup Writers

Init ==
    /\ count \in 1..MaxCount
    /\ active_readers = 0 /\ active_writers = 0 /\ waiting_writers = 0
    /\ shared_value = 0 /\ read_total = 0 /\ write_total = 0
    /\ can_read = {} /\ can_write = {}
    /\ reading = {} /\ queued = {} /\ writing = {}
    /\ i = [t \in Threads |-> 0]
    /\ main = "joining"

(* A writer that is writing holds the mutex.                                    *)
MutexFree == writing = {}
--------------------------------------------------------------------------------
(* The predicates of the two wait loops.                                        *)
ReaderMayEnter_IgnoresQueue == active_writers = 0       \* mutant
ReaderMayEnter == active_writers = 0 /\ waiting_writers = 0
WriterMayEnter_IgnoresReaders == active_writers = 0     \* mutant
WriterMayEnter == active_writers = 0 /\ active_readers = 0

ReaderReady(r) ==
    /\ MutexFree
    /\ r \notin can_read /\ r \notin reading
    /\ i[r] < count

ReaderBlock(r) ==
    /\ ReaderReady(r)
    /\ ~ReaderMayEnter
    /\ can_read' = can_read \cup {r}
    /\ UNCHANGED <<count, counters, data, can_write, reading, queued, writing, i, main>>

ReadStart(r) ==
    /\ ReaderReady(r)
    /\ ReaderMayEnter
    /\ active_readers' = active_readers + 1
    /\ reading' = reading \cup {r}
    /\ UNCHANGED <<count, active_writers, waiting_writers, data, can_read, can_write,
                   queued, writing, i, main>>

(* The wait sets of can_write when a reader leaves n readers behind.            *)
WakeWriter_Never(n) == {can_write}                      \* mutant
WakeWriter(n) == IF n = 0 THEN Signal(can_write) ELSE {can_write}

ReadEnd(r) ==
    /\ MutexFree
    /\ r \in reading
    /\ read_total' = read_total + 1
    /\ active_readers' = active_readers - 1
    /\ can_write' \in WakeWriter(active_readers - 1)
    /\ reading' = reading \ {r}
    /\ i' = [i EXCEPT ![r] = @ + 1]
    /\ UNCHANGED <<count, active_writers, waiting_writers, shared_value, write_total,
                   can_read, queued, writing, main>>
--------------------------------------------------------------------------------
WriterReady(w) ==
    /\ MutexFree
    /\ w \notin can_write
    /\ i[w] < count

(* A writer counts itself in waiting_writers once per round, before its loop.   *)
Arrive(w) == IF w \in queued THEN 0 ELSE 1

WriterBlock(w) ==
    /\ WriterReady(w)
    /\ ~WriterMayEnter
    /\ waiting_writers' = waiting_writers + Arrive(w)
    /\ queued' = queued \cup {w}
    /\ can_write' = can_write \cup {w}
    /\ UNCHANGED <<count, active_readers, active_writers, data, can_read, reading,
                   writing, i, main>>

WriteStart(w) ==
    /\ WriterReady(w)
    /\ WriterMayEnter
    /\ waiting_writers' = waiting_writers + Arrive(w) - 1
    /\ queued' = queued \ {w}
    /\ active_writers' = 1
    /\ writing' = writing \cup {w}
    /\ UNCHANGED <<count, active_readers, data, can_read, can_write, reading, i, main>>

(* Whom a writer wakes when it is done.                                         *)
HandOver_OneReader ==                                   \* mutant
    IF waiting_writers > 0
    THEN can_write' \in Signal(can_write) /\ UNCHANGED can_read
    ELSE can_read' \in Signal(can_read) /\ UNCHANGED can_write
HandOver ==
    IF waiting_writers > 0
    THEN can_write' \in Signal(can_write) /\ UNCHANGED can_read
    ELSE can_read' = Broadcast(can_read) /\ UNCHANGED can_write

WriteEnd(w) ==
    /\ w \in writing
    /\ shared_value' = shared_value + 1
    /\ write_total' = write_total + 1
    /\ active_writers' = 0
    /\ HandOver
    /\ writing' = writing \ {w}
    /\ i' = [i EXCEPT ![w] = @ + 1]
    /\ UNCHANGED <<count, active_readers, waiting_writers, read_total, reading, queued,
                   main>>
--------------------------------------------------------------------------------
MainReport ==
    /\ main = "joining" /\ \A t \in Threads : i[t] = count
    /\ main' = "reported"
    /\ UNCHANGED <<count, counters, data, can_read, can_write, reading, queued, writing, i>>

(* pthread_cond_wait may return without a signal.                               *)
SpuriousWakeup ==
    /\ \/ \E r \in can_read : can_read' = can_read \ {r} /\ UNCHANGED can_write
       \/ \E w \in can_write : can_write' = can_write \ {w} /\ UNCHANGED can_read
    /\ UNCHANGED <<count, counters, data, reading, queued, writing, i, main>>

ReaderStep(r) == ReaderBlock(r) \/ ReadStart(r) \/ ReadEnd(r)
WriterStep(w) == WriterBlock(w) \/ WriteStart(w) \/ WriteEnd(w)

Next ==
    \/ \E r \in Readers : ReaderStep(r)
    \/ \E w \in Writers : WriterStep(w)
    \/ MainReport
    \/ SpuriousWakeup
--------------------------------------------------------------------------------
(* Every variable holds a value its declaration and its use allow; a thread      *)
(* sleeps only on the condition of its own loop.                                *)
TypeOK ==
    /\ count \in 1..MaxCount
    /\ active_readers \in Nat /\ waiting_writers \in Nat /\ active_writers \in {0, 1}
    /\ shared_value \in Nat /\ read_total \in Nat /\ write_total \in Nat
    /\ reading \subseteq Readers /\ writing \subseteq Writers
    /\ queued \subseteq Writers \ writing
    /\ can_read \subseteq Readers \ reading
    /\ can_write \subseteq queued
    /\ i \in [Threads -> 0..count]
    /\ \A t \in reading \cup queued \cup writing : i[t] < count
    /\ main \in {"joining", "reported"}

(* The three counters the wait loops test say how many threads really are in    *)
(* each place; in particular a round that waits several times counts once.      *)
CountersExact ==
    /\ active_readers = Cardinality(reading)
    /\ waiting_writers = Cardinality(queued)
    /\ active_writers = Cardinality(writing)

(* No reader is between read_start and read_end while a writer writes, and at    *)
(* most one writer writes.                                                      *)
Exclusion == writing # {} => reading = {} /\ Cardinality(writing) = 1

(* Writer priority (readers_writers.c:3): from the moment a writer has queued,   *)
(* no reader starts before that writer has its turn.                            *)
WriterPriority == \A r \in Readers : r \in reading' \ reading => queued = {}

(* No wakeup is lost: a sleeping reader is owed its broadcast by a queued or     *)
(* writing writer; a sleeping writer is owed its signal by a reader, by a        *)
(* writing writer or by a queued writer that is awake.                          *)
NoLostWakeup ==
    /\ can_read # {} => queued # {} \/ writing # {}
    /\ can_write # {} => reading # {} \/ writing # {} \/ queued \ can_write # {}

(* What main prints when a finite workload ends (docs/PRD.md:180) says that every     *)
(* thread did its count rounds and that no increment was lost.                  *)
Totals ==
    /\ read_total = Cardinality(Readers) * count
    /\ write_total = Cardinality(Writers) * count
    /\ shared_value = write_total
================================================================================
