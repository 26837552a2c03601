--------------------------- MODULE ProducerConsumer ----------------------------
(* The bounded buffer of src/basic/sync/src/producer_consumer.c: one mutex,    *)
(* two condition variables, producers that each insert target_per_producer     *)
(* items, consumers that leave when consumed_total reaches target_total, and   *)
(* the main thread that joins them.                                            *)
(*                                                                             *)
(* Every shared field is read and written under buffer.mutex, so an action is  *)
(* one critical section: from pthread_mutex_lock, or from the return of        *)
(* pthread_cond_wait, to the next pthread_cond_wait or pthread_mutex_unlock.   *)
EXTENDS Integers, Sequences, FiniteSets, PthreadCond

CONSTANTS Producers,   \* the producer threads
          Consumers,   \* the consumer threads
          MaxCapacity, \* largest --buffer-size (1000000 in parse_positive)
          MaxCount,    \* largest --count (1000000 in parse_positive)
          IntMod       \* number of values of a C int (2^32)

PCAssumption ==
    /\ IsFiniteSet(Producers) /\ Producers # {}
    /\ IsFiniteSet(Consumers) /\ Consumers # {}
    /\ Producers \cap Consumers = {}
    /\ MaxCapacity \in Nat \ {0}
    /\ MaxCount \in Nat \ {0}
    /\ IntMod \in Nat \ {0}

VARIABLES
    capacity, target_per_producer, target_total,  \* set before any thread runs
    items, head, tail, size,                      \* the ring buffer
    produced_total, consumed_total,
    not_full, not_empty,                          \* the condition variables
    i,                                            \* loop counter of each producer
    left,                                         \* consumers that have returned
    main                                          \* where the main thread is

config == <<capacity, target_per_producer, target_total>>
ring   == <<items, head, tail, size, produced_total, consumed_total>>
vars   == <<config, ring, not_full, not_empty, i, left, main>>

(* The value a signed int holds after an arithmetic operation: the build wraps *)
(* around (the overflow itself is undefined behaviour in C).                   *)
ToInt(n) == ((n + IntMod \div 2) % IntMod) - (IntMod \div 2)

NoItem == << >>    \* what calloc leaves in a slot

(* The index after slot k.                                                      *)
Advance_NoWrap(k) == k + 1                    \* mutant: the modulo is missing
Advance(k) == (k + 1) % capacity

(* The predicate producers wait on.                                             *)
BufferFull_OffByOne == size > capacity        \* mutant
BufferFull == size = capacity

(* What ends a consumer, given a value of consumed_total.                       *)
TargetReached(n) == n >= target_total

(* The wait sets pthread_cond_signal(&not_empty) may leave after an insertion.  *)
SignalInserted_WhenEmpty ==                   \* mutant: "others are awake anyway"
    IF size = 0 THEN Signal(not_empty) ELSE {not_empty}
SignalInserted == Signal(not_empty)

(* The wait sets pthread_cond_signal(&not_full) may leave after a removal.      *)
SignalRemoved == Signal(not_full)

Init ==
    /\ capacity \in 1..MaxCapacity
    /\ target_per_producer \in 1..MaxCount
    /\ target_total = ToInt(Cardinality(Producers) * target_per_producer)
    /\ items = [k \in 0..capacity - 1 |-> NoItem]
    /\ head = 0 /\ tail = 0 /\ size = 0
    /\ produced_total = 0 /\ consumed_total = 0
    /\ not_full = {} /\ not_empty = {}
    /\ i = [p \in Producers |-> 0]
    /\ left = {}
    /\ main = "join_producers"
--------------------------------------------------------------------------------
ProducerReady(p) == p \notin not_full /\ i[p] < target_per_producer

ProducerWait(p) ==
    /\ ProducerReady(p)
    /\ BufferFull
    /\ not_full' = not_full \cup {p}
    /\ UNCHANGED <<config, ring, not_empty, i, left, main>>

(* The item is thread_arg->id * 1000 + i in the code; nothing reads it back.    *)
Produce(p) ==
    /\ ProducerReady(p)
    /\ ~BufferFull
    /\ items' = [items EXCEPT ![tail] = <<p, i[p]>>]
    /\ tail' = Advance(tail)
    /\ size' = size + 1
    /\ produced_total' = produced_total + 1
    /\ not_empty' \in SignalInserted
    /\ i' = [i EXCEPT ![p] = @ + 1]
    /\ UNCHANGED <<config, head, consumed_total, not_full, left, main>>
--------------------------------------------------------------------------------
ConsumerReady(c) == c \notin not_empty /\ c \notin left

ConsumerWait(c) ==
    /\ ConsumerReady(c)
    /\ size = 0 /\ ~TargetReached(consumed_total)
    /\ not_empty' = not_empty \cup {c}
    /\ UNCHANGED <<config, ring, not_full, i, left, main>>

ConsumerLeave(c) ==
    /\ ConsumerReady(c)
    /\ TargetReached(consumed_total)
    /\ not_empty' = Broadcast(not_empty)
    /\ left' = left \cup {c}
    /\ UNCHANGED <<config, ring, not_full, i, main>>

Consume(c) ==
    /\ ConsumerReady(c)
    /\ size # 0 /\ ~TargetReached(consumed_total)
    /\ head' = Advance(head)
    /\ size' = size - 1
    /\ consumed_total' = consumed_total + 1
    /\ not_full' \in SignalRemoved
    /\ not_empty' = IF TargetReached(consumed_total + 1)
                    THEN Broadcast(not_empty) ELSE not_empty
    /\ UNCHANGED <<config, items, tail, produced_total, i, left, main>>
--------------------------------------------------------------------------------
ProducersReturned == \A p \in Producers : i[p] = target_per_producer

MainBroadcast ==
    /\ main = "join_producers" /\ ProducersReturned
    /\ not_empty' = Broadcast(not_empty)
    /\ main' = "join_consumers"
    /\ UNCHANGED <<config, ring, not_full, i, left>>

MainReport ==
    /\ main = "join_consumers" /\ left = Consumers
    /\ main' = "reported"
    /\ UNCHANGED <<config, ring, not_full, not_empty, i, left>>

(* pthread_cond_wait may return without a signal; the loops around it allow it. *)
SpuriousWakeup ==
    /\ \/ \E t \in not_full : not_full' = not_full \ {t} /\ UNCHANGED not_empty
       \/ \E t \in not_empty : not_empty' = not_empty \ {t} /\ UNCHANGED not_full
    /\ UNCHANGED <<config, ring, i, left, main>>

ProducerStep(p) == ProducerWait(p) \/ Produce(p)
ConsumerStep(c) == ConsumerWait(c) \/ ConsumerLeave(c) \/ Consume(c)

Next ==
    \/ \E p \in Producers : ProducerStep(p)
    \/ \E c \in Consumers : ConsumerStep(c)
    \/ MainBroadcast
    \/ MainReport
    \/ SpuriousWakeup
--------------------------------------------------------------------------------
(* Every variable holds a value its C declaration and its use allow.            *)
TypeOK ==
    /\ capacity \in 1..MaxCapacity
    /\ target_per_producer \in 1..MaxCount
    /\ target_total \in Int
    /\ items \in [0..capacity - 1 -> (Producers \X Nat) \cup {NoItem}]
    /\ head \in 0..capacity - 1
    /\ tail \in 0..capacity - 1
    /\ size \in 0..capacity
    /\ produced_total \in Nat
    /\ consumed_total \in Nat
    /\ i \in [Producers -> 0..target_per_producer]
    /\ not_full \subseteq {p \in Producers : i[p] < target_per_producer}
    /\ left \subseteq Consumers
    /\ not_empty \subseteq Consumers \ left
    /\ main \in {"join_producers", "join_consumers", "reported"}

(* The counters tell the same story as the indices: size is what was produced   *)
(* and not consumed, and the next free slot is size places after head (the      *)
(* updates of producer_consumer.c:28-30 and 54-56 are made by different threads *)
(* and never together).                                                         *)
RingConsistent ==
    /\ size = produced_total - consumed_total
    /\ tail = (head + size) % capacity

(* Threads that are neither blocked on a condition variable nor returned.       *)
RunnableProducers == {p \in Producers : ProducerReady(p)}
RunnableConsumers == Consumers \ (not_empty \cup left)

(* While a consumer sleeps, the target is not reached and there are at least as *)
(* many runnable consumers as items to take.                                    *)
ConsumersCovered ==
    not_empty # {} => /\ consumed_total < target_total
                      /\ size <= Cardinality(RunnableConsumers)

(* While a producer sleeps, there are at least as many runnable producers as    *)
(* free slots.                                                                  *)
ProducersCovered ==
    not_full # {} => capacity - size <= Cardinality(RunnableProducers)

(* No wakeup is lost.  One pthread_cond_signal per item (lines 32 and 58), not  *)
(* a broadcast, is enough only because of this counting argument.               *)
NoLostWakeup == ConsumersCovered /\ ProducersCovered

(* What main prints when a finite workload ends (docs/PRD.md:180): every item that   *)
(* was asked for was produced and consumed, exactly once (lines 49-53 and 129-131). *)
Totals ==
    /\ size = 0 /\ produced_total = consumed_total
    /\ consumed_total = Cardinality(Producers) * target_per_producer

(* The s slots from index h of a ring of c slots, and those that are occupied:  *)
(* from head, oldest first.                                                     *)
Window(c, h, s, its) == [k \in 1..s |-> its[(h + k - 1) % c]]
Contents == Window(capacity, head, size, items)

(* The ring implements a bounded FIFO queue: it never overwrites an item that   *)
(* is still to be consumed and gives the items back in the order of insertion.  *)
Queue == INSTANCE BoundedQueue
         WITH q <- Contents, put <- i, taken <- consumed_total
================================================================================
