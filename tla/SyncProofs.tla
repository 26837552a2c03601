------------------------------- MODULE SyncProofs -------------------------------
(* Proofs about sync: the bounded buffer, the readers and writers and the dining    *)
(* philosophers, for every number of threads, every capacity and count, and       *)
(* whatever target_total holds.                                                  *)
EXTENDS Sync, FiniteSetTheorems, SequenceTheorems, WellFoundedInduction, TLAPS

(* The instances mean the one Cardinality of FiniteSets.                           *)
LEMMA BufferCards ==
    /\ \A S : PC!IsFiniteSet(S) <=> IsFiniteSet(S)
    /\ \A S : PC!Cardinality(S) = Cardinality(S)
BY DEF PC!IsFiniteSet, PC!Cardinality, IsFiniteSet, Cardinality

LEMMA RWCards ==
    /\ \A S : RW!IsFiniteSet(S) <=> IsFiniteSet(S)
    /\ \A S : RW!Cardinality(S) = Cardinality(S)
BY DEF RW!IsFiniteSet, RW!Cardinality, IsFiniteSet, Cardinality

(* The assumptions on the constants, one problem at a time.                        *)
LEMMA BufferAssumed ==
    /\ IsFiniteSet(Producers) /\ Producers # {}
    /\ IsFiniteSet(Consumers) /\ Consumers # {}
    /\ Producers \cap Consumers = {}
    /\ MaxCapacity \in Nat \ {0}
    /\ MaxCount \in Nat \ {0}
    /\ IntMod \in Nat \ {0}
BY SyncAssumption, BufferCards DEF SyncAssumption, PC!PCAssumption

LEMMA RWAssumed ==
    /\ IsFiniteSet(Readers) /\ Readers # {}
    /\ IsFiniteSet(Writers) /\ Writers # {}
    /\ Readers \cap Writers = {}
    /\ MaxCount \in Nat \ {0}
BY SyncAssumption, RWCards DEF SyncAssumption, RW!RWAssumption

LEMMA DPAssumed ==
    /\ N \in Nat /\ N >= 2
    /\ MaxCount \in Nat \ {0}
BY SyncAssumption DEF SyncAssumption, DP!DPAssumption

(* A step of the program is one of the problem it runs, or leaves its state alone;  *)
(* the problem never changes.                                                    *)
LEMMA ProblemStep ==
    ASSUME [Next]_vars
    PROVE  /\ problem' = problem
           /\ problem = "producer_consumer" => [PC!Next]_(PC!vars)
           /\ problem = "readers_writers" => [RW!Next]_(RW!vars)
           /\ problem = "dining_philosophers" => [DP!Next]_(DP!vars)
<1>1. CASE Reject \/ Accept \/ Return \/ Finished \/ UNCHANGED vars
  BY <1>1
  DEF Reject, Accept, Return, Finished, vars, program, buffer_vars, rw_vars,
      dining_vars, PC!vars, PC!config, PC!ring, RW!vars, RW!counters, RW!data, DP!vars
<1>2. CASE Buffer /\ PC!Next
  BY <1>2 DEF Buffer, program
<1>3. CASE ReadWrite /\ RW!Next
  BY <1>3 DEF ReadWrite, program
<1>4. CASE Dine /\ DP!Next
  BY <1>4 DEF Dine, program
<1>. QED
  BY <1>1, <1>2, <1>3, <1>4 DEF Next

LEMMA InitProblem ==
    ASSUME Init
    PROVE  /\ problem \in {"producer_consumer", "readers_writers", "dining_philosophers"}
           /\ problem = "producer_consumer" => PC!Init
           /\ problem = "readers_writers" => RW!Init
           /\ problem = "dining_philosophers" => DP!Init
BY DEF Init
--------------------------------------------------------------------------------
(* One signal wakes at most one waiter, and exactly one when somebody waits.    *)
LEMMA SignalWakesOne ==
    ASSUME NEW W, NEW V, V \in PC!Signal(W), V # {}
    PROVE  \E t \in W : V = W \ {t}
BY DEF PC!Signal

LEMMA SignalShrinks ==
    ASSUME NEW W, NEW V, V \in PC!Signal(W)
    PROVE  V \subseteq W
BY DEF PC!Signal

(* Advance stays inside the ring.                                               *)
LEMMA AdvanceInRing ==
    ASSUME capacity \in Nat \ {0}, NEW k \in Nat
    PROVE  PC!Advance(k) \in 0..capacity - 1
BY DEF PC!Advance

LEMMA ToIntType ==
    ASSUME NEW n \in Int
    PROVE  PC!ToInt(n) \in Int
BY BufferAssumed DEF PC!ToInt
--------------------------------------------------------------------------------
LEMMA BufferInitTypes == PC!Init => PC!TypeOK
<1>1. Cardinality(Producers) \in Nat
  BY BufferAssumed, FS_CardinalityType
<1>2. SUFFICES ASSUME PC!Init PROVE PC!TypeOK
  OBVIOUS
<1>3. target_total \in Int
  BY <1>1, <1>2, ToIntType, BufferCards DEF PC!Init
<1>4. /\ capacity \in 1..MaxCapacity
      /\ target_per_producer \in 1..MaxCount
  BY <1>2, BufferCards DEF PC!Init
<1>5. /\ head \in 0..capacity - 1 /\ tail \in 0..capacity - 1
      /\ size \in 0..capacity
      /\ i \in [Producers -> 0..target_per_producer]
  BY <1>2, <1>4, BufferAssumed, BufferCards DEF PC!Init
<1>. QED
  BY <1>2, <1>3, <1>4, <1>5, BufferCards DEF PC!Init, PC!TypeOK

(* Every step keeps the types; the two that move an index use AdvanceInRing.    *)
LEMMA BufferNextTypes == PC!TypeOK /\ [PC!Next]_(PC!vars) => PC!TypeOK'
<1>. SUFFICES ASSUME PC!TypeOK, [PC!Next]_(PC!vars) PROVE PC!TypeOK'
  OBVIOUS
<1>. USE DEF PC!TypeOK, PC!config, PC!ring
<1>0. /\ capacity \in Nat \ {0} /\ target_per_producer \in Nat \ {0}
      /\ head \in Nat /\ tail \in Nat
  BY BufferAssumed
<1>1. ASSUME NEW p \in Producers, PC!ProducerWait(p) PROVE PC!TypeOK'
  BY <1>1 DEF PC!ProducerWait, PC!ProducerReady
<1>2. ASSUME NEW p \in Producers, PC!Produce(p) PROVE PC!TypeOK'
  <2>1. UNCHANGED <<PC!config, head, consumed_total, not_full, left, main>>
    BY <1>2 DEF PC!Produce
  <2>2. tail' \in 0..capacity - 1 /\ size' \in 0..capacity /\ produced_total' \in Nat
    BY <1>0, <1>2, AdvanceInRing DEF PC!Produce, PC!BufferFull
  <2>3. i' \in [Producers -> 0..target_per_producer]
    BY <1>0, <1>2 DEF PC!Produce, PC!ProducerReady
  <2>4. items' \in [0..capacity - 1 -> (Producers \X Nat) \cup {PC!NoItem}]
    BY <1>2 DEF PC!Produce
  <2>5. not_empty' \subseteq Consumers \ left
    BY <1>2, SignalShrinks DEF PC!Produce, PC!SignalInserted
  <2>6. \A q \in not_full : i'[q] < target_per_producer
    BY <1>2 DEF PC!Produce, PC!ProducerReady
  <2>. QED
    BY <2>1, <2>2, <2>3, <2>4, <2>5, <2>6
<1>3. ASSUME NEW c \in Consumers, PC!ConsumerWait(c) PROVE PC!TypeOK'
  BY <1>3 DEF PC!ConsumerWait, PC!ConsumerReady
<1>4. ASSUME NEW c \in Consumers, PC!ConsumerLeave(c) PROVE PC!TypeOK'
  BY <1>4 DEF PC!ConsumerLeave, PC!Broadcast
<1>5. ASSUME NEW c \in Consumers, PC!Consume(c) PROVE PC!TypeOK'
  <2>1. UNCHANGED <<PC!config, items, tail, produced_total, i, left, main>>
    BY <1>5 DEF PC!Consume
  <2>2. head' \in 0..capacity - 1 /\ size' \in 0..capacity /\ consumed_total' \in Nat
    BY <1>0, <1>5, AdvanceInRing DEF PC!Consume
  <2>3. not_full' \subseteq not_full
    BY <1>5, SignalShrinks DEF PC!Consume, PC!SignalRemoved
  <2>4. not_empty' \subseteq not_empty
    BY <1>5 DEF PC!Consume, PC!Broadcast
  <2>. QED
    BY <2>1, <2>2, <2>3, <2>4
<1>6. CASE PC!MainBroadcast
  BY <1>6 DEF PC!MainBroadcast, PC!Broadcast
<1>7. CASE PC!MainReport
  BY <1>7 DEF PC!MainReport
<1>8. CASE PC!SpuriousWakeup
  BY <1>8 DEF PC!SpuriousWakeup
<1>9. CASE UNCHANGED PC!vars
  BY <1>9 DEF PC!vars
<1>. QED
  BY <1>1, <1>2, <1>3, <1>4, <1>5, <1>6, <1>7, <1>8, <1>9
  DEF PC!Next, PC!ProducerStep, PC!ConsumerStep

--------------------------------------------------------------------------------
(* Stepping an index commutes with reducing it modulo the capacity.             *)
LEMMA AdvanceMod ==
    ASSUME NEW c \in Nat \ {0}, NEW h \in 0..c - 1, NEW s \in 0..c
    PROVE  /\ (((h + s) % c) + 1) % c = (h + s + 1) % c
           /\ (((h + 1) % c) + s) % c = (h + 1 + s) % c
<1>1. CASE h + s < c
  BY <1>1
<1>2. CASE h + s >= c
  BY <1>2
<1>. QED
  BY <1>1, <1>2

LEMMA BufferNextRing == PC!TypeOK /\ PC!RingConsistent /\ [PC!Next]_(PC!vars) => PC!RingConsistent'
<1>. SUFFICES ASSUME PC!TypeOK, PC!RingConsistent, [PC!Next]_(PC!vars) PROVE PC!RingConsistent'
  OBVIOUS
<1>. USE DEF PC!RingConsistent, PC!config, PC!ring
<1>0. /\ capacity \in Nat \ {0} /\ head \in 0..capacity - 1 /\ tail \in Nat
      /\ size \in 0..capacity /\ produced_total \in Nat /\ consumed_total \in Nat
  BY BufferAssumed DEF PC!TypeOK
<1>1. ASSUME NEW p \in Producers, PC!Produce(p) PROVE PC!RingConsistent'
  <2>1. /\ capacity' = capacity /\ head' = head /\ size' = size + 1
        /\ consumed_total' = consumed_total
        /\ produced_total' = produced_total + 1
    BY <1>1 DEF PC!Produce
  <2>2. tail' = (((head + size) % capacity) + 1) % capacity
    BY <1>1 DEF PC!Produce, PC!Advance
  <2>3. tail' = (head + size + 1) % capacity
    BY <1>0, <2>2, AdvanceMod
  <2>4. head + (size + 1) = head + size + 1
    BY <1>0
  <2>. QED
    BY <1>0, <2>1, <2>3, <2>4
<1>2. ASSUME NEW c \in Consumers, PC!Consume(c) PROVE PC!RingConsistent'
  <2>1. /\ capacity' = capacity /\ tail' = tail /\ size' = size - 1 /\ size # 0
        /\ produced_total' = produced_total
        /\ consumed_total' = consumed_total + 1
    BY <1>2 DEF PC!Consume
  <2>2. head' = (head + 1) % capacity
    BY <1>2 DEF PC!Consume, PC!Advance
  <2>3. (head' + (size - 1)) % capacity = (head + 1 + (size - 1)) % capacity
    <3>1. size - 1 \in 0..capacity
      BY <1>0, <2>1
    <3>2. (((head + 1) % capacity) + (size - 1)) % capacity
            = (head + 1 + (size - 1)) % capacity
      BY <1>0, <3>1, AdvanceMod
    <3>. QED
      BY <2>2, <3>2
  <2>4. head + 1 + (size - 1) = head + size
    BY <1>0
  <2>. QED
    BY <1>0, <2>1, <2>3, <2>4
<1>3. CASE UNCHANGED <<PC!config, PC!ring>>
  BY <1>3
<1>. QED
  BY <1>1, <1>2, <1>3
  DEF PC!Next, PC!ProducerStep, PC!ConsumerStep, PC!ProducerWait, PC!ConsumerWait,
      PC!ConsumerLeave, PC!MainBroadcast, PC!MainReport, PC!SpuriousWakeup, PC!vars

LEMMA BufferInitRing == PC!Init => PC!RingConsistent
BY BufferAssumed, BufferCards DEF PC!Init, PC!RingConsistent

--------------------------------------------------------------------------------
(* A runnable thread that stops being runnable takes one from the count; a      *)
(* wakeup adds one.                                                             *)
LEMMA CardinalityStep ==
    ASSUME NEW S, IsFiniteSet(S), NEW t
    PROVE  /\ IsFiniteSet(S \cup {t}) /\ IsFiniteSet(S \ {t})
           /\ Cardinality(S) \in Nat
           /\ Cardinality(S \cup {t}) >= Cardinality(S)
           /\ t \notin S => Cardinality(S \cup {t}) = Cardinality(S) + 1
           /\ Cardinality(S \ {t}) >= Cardinality(S) - 1
<1>1. Cardinality(S) \in Nat
  BY FS_CardinalityType
<1>2. /\ IsFiniteSet(S \cup {t})
      /\ Cardinality(S \cup {t}) =
           IF t \in S THEN Cardinality(S) ELSE Cardinality(S) + 1
  BY FS_AddElement
<1>3. /\ IsFiniteSet(S \ {t})
      /\ Cardinality(S \ {t}) =
           IF t \in S THEN Cardinality(S) - 1 ELSE Cardinality(S)
  BY FS_RemoveElement
<1>. QED
  BY <1>1, <1>2, <1>3

LEMMA CardinalityMono ==
    ASSUME NEW S, NEW T, IsFiniteSet(T), S \subseteq T
    PROVE  /\ IsFiniteSet(S) /\ Cardinality(S) \in Nat /\ Cardinality(T) \in Nat
           /\ Cardinality(S) <= Cardinality(T)
BY FS_Subset, FS_CardinalityType

LEMMA NextConsumersCovered ==
    PC!TypeOK /\ PC!ConsumersCovered /\ [PC!Next]_(PC!vars) => PC!ConsumersCovered'
<1>. SUFFICES ASSUME PC!TypeOK, PC!ConsumersCovered, [PC!Next]_(PC!vars), not_empty' # {}
              PROVE  /\ consumed_total' < target_total'
                     /\ size' <= Cardinality(PC!RunnableConsumers')
  BY BufferCards DEF PC!ConsumersCovered
<1>. USE DEF PC!RunnableConsumers, PC!config, PC!ring
<1>0. /\ IsFiniteSet(PC!RunnableConsumers) /\ IsFiniteSet(PC!RunnableConsumers')
      /\ Cardinality(PC!RunnableConsumers) \in Nat
      /\ Cardinality(PC!RunnableConsumers') \in Nat
      /\ capacity \in Nat /\ size \in 0..capacity
      /\ consumed_total \in Nat /\ target_total \in Int
      /\ not_empty \subseteq Consumers \ left
  <2>1. PC!RunnableConsumers \subseteq Consumers /\ PC!RunnableConsumers' \subseteq Consumers
    OBVIOUS
  <2>2. /\ IsFiniteSet(PC!RunnableConsumers) /\ IsFiniteSet(PC!RunnableConsumers')
        /\ Cardinality(PC!RunnableConsumers) \in Nat
        /\ Cardinality(PC!RunnableConsumers') \in Nat
    BY <2>1, BufferAssumed, CardinalityMono
  <2>. QED
    BY <2>2, BufferAssumed DEF PC!TypeOK
<1>1. ASSUME NEW p \in Producers, PC!Produce(p)
      PROVE  /\ consumed_total' < target_total'
             /\ size' <= Cardinality(PC!RunnableConsumers')
  <2>1. /\ size' = size + 1 /\ left' = left /\ not_empty' \in PC!Signal(not_empty)
        /\ consumed_total' = consumed_total /\ target_total' = target_total
    BY <1>1 DEF PC!Produce, PC!SignalInserted
  <2>2. PICK t \in not_empty : not_empty' = not_empty \ {t}
    BY <2>1, SignalWakesOne
  <2>3. PC!RunnableConsumers' = PC!RunnableConsumers \cup {t} /\ t \notin PC!RunnableConsumers
    BY <1>0, <2>1, <2>2
  <2>4. Cardinality(PC!RunnableConsumers') = Cardinality(PC!RunnableConsumers) + 1
    BY <1>0, <2>3, CardinalityStep
  <2>. QED
    BY <1>0, <2>1, <2>2, <2>4, BufferCards DEF PC!ConsumersCovered
<1>2. ASSUME NEW c \in Consumers, PC!ConsumerWait(c)
      PROVE  /\ consumed_total' < target_total'
             /\ size' <= Cardinality(PC!RunnableConsumers')
  BY <1>0, <1>2 DEF PC!ConsumerWait, PC!TargetReached
<1>3. ASSUME NEW c \in Consumers, PC!ConsumerLeave(c) PROVE FALSE
  BY <1>3 DEF PC!ConsumerLeave, PC!Broadcast
<1>4. ASSUME NEW c \in Consumers, PC!Consume(c)
      PROVE  /\ consumed_total' < target_total'
             /\ size' <= Cardinality(PC!RunnableConsumers')
  <2>1. /\ ~PC!TargetReached(consumed_total + 1) /\ not_empty' = not_empty
        /\ left' = left /\ size' = size - 1
        /\ consumed_total' = consumed_total + 1 /\ target_total' = target_total
    BY <1>4 DEF PC!Consume, PC!Broadcast
  <2>2. PC!RunnableConsumers' = PC!RunnableConsumers
    BY <2>1
  <2>. QED
    BY <1>0, <2>1, <2>2, BufferCards DEF PC!ConsumersCovered, PC!TargetReached
<1>5. ASSUME PC!SpuriousWakeup
      PROVE  /\ consumed_total' < target_total'
             /\ size' <= Cardinality(PC!RunnableConsumers')
  <2>1. /\ size' = size /\ left' = left /\ not_empty' \subseteq not_empty
        /\ consumed_total' = consumed_total /\ target_total' = target_total
    BY <1>5 DEF PC!SpuriousWakeup
  <2>2. Cardinality(PC!RunnableConsumers) <= Cardinality(PC!RunnableConsumers')
    <3>1. PC!RunnableConsumers \subseteq PC!RunnableConsumers'
      BY <2>1
    <3>. QED
      BY <1>0, <3>1, CardinalityMono
  <2>. QED
    BY <1>0, <2>1, <2>2, BufferCards DEF PC!ConsumersCovered
<1>6. CASE PC!MainBroadcast
  BY <1>6 DEF PC!MainBroadcast, PC!Broadcast
<1>7. CASE UNCHANGED <<PC!config, PC!ring, not_empty, left>>
  BY <1>7, BufferCards DEF PC!ConsumersCovered
<1>. QED
  BY <1>1, <1>2, <1>3, <1>4, <1>5, <1>6, <1>7
  DEF PC!Next, PC!ProducerStep, PC!ConsumerStep, PC!ProducerWait, PC!MainReport, PC!vars

LEMMA NextProducersCovered ==
    PC!TypeOK /\ PC!ProducersCovered /\ [PC!Next]_(PC!vars) => PC!ProducersCovered'
<1>. SUFFICES ASSUME PC!TypeOK, PC!ProducersCovered, [PC!Next]_(PC!vars), not_full' # {}
              PROVE  capacity' - size' <= Cardinality(PC!RunnableProducers')
  BY BufferCards DEF PC!ProducersCovered
<1>. USE DEF PC!RunnableProducers, PC!ProducerReady, PC!config, PC!ring
<1>0. /\ IsFiniteSet(PC!RunnableProducers) /\ IsFiniteSet(PC!RunnableProducers')
      /\ Cardinality(PC!RunnableProducers) \in Nat
      /\ Cardinality(PC!RunnableProducers') \in Nat
      /\ capacity \in Nat /\ size \in 0..capacity
      /\ target_per_producer \in Nat
      /\ i \in [Producers -> Nat]
      /\ not_full \subseteq {p \in Producers : i[p] < target_per_producer}
  <2>1. /\ PC!RunnableProducers \subseteq Producers
        /\ PC!RunnableProducers' \subseteq Producers
    OBVIOUS
  <2>2. /\ IsFiniteSet(PC!RunnableProducers) /\ IsFiniteSet(PC!RunnableProducers')
        /\ Cardinality(PC!RunnableProducers) \in Nat
        /\ Cardinality(PC!RunnableProducers') \in Nat
    BY <2>1, BufferAssumed, CardinalityMono
  <2>3. /\ capacity \in Nat /\ size \in 0..capacity
        /\ target_per_producer \in Nat /\ i \in [Producers -> Nat]
        /\ not_full \subseteq {p \in Producers : i[p] < target_per_producer}
    BY BufferAssumed DEF PC!TypeOK
  <2>. QED
    BY <2>2, <2>3
<1>1. ASSUME NEW p \in Producers, PC!ProducerWait(p)
      PROVE  capacity' - size' <= Cardinality(PC!RunnableProducers')
  BY <1>0, <1>1 DEF PC!ProducerWait, PC!BufferFull
<1>2. ASSUME NEW p \in Producers, PC!Produce(p)
      PROVE  capacity' - size' <= Cardinality(PC!RunnableProducers')
  <2>1. /\ size' = size + 1 /\ capacity' = capacity /\ not_full' = not_full
        /\ target_per_producer' = target_per_producer
        /\ i' = [i EXCEPT ![p] = @ + 1]
    BY <1>2 DEF PC!Produce
  <2>2. PC!RunnableProducers \ {p} \subseteq PC!RunnableProducers'
    BY <1>0, <2>1
  <2>3. /\ IsFiniteSet(PC!RunnableProducers \ {p})
        /\ Cardinality(PC!RunnableProducers \ {p}) \in Nat
        /\ Cardinality(PC!RunnableProducers \ {p}) >= Cardinality(PC!RunnableProducers) - 1
    BY <1>0, CardinalityStep, FS_CardinalityType
  <2>4. Cardinality(PC!RunnableProducers \ {p}) <= Cardinality(PC!RunnableProducers')
    BY <1>0, <2>2, CardinalityMono
  <2>. QED
    BY <1>0, <2>1, <2>3, <2>4, BufferCards DEF PC!ProducersCovered
<1>3. ASSUME NEW c \in Consumers, PC!Consume(c)
      PROVE  capacity' - size' <= Cardinality(PC!RunnableProducers')
  <2>1. /\ size' = size - 1 /\ capacity' = capacity /\ i' = i
        /\ target_per_producer' = target_per_producer
        /\ not_full' \in PC!Signal(not_full)
    BY <1>3 DEF PC!Consume, PC!SignalRemoved
  <2>2. PICK t \in not_full : not_full' = not_full \ {t}
    BY <2>1, SignalWakesOne
  <2>3. PC!RunnableProducers' = PC!RunnableProducers \cup {t} /\ t \notin PC!RunnableProducers
    BY <1>0, <2>1, <2>2
  <2>4. Cardinality(PC!RunnableProducers') = Cardinality(PC!RunnableProducers) + 1
    BY <1>0, <2>3, CardinalityStep
  <2>. QED
    BY <1>0, <2>1, <2>2, <2>4, BufferCards DEF PC!ProducersCovered
<1>4. ASSUME PC!SpuriousWakeup
      PROVE  capacity' - size' <= Cardinality(PC!RunnableProducers')
  <2>1. /\ size' = size /\ capacity' = capacity /\ i' = i
        /\ target_per_producer' = target_per_producer /\ not_full' \subseteq not_full
    BY <1>4 DEF PC!SpuriousWakeup
  <2>2. PC!RunnableProducers \subseteq PC!RunnableProducers'
    BY <2>1
  <2>3. Cardinality(PC!RunnableProducers) <= Cardinality(PC!RunnableProducers')
    BY <1>0, <2>2, CardinalityMono
  <2>. QED
    BY <1>0, <2>1, <2>3, BufferCards DEF PC!ProducersCovered
<1>5. CASE UNCHANGED <<PC!config, PC!ring, not_full, i>>
  BY <1>5, BufferCards DEF PC!ProducersCovered
<1>. QED
  BY <1>1, <1>2, <1>3, <1>4, <1>5
  DEF PC!Next, PC!ProducerStep, PC!ConsumerStep, PC!ConsumerWait, PC!ConsumerLeave,
      PC!MainBroadcast, PC!MainReport, PC!vars

--------------------------------------------------------------------------------
(* What a slot may hold.                                                        *)
Slot == (Producers \X Nat) \cup {PC!NoItem}

(* The occupied slots are those at distance 0..s-1 from h; the slot at distance *)
(* s is not one of them.                                                        *)
LEMMA SlotAfterWindow ==
    ASSUME NEW c \in Nat \ {0}, NEW h \in 0..c - 1, NEW s \in 0..c - 1, NEW k \in 1..s
    PROVE  (h + k - 1) % c # (h + s) % c
<1>1. CASE h + s < c
  BY <1>1
<1>2. CASE h + s >= c /\ h + k - 1 < c
  BY <1>2
<1>3. CASE h + s >= c /\ h + k - 1 >= c
  BY <1>3
<1>. QED
  BY <1>1, <1>2, <1>3

LEMMA SlotShift ==
    ASSUME NEW c \in Nat \ {0}, NEW h \in 0..c - 1, NEW k \in 1..c
    PROVE  /\ (h + k - 1) % c \in 0..c - 1
           /\ ((((h + 1) % c) + k) - 1) % c = ((h + (k + 1)) - 1) % c
<1>1. CASE h + 1 < c
  BY <1>1
<1>2. CASE h + 1 = c
  <2>1. (h + 1) % c = 0
    BY <1>2
  <2>2. ((h + (k + 1)) - 1) % c = (c + (k - 1)) % c
    BY <1>2
  <2>3. (c + (k - 1)) % c = (k - 1) % c
    OBVIOUS
  <2>. QED
    BY <2>1, <2>2, <2>3
<1>. QED
  BY <1>1, <1>2

(* The part of TypeOK the refinement needs.                                     *)
RingType ==
    /\ capacity \in Nat \ {0}
    /\ head \in 0..capacity - 1
    /\ size \in 0..capacity
    /\ items \in [0..capacity - 1 -> Slot]
    /\ i \in [Producers -> Nat]

LEMMA BufferRingType == PC!TypeOK => RingType
<1>. SUFFICES ASSUME PC!TypeOK PROVE RingType
  OBVIOUS
<1>1. capacity \in Nat \ {0} /\ target_per_producer \in Nat
  BY BufferAssumed DEF PC!TypeOK
<1>2. head \in 0..capacity - 1 /\ size \in 0..capacity
  BY DEF PC!TypeOK
<1>3. items \in [0..capacity - 1 -> Slot]
  BY DEF PC!TypeOK, Slot
<1>4. i \in [Producers -> Nat]
  BY <1>1 DEF PC!TypeOK
<1>. QED
  BY <1>1, <1>2, <1>3, <1>4 DEF RingType

LEMMA BufferRingTypeNext == PC!TypeOK' => RingType'
BY BufferRingType, PTL

(* The occupied slots, oldest first, form a sequence as long as the buffer.     *)
LEMMA WindowType ==
    ASSUME NEW c \in Nat \ {0}, NEW h \in 0..c - 1, NEW s \in 0..c,
           NEW its \in [0..c - 1 -> Slot]
    PROVE  /\ PC!Window(c, h, s, its) \in Seq(Slot) /\ Len(PC!Window(c, h, s, its)) = s
           /\ \A k \in 1..s : PC!Window(c, h, s, its)[k] = its[(h + k - 1) % c]
<1>1. \A k \in 1..s : (h + k - 1) % c \in 0..c - 1
  BY SlotShift
<1>2. PC!Window(c, h, s, its) \in [1..s -> Slot]
  BY <1>1 DEF PC!Window
<1>. QED
  BY <1>2 DEF PC!Window

LEMMA ProduceRefines ==
    ASSUME RingType, RingType', PC!RingConsistent, NEW p \in Producers, PC!Produce(p)
    PROVE  PC!Queue!Put(p)
<1>1. /\ capacity \in Nat \ {0} /\ head \in 0..capacity - 1 /\ size \in 0..capacity
      /\ items \in [0..capacity - 1 -> Slot] /\ i[p] \in Nat
  BY DEF RingType
<1>2. /\ size # capacity /\ size' = size + 1
      /\ capacity' = capacity /\ head' = head /\ consumed_total' = consumed_total
      /\ items' = [items EXCEPT ![tail] = <<p, i[p]>>]
      /\ i' = [i EXCEPT ![p] = @ + 1]
  BY DEF PC!Produce, PC!BufferFull, PC!config
<1>3. tail = (head + size) % capacity /\ tail \in 0..capacity - 1
  BY <1>1 DEF PC!RingConsistent
<1>4. /\ PC!Contents \in Seq(Slot) /\ Len(PC!Contents) = size
      /\ \A k \in 1..size : PC!Contents[k] = items[(head + k - 1) % capacity]
  BY <1>1, WindowType DEF PC!Contents
<1>5. /\ PC!Contents' \in Seq(Slot) /\ Len(PC!Contents') = size'
      /\ \A k \in 1..size' : PC!Contents'[k] = items'[(head' + k - 1) % capacity']
  <2>1. /\ capacity' \in Nat \ {0} /\ head' \in 0..capacity' - 1
        /\ size' \in 0..capacity' /\ items' \in [0..capacity' - 1 -> Slot]
    BY DEF RingType, Slot, PC!NoItem
  <2>2. PC!Contents' = PC!Window(capacity', head', size', items')
    BY DEF PC!Contents
  <2>. QED
    BY <2>1, <2>2, WindowType
<1>6. <<p, i[p]>> \in Slot
  BY <1>1 DEF Slot, PC!NoItem
<1>7. /\ Append(PC!Contents, <<p, i[p]>>) \in Seq(Slot)
      /\ Len(Append(PC!Contents, <<p, i[p]>>)) = size + 1
      /\ \A k \in 1..size : Append(PC!Contents, <<p, i[p]>>)[k] = PC!Contents[k]
      /\ Append(PC!Contents, <<p, i[p]>>)[size + 1] = <<p, i[p]>>
  BY <1>4, <1>6, AppendProperties
<1>8. ASSUME NEW k \in 1..size + 1
      PROVE  PC!Contents'[k] = Append(PC!Contents, <<p, i[p]>>)[k]
  <2>1. CASE k = size + 1
    <3>1. head + k - 1 = head + size
      BY <1>1, <2>1
    <3>2. PC!Contents'[k] = items'[tail]
      BY <1>1, <1>2, <1>3, <1>5, <2>1, <3>1
    <3>. QED
      BY <1>1, <1>2, <1>3, <1>7, <2>1, <3>2
  <2>2. CASE k \in 1..size
    <3>1. (head + k - 1) % capacity # tail
      <4>1. size \in 0..capacity - 1
        BY <1>1, <1>2
      <4>. QED
        BY <1>1, <1>3, <2>2, <4>1, SlotAfterWindow
    <3>2. (head + k - 1) % capacity \in 0..capacity - 1
      BY <1>1, <2>2, SlotShift
    <3>. QED
      BY <1>1, <1>2, <1>4, <1>5, <1>7, <2>2, <3>1, <3>2
  <2>3. k = size + 1 \/ k \in 1..size
    BY <1>1
  <2>. QED
    BY <2>1, <2>2, <2>3
<1>9. PC!Contents' = Append(PC!Contents, <<p, i[p]>>)
  BY <1>1, <1>2, <1>5, <1>6, <1>7, <1>8, SeqEqual
<1>. QED
  BY <1>1, <1>2, <1>4, <1>9 DEF PC!Queue!Put

LEMMA ConsumeRefines ==
    ASSUME RingType, RingType', NEW c \in Consumers, PC!Consume(c)
    PROVE  PC!Queue!Take
<1>1. /\ capacity \in Nat \ {0} /\ head \in 0..capacity - 1 /\ size \in 0..capacity
      /\ items \in [0..capacity - 1 -> Slot]
  BY DEF RingType
<1>2. /\ size # 0 /\ size' = size - 1 /\ head' = (head + 1) % capacity
      /\ capacity' = capacity /\ items' = items /\ i' = i
      /\ consumed_total' = consumed_total + 1
  BY DEF PC!Consume, PC!Advance, PC!config
<1>3. /\ PC!Contents \in Seq(Slot) /\ Len(PC!Contents) = size
      /\ \A k \in 1..size : PC!Contents[k] = items[(head + k - 1) % capacity]
  BY <1>1, WindowType DEF PC!Contents
<1>4. /\ PC!Contents' \in Seq(Slot) /\ Len(PC!Contents') = size'
      /\ \A k \in 1..size' : PC!Contents'[k] = items'[(head' + k - 1) % capacity']
  <2>1. /\ capacity' \in Nat \ {0} /\ head' \in 0..capacity' - 1
        /\ size' \in 0..capacity' /\ items' \in [0..capacity' - 1 -> Slot]
    BY DEF RingType, Slot, PC!NoItem
  <2>2. PC!Contents' = PC!Window(capacity', head', size', items')
    BY DEF PC!Contents
  <2>. QED
    BY <2>1, <2>2, WindowType
<1>6. PC!Contents # << >>
  BY <1>1, <1>2, <1>3
<1>7. /\ Tail(PC!Contents) \in Seq(Slot) /\ Len(Tail(PC!Contents)) = size - 1
      /\ \A k \in 1..size - 1 : Tail(PC!Contents)[k] = PC!Contents[k + 1]
  BY <1>3, <1>6, HeadTailProperties
<1>8. ASSUME NEW k \in 1..size - 1
      PROVE  PC!Contents'[k] = Tail(PC!Contents)[k]
  <2>1. (head' + k - 1) % capacity = (head + (k + 1) - 1) % capacity
    <3>1. k \in 1..capacity
      BY <1>1
    <3>2. ((((head + 1) % capacity) + k) - 1) % capacity = ((head + (k + 1)) - 1) % capacity
      BY <1>1, <3>1, SlotShift
    <3>3. head' = (head + 1) % capacity
      BY <1>2
    <3>4. capacity \in Nat \ {0} /\ head \in Nat /\ k \in Nat
      BY <1>1
    <3>. QED
      BY ONLY <3>2, <3>3, <3>4
  <2>2. k \in 1..size' /\ k + 1 \in 1..size
    BY <1>1, <1>2
  <2>. QED
    BY <1>2, <1>3, <1>4, <1>7, <2>1, <2>2
<1>9. PC!Contents' = Tail(PC!Contents)
  BY <1>1, <1>2, <1>4, <1>7, <1>8, SeqEqual
<1>. QED
  BY <1>2, <1>6, <1>9 DEF PC!Queue!Take

LEMMA BufferInitRefines == PC!Init => PC!Queue!Init
<1>. SUFFICES ASSUME PC!Init PROVE PC!Queue!Init
  OBVIOUS
<1>1. capacity \in Nat \ {0} /\ size = 0
  BY BufferAssumed, BufferCards DEF PC!Init
<1>2. PC!Contents = << >>
  BY <1>1 DEF PC!Contents, PC!Window
<1>. QED
  BY <1>1, <1>2, BufferCards DEF PC!Init, PC!Queue!Init

(* The inductive invariant of the buffer.                                         *)
BufferInv ==
    problem = "producer_consumer" =>
        PC!TypeOK /\ PC!RingConsistent /\ PC!ConsumersCovered /\ PC!ProducersCovered

LEMMA BufferAlways == Spec => []BufferInv
<1>1. Init => BufferInv
  BY InitProblem, BufferInitTypes, BufferInitRing, BufferCards
  DEF BufferInv, PC!Init, PC!ConsumersCovered, PC!ProducersCovered
<1>2. BufferInv /\ [Next]_vars => BufferInv'
  BY ProblemStep, BufferNextTypes, BufferNextRing, NextConsumersCovered,
     NextProducersCovered
  DEF BufferInv
<1>. QED
  BY <1>1, <1>2, PTL DEF Spec

(* The counters and the two indices agree in every reachable state.               *)
THEOREM RingAlwaysConsistent == Spec => []RingConsistent
<1>1. BufferInv => RingConsistent
  BY DEF BufferInv, RingConsistent
<1>. QED
  BY <1>1, BufferAlways, PTL

(* No wakeup is lost, however many threads wait and however the signals and the     *)
(* spurious wakeups choose among them: the inductive invariant is TypeOK and the    *)
(* two counting arguments.                                                       *)
THEOREM NoWakeupOfTheBufferIsLost == Spec => []BufferWakeups
<1>1. BufferInv => BufferWakeups
  BY DEF BufferInv, BufferWakeups, PC!NoLostWakeup
<1>. QED
  BY <1>1, BufferAlways, PTL

(* Every behaviour of the program is one of the bounded FIFO queue: the two         *)
(* actions that move an item implement Put and Take, the others change nothing     *)
(* the queue shows.                                                              *)
THEOREM ImplementsBoundedFifo == Spec => BoundedFifo
<1>1. Init => (problem = "producer_consumer" => PC!Queue!Init)
  BY InitProblem, BufferInitRefines
<1>2. BufferInv /\ BufferInv' /\ [Next]_vars
      => [problem = "producer_consumer" => PC!Queue!Next \/ UNCHANGED PC!Queue!vars]_vars
  <2>. SUFFICES ASSUME BufferInv, BufferInv', [Next]_vars, problem = "producer_consumer"
                PROVE  PC!Queue!Next \/ UNCHANGED PC!Queue!vars
    OBVIOUS
  <2>0. RingType /\ RingType' /\ PC!RingConsistent /\ [PC!Next]_(PC!vars)
    <3>1. problem' = problem /\ [PC!Next]_(PC!vars)
      BY ProblemStep
    <3>2. PC!TypeOK /\ PC!TypeOK' /\ PC!RingConsistent
      BY <3>1 DEF BufferInv
    <3>. QED
      BY <3>1, <3>2, BufferRingType, BufferRingTypeNext
  <2>1. ASSUME NEW p \in Producers, PC!Produce(p) PROVE PC!Queue!Next
    BY <2>0, <2>1, ProduceRefines DEF PC!Queue!Next
  <2>2. ASSUME NEW c \in Consumers, PC!Consume(c) PROVE PC!Queue!Next
    BY <2>0, <2>2, ConsumeRefines DEF PC!Queue!Next
  <2>3. CASE UNCHANGED <<PC!config, PC!ring, i>>
    BY <2>3 DEF PC!config, PC!ring, PC!Contents, PC!Queue!vars
  <2>. QED
    BY <2>0, <2>1, <2>2, <2>3
    DEF PC!Next, PC!ProducerStep, PC!ConsumerStep, PC!ProducerWait, PC!ConsumerWait,
        PC!ConsumerLeave, PC!MainBroadcast, PC!MainReport, PC!SpuriousWakeup, PC!vars
<1>. QED
  BY <1>1, <1>2, BufferAlways, PTL DEF Spec, BoundedFifo
--------------------------------------------------------------------------------
(* The inductive invariant.  TypeOK is not inductive alone: that the counters    *)
(* stay natural numbers follows from their being cardinalities.                 *)
RWInv == RW!TypeOK /\ RW!CountersExact /\ RW!Exclusion /\ RW!NoLostWakeup

LEMMA SignalFacts ==
    ASSUME NEW W, NEW V, V \in RW!Signal(W)
    PROVE  V \subseteq W /\ (W # {} => \E t \in W : V = W \ {t})
BY DEF RW!Signal

(* Cardinalities of the subsets of a finite set, one element more or less.       *)
LEMMA SubsetCard ==
    ASSUME NEW T, IsFiniteSet(T), NEW S \in SUBSET T, NEW t
    PROVE  /\ IsFiniteSet(S) /\ Cardinality(S) \in Nat
           /\ Cardinality(S) = 0 <=> S = {}
           /\ t \notin S => Cardinality(S \cup {t}) = Cardinality(S) + 1
           /\ t \in S => Cardinality(S \ {t}) = Cardinality(S) - 1
<1>1. IsFiniteSet(S)
  BY FS_Subset
<1>2. Cardinality(S) \in Nat
  BY <1>1, FS_CardinalityType
<1>3. Cardinality(S) = 0 <=> S = {}
  BY <1>1, FS_EmptySet
<1>4. Cardinality(S \cup {t}) = IF t \in S THEN Cardinality(S) ELSE Cardinality(S) + 1
  BY <1>1, FS_AddElement
<1>5. Cardinality(S \ {t}) = IF t \in S THEN Cardinality(S) - 1 ELSE Cardinality(S)
  BY <1>1, FS_RemoveElement
<1>. QED
  BY <1>1, <1>2, <1>3, <1>4, <1>5

(* What the counters tell in a state of IInv.                                    *)
LEMMA CounterFacts ==
    ASSUME RWInv
    PROVE  /\ active_readers \in Nat /\ waiting_writers \in Nat
           /\ active_readers = 0 <=> reading = {}
           /\ waiting_writers = 0 <=> queued = {}
           /\ active_writers = 0 <=> writing = {}
<1>1. /\ reading \in SUBSET Readers /\ queued \in SUBSET Writers
      /\ writing \in SUBSET Writers
  BY DEF RWInv, RW!TypeOK
<1>2. /\ active_readers = Cardinality(reading) /\ waiting_writers = Cardinality(queued)
      /\ active_writers = Cardinality(writing)
  BY RWCards DEF RWInv, RW!CountersExact
<1>3. Cardinality(reading) \in Nat /\ (Cardinality(reading) = 0 <=> reading = {})
  BY <1>1, RWAssumed, SubsetCard
<1>4. Cardinality(queued) \in Nat /\ (Cardinality(queued) = 0 <=> queued = {})
  BY <1>1, RWAssumed, SubsetCard
<1>5. Cardinality(writing) \in Nat /\ (Cardinality(writing) = 0 <=> writing = {})
  BY <1>1, RWAssumed, SubsetCard
<1>. QED
  BY <1>2, <1>3, <1>4, <1>5
--------------------------------------------------------------------------------
LEMMA RWInitInv == RW!Init => RWInv
<1>. SUFFICES ASSUME RW!Init PROVE RWInv
  OBVIOUS
<1>1. RW!TypeOK
  BY RWAssumed DEF RW!Init, RW!TypeOK
<1>2. RW!CountersExact
  BY FS_EmptySet, RWCards DEF RW!Init, RW!CountersExact
<1>. QED
  BY <1>1, <1>2, RWCards DEF RW!Init, RWInv, RW!Exclusion, RW!NoLostWakeup

LEMMA ReaderBlockInv ==
    ASSUME RWInv, NEW r \in Readers, RW!ReaderBlock(r)
    PROVE  RWInv'
<1>. USE DEF RW!ReaderBlock, RW!ReaderReady, RW!MutexFree, RW!ReaderMayEnter,
             RW!counters, RW!data
<1>1. RW!TypeOK'
  BY DEF RWInv, RW!TypeOK
<1>2. RW!CountersExact' /\ RW!Exclusion'
  BY RWCards DEF RWInv, RW!CountersExact, RW!Exclusion
<1>3. RW!NoLostWakeup'
  BY CounterFacts DEF RWInv, RW!NoLostWakeup
<1>. QED
  BY <1>1, <1>2, <1>3 DEF RWInv

LEMMA ReadStartInv ==
    ASSUME RWInv, NEW r \in Readers, RW!ReadStart(r)
    PROVE  RWInv'
<1>. USE DEF RW!ReadStart, RW!ReaderReady, RW!MutexFree, RW!ReaderMayEnter,
             RW!counters, RW!data
<1>1. RW!TypeOK'
  BY DEF RWInv, RW!TypeOK
<1>2. RW!CountersExact'
  <2>1. Cardinality(reading \cup {r}) = Cardinality(reading) + 1
    BY RWAssumed, SubsetCard DEF RWInv, RW!TypeOK
  <2>. QED
    BY <2>1, RWCards DEF RWInv, RW!CountersExact
<1>3. RW!Exclusion'
  BY RWCards DEF RW!Exclusion
<1>4. RW!NoLostWakeup'
  BY DEF RWInv, RW!NoLostWakeup
<1>. QED
  BY <1>1, <1>2, <1>3, <1>4 DEF RWInv

LEMMA ReadEndInv ==
    ASSUME RWInv, NEW r \in Readers, RW!ReadEnd(r)
    PROVE  RWInv'
<1>. USE DEF RW!ReadEnd, RW!MutexFree, RW!counters, RW!data
<1>1. Cardinality(reading \ {r}) = Cardinality(reading) - 1
  BY RWAssumed, SubsetCard DEF RWInv, RW!TypeOK
<1>2. /\ Cardinality(reading \ {r}) \in Nat
      /\ Cardinality(reading \ {r}) = 0 <=> reading \ {r} = {}
  BY RWAssumed, SubsetCard DEF RWInv, RW!TypeOK
<1>3. active_readers' = Cardinality(reading')
  BY <1>1, RWCards DEF RWInv, RW!CountersExact
<1>4. can_write' \subseteq can_write
  BY SignalFacts DEF RW!WakeWriter
<1>5. RW!TypeOK'
  <2>1. active_readers' \in Nat
    BY <1>2, <1>3
  <2>2. /\ UNCHANGED <<count, active_writers, waiting_writers, shared_value, write_total,
                       can_read, queued, writing, main>>
        /\ reading' = reading \ {r} /\ read_total' = read_total + 1
    OBVIOUS
  <2>3. r \in RW!Threads /\ r \notin Writers /\ i[r] < count
    BY RWAssumed DEF RW!Threads, RWInv, RW!TypeOK
  <2>4. /\ i' \in [RW!Threads -> 0..count]
        /\ \A t \in reading' \cup queued' \cup writing' : i'[t] < count
    BY <2>2, <2>3 DEF RWInv, RW!TypeOK
  <2>. QED
    BY <1>4, <2>1, <2>2, <2>4 DEF RWInv, RW!TypeOK
<1>6. RW!CountersExact' /\ RW!Exclusion'
  BY <1>3, RWCards DEF RWInv, RW!CountersExact, RW!Exclusion
<1>7. RW!NoLostWakeup'
  <2>1. CASE active_readers - 1 = 0
    <3>1. can_write' \in RW!Signal(can_write)
      BY <2>1 DEF RW!WakeWriter
    <3>. QED
      BY <3>1, SignalFacts DEF RWInv, RW!NoLostWakeup, RW!TypeOK
  <2>2. CASE active_readers - 1 # 0
    <3>1. can_write' = can_write
      BY <2>2 DEF RW!WakeWriter
    <3>2. reading' # {}
      BY <1>1, <1>2, <1>3, <2>2
    <3>. QED
      BY <3>1, <3>2 DEF RWInv, RW!NoLostWakeup
  <2>. QED
    BY <2>1, <2>2
<1>. QED
  BY <1>5, <1>6, <1>7 DEF RWInv

LEMMA WriterBlockInv ==
    ASSUME RWInv, NEW w \in Writers, RW!WriterBlock(w)
    PROVE  RWInv'
<1>. USE DEF RW!WriterBlock, RW!WriterReady, RW!MutexFree, RW!WriterMayEnter,
             RW!counters, RW!data
<1>1. waiting_writers' = Cardinality(queued')
  <2>1. CASE w \in queued
    <3>1. queued' = queued /\ waiting_writers' = waiting_writers + 0
      BY <2>1 DEF RW!Arrive
    <3>2. waiting_writers = Cardinality(queued) /\ waiting_writers \in Nat
      BY CounterFacts, RWCards DEF RWInv, RW!CountersExact
    <3>. QED
      BY <3>1, <3>2
  <2>2. CASE w \notin queued
    <3>1. Cardinality(queued \cup {w}) = Cardinality(queued) + 1
      BY <2>2, RWAssumed, SubsetCard DEF RWInv, RW!TypeOK
    <3>. QED
      BY <2>2, <3>1, RWCards DEF RW!Arrive, RWInv, RW!CountersExact
  <2>. QED
    BY <2>1, <2>2
<1>2. RW!TypeOK'
  <2>1. waiting_writers' \in Nat
    BY CounterFacts DEF RW!Arrive
  <2>. QED
    BY <2>1 DEF RWInv, RW!TypeOK
<1>3. RW!CountersExact' /\ RW!Exclusion'
  BY <1>1, RWCards DEF RWInv, RW!CountersExact, RW!Exclusion
<1>4. RW!NoLostWakeup'
  BY CounterFacts DEF RWInv, RW!NoLostWakeup
<1>. QED
  BY <1>2, <1>3, <1>4 DEF RWInv

LEMMA WriteStartInv ==
    ASSUME RWInv, NEW w \in Writers, RW!WriteStart(w)
    PROVE  RWInv'
<1>. USE DEF RW!WriteStart, RW!WriterReady, RW!MutexFree, RW!WriterMayEnter,
             RW!counters, RW!data
<1>1. waiting_writers' = Cardinality(queued')
  <2>1. CASE w \in queued
    <3>1. Cardinality(queued \ {w}) = Cardinality(queued) - 1
      BY <2>1, RWAssumed, SubsetCard DEF RWInv, RW!TypeOK
    <3>. QED
      BY <2>1, <3>1, CounterFacts, RWCards DEF RW!Arrive, RWInv, RW!CountersExact
  <2>2. CASE w \notin queued
    <3>1. queued' = queued
      BY <2>2
    <3>2. RW!Arrive(w) = 1
      BY <2>2 DEF RW!Arrive
    <3>3. waiting_writers = Cardinality(queued) /\ waiting_writers \in Nat
      BY CounterFacts, RWCards DEF RWInv, RW!CountersExact
    <3>. QED
      BY <3>1, <3>2, <3>3
  <2>. QED
    BY <2>1, <2>2
<1>2. writing' = {w} /\ Cardinality(writing') = 1
  BY FS_Singleton
<1>3. reading = {}
  BY CounterFacts
<1>4. RW!TypeOK'
  <2>1. waiting_writers' \in Nat
    <3>1. Cardinality(queued \ {w}) \in Nat
      BY RWAssumed, SubsetCard DEF RWInv, RW!TypeOK
    <3>. QED
      BY <1>1, <3>1
  <2>2. can_write' \subseteq queued'
    BY DEF RWInv, RW!TypeOK
  <2>. QED
    BY <1>2, <2>1, <2>2 DEF RWInv, RW!TypeOK
<1>5. RW!CountersExact' /\ RW!Exclusion'
  BY <1>1, <1>2, <1>3, RWCards DEF RWInv, RW!CountersExact, RW!Exclusion
<1>6. RW!NoLostWakeup'
  BY <1>2 DEF RW!NoLostWakeup
<1>. QED
  BY <1>4, <1>5, <1>6 DEF RWInv

LEMMA WriteEndInv ==
    ASSUME RWInv, NEW w \in Writers, RW!WriteEnd(w)
    PROVE  RWInv'
<1>. USE DEF RW!WriteEnd, RW!counters, RW!data
<1>1. writing' = {} /\ writing = {w}
  <2>1. Cardinality(writing) = 1
    BY RWCards DEF RWInv, RW!Exclusion
  <2>2. PICK v : writing = {v}
    BY <2>1, RWAssumed, FS_Singleton, FS_Subset DEF RWInv, RW!TypeOK
  <2>. QED
    BY <2>2
<1>2. can_write' \subseteq can_write /\ can_read' \subseteq can_read
  BY SignalFacts DEF RW!HandOver, RW!Broadcast
<1>3. RW!TypeOK'
  <2>1. w \in RW!Threads /\ w \notin Readers /\ w \notin queued /\ i[w] < count
    BY RWAssumed DEF RW!Threads, RWInv, RW!TypeOK
  <2>2. /\ i' \in [RW!Threads -> 0..count]
        /\ \A t \in reading' \cup queued' \cup writing' : i'[t] < count
    BY <1>1, <2>1 DEF RWInv, RW!TypeOK
  <2>. QED
    BY <1>1, <1>2, <2>2 DEF RWInv, RW!TypeOK
<1>4. RW!CountersExact' /\ RW!Exclusion'
  BY <1>1, FS_EmptySet, RWCards DEF RWInv, RW!CountersExact, RW!Exclusion
<1>5. RW!NoLostWakeup'
  <2>1. CASE waiting_writers > 0
    <3>1. queued' # {}
      BY <2>1, CounterFacts
    <3>2. can_write' \in RW!Signal(can_write)
      BY <2>1 DEF RW!HandOver
    <3>3. can_write # {} => \E t \in can_write : can_write' = can_write \ {t}
      BY <3>2, SignalFacts
    <3>4. can_write' # {} => queued' \ can_write' # {}
      BY <1>2, <3>3 DEF RWInv, RW!TypeOK
    <3>. QED
      BY <3>1, <3>4 DEF RW!NoLostWakeup
  <2>2. CASE ~(waiting_writers > 0)
    <3>1. queued = {}
      BY <2>2, CounterFacts
    <3>2. can_read' = {} /\ can_write' = {}
      BY <2>2, <3>1 DEF RW!HandOver, RW!Broadcast, RWInv, RW!TypeOK
    <3>. QED
      BY <3>2 DEF RW!NoLostWakeup
  <2>. QED
    BY <2>1, <2>2
<1>. QED
  BY <1>3, <1>4, <1>5 DEF RWInv

LEMMA RWNextInv == RWInv /\ [RW!Next]_(RW!vars) => RWInv'
<1>. SUFFICES ASSUME RWInv, [RW!Next]_(RW!vars) PROVE RWInv'
  OBVIOUS
<1>1. ASSUME NEW r \in Readers, RW!ReaderStep(r) PROVE RWInv'
  BY <1>1, ReaderBlockInv, ReadStartInv, ReadEndInv DEF RW!ReaderStep
<1>2. ASSUME NEW w \in Writers, RW!WriterStep(w) PROVE RWInv'
  BY <1>2, WriterBlockInv, WriteStartInv, WriteEndInv DEF RW!WriterStep
<1>3. CASE RW!MainReport
  BY <1>3, RWCards
  DEF RW!MainReport, RW!counters, RW!data, RWInv, RW!TypeOK, RW!CountersExact,
      RW!Exclusion, RW!NoLostWakeup
<1>4. CASE RW!SpuriousWakeup
  BY <1>4, RWCards
  DEF RW!SpuriousWakeup, RW!counters, RW!data, RWInv, RW!TypeOK, RW!CountersExact,
      RW!Exclusion, RW!NoLostWakeup
<1>5. CASE UNCHANGED RW!vars
  BY <1>5, RWCards
  DEF RW!vars, RW!counters, RW!data, RWInv, RW!TypeOK, RW!CountersExact, RW!Exclusion,
      RW!NoLostWakeup
<1>. QED
  BY <1>1, <1>2, <1>3, <1>4, <1>5 DEF RW!Next

LEMMA ReadersWritersAlways == Spec => [](problem = "readers_writers" => RWInv)
<1>1. Init => (problem = "readers_writers" => RWInv)
  BY InitProblem, RWInitInv
<1>2. /\ problem = "readers_writers" => RWInv
      /\ [Next]_vars
      => (problem = "readers_writers" => RWInv)'
  BY ProblemStep, RWNextInv
<1>. QED
  BY <1>1, <1>2, PTL DEF Spec

(* No reader reads while a writer writes, and only one writer writes.              *)
THEOREM ReadersAndWritersExclude == Spec => []Exclusion
<1>1. (problem = "readers_writers" => RWInv) => Exclusion
  BY DEF RWInv, Exclusion
<1>. QED
  BY <1>1, ReadersWritersAlways, PTL

(* Every sleeping reader or writer is owed a wakeup by a thread that is not asleep.  *)
THEOREM NoWakeupOfReadersOrWritersIsLost == Spec => []ReaderWriterWakeups
<1>1. (problem = "readers_writers" => RWInv) => ReaderWriterWakeups
  BY DEF RWInv, ReaderWriterWakeups
<1>. QED
  BY <1>1, ReadersWritersAlways, PTL

(* No reader starts while a writer is queued.                                      *)
THEOREM WritersGoFirst == Spec => WriterPriority
<1>1. /\ problem = "readers_writers" => RWInv
      /\ [Next]_vars
      => [problem = "readers_writers" => RW!WriterPriority]_vars
  <2>. SUFFICES ASSUME RWInv, [RW!Next]_(RW!vars),
                       NEW r \in Readers, r \in reading' \ reading
                PROVE  queued = {}
    BY ProblemStep DEF RW!WriterPriority
  <2>1. PICK q \in Readers : RW!ReadStart(q)
    BY DEF RW!Next, RW!ReaderStep, RW!WriterStep, RW!ReaderBlock, RW!ReadEnd,
           RW!WriterBlock, RW!WriteStart, RW!WriteEnd, RW!MainReport, RW!SpuriousWakeup,
           RW!vars
  <2>. QED
    BY <2>1, CounterFacts DEF RW!ReadStart, RW!ReaderMayEnter
<1>. QED
  BY <1>1, ReadersWritersAlways, PTL DEF Spec, WriterPriority
--------------------------------------------------------------------------------
(* in_room counts the philosophers inside, and one stays outside.                *)
RoomLimit == in_room = Cardinality(DP!Inside) /\ in_room <= N - 1

(* Whoever came in and has not eaten yet has a round left, so that no philosopher *)
(* eats more often than target_count.                                           *)
OwesRound == \A p \in DP!Philosophers : pc[p] \in {"entered", "has_left"} => DP!RoundsLeft(p)

(* The inductive invariant: a sleeper is the only one outside, so that the one    *)
(* signal of leave_room reaches it.                                             *)
DPInv == DP!TypeOK /\ RoomLimit /\ OwesRound /\ DP!SleepOnlyWhenFull
--------------------------------------------------------------------------------
(* A chopstick's neighbour is another one, and a philosopher.                     *)
LEMMA RightFacts ==
    ASSUME NEW p \in DP!Philosophers
    PROVE  /\ DP!RightOf(p) \in DP!Philosophers
           /\ DP!RightOf(p) # p
           /\ p < N - 1 => DP!RightOf(p) = p + 1
           /\ p = N - 1 => DP!RightOf(p) = 0
BY DPAssumed DEF DP!Philosophers, DP!RightOf

LEMMA PhilosopherCount ==
    ASSUME NEW S \in SUBSET DP!Philosophers
    PROVE  /\ IsFiniteSet(S) /\ Cardinality(S) \in Nat
           /\ Cardinality(S) = N => S = DP!Philosophers
           /\ \A p \in S : Cardinality(S \ {p}) = Cardinality(S) - 1
           /\ \A p \in DP!Philosophers \ S : Cardinality(S \cup {p}) = Cardinality(S) + 1
<1>1. IsFiniteSet(DP!Philosophers) /\ Cardinality(DP!Philosophers) = N
  BY FS_Interval, DPAssumed DEF DP!Philosophers
<1>2. IsFiniteSet(S) /\ (Cardinality(S) = N => S = DP!Philosophers)
  BY <1>1, FS_Subset
<1>3. Cardinality(S) \in Nat
  BY <1>2, FS_CardinalityType
<1>4. ASSUME NEW p \in S PROVE Cardinality(S \ {p}) = Cardinality(S) - 1
  BY <1>2, FS_RemoveElement
<1>5. ASSUME NEW p \in DP!Philosophers \ S PROVE Cardinality(S \cup {p}) = Cardinality(S) + 1
  BY <1>2, FS_AddElement
<1>. QED
  BY <1>2, <1>3, <1>4, <1>5

(* With all but one inside, there is one place outside.                          *)
LEMMA OneOutside ==
    ASSUME NEW S \in SUBSET DP!Philosophers, Cardinality(S) = N - 1,
           NEW p \in DP!Philosophers \ S, NEW q \in DP!Philosophers \ S
    PROVE  p = q
<1>1. Cardinality(S \cup {p}) = N
  BY PhilosopherCount, DPAssumed
<1>2. S \cup {p} = DP!Philosophers
  BY <1>1, PhilosopherCount
<1>. QED
  BY <1>2

(* Numbers have least elements.                                                  *)
Less == {pair \in Nat \X Nat : pair[1] < pair[2]}

LEMMA LeastElement ==
    ASSUME NEW S \in SUBSET Nat, S # {}
    PROVE  \E x \in S : \A y \in S : x <= y
<1>1. IsWellFoundedOn(Less, Nat)
  BY NatLessThanWellFounded DEF OpToRel, Less
<1>2. PICK x \in S : \A y \in S : <<y, x>> \notin Less
  BY <1>1, WFMin
<1>3. ASSUME NEW y \in S PROVE x <= y
  <2>1. ~(y < x)
    BY <1>2 DEF Less
  <2>. QED
    BY <2>1
<1>. QED
  BY <1>3

(* Whoever goes round the table from one philosopher reaches all of them.         *)
LEMMA AroundTheTable ==
    ASSUME NEW S \in SUBSET DP!Philosophers, S # {},
           \A p \in S : DP!RightOf(p) \in S
    PROVE  S = DP!Philosophers
<1>1. N - 1 \in S
  <2>. DEFINE Rest == {N - 1 - p : p \in S}
  <2>1. Rest \in SUBSET Nat /\ Rest # {}
    <3>1. \A p \in S : N - 1 - p \in Nat
      BY DPAssumed DEF DP!Philosophers
    <3>2. PICK p \in S : TRUE
      OBVIOUS
    <3>3. N - 1 - p \in Rest
      OBVIOUS
    <3>. QED
      BY <3>1, <3>3
  <2>2. PICK x \in Rest : \A y \in Rest : x <= y
    BY <2>1, LeastElement
  <2>3. PICK p \in S : x = N - 1 - p
    BY <2>2
  <2>4. CASE p < N - 1
    <3>1. p + 1 \in S
      BY <2>4, RightFacts
    <3>2. N - 1 - (p + 1) \in Rest
      BY <3>1
    <3>. QED
      BY <2>2, <2>3, <3>2, DPAssumed DEF DP!Philosophers
  <2>. QED
    BY <2>4, DPAssumed DEF DP!Philosophers
<1>2. 0 \in S
  BY <1>1, RightFacts
<1>3. ASSUME NEW q \in DP!Philosophers, q \notin S PROVE FALSE
  <2>1. DP!Philosophers \ S \in SUBSET Nat /\ DP!Philosophers \ S # {}
    BY <1>3, DPAssumed DEF DP!Philosophers
  <2>2. PICK x \in DP!Philosophers \ S : \A y \in DP!Philosophers \ S : x <= y
    BY <2>1, LeastElement
  <2>3. x # 0
    BY <1>2, <2>2
  <2>4. x - 1 \in DP!Philosophers /\ x - 1 < N - 1 /\ ~(x <= x - 1)
    BY <2>2, <2>3, DPAssumed DEF DP!Philosophers
  <2>5. x - 1 \in S
    BY <2>2, <2>4
  <2>6. DP!RightOf(x - 1) = (x - 1) + 1 /\ (x - 1) + 1 = x
    BY <2>4, RightFacts DEF DP!Philosophers
  <2>. QED
    BY <2>2, <2>5, <2>6
<1>. QED
  BY <1>3
--------------------------------------------------------------------------------
(* The initial state, and each action.                                           *)
LEMMA DPInitInv == DP!Init => DPInv
<1>. SUFFICES ASSUME DP!Init PROVE DPInv
  OBVIOUS
<1>1. DP!TypeOK
  BY DPAssumed DEF DP!Init, DP!TypeOK, DP!Philosophers, DP!Free, DP!Holds
<1>2. DP!Inside = {}
  BY DEF DP!Init, DP!Inside
<1>3. RoomLimit
  BY <1>2, FS_EmptySet, DPAssumed DEF DP!Init, RoomLimit
<1>. QED
  BY <1>1, <1>3 DEF DP!Init, DPInv, DP!SleepOnlyWhenFull, OwesRound

LEMMA WaitRoomInv ==
    ASSUME DPInv, NEW p \in DP!Philosophers, DP!WaitRoom(p)
    PROVE  DPInv'
<1>. USE DEF DPInv, DP!WaitRoom
<1>1. DP!TypeOK'
  BY DEF DP!TypeOK, DP!Holds, DP!RoundsLeft
<1>2. RoomLimit' /\ DP!SleepOnlyWhenFull'
  BY DPAssumed DEF DP!TypeOK, RoomLimit, DP!Inside, DP!SleepOnlyWhenFull, DP!RoomFull
<1>3. OwesRound'
  BY DEF OwesRound, DP!RoundsLeft
<1>. QED
  BY <1>1, <1>2, <1>3

LEMMA EnterRoomInv ==
    ASSUME DPInv, NEW p \in DP!Philosophers, DP!EnterRoom(p)
    PROVE  DPInv'
<1>. USE DEF DPInv, DP!EnterRoom, DP!Go
<1>1. DP!TypeOK'
  <2>1. \A q \in DP!Philosophers : DP!Holds(q)' = DP!Holds(q)
    BY DEF DP!TypeOK, DP!Holds
  <2>2. in_room' \in Nat
    BY DEF DP!TypeOK
  <2>. QED
    BY <2>1, <2>2 DEF DP!TypeOK, DP!RoundsLeft
<1>2. DP!Inside' = DP!Inside \cup {p} /\ p \notin DP!Inside
  BY DEF DP!Inside, DP!TypeOK
<1>3. Cardinality(DP!Inside') = Cardinality(DP!Inside) + 1
  BY <1>2, PhilosopherCount DEF DP!Inside
<1>4. RoomLimit'
  BY <1>3, DPAssumed DEF RoomLimit, DP!RoomFull, DP!TypeOK
<1>5. DP!SleepOnlyWhenFull'
  BY DPAssumed DEF DP!SleepOnlyWhenFull, DP!RoomFull, DP!TypeOK
<1>6. OwesRound'
  BY DEF OwesRound, DP!RoundsLeft, DP!TypeOK
<1>. QED
  BY <1>1, <1>4, <1>5, <1>6

(* The steps between the doors leave the room as it is.                          *)
LEMMA InsideStep ==
    ASSUME DPInv, NEW p \in DP!Philosophers, NEW to \in {"has_left", "eating", "ate", "leaving"},
           pc[p] # "outside", pc' = [pc EXCEPT ![p] = to],
           UNCHANGED <<target_count, in_room, room_available, main>>
    PROVE  /\ RoomLimit' /\ DP!SleepOnlyWhenFull'
           /\ target_count' \in 1..MaxCount /\ in_room' \in Nat
           /\ main' \in {"joining", "reported"}
           /\ pc' \in [DP!Philosophers -> {"outside", "entered", "has_left", "eating", "ate", "leaving"}]
<1>1. DP!Inside' = DP!Inside
  BY DEF DPInv, DP!TypeOK, DP!Inside
<1>. QED
  BY <1>1 DEF DPInv, DP!TypeOK, RoomLimit, DP!SleepOnlyWhenFull

LEMMA TakeLeftInv ==
    ASSUME DPInv, NEW p \in DP!Philosophers, DP!TakeLeft(p)
    PROVE  DPInv'
<1>. USE DEF DP!TakeLeft, DP!Go, DP!Lock, DP!LeftOf
<1>1. \A q, k \in DP!Philosophers : chopsticks'[k] = q <=> k \in DP!Holds(q)'
  BY DPAssumed DEF DPInv, DP!TypeOK, DP!Holds, DP!Philosophers, DP!Free
<1>2. room_available' \subseteq {q \in DP!Philosophers : pc'[q] = "outside" /\ DP!RoundsLeft(q)'}
  BY DEF DPInv, DP!TypeOK, DP!RoundsLeft
<1>3. chopsticks' \in [DP!Philosophers -> DP!Philosophers \cup {DP!Free}]
  BY DEF DPInv, DP!TypeOK
<1>4. OwesRound'
  BY DEF DPInv, DP!TypeOK, OwesRound, DP!RoundsLeft
<1>. QED
  BY <1>1, <1>2, <1>3, <1>4, InsideStep DEF DPInv, DP!TypeOK

LEMMA TakeRightAndEatInv ==
    ASSUME DPInv, NEW p \in DP!Philosophers, DP!TakeRightAndEat(p)
    PROVE  DPInv'
<1>. USE DEF DP!TakeRightAndEat, DP!Go, DP!Lock
<1>1. \A q, k \in DP!Philosophers : chopsticks'[k] = q <=> k \in DP!Holds(q)'
  BY DPAssumed, RightFacts
  DEF DPInv, DP!TypeOK, DP!Holds, DP!Philosophers, DP!Free, DP!LeftOf
<1>2. room_available' \subseteq {q \in DP!Philosophers : pc'[q] = "outside" /\ DP!RoundsLeft(q)'}
  BY DEF DPInv, DP!TypeOK, DP!RoundsLeft
<1>3. chopsticks' \in [DP!Philosophers -> DP!Philosophers \cup {DP!Free}]
  BY DEF DPInv, DP!TypeOK
<1>4. OwesRound'
  BY DEF DPInv, DP!TypeOK, OwesRound, DP!RoundsLeft
<1>5. eat_count' \in [DP!Philosophers -> 0..target_count]
  BY DEF DPInv, DP!TypeOK, OwesRound, DP!RoundsLeft
<1>. QED
  BY <1>1, <1>2, <1>3, <1>4, <1>5, InsideStep DEF DPInv, DP!TypeOK

LEMMA PutRightInv ==
    ASSUME DPInv, NEW p \in DP!Philosophers, DP!PutRight(p)
    PROVE  DPInv'
<1>. USE DEF DP!PutRight, DP!Go, DP!Unlock
<1>1. \A q, k \in DP!Philosophers : chopsticks'[k] = q <=> k \in DP!Holds(q)'
  BY DPAssumed, RightFacts
  DEF DPInv, DP!TypeOK, DP!Holds, DP!Philosophers, DP!Free, DP!LeftOf
<1>2. room_available' \subseteq {q \in DP!Philosophers : pc'[q] = "outside" /\ DP!RoundsLeft(q)'}
  BY DEF DPInv, DP!TypeOK, DP!RoundsLeft
<1>3. chopsticks' \in [DP!Philosophers -> DP!Philosophers \cup {DP!Free}]
  BY DEF DPInv, DP!TypeOK
<1>4. OwesRound'
  BY DEF DPInv, DP!TypeOK, OwesRound, DP!RoundsLeft
<1>. QED
  BY <1>1, <1>2, <1>3, <1>4, InsideStep DEF DPInv, DP!TypeOK

LEMMA PutLeftInv ==
    ASSUME DPInv, NEW p \in DP!Philosophers, DP!PutLeft(p)
    PROVE  DPInv'
<1>. USE DEF DP!PutLeft, DP!Go, DP!Unlock, DP!LeftOf
<1>1. \A q, k \in DP!Philosophers : chopsticks'[k] = q <=> k \in DP!Holds(q)'
  BY DPAssumed DEF DPInv, DP!TypeOK, DP!Holds, DP!Philosophers, DP!Free
<1>2. room_available' \subseteq {q \in DP!Philosophers : pc'[q] = "outside" /\ DP!RoundsLeft(q)'}
  BY DEF DPInv, DP!TypeOK, DP!RoundsLeft
<1>3. chopsticks' \in [DP!Philosophers -> DP!Philosophers \cup {DP!Free}]
  BY DEF DPInv, DP!TypeOK
<1>4. OwesRound'
  BY DEF DPInv, DP!TypeOK, OwesRound, DP!RoundsLeft
<1>. QED
  BY <1>1, <1>2, <1>3, <1>4, InsideStep DEF DPInv, DP!TypeOK

(* Whoever sleeps while the room is full is alone outside, so it is woken.          *)
LEMMA LeaveRoomInv ==
    ASSUME DPInv, NEW p \in DP!Philosophers, DP!LeaveRoom(p)
    PROVE  DPInv'
<1>. USE DEF DP!LeaveRoom, DP!Go
<1>1. DP!Inside' = DP!Inside \ {p} /\ p \in DP!Inside /\ DP!Inside \in SUBSET DP!Philosophers
  BY DEF DPInv, DP!TypeOK, DP!Inside
<1>2. Cardinality(DP!Inside') = Cardinality(DP!Inside) - 1 /\ Cardinality(DP!Inside') \in Nat
  BY <1>1, PhilosopherCount
<1>3. RoomLimit' /\ in_room' \in Nat
  BY <1>2, DPAssumed DEF DPInv, DP!TypeOK, RoomLimit
<1>4. room_available' = {}
  <2>1. CASE room_available = {}
    BY <2>1 DEF DP!WakeOutside, DP!Signal
  <2>2. CASE room_available # {}
    <3>1. PICK q \in room_available : room_available' = room_available \ {q}
      BY <2>2 DEF DP!WakeOutside, DP!Signal
    <3>2. Cardinality(DP!Inside) = N - 1
      BY <2>2 DEF DPInv, RoomLimit, DP!SleepOnlyWhenFull
    <3>3. room_available \subseteq DP!Philosophers \ DP!Inside
      BY DEF DPInv, DP!TypeOK, DP!Inside
    <3>4. \A r \in room_available : r = q
      BY <1>1, <3>2, <3>3, OneOutside
    <3>. QED
      BY <3>1, <3>4
  <2>. QED
    BY <2>1, <2>2
<1>5. DP!TypeOK'
  <2>1. \A q \in DP!Philosophers : DP!Holds(q)' = DP!Holds(q)
    BY DEF DPInv, DP!TypeOK, DP!Holds
  <2>. QED
    BY <1>3, <1>4, <2>1 DEF DPInv, DP!TypeOK
<1>6. OwesRound'
  BY DEF DPInv, DP!TypeOK, OwesRound, DP!RoundsLeft
<1>. QED
  BY <1>3, <1>4, <1>5, <1>6 DEF DPInv, DP!SleepOnlyWhenFull

LEMMA DPNextInv == DPInv /\ [DP!Next]_(DP!vars) => DPInv'
<1>. SUFFICES ASSUME DPInv, [DP!Next]_(DP!vars) PROVE DPInv'
  OBVIOUS
<1>1. CASE \E p \in DP!Philosophers : DP!Step(p)
  BY <1>1, WaitRoomInv, EnterRoomInv, TakeLeftInv, TakeRightAndEatInv, PutRightInv,
     PutLeftInv, LeaveRoomInv
  DEF DP!Step
<1>2. CASE DP!MainReport
  BY <1>2
  DEF DP!MainReport, DPInv, DP!TypeOK, DP!Holds, DP!RoundsLeft, RoomLimit, DP!Inside,
      DP!SleepOnlyWhenFull, OwesRound
<1>3. CASE DP!SpuriousWakeup
  BY <1>3
  DEF DP!SpuriousWakeup, DPInv, DP!TypeOK, DP!Holds, DP!RoundsLeft, RoomLimit,
      DP!Inside, DP!SleepOnlyWhenFull, OwesRound
<1>4. CASE UNCHANGED DP!vars
  BY <1>4
  DEF DP!vars, DPInv, DP!TypeOK, DP!Holds, DP!RoundsLeft, RoomLimit, DP!Inside,
      DP!SleepOnlyWhenFull, OwesRound
<1>. QED
  BY <1>1, <1>2, <1>3, <1>4 DEF DP!Next

LEMMA TableAlways == Spec => [](problem = "dining_philosophers" => DPInv)
<1>1. Init => (problem = "dining_philosophers" => DPInv)
  BY InitProblem, DPInitInv
<1>2. /\ problem = "dining_philosophers" => DPInv
      /\ [Next]_vars
      => (problem = "dining_philosophers" => DPInv)'
  BY ProblemStep, DPNextInv
<1>. QED
  BY <1>1, <1>2, PTL DEF Spec

(* Neighbours never eat at the same time (the chopstick mutexes).                  *)
THEOREM NeighboursNeverEat == Spec => []NeighboursExclude
<1>1. DPInv => DP!NeighboursExclude
  BY RightFacts
  DEF DPInv, DP!TypeOK, DP!NeighboursExclude, DP!Holds, DP!LeftOf, DP!RightOf
<1>2. (problem = "dining_philosophers" => DPInv) => NeighboursExclude
  BY <1>1 DEF NeighboursExclude
<1>. QED
  BY <1>2, TableAlways, PTL

(* At a table of any size, some philosopher inside the room can go on: an eater      *)
(* does not wait, without eaters all left chopsticks are there for the taking, and    *)
(* if all hold their left one and wait, the wait goes round the whole table, which    *)
(* the limit of enter_room keeps from being occupied.                              *)
LEMMA SomebodyGoesOn == DPInv => DP!NoCircularWait
<1>. SUFFICES ASSUME DPInv, DP!Inside # {}, \A p \in DP!Inside : DP!WaitsForChopstick(p)
              PROVE  FALSE
  BY DEF DP!NoCircularWait
<1>1. \A p \in DP!Inside : pc[p] \in {"entered", "has_left"}
  BY DEF DP!WaitsForChopstick
<1>2. \A p \in DP!Inside : pc[p] = "has_left"
  <2>. SUFFICES ASSUME NEW p \in DP!Inside, pc[p] = "entered" PROVE FALSE
    BY <1>1
  <2>1. p \in DP!Philosophers /\ chopsticks[p] \in DP!Philosophers
    BY DEF DP!Inside, DP!WaitsForChopstick, DP!LeftOf, DPInv, DP!TypeOK
  <2>2. PICK q \in DP!Philosophers : p \in DP!Holds(q)
    BY <2>1 DEF DPInv, DP!TypeOK
  <2>3. q \in DP!Inside
    BY <2>2 DEF DP!Inside, DP!Holds
  <2>4. p = q
    BY <1>1, <2>2, <2>3 DEF DP!Holds, DP!LeftOf
  <2>. QED
    BY <2>2, <2>4 DEF DP!Holds
<1>3. ASSUME NEW p \in DP!Inside PROVE DP!RightOf(p) \in DP!Inside
  <2>1. DP!RightOf(p) \in DP!Philosophers /\ chopsticks[DP!RightOf(p)] \in DP!Philosophers
    BY <1>2, RightFacts DEF DP!Inside, DP!WaitsForChopstick, DPInv, DP!TypeOK
  <2>2. PICK q \in DP!Philosophers : DP!RightOf(p) \in DP!Holds(q)
    BY <2>1 DEF DPInv, DP!TypeOK
  <2>3. q \in DP!Inside
    BY <2>2 DEF DP!Inside, DP!Holds
  <2>4. DP!RightOf(p) = q
    BY <1>2, <2>2, <2>3 DEF DP!Holds, DP!LeftOf
  <2>. QED
    BY <2>3, <2>4
<1>4. DP!Inside = DP!Philosophers
  BY <1>3, AroundTheTable DEF DP!Inside
<1>5. Cardinality(DP!Inside) = N
  BY <1>4, FS_Interval, DPAssumed DEF DP!Philosophers
<1>. QED
  BY <1>5, DPAssumed DEF DPInv, RoomLimit

THEOREM WaitIsNeverCircular == Spec => []NoCircularWait
<1>1. (problem = "dining_philosophers" => DPInv) => NoCircularWait
  BY SomebodyGoesOn DEF NoCircularWait
<1>. QED
  BY <1>1, TableAlways, PTL

(* Nobody sleeps at the door of a room with a free place: the signal of leave_room   *)
(* is never lost on the wrong philosopher.                                         *)
THEOREM SleepersFaceAFullRoom == Spec => []SleepOnlyWhenFull
<1>1. (problem = "dining_philosophers" => DPInv) => SleepOnlyWhenFull
  BY DEF DPInv, SleepOnlyWhenFull
<1>. QED
  BY <1>1, TableAlways, PTL
--------------------------------------------------------------------------------
(* The phases of the program and its exit status.                                  *)
Phases ==
    /\ phase \in {"parse", "run", "exit"}
    /\ exit_status \in {-1, 0, 1} /\ (exit_status = -1 <=> phase # "exit")
    /\ problem \in {"producer_consumer", "readers_writers", "dining_philosophers"}

LEMMA PhasesAlways == Spec => []Phases
<1>1. Init => Phases
  BY InitProblem DEF Init, Phases
<1>2. Phases /\ [Next]_vars => Phases'
  BY DEF Phases, Next, Reject, Accept, Return, Exit, Buffer, ReadWrite, Dine, Finished,
         program, vars
<1>. QED
  BY <1>1, <1>2, PTL DEF Spec

(* Type correctness of every reachable state, whatever problem runs.               *)
THEOREM TypeCorrect == Spec => []TypeOK
<1>1. /\ Phases /\ BufferInv
      /\ problem = "readers_writers" => RWInv
      /\ problem = "dining_philosophers" => DPInv
      => TypeOK
  BY DEF Phases, BufferInv, RWInv, DPInv, TypeOK
<1>. QED
  BY <1>1, PhasesAlways, BufferAlways, ReadersWritersAlways, TableAlways, PTL
================================================================================
