-------------------------- MODULE DiningPhilosophers ---------------------------
(* The dining philosophers of src/basic/sync/src/dining_philosophers.c: a room   *)
(* that admits all philosophers but one, and a mutex per chopstick.             *)
(*                                                                             *)
(* enter_room and leave_room are critical sections of room_mutex and one action  *)
(* each; every lock and unlock of a chopstick is an action of its own.           *)
EXTENDS Integers, FiniteSets, PthreadCond

CONSTANTS N,        \* PHILOSOPHER_COUNT
          MaxCount  \* largest --count (1000000 in parse_positive)

DPAssumption ==
    /\ N \in Nat /\ N >= 2
    /\ MaxCount \in Nat \ {0}

Philosophers == 0..N - 1     \* the ids, and the numbers of the chopsticks
Free == -1                   \* owner of an unlocked chopstick

VARIABLES
    target_count,    \* set before any thread runs
    in_room,
    room_available,  \* the condition variable
    chopsticks,      \* owner of each chopstick's mutex
    eat_count,
    pc,              \* where each philosopher is
    main             \* where the main thread is

vars == <<target_count, in_room, room_available, chopsticks, eat_count, pc, main>>

Init ==
    /\ target_count \in 1..MaxCount
    /\ in_room = 0
    /\ room_available = {}
    /\ chopsticks = [k \in Philosophers |-> Free]
    /\ eat_count = [p \in Philosophers |-> 0]
    /\ pc = [p \in Philosophers |-> "outside"]
    /\ main = "joining"

LeftOf(p) == p
RightOf_SkipsOne(p) == (p + 2) % N            \* mutant
RightOf(p) == (p + 1) % N

Go(p, from, to) == pc[p] = from /\ pc' = [pc EXCEPT ![p] = to]

Lock(k, p) == chopsticks[k] = Free /\ chopsticks' = [chopsticks EXCEPT ![k] = p]
Unlock(k)  == chopsticks' = [chopsticks EXCEPT ![k] = Free]
--------------------------------------------------------------------------------
RoomFull_OffByOne == in_room >= N             \* mutant: everybody may come in
RoomFull == in_room >= N - 1

(* The loop of philosopher_thread: its counter i is eat_count[id] at the test.   *)
RoundsLeft(p) == eat_count[p] < target_count

WaitRoom(p) ==
    /\ pc[p] = "outside" /\ p \notin room_available /\ RoundsLeft(p)
    /\ RoomFull
    /\ room_available' = room_available \cup {p}
    /\ UNCHANGED <<target_count, in_room, chopsticks, eat_count, pc, main>>

EnterRoom(p) ==
    /\ Go(p, "outside", "entered") /\ p \notin room_available /\ RoundsLeft(p)
    /\ ~RoomFull
    /\ in_room' = in_room + 1
    /\ UNCHANGED <<target_count, room_available, chopsticks, eat_count, main>>

TakeLeft(p) ==
    /\ Go(p, "entered", "has_left")
    /\ Lock(LeftOf(p), p)
    /\ UNCHANGED <<target_count, in_room, room_available, eat_count, main>>

TakeRightAndEat(p) ==
    /\ Go(p, "has_left", "eating")
    /\ Lock(RightOf(p), p)
    /\ eat_count' = [eat_count EXCEPT ![p] = @ + 1]
    /\ UNCHANGED <<target_count, in_room, room_available, main>>

PutRight(p) ==
    /\ Go(p, "eating", "ate")
    /\ Unlock(RightOf(p))
    /\ UNCHANGED <<target_count, in_room, room_available, eat_count, main>>

PutLeft(p) ==
    /\ Go(p, "ate", "leaving")
    /\ Unlock(LeftOf(p))
    /\ UNCHANGED <<target_count, in_room, room_available, eat_count, main>>

(* The wait sets leave_room may leave behind.                                   *)
WakeOutside_Forgotten == {room_available}     \* mutant: no signal
WakeOutside == Signal(room_available)

LeaveRoom(p) ==
    /\ Go(p, "leaving", "outside")
    /\ in_room' = in_room - 1
    /\ room_available' \in WakeOutside
    /\ UNCHANGED <<target_count, chopsticks, eat_count, main>>
--------------------------------------------------------------------------------
(* A thread returns when it is outside with no rounds left.                      *)
Returned(p) == pc[p] = "outside" /\ ~RoundsLeft(p)

MainReport ==
    /\ main = "joining" /\ \A p \in Philosophers : Returned(p)
    /\ main' = "reported"
    /\ UNCHANGED <<target_count, in_room, room_available, chopsticks, eat_count, pc>>

(* pthread_cond_wait may return without a signal.                               *)
SpuriousWakeup ==
    /\ \E p \in room_available : room_available' = room_available \ {p}
    /\ UNCHANGED <<target_count, in_room, chopsticks, eat_count, pc, main>>

Step(p) ==
    \/ WaitRoom(p) \/ EnterRoom(p)
    \/ TakeLeft(p) \/ TakeRightAndEat(p)
    \/ PutRight(p) \/ PutLeft(p)
    \/ LeaveRoom(p)

Next ==
    \/ \E p \in Philosophers : Step(p)
    \/ MainReport
    \/ SpuriousWakeup
--------------------------------------------------------------------------------
(* Who is past enter_room and not yet past leave_room.                           *)
Inside == {p \in Philosophers : pc[p] # "outside"}

(* The mutexes a philosopher has locked and not unlocked, by its position.       *)
Holds(p) ==
    CASE pc[p] \in {"has_left", "ate"} -> {LeftOf(p)}
      [] pc[p] = "eating" -> {LeftOf(p), RightOf(p)}
      [] OTHER -> {}

(* Types, and that the owner of each chopstick is the philosopher whose position *)
(* says that it holds it.                                                       *)
TypeOK ==
    /\ target_count \in 1..MaxCount
    /\ in_room \in Nat
    /\ room_available \subseteq {p \in Philosophers : pc[p] = "outside" /\ RoundsLeft(p)}
    /\ eat_count \in [Philosophers -> 0..target_count]
    /\ pc \in [Philosophers ->
               {"outside", "entered", "has_left", "eating", "ate", "leaving"}]
    /\ chopsticks \in [Philosophers -> Philosophers \cup {Free}]
    /\ \A p, k \in Philosophers : chopsticks[k] = p <=> k \in Holds(p)
    /\ main \in {"joining", "reported"}

(* Neighbours share a chopstick, so they never eat at the same time.             *)
NeighboursExclude ==
    \A p \in Philosophers : ~(pc[p] = "eating" /\ pc[(p + 1) % N] = "eating")

(* A philosopher that waits for a chopstick somebody else holds.                 *)
WaitsForChopstick(p) ==
    \/ pc[p] = "entered" /\ chopsticks[LeftOf(p)] # Free
    \/ pc[p] = "has_left" /\ chopsticks[RightOf(p)] # Free

(* The limit of the room breaks the circular wait (dining_philosophers.c:3):      *)
(* while somebody is inside, somebody inside can go on.                          *)
NoCircularWait == Inside # {} => \E p \in Inside : ~WaitsForChopstick(p)

(* Only a full room keeps a philosopher asleep: no wakeup is lost, although      *)
(* leave_room signals once and a philosopher that just left may come back before *)
(* the one that was woken.                                                      *)
SleepOnlyWhenFull == room_available # {} => in_room = N - 1

(* When "deadlock_detected: no" (line 88) is printed everybody has eaten            *)
(* target_count times.                                                          *)
Totals == \A p \in Philosophers : eat_count[p] = target_count
================================================================================
