-------------------------------- MODULE Scheduler --------------------------------
(* The CPU scheduling simulator, src/basic/scheduler/src/scheduler.c: FCFS, SJF   *)
(* and priority without preemption, and round robin. A process is its place in    *)
(* the input, which is also its input_order.                                      *)
EXTENDS Integers, SequencesExt

CONSTANTS Workloads,   \* inputs: sequences of [arrival, burst, priority]
          Quanta,      \* values of time_quantum
          InitialSize  \* segments the timeline first has room for (16, timeline_init)

ASSUME SchedulerAssumption ==
    /\ \A w \in Workloads :
         w # << >> /\ w \in Seq([arrival : Nat, burst : Nat \ {0}, priority : Int])
    /\ Quanta \subseteq Nat \ {0}
    /\ InitialSize \in Nat \ {0}

VARIABLES algorithm, workload, quantum,
          now, remaining, start_time, finish_time,
          timeline,                \* segments, and how many there is room for
          queue, next_to_arrive,   \* run_rr: ready queue, processes admitted to it so far
          status                   \* "run", or how the scheduler ended

input == <<algorithm, workload, quantum>>
vars == <<input, now, remaining, start_time, finish_time, timeline, queue, next_to_arrive, status>>

Procs == DOMAIN workload
Arrival(p) == workload[p].arrival
Burst(p) == workload[p].burst
Unfinished == {p \in Procs : remaining[p] > 0}

IDLE == 0
Segment(name, from, to) == [name |-> name, start |-> from, end |-> to]

Init ==
    /\ algorithm \in {"fcfs", "sjf", "priority", "rr"}
    /\ workload \in Workloads
    /\ quantum \in Quanta
    /\ now = 0
    /\ remaining = [p \in Procs |-> Burst(p)]
    /\ start_time = [p \in Procs |-> -1]
    /\ finish_time = [p \in Procs |-> -1]
    /\ timeline = [items |-> << >>, capacity |-> InitialSize]
    /\ queue = << >> /\ next_to_arrive = 0
    /\ status = "run"

(* timeline_append; the array doubles when it is full.                           *)
Appended(t, name, from, to) ==
    IF to <= from THEN t
    ELSE [items |-> Append(t.items, Segment(name, from, to)),
          capacity |-> IF Len(t.items) = t.capacity THEN 2 * t.capacity ELSE t.capacity]

Stop(why) ==
    /\ status' = why
    /\ UNCHANGED <<input, now, remaining, start_time, finish_time, timeline, queue, next_to_arrive>>

(* The clock and the timeline move on; the scheduler ends if the array cannot grow.*)
Advance(t, time) == timeline' = t /\ now' = time /\ UNCHANGED <<input, status>>
NoMemory(t) == t.capacity > timeline.capacity /\ Stop("no memory")
--------------------------------------------------------------------------------
(* choose_fcfs, choose_sjf, choose_priority.                                     *)
Better_Late(p, q) ==   \* mutant: the later of two equals
    \/ Arrival(p) < Arrival(q)
    \/ Arrival(p) = Arrival(q) /\ p >= q
Better(p, q) ==
    \/ Arrival(p) < Arrival(q)
    \/ Arrival(p) = Arrival(q) /\ p <= q

Preferred(p, q) ==
    \/ algorithm = "fcfs" /\ Better(p, q)
    \/ /\ algorithm = "sjf"
       /\ Burst(p) < Burst(q) \/ (Burst(p) = Burst(q) /\ Better(p, q))
    \/ /\ algorithm = "priority"
       /\ \/ workload[p].priority < workload[q].priority
          \/ workload[p].priority = workload[q].priority /\ Better(p, q)

Candidates == IF algorithm = "fcfs" THEN Unfinished
              ELSE {p \in Unfinished : Arrival(p) <= now}

NextArrival_Last == CHOOSE t \in {Arrival(p) : p \in Unfinished} :
                       \A p \in Unfinished : t >= Arrival(p)   \* mutant
NextArrival == CHOOSE t \in {Arrival(p) : p \in Unfinished} : \A p \in Unfinished : t <= Arrival(p)

(* One process runs to its end. FCFS first waits for it.                          *)
Begin_Now(p) == now   \* mutant: no wait
Begin(p) == IF now < Arrival(p) THEN Arrival(p) ELSE now

RunToEnd ==
    /\ algorithm # "rr" /\ status = "run" /\ Candidates # {}
    /\ LET p == CHOOSE p \in Candidates : \A q \in Candidates : Preferred(p, q)
           end == Begin(p) + Burst(p)
           t == Appended(Appended(timeline, IDLE, now, Begin(p)), p, Begin(p), end)
       IN  \/ /\ start_time' = [start_time EXCEPT ![p] = Begin(p)]
              /\ remaining' = [remaining EXCEPT ![p] = 0]
              /\ finish_time' = [finish_time EXCEPT ![p] = end]
              /\ Advance(t, end)
              /\ UNCHANGED <<queue, next_to_arrive>>
           \/ NoMemory(t)

(* Nothing has arrived (run_sjf, run_priority).                                  *)
Idle ==
    /\ algorithm \in {"sjf", "priority"} /\ status = "run"
    /\ Unfinished # {} /\ Candidates = {}
    /\ LET t == Appended(timeline, IDLE, now, NextArrival)
       IN  \/ /\ Advance(t, NextArrival)
              /\ UNCHANGED <<remaining, start_time, finish_time, queue, next_to_arrive>>
           \/ NoMemory(t)
--------------------------------------------------------------------------------
(* run_rr. sort_by_arrival; those of the rest that have arrived by a time.         *)
ArrivalRank(p) == Cardinality({q \in Procs : Better(q, p)})
ArrivalOrder == [k \in Procs |-> CHOOSE p \in Procs : ArrivalRank(p) = k]

Arrived_Before(time) == {k \in Procs : Arrival(ArrivalOrder[k]) < time}   \* mutant
Arrived(time) == {k \in Procs : Arrival(ArrivalOrder[k]) <= time}
Admitted(from, time) == SubSeq(ArrivalOrder, from + 1, Cardinality(Arrived(time)))

Requeued_First(rest, p, left, came) == (IF left > 0 THEN Append(rest, p) ELSE rest) \o came   \* mutant
Requeued(rest, p, left, came) == rest \o came \o (IF left > 0 THEN <<p>> ELSE << >>)

Slice ==
    LET ready == queue \o Admitted(next_to_arrive, now)
        p == Head(ready)
        run == IF remaining[p] < quantum THEN remaining[p] ELSE quantum
        end == now + run
        next == Requeued(Tail(ready), p, remaining[p] - run,
                         Admitted(Cardinality(Arrived(now)), end))
        t == Appended(timeline, p, now, end)
    IN  /\ algorithm = "rr" /\ status = "run" /\ Unfinished # {} /\ ready # << >>
        /\ \/ /\ Len(ready) <= Len(workload) /\ Len(next) <= Len(workload)
              /\ queue' = next
              /\ next_to_arrive' = Cardinality(Arrived(end))
              /\ start_time' = [start_time EXCEPT ![p] = IF @ < 0 THEN now ELSE @]
              /\ remaining' = [remaining EXCEPT ![p] = @ - run]
              /\ finish_time' = [finish_time EXCEPT ![p] = IF remaining[p] = run THEN end ELSE @]
              /\ Advance(t, end)
           \/ NoMemory(t)
           \/ (Len(ready) > Len(workload) \/ Len(next) > Len(workload)) /\ Stop("queue full")

RrIdle ==
    /\ algorithm = "rr" /\ status = "run" /\ Unfinished # {}
    /\ queue \o Admitted(next_to_arrive, now) = << >>
    /\ \/ /\ next_to_arrive < Len(workload)
          /\ LET time == Arrival(ArrivalOrder[next_to_arrive + 1])
                 t == Appended(timeline, IDLE, now, time)
             IN  \/ /\ Advance(t, time)
                    /\ UNCHANGED <<remaining, start_time, finish_time, queue, next_to_arrive>>
                 \/ NoMemory(t)
       \/ next_to_arrive >= Len(workload) /\ Stop("lost a process")
--------------------------------------------------------------------------------
Finish == status = "run" /\ Unfinished = {} /\ Stop("done")

Next == RunToEnd \/ Idle \/ Slice \/ RrIdle \/ Finish

Spec == Init /\ [][Next]_vars /\ WF_vars(Next)
--------------------------------------------------------------------------------
(* Types.                                                                       *)
TypeOK ==
    /\ now \in Nat
    /\ \A p \in Procs : /\ remaining[p] \in 0..Burst(p)
                        /\ start_time[p] = -1 \/ start_time[p] \in Arrival(p)..now
                        /\ finish_time[p] = -1 \/ finish_time[p] \in Arrival(p)..now
    /\ Len(timeline.items) <= timeline.capacity
    /\ \A k \in DOMAIN queue : queue[k] \in Procs
    /\ next_to_arrive \in 0..Len(workload)
    /\ status \in {"run", "done", "no memory", "queue full", "lost a process"}

Items == timeline.items
Places(p) == {k \in DOMAIN Items : Items[k].name = p}
Length(s) == s.end - s.start
TimeOf(p) ==
    LET time[k \in 0..Len(Items)] ==
            IF k = 0 THEN 0
            ELSE time[k - 1] + (IF Items[k].name = p THEN Length(Items[k]) ELSE 0)
    IN  time[Len(Items)]

(* The chart agrees with the table: the segments follow each other from 0 to now,  *)
(* a process gets its burst, between its arrival, start_time and finish_time, and   *)
(* the CPU idles only while no process that has arrived is unfinished.             *)
ChartMatchesTable ==
    /\ \A k \in DOMAIN Items : Items[k].start = IF k = 1 THEN 0 ELSE Items[k - 1].end
    /\ now = IF Items = << >> THEN 0 ELSE Last(Items).end
    /\ \A p \in Procs :
         /\ TimeOf(p) = Burst(p) - remaining[p]
         /\ \A k \in Places(p) :
              /\ Items[k].start >= start_time[p]
              /\ finish_time[p] = -1 \/ Items[k].end <= finish_time[p]
         /\ start_time[p] # -1 => start_time[p] >= Arrival(p)
                                  /\ \E k \in Places(p) : Items[k].start = start_time[p]
         /\ finish_time[p] # -1 <=> remaining[p] = 0
         /\ finish_time[p] # -1 => \E k \in Places(p) : Items[k].end = finish_time[p]
         /\ \A k \in Places(IDLE) :
              Arrival(p) >= Items[k].end \/ finish_time[p] \in 0..Items[k].start

(* Whenever FCFS, SJF or priority gives the CPU away, no process that is waiting     *)
(* comes before the chosen one in the algorithm's order, arrival and input order    *)
(* breaking the ties.                                                           *)
Rank(p) == IF algorithm = "fcfs" THEN Arrival(p)
           ELSE IF algorithm = "sjf" THEN Burst(p) ELSE workload[p].priority

RunsTheRightProcess ==
    algorithm # "rr" =>
        \A k \in DOMAIN Items : \A q \in Procs :
            LET p == Items[k].name
            IN  (/\ p # IDLE /\ q # p
                 /\ Arrival(q) <= Items[k].start
                 /\ \A j \in Places(q) : j > k) =>
                    \/ Rank(p) < Rank(q)
                    \/ /\ Rank(p) = Rank(q)
                       /\ Arrival(p) < Arrival(q) \/ (Arrival(p) = Arrival(q) /\ p < q)

(* Round robin: no slice is longer than the quantum; between two slices of one       *)
(* process every other process that waits when the first one ends, those that       *)
(* arrived during it included, gets exactly one slice, and no process gets two.      *)
FairTurns ==
    algorithm = "rr" =>
        \A k \in DOMAIN Items : Items[k].name # IDLE =>
            /\ Length(Items[k]) <= quantum
            /\ \A m \in Places(Items[k].name) :
                 (m > k /\ \A j \in Places(Items[k].name) : j <= k \/ j >= m) =>
                    \A q \in Procs \ {Items[k].name} :
                        LET turns == Cardinality(Places(q) \cap (k + 1)..(m - 1))
                            waits == /\ Arrival(q) <= Items[k].end
                                     /\ finish_time[q] = -1 \/ finish_time[q] > Items[k].end
                        IN  turns <= 1 /\ (waits => turns = 1)

(* Every input is scheduled to the end, unless memory runs out: the ready queue      *)
(* never overflows and run_rr loses no process.                                   *)
Termination == <>(status \in {"done", "no memory"})
================================================================================
