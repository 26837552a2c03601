---------------------------- MODULE SchedulerProofs ----------------------------
(* Proofs about Scheduler, for every workload, time quantum and size of the        *)
(* timeline.                                                                    *)
EXTENDS Scheduler, FiniteSetTheorems, SequenceTheorems, WellFoundedInduction, TLAPS

(* Numbers have least elements.                                                  *)
Less == {pair \in Nat \X Nat : pair[1] < pair[2]}

LEMMA LeastElement ==
    ASSUME NEW S \in SUBSET Nat, S # {}
    PROVE  \E x \in S : \A y \in S : x <= y
<1>1. IsWellFoundedOn(Less, Nat)
  BY NatLessThanWellFounded DEF OpToRel, Less
<1>2. PICK x \in S : \A y \in S : <<y, x>> \notin Less
  BY <1>1, WFMin
<1>3. ASSUME NEW y \in S PROVE x <= y
  <2>1. ~(y < x)
    BY <1>2 DEF Less
  <2>. QED
    BY <2>1
<1>. QED
  BY <1>3
--------------------------------------------------------------------------------
(* The inputs, and the chart: the segments of a timeline that ends at time t.        *)
Records == [arrival : Nat, burst : Nat \ {0}, priority : Int]
Input(w) == w \in Seq(Records) /\ w # << >>

Segments(w) == [name : DOMAIN w \cup {IDLE}, start : Nat, end : Nat]
At(items, name) == {k \in 1..Len(items) : items[k].name = name}
TimeIn(items, p) ==
    LET time[k \in 0..Len(items)] ==
            IF k = 0 THEN 0
            ELSE time[k - 1] + (IF items[k].name = p THEN Length(items[k]) ELSE 0)
    IN  time[Len(items)]

Joined(w, items, t) ==
    /\ items \in Seq(Segments(w)) /\ t \in Nat
    /\ \A k \in 1..Len(items) : items[k].start < items[k].end /\ items[k].end <= t
    /\ \A k \in 1..Len(items) : items[k].start = IF k = 1 THEN 0 ELSE items[k - 1].end
    /\ t = IF Len(items) = 0 THEN 0 ELSE items[Len(items)].end

(* The row of a process in the table, against the chart.                           *)
Typed(w, rem, st, fi) ==
    /\ rem \in [DOMAIN w -> Nat] /\ st \in [DOMAIN w -> Nat \cup {-1}]
    /\ fi \in [DOMAIN w -> Nat \cup {-1}]
Row(w, rem, st, fi, items, t, p) ==
    /\ rem[p] <= w[p].burst /\ TimeIn(items, p) = w[p].burst - rem[p]
    /\ st[p] = -1 <=> rem[p] = w[p].burst
    /\ st[p] # -1 => /\ w[p].arrival <= st[p] /\ st[p] <= t
                     /\ \E k \in At(items, p) : items[k].start = st[p]
    /\ \A k \in At(items, p) : st[p] # -1 /\ st[p] <= items[k].start
    /\ fi[p] = -1 <=> rem[p] # 0
    /\ fi[p] # -1 => /\ w[p].arrival <= fi[p] /\ fi[p] <= t
                     /\ \E k \in At(items, p) : items[k].end = fi[p]
                     /\ \A k \in At(items, p) : items[k].end <= fi[p]
    /\ \A k \in At(items, IDLE) : \/ items[k].end <= w[p].arrival
                                  \/ fi[p] # -1 /\ fi[p] <= items[k].start
Table(w, rem, st, fi, items, t) ==
    /\ Joined(w, items, t) /\ Typed(w, rem, st, fi)
    /\ \A p \in DOMAIN w : Row(w, rem, st, fi, items, t, p)

LEMMA InputFacts ==
    ASSUME NEW w, Input(w)
    PROVE  /\ Len(w) \in Nat /\ Len(w) > 0 /\ DOMAIN w = 1..Len(w)
           /\ \A p \in DOMAIN w : /\ p \in Nat /\ p > 0
                                  /\ w[p].arrival \in Nat /\ w[p].priority \in Int
                                  /\ w[p].burst \in Nat /\ w[p].burst > 0
<1>1. w \in Seq(Records) /\ w # << >>
  BY DEF Input
<1>2. Len(w) \in Nat /\ DOMAIN w = 1..Len(w)
  BY <1>1, LenProperties
<1>3. Len(w) > 0
  BY <1>1, <1>2, EmptySeq
<1>4. ASSUME NEW p \in DOMAIN w
      PROVE  /\ w[p].arrival \in Nat /\ w[p].priority \in Int
             /\ w[p].burst \in Nat /\ w[p].burst > 0
  <2>1. w[p] \in Records
    BY <1>1, <1>2, ElementOfSeq
  <2>. QED
    BY <2>1 DEF Records
<1>. QED
  BY <1>2, <1>3, <1>4

(* The sum over the segments is defined for every number of them.                   *)
IsTime(f, items, p, n) ==
    f = [k \in 0..n |->
           IF k = 0 THEN 0
           ELSE f[k - 1] + (IF items[k].name = p THEN Length(items[k]) ELSE 0)]

LEMMA TimeExists ==
    ASSUME NEW items, NEW p, NEW n \in Nat
    PROVE  \E f : IsTime(f, items, p, n)
<1>. DEFINE Wrong == {m \in Nat : ~\E f : IsTime(f, items, p, m)}
            Turn(k) == IF items[k].name = p THEN Length(items[k]) ELSE 0
<1>. SUFFICES ASSUME Wrong # {} PROVE FALSE
  OBVIOUS
<1>1. Wrong \in SUBSET Nat
  OBVIOUS
<1>2. PICK m \in Wrong : \A x \in Wrong : m <= x
  BY <1>1, LeastElement
<1>3. CASE m = 0
  <2>. DEFINE g == [j \in 0..0 |-> 0]
  <2>1. g = [j \in 0..0 |-> IF j = 0 THEN 0 ELSE g[j - 1] + Turn(j)]
    <3>1. \A j \in 0..0 : j = 0
      OBVIOUS
    <3>. QED
      BY <3>1
  <2>. HIDE DEF g
  <2>2. IsTime(g, items, p, 0)
    BY <2>1 DEF IsTime
  <2>. QED
    BY <1>2, <1>3, <2>2
<1>4. CASE m # 0
  <2>1. m \in Nat /\ m - 1 \in Nat /\ ~(m <= m - 1)
    BY <1>2, <1>4
  <2>2. PICK f : IsTime(f, items, p, m - 1)
    BY <1>2, <2>1
  <2>. DEFINE g == [j \in 0..m |-> IF j = m THEN f[m - 1] + Turn(m) ELSE f[j]]
  <2>. HIDE DEF Turn
  <2>3. ASSUME NEW j \in 0..m
        PROVE  g[j] = IF j = 0 THEN 0 ELSE g[j - 1] + Turn(j)
    <3>1. CASE j = m
      <4>1. m - 1 \in 0..m /\ m - 1 # m /\ j # 0
        BY <2>1, <1>4, <3>1
      <4>2. g[j - 1] = f[m - 1]
        BY <3>1, <4>1
      <4>3. g[j] = f[m - 1] + Turn(m)
        BY <3>1
      <4>. QED
        BY <3>1, <4>1, <4>2, <4>3
    <3>2. CASE j # m
      <4>1. j \in 0..m - 1
        BY <2>1, <3>2
      <4>2. f[j] = IF j = 0 THEN 0 ELSE f[j - 1] + Turn(j)
        BY <2>2, <4>1 DEF IsTime, Turn
      <4>3. g[j] = f[j]
        BY <3>2
      <4>4. ASSUME j # 0 PROVE g[j - 1] = f[j - 1]
        <5>1. j - 1 \in 0..m /\ j - 1 # m
          BY <2>1, <4>1, <4>4
        <5>. QED
          BY <5>1
      <4>. QED
        BY <4>2, <4>3, <4>4
    <3>. QED
      BY <3>1, <3>2
  <2>4. DOMAIN g = 0..m /\ g = [j \in DOMAIN g |-> g[j]]
    OBVIOUS
  <2>. HIDE DEF g
  <2>5. IsTime(g, items, p, m)
    BY <2>3, <2>4 DEF IsTime, Turn
  <2>. QED
    BY <1>2, <2>5
<1>. QED
  BY <1>3, <1>4

LEMMA TimeFacts ==
    ASSUME NEW items, NEW p, Len(items) \in Nat
    PROVE  \E f : /\ TimeIn(items, p) = f[Len(items)] /\ f[0] = 0
                  /\ \A k \in 1..Len(items) :
                       f[k] = f[k - 1] + (IF items[k].name = p THEN Length(items[k]) ELSE 0)
<1>. DEFINE f == CHOOSE f : IsTime(f, items, p, Len(items))
<1>1. IsTime(f, items, p, Len(items))
  BY TimeExists
<1>2. TimeIn(items, p) = f[Len(items)]
  BY DEF TimeIn, IsTime
<1>. HIDE DEF f
<1>3. f[0] = 0
  <2>1. 0 \in 0..Len(items)
    OBVIOUS
  <2>. QED
    BY <1>1, <2>1 DEF IsTime
<1>4. ASSUME NEW k \in 1..Len(items)
      PROVE  f[k] = f[k - 1] + (IF items[k].name = p THEN Length(items[k]) ELSE 0)
  <2>1. k \in 0..Len(items) /\ k # 0
    OBVIOUS
  <2>. QED
    BY <1>1, <2>1 DEF IsTime
<1>. QED
  BY <1>2, <1>3, <1>4

(* A longer timeline: what came before is the same, and one segment is new.           *)
Longer(items, s, new) ==
    /\ Len(items) \in Nat /\ Len(new) = Len(items) + 1
    /\ \A k \in 1..Len(items) : new[k] = items[k]
    /\ new[Len(items) + 1] = s

LEMMA TimeLonger ==
    ASSUME NEW items, NEW s, NEW new, Longer(items, s, new), NEW p
    PROVE  TimeIn(new, p) = TimeIn(items, p) + (IF s.name = p THEN Length(s) ELSE 0)
<1>. DEFINE n == Len(items)
<1>1. n \in Nat /\ Len(new) = n + 1 /\ Len(new) \in Nat /\ new[n + 1] = s
      /\ \A k \in 1..n : new[k] = items[k]
  BY DEF Longer
<1>. DEFINE Turn(t) == IF t.name = p THEN Length(t) ELSE 0
<1>. HIDE DEF Turn
<1>2. PICK f : /\ TimeIn(items, p) = f[n] /\ f[0] = 0
               /\ \A k \in 1..n : f[k] = f[k - 1] + Turn(items[k])
  BY <1>1, TimeFacts DEF Turn
<1>3. PICK g : /\ TimeIn(new, p) = g[n + 1] /\ g[0] = 0
               /\ \A k \in 1..n + 1 : g[k] = g[k - 1] + Turn(new[k])
  BY <1>1, TimeFacts DEF Turn
<1>. HIDE DEF n
<1>4. ASSUME NEW k \in 0..n PROVE g[k] = f[k]
  <2>. DEFINE Wrong == {x \in 0..n : g[x] # f[x]}
  <2>. SUFFICES ASSUME Wrong # {} PROVE FALSE
    OBVIOUS
  <2>1. Wrong \in SUBSET Nat
    BY <1>1
  <2>2. PICK x \in Wrong : \A y \in Wrong : x <= y
    BY <2>1, LeastElement
  <2>3. x # 0
    BY <1>2, <1>3, <2>2
  <2>4. x \in 1..n /\ x \in 1..n + 1 /\ x - 1 \in 0..n /\ ~(x <= x - 1)
    BY <1>1, <2>2, <2>3
  <2>5. g[x - 1] = f[x - 1]
    BY <2>2, <2>4
  <2>6. new[x] = items[x]
    BY <1>1, <2>4
  <2>7. g[x] = f[x]
    BY <1>2, <1>3, <2>4, <2>5, <2>6
  <2>. QED
    BY <2>2, <2>7
<1>5. n \in 0..n /\ n + 1 \in 1..n + 1 /\ n + 1 - 1 = n
  BY <1>1
<1>6. g[n + 1] = g[n + 1 - 1] + Turn(new[n + 1])
  BY <1>3, <1>5
<1>7. g[n + 1] = f[n] + Turn(s)
  BY ONLY <1>1, <1>4, <1>5, <1>6
<1>. QED
  BY <1>2, <1>3, <1>7 DEF Turn

LEMMA JoinedLonger ==
    ASSUME NEW w, Input(w), NEW items, NEW t, Joined(w, items, t), NEW x \in DOMAIN w \cup {IDLE},
           NEW to \in Nat, t < to, NEW new, new = Append(items, Segment(x, t, to))
    PROVE  Joined(w, new, to) /\ Longer(items, Segment(x, t, to), new)
<1>. DEFINE s == Segment(x, t, to)
            n == Len(items)
<1>1. items \in Seq(Segments(w)) /\ t \in Nat
  BY DEF Joined
<1>2. s \in Segments(w) /\ s.start = t /\ s.end = to /\ s.name = x
  BY <1>1 DEF Segments, Segment
<1>. HIDE DEF s
<1>3. n \in Nat /\ n = Len(items)
  BY <1>1, LenProperties
<1>4. /\ new \in Seq(Segments(w))
      /\ \A k \in 1..n : new[k] = items[k]
      /\ new[n + 1] = s
  BY <1>1, <1>2, AppendProperties DEF s
<1>5. Len(new) = n + 1
  BY <1>1, <1>2, AppendProperties DEF s
<1>6. Longer(items, s, new)
  BY <1>3, <1>4, <1>5 DEF Longer
<1>7. /\ \A k \in 1..n : items[k].start < items[k].end /\ items[k].end <= t
      /\ \A k \in 1..n : items[k].start = IF k = 1 THEN 0 ELSE items[k - 1].end
      /\ t = IF n = 0 THEN 0 ELSE items[n].end
  BY DEF Joined
<1>8. \A k \in 1..n : items[k].start \in Nat /\ items[k].end \in Nat
  <2>1. \A k \in 1..n : items[k] \in Segments(w)
    BY <1>1, ElementOfSeq
  <2>. QED
    BY <2>1 DEF Segments
<1>. HIDE DEF n
<1>9. ASSUME NEW k \in 1..n + 1
      PROVE  /\ new[k].start < new[k].end /\ new[k].end <= to
             /\ new[k].start = IF k = 1 THEN 0 ELSE new[k - 1].end
  <2>1. CASE k = n + 1
    <3>1. new[k] = s
      BY <1>4, <2>1
    <3>2. CASE n = 0
      BY <1>2, <1>7, <2>1, <3>1, <3>2
    <3>3. CASE n # 0
      <4>1. k # 1 /\ k - 1 = n /\ n \in 1..n
        BY <1>3, <2>1, <3>3
      <4>2. new[k - 1] = items[n]
        BY <1>4, <4>1
      <4>3. t = items[n].end
        BY <1>7, <3>3
      <4>4. new[k - 1] = items[k - 1]
        BY <4>1, <4>2
      <4>. QED
        BY ONLY <1>1, <1>2, <3>1, <4>1, <4>2, <4>3, <4>4, t < to, to \in Nat
    <3>. QED
      BY <3>2, <3>3
  <2>2. CASE k # n + 1
    <3>1. k \in 1..n /\ new[k] = items[k]
      BY <1>3, <1>4, <2>2
    <3>2. k # 1 => k - 1 \in 1..n /\ new[k - 1] = items[k - 1]
      <4>1. k # 1 => k - 1 \in 1..n
        BY <1>3, <3>1
      <4>. QED
        BY <1>4, <4>1
    <3>3. items[k].end <= to
      BY <1>1, <1>7, <1>8, <3>1
    <3>. QED
      BY <1>7, <3>1, <3>2, <3>3
  <2>. QED
    BY <2>1, <2>2
<1>10. to = IF Len(new) = 0 THEN 0 ELSE new[Len(new)].end
  <2>1. Len(new) # 0
    BY <1>3, <1>5
  <2>. QED
    BY <1>2, <1>4, <1>5, <2>1
<1>11. Joined(w, new, to)
  BY <1>4, <1>5, <1>9, <1>10 DEF Joined
<1>. QED
  BY <1>6, <1>11 DEF s

LEMMA AtLonger ==
    ASSUME NEW items, NEW s, NEW new, Longer(items, s, new), NEW x
    PROVE  /\ \A k : k \in At(items, x) => /\ k \in At(new, x) /\ new[k] = items[k]
                                           /\ k \in Nat /\ k <= Len(items)
           /\ s.name = x => Len(items) + 1 \in At(new, x)
           /\ \A k : k \in At(new, x) => \/ k \in At(items, x)
                                         \/ k = Len(items) + 1 /\ s.name = x
           /\ new[Len(items) + 1] = s
<1>. DEFINE n == Len(items)
<1>1. n \in Nat /\ n = Len(items)
  BY DEF Longer
<1>2. (\A k \in 1..n : new[k] = items[k]) /\ new[n + 1] = s
  BY DEF Longer
<1>3. Len(new) = n + 1
  BY DEF Longer
<1>. HIDE DEF n
<1>4. \A k : k \in 1..n + 1 <=> k \in 1..n \/ k = n + 1
  BY <1>1
<1>5. At(items, x) = {k \in 1..n : items[k].name = x}
  BY <1>1 DEF At
<1>6. At(new, x) = {k \in 1..n + 1 : new[k].name = x}
  BY <1>3 DEF At
<1>7. \A k \in 1..n : k \in Nat /\ k <= n
  BY <1>1
<1>8. ASSUME NEW k, k \in At(items, x)
      PROVE  k \in At(new, x) /\ new[k] = items[k] /\ k \in Nat /\ k <= n
  BY <1>2, <1>4, <1>5, <1>6, <1>7, <1>8
<1>9. ASSUME s.name = x PROVE n + 1 \in At(new, x)
  BY <1>2, <1>4, <1>6, <1>9
<1>10. ASSUME NEW k, k \in At(new, x)
       PROVE  k \in At(items, x) \/ (k = n + 1 /\ s.name = x)
  <2>1. k \in 1..n + 1 /\ new[k].name = x
    BY <1>6, <1>10
  <2>2. CASE k = n + 1
    BY <1>2, <2>1, <2>2
  <2>3. CASE k # n + 1
    <3>1. k \in 1..n
      BY <1>4, <2>1, <2>3
    <3>2. items[k].name = x
      BY <1>2, <2>1, <3>1
    <3>. QED
      BY <1>5, <3>1, <3>2
  <2>. QED
    BY <2>2, <2>3
<1>. QED
  BY <1>2, <1>8, <1>9, <1>10 DEF n

(* The CPU idles from t to a time no unfinished process arrives before.              *)
IdleStep(w, rem, items, t, new, to) ==
    /\ to \in Nat /\ t < to /\ new = Append(items, Segment(IDLE, t, to))
    /\ \A p \in DOMAIN w : rem[p] > 0 => to <= w[p].arrival

LEMMA RowIdle ==
    ASSUME NEW w, Input(w), NEW rem, NEW st, NEW fi, NEW items, NEW t,
           Table(w, rem, st, fi, items, t), NEW new, NEW to, IdleStep(w, rem, items, t, new, to),
           Longer(items, Segment(IDLE, t, to), new), NEW p \in DOMAIN w
    PROVE  Row(w, rem, st, fi, new, to, p)
<1>. DEFINE s == Segment(IDLE, t, to)
<1>1. t \in Nat /\ to \in Nat /\ t < to
  BY DEF Table, Joined, IdleStep
<1>2. /\ s.name = IDLE /\ s.start = t /\ s.end = to /\ p # IDLE
      /\ w[p].arrival \in Nat /\ w[p].burst \in Nat
  BY InputFacts DEF Segment, IDLE
<1>3. rem[p] \in Nat /\ st[p] \in Nat \cup {-1} /\ fi[p] \in Nat \cup {-1}
  BY DEF Table, Typed
<1>. HIDE DEF s
<1>4. TimeIn(new, p) = TimeIn(items, p)
  <2>1. TimeIn(items, p) = w[p].burst - rem[p]
    BY DEF Table, Row
  <2>2. TimeIn(new, p) = TimeIn(items, p) + (IF s.name = p THEN Length(s) ELSE 0)
    BY TimeLonger DEF s
  <2>. QED
    BY <1>2, <1>3, <2>1, <2>2
<1>5. /\ \A k : k \in At(new, p) <=> k \in At(items, p)
      /\ \A k \in At(items, p) : new[k] = items[k]
      /\ \A k \in At(new, IDLE) : \/ k \in At(items, IDLE) /\ new[k] = items[k]
                                  \/ new[k] = s
  <2>1. Longer(items, s, new)
    BY DEF s
  <2>. QED
    BY <1>2, <2>1, AtLonger
<1>6. Row(w, rem, st, fi, items, t, p)
  BY DEF Table
<1>7. rem[p] > 0 => to <= w[p].arrival
  BY DEF IdleStep
<1>8. ASSUME NEW k \in At(new, IDLE)
      PROVE  \/ new[k].end <= w[p].arrival
             \/ fi[p] # -1 /\ fi[p] <= new[k].start
  <2>1. CASE k \in At(items, IDLE) /\ new[k] = items[k]
    BY <1>6, <2>1 DEF Row
  <2>2. CASE new[k] = s
    <3>1. CASE rem[p] > 0
      BY <1>2, <1>7, <2>2, <3>1
    <3>2. CASE ~(rem[p] > 0)
      <4>1. fi[p] # -1
        BY <1>3, <1>6, <3>2 DEF Row
      <4>2. fi[p] <= t
        BY <1>6, <4>1 DEF Row
      <4>. QED
        BY <1>2, <2>2, <4>1, <4>2
    <3>. QED
      BY <3>1, <3>2
  <2>. QED
    BY <1>5, <2>1, <2>2
<1>9. rem[p] <= w[p].burst /\ TimeIn(new, p) = w[p].burst - rem[p]
  BY <1>4, <1>6 DEF Row
<1>10. /\ st[p] = -1 <=> rem[p] = w[p].burst
       /\ fi[p] = -1 <=> rem[p] # 0
  BY <1>6 DEF Row
<1>11. st[p] # -1 => /\ w[p].arrival <= st[p] /\ st[p] <= to
                     /\ \E k \in At(new, p) : new[k].start = st[p]
  <2>. SUFFICES ASSUME st[p] # -1
                PROVE  /\ w[p].arrival <= st[p] /\ st[p] <= to
                       /\ \E k \in At(new, p) : new[k].start = st[p]
    OBVIOUS
  <2>1. w[p].arrival <= st[p] /\ st[p] <= t /\ \E k \in At(items, p) : items[k].start = st[p]
    BY <1>6 DEF Row
  <2>. QED
    BY <1>1, <1>3, <1>5, <2>1
<1>12. \A k \in At(new, p) : st[p] # -1 /\ st[p] <= new[k].start
  BY <1>5, <1>6 DEF Row
<1>13. fi[p] # -1 => /\ w[p].arrival <= fi[p] /\ fi[p] <= to
                     /\ \E k \in At(new, p) : new[k].end = fi[p]
                     /\ \A k \in At(new, p) : new[k].end <= fi[p]
  <2>. SUFFICES ASSUME fi[p] # -1
                PROVE  /\ w[p].arrival <= fi[p] /\ fi[p] <= to
                       /\ \E k \in At(new, p) : new[k].end = fi[p]
                       /\ \A k \in At(new, p) : new[k].end <= fi[p]
    OBVIOUS
  <2>1. /\ w[p].arrival <= fi[p] /\ fi[p] <= t
        /\ \E k \in At(items, p) : items[k].end = fi[p]
        /\ \A k \in At(items, p) : items[k].end <= fi[p]
    BY <1>6 DEF Row
  <2>. QED
    BY <1>1, <1>3, <1>5, <2>1
<1>. QED
  BY <1>8, <1>9, <1>10, <1>11, <1>12, <1>13 DEF Row

LEMMA TableIdle ==
    ASSUME NEW w, Input(w), NEW rem, NEW st, NEW fi, NEW items, NEW t,
           Table(w, rem, st, fi, items, t), NEW new, NEW to, IdleStep(w, rem, items, t, new, to)
    PROVE  Table(w, rem, st, fi, new, to)
<1>1. Joined(w, items, t) /\ Typed(w, rem, st, fi)
  BY DEF Table
<1>2. to \in Nat /\ t < to /\ new = Append(items, Segment(IDLE, t, to))
  BY DEF IdleStep
<1>3. Joined(w, new, to) /\ Longer(items, Segment(IDLE, t, to), new)
  BY <1>1, <1>2, JoinedLonger
<1>4. ASSUME NEW p \in DOMAIN w PROVE Row(w, rem, st, fi, new, to, p)
  BY <1>3, RowIdle
<1>. QED
  BY <1>1, <1>3, <1>4 DEF Table

(* A process that has arrived runs from t for a while, at most to its end.            *)
RunStep(w, rem, st, fi, items, t, p, run, rem2, st2, fi2, new, to) ==
    /\ p \in DOMAIN w /\ w[p].arrival <= t
    /\ run \in Nat /\ 0 < run /\ run <= rem[p] /\ to = t + run
    /\ new = Append(items, Segment(p, t, to))
    /\ rem2 = [rem EXCEPT ![p] = rem[p] - run]
    /\ st2 = [st EXCEPT ![p] = IF st[p] = -1 THEN t ELSE st[p]]
    /\ fi2 = [fi EXCEPT ![p] = IF rem[p] = run THEN to ELSE fi[p]]

LEMMA RunTyped ==
    ASSUME NEW w, Input(w), NEW rem, NEW st, NEW fi, NEW items, NEW t,
           Table(w, rem, st, fi, items, t), NEW p, NEW run, NEW rem2, NEW st2, NEW fi2, NEW new,
           NEW to, RunStep(w, rem, st, fi, items, t, p, run, rem2, st2, fi2, new, to)
    PROVE  /\ Typed(w, rem2, st2, fi2)
           /\ Longer(items, Segment(p, t, to), new) /\ Joined(w, new, to)
           /\ t \in Nat /\ to \in Nat /\ t < to /\ to - t = run /\ run \in Nat
           /\ p \in DOMAIN w /\ rem[p] \in Nat /\ rem[p] # 0
           /\ rem2[p] = rem[p] - run
           /\ st2[p] = IF st[p] = -1 THEN t ELSE st[p]
           /\ fi2[p] = IF rem[p] = run THEN to ELSE fi[p]
           /\ \A q \in DOMAIN w : q # p => rem2[q] = rem[q] /\ st2[q] = st[q] /\ fi2[q] = fi[q]
<1>1. /\ p \in DOMAIN w
      /\ run \in Nat /\ 0 < run /\ run <= rem[p] /\ to = t + run
      /\ new = Append(items, Segment(p, t, to))
  BY DEF RunStep
<1>2. /\ rem2 = [rem EXCEPT ![p] = rem[p] - run]
      /\ st2 = [st EXCEPT ![p] = IF st[p] = -1 THEN t ELSE st[p]]
      /\ fi2 = [fi EXCEPT ![p] = IF rem[p] = run THEN to ELSE fi[p]]
  BY DEF RunStep
<1>3. /\ rem \in [DOMAIN w -> Nat] /\ st \in [DOMAIN w -> Nat \cup {-1}]
      /\ fi \in [DOMAIN w -> Nat \cup {-1}]
  BY DEF Table, Typed
<1>4. Joined(w, items, t) /\ t \in Nat
  BY DEF Table, Joined
<1>5. to \in Nat /\ t < to /\ to - t = run
  BY <1>1, <1>4
<1>6. rem[p] \in Nat /\ rem[p] # 0 /\ rem[p] - run \in Nat
  BY <1>1, <1>3
<1>7. Longer(items, Segment(p, t, to), new) /\ Joined(w, new, to)
  BY <1>1, <1>4, <1>5, JoinedLonger
<1>8. rem2 \in [DOMAIN w -> Nat]
  BY <1>1, <1>2, <1>3, <1>6
<1>9. st2 \in [DOMAIN w -> Nat \cup {-1}]
  BY <1>1, <1>2, <1>3, <1>4
<1>10. fi2 \in [DOMAIN w -> Nat \cup {-1}]
  BY <1>1, <1>2, <1>3, <1>5
<1>11. Typed(w, rem2, st2, fi2)
  BY <1>8, <1>9, <1>10 DEF Typed
<1>12. /\ rem2[p] = rem[p] - run
       /\ st2[p] = IF st[p] = -1 THEN t ELSE st[p]
       /\ fi2[p] = IF rem[p] = run THEN to ELSE fi[p]
       /\ \A q \in DOMAIN w : q # p => rem2[q] = rem[q] /\ st2[q] = st[q] /\ fi2[q] = fi[q]
  BY <1>1, <1>2, <1>3
<1>. QED
  BY <1>1, <1>4, <1>5, <1>6, <1>7, <1>11, <1>12

LEMMA RowRun ==
    ASSUME NEW w, Input(w), NEW rem, NEW st, NEW fi, NEW items, NEW t,
           Table(w, rem, st, fi, items, t), NEW p, NEW run, NEW rem2, NEW st2, NEW fi2, NEW new,
           NEW to, RunStep(w, rem, st, fi, items, t, p, run, rem2, st2, fi2, new, to)
    PROVE  Row(w, rem2, st2, fi2, new, to, p)
<1>. DEFINE s == Segment(p, t, to)
            n == Len(items)
<1>1. /\ t \in Nat /\ to \in Nat /\ t < to /\ to - t = run /\ run \in Nat
      /\ p \in DOMAIN w /\ rem[p] \in Nat /\ rem[p] # 0
      /\ rem2[p] = rem[p] - run
      /\ st2[p] = IF st[p] = -1 THEN t ELSE st[p]
      /\ fi2[p] = IF rem[p] = run THEN to ELSE fi[p]
  BY RunTyped
<1>2. /\ s.name = p /\ s.start = t /\ s.end = to /\ p # IDLE
      /\ w[p].arrival \in Nat /\ w[p].burst \in Nat
  BY <1>1, InputFacts DEF Segment, IDLE
<1>3. /\ 0 < run /\ run <= rem[p] /\ w[p].arrival <= t
      /\ st[p] \in Nat \cup {-1} /\ fi[p] \in Nat \cup {-1}
  BY <1>1 DEF Table, Typed, RunStep
<1>4. Longer(items, s, new)
  BY RunTyped
<1>. HIDE DEF s
<1>5. Row(w, rem, st, fi, items, t, p)
  BY <1>1 DEF Table
<1>6. /\ rem[p] <= w[p].burst /\ TimeIn(items, p) = w[p].burst - rem[p]
      /\ st[p] = -1 <=> rem[p] = w[p].burst
      /\ fi[p] = -1
  BY <1>1, <1>5 DEF Row
<1>7. TimeIn(new, p) = TimeIn(items, p) + run
  <2>1. TimeIn(new, p) = TimeIn(items, p) + (IF s.name = p THEN Length(s) ELSE 0)
    BY <1>4, TimeLonger
  <2>. QED
    BY <1>1, <1>2, <2>1 DEF Length
<1>8. rem2[p] <= w[p].burst /\ TimeIn(new, p) = w[p].burst - rem2[p]
  BY ONLY <1>1, <1>2, <1>3, <1>6, <1>7
<1>9. /\ st2[p] # -1 /\ rem2[p] # w[p].burst /\ st2[p] <= t /\ w[p].arrival <= st2[p]
  <2>1. st[p] # -1 => w[p].arrival <= st[p] /\ st[p] <= t
    BY <1>5 DEF Row
  <2>. QED
    BY ONLY <1>1, <1>2, <1>3, <1>6, <2>1
<1>10. /\ \A k : k \in At(items, p) => k \in At(new, p) /\ new[k] = items[k]
       /\ n + 1 \in At(new, p) /\ new[n + 1] = s
       /\ \A k : k \in At(new, p) => k \in At(items, p) \/ k = n + 1
       /\ \A k : k \in At(new, IDLE) => k \in At(items, IDLE) /\ new[k] = items[k]
  BY <1>2, <1>4, AtLonger
<1>. HIDE DEF n
<1>11. \E k \in At(new, p) : new[k].start = st2[p]
  <2>1. CASE st[p] = -1
    BY <1>1, <1>2, <1>10, <2>1
  <2>2. CASE st[p] # -1
    <3>1. \E k \in At(items, p) : items[k].start = st[p]
      BY <1>5, <2>2 DEF Row
    <3>. QED
      BY <1>1, <1>10, <2>2, <3>1
  <2>. QED
    BY <2>1, <2>2
<1>12. ASSUME NEW k \in At(new, p) PROVE st2[p] <= new[k].start
  <2>1. CASE k \in At(items, p)
    BY <1>1, <1>5, <1>10, <2>1 DEF Row
  <2>2. CASE k = n + 1
    BY <1>2, <1>9, <1>10, <2>2
  <2>. QED
    BY <1>10, <2>1, <2>2
<1>13. fi2[p] = -1 <=> rem2[p] # 0
  BY <1>1, <1>3, <1>6
<1>14. ASSUME fi2[p] # -1
       PROVE  /\ w[p].arrival <= fi2[p] /\ fi2[p] <= to
              /\ \E k \in At(new, p) : new[k].end = fi2[p]
              /\ \A k \in At(new, p) : new[k].end <= fi2[p]
  <2>1. fi2[p] = to
    BY <1>1, <1>6, <1>14
  <2>2. ASSUME NEW k \in At(items, p) PROVE items[k].end \in Nat /\ items[k].end <= t
    <3>1. Joined(w, items, t) /\ k \in 1..Len(items)
      BY DEF Table, At
    <3>2. items[k] \in Segments(w)
      BY <3>1, ElementOfSeq DEF Joined
    <3>. QED
      BY <3>1, <3>2 DEF Joined, Segments
  <2>3. ASSUME NEW k \in At(new, p) PROVE new[k].end <= to
    <3>1. CASE k \in At(items, p)
      BY <1>1, <1>10, <2>2, <3>1
    <3>2. CASE k = n + 1
      BY <1>1, <1>2, <1>10, <3>2
    <3>. QED
      BY <1>10, <3>1, <3>2
  <2>4. w[p].arrival <= to
    BY <1>1, <1>2, <1>3
  <2>. QED
    BY <1>1, <1>2, <1>10, <2>1, <2>3, <2>4
<1>15. ASSUME NEW k \in At(new, IDLE) PROVE new[k].end <= w[p].arrival
  BY <1>5, <1>6, <1>10 DEF Row
<1>16. st2[p] <= to
  BY <1>1, <1>3, <1>9
<1>. QED
  BY <1>8, <1>9, <1>11, <1>12, <1>13, <1>14, <1>15, <1>16 DEF Row

LEMMA RowOther ==
    ASSUME NEW w, Input(w), NEW rem, NEW st, NEW fi, NEW items, NEW t,
           Table(w, rem, st, fi, items, t), NEW p, NEW run, NEW rem2, NEW st2, NEW fi2, NEW new,
           NEW to, RunStep(w, rem, st, fi, items, t, p, run, rem2, st2, fi2, new, to),
           NEW q \in DOMAIN w, q # p
    PROVE  Row(w, rem2, st2, fi2, new, to, q)
<1>. DEFINE s == Segment(p, t, to)
<1>1. /\ t \in Nat /\ to \in Nat /\ t < to /\ p \in DOMAIN w
      /\ rem2[q] = rem[q] /\ st2[q] = st[q] /\ fi2[q] = fi[q]
  BY RunTyped
<1>2. s.name = p /\ p # IDLE /\ q # IDLE
  BY <1>1, InputFacts DEF Segment, IDLE
<1>3. rem[q] \in Nat /\ st[q] \in Nat \cup {-1} /\ fi[q] \in Nat \cup {-1} /\ w[q].burst \in Nat
  BY InputFacts DEF Table, Typed
<1>4. Longer(items, s, new)
  BY RunTyped
<1>. HIDE DEF s
<1>5. Row(w, rem, st, fi, items, t, q)
  BY DEF Table
<1>6. TimeIn(new, q) = TimeIn(items, q)
  <2>1. TimeIn(new, q) = TimeIn(items, q) + (IF s.name = q THEN Length(s) ELSE 0)
    BY <1>4, TimeLonger
  <2>2. TimeIn(items, q) = w[q].burst - rem[q]
    BY <1>5 DEF Row
  <2>. QED
    BY <1>2, <1>3, <2>1, <2>2
<1>7. /\ \A k : k \in At(new, q) <=> k \in At(items, q)
      /\ \A k \in At(items, q) : new[k] = items[k]
      /\ \A k : k \in At(new, IDLE) => k \in At(items, IDLE) /\ new[k] = items[k]
  BY <1>2, <1>4, AtLonger
<1>8. /\ rem[q] <= w[q].burst /\ TimeIn(items, q) = w[q].burst - rem[q]
      /\ st[q] = -1 <=> rem[q] = w[q].burst
      /\ fi[q] = -1 <=> rem[q] # 0
  BY <1>5 DEF Row
<1>9. st[q] # -1 => /\ w[q].arrival <= st[q] /\ st[q] <= to
                    /\ \E k \in At(new, q) : new[k].start = st[q]
  <2>. SUFFICES ASSUME st[q] # -1
                PROVE  /\ w[q].arrival <= st[q] /\ st[q] <= to
                       /\ \E k \in At(new, q) : new[k].start = st[q]
    OBVIOUS
  <2>1. w[q].arrival <= st[q] /\ st[q] <= t /\ \E k \in At(items, q) : items[k].start = st[q]
    BY <1>5 DEF Row
  <2>. QED
    BY <1>1, <1>3, <1>7, <2>1
<1>10. fi[q] # -1 => /\ w[q].arrival <= fi[q] /\ fi[q] <= to
                     /\ \E k \in At(new, q) : new[k].end = fi[q]
                     /\ \A k \in At(new, q) : new[k].end <= fi[q]
  <2>. SUFFICES ASSUME fi[q] # -1
                PROVE  /\ w[q].arrival <= fi[q] /\ fi[q] <= to
                       /\ \E k \in At(new, q) : new[k].end = fi[q]
                       /\ \A k \in At(new, q) : new[k].end <= fi[q]
    OBVIOUS
  <2>1. /\ w[q].arrival <= fi[q] /\ fi[q] <= t
        /\ \E k \in At(items, q) : items[k].end = fi[q]
        /\ \A k \in At(items, q) : items[k].end <= fi[q]
    BY <1>5 DEF Row
  <2>. QED
    BY <1>1, <1>3, <1>7, <2>1
<1>11. \A k \in At(new, q) : st[q] # -1 /\ st[q] <= new[k].start
  BY <1>5, <1>7 DEF Row
<1>12. \A k \in At(new, IDLE) : \/ new[k].end <= w[q].arrival
                                \/ fi[q] # -1 /\ fi[q] <= new[k].start
  BY <1>5, <1>7 DEF Row
<1>. QED
  BY <1>1, <1>6, <1>8, <1>9, <1>10, <1>11, <1>12 DEF Row

LEMMA TableRun ==
    ASSUME NEW w, Input(w), NEW rem, NEW st, NEW fi, NEW items, NEW t,
           Table(w, rem, st, fi, items, t), NEW p, NEW run, NEW rem2, NEW st2, NEW fi2, NEW new,
           NEW to, RunStep(w, rem, st, fi, items, t, p, run, rem2, st2, fi2, new, to)
    PROVE  Table(w, rem2, st2, fi2, new, to)
<1>1. Joined(w, new, to) /\ Typed(w, rem2, st2, fi2)
  BY RunTyped
<1>2. Row(w, rem2, st2, fi2, new, to, p)
  BY RowRun
<1>3. \A q \in DOMAIN w : q # p => Row(w, rem2, st2, fi2, new, to, q)
  BY RowOther
<1>. QED
  BY <1>1, <1>2, <1>3 DEF Table
--------------------------------------------------------------------------------
(* A finite set has a least element in a total preorder.                            *)
LEMMA FiniteLeast ==
    ASSUME NEW C, IsFiniteSet(C), C # {}, NEW R,
           \A x, y \in C : <<x, y>> \in R \/ <<y, x>> \in R,
           \A x, y, z \in C : <<x, y>> \in R /\ <<y, z>> \in R => <<x, z>> \in R
    PROVE  \E x \in C : \A y \in C : <<x, y>> \in R
<1>. DEFINE Under(x) == {y \in C : <<y, x>> \in R}
            V == {Cardinality(Under(x)) : x \in C}
<1>1. ASSUME NEW x \in C
      PROVE  IsFiniteSet(Under(x)) /\ Cardinality(Under(x)) \in Nat
  <2>1. Under(x) \in SUBSET C
    OBVIOUS
  <2>. HIDE DEF Under
  <2>2. IsFiniteSet(Under(x))
    BY <2>1, FS_Subset
  <2>. QED
    BY <2>2, FS_CardinalityType
<1>. HIDE DEF Under
<1>2. V \in SUBSET Nat /\ V # {}
  BY <1>1
<1>3. PICK v \in V : \A u \in V : v <= u
  BY <1>2, LeastElement
<1>4. PICK x \in C : v = Cardinality(Under(x))
  OBVIOUS
<1>5. ASSUME NEW y \in C, <<x, y>> \notin R PROVE FALSE
  <2>1. <<y, x>> \in R
    BY <1>5
  <2>2. Under(y) \in SUBSET Under(x)
    BY <2>1 DEF Under
  <2>3. x \in Under(x) /\ x \notin Under(y)
    BY <1>5 DEF Under
  <2>4. v <= Cardinality(Under(y))
    BY <1>3
  <2>5. /\ Cardinality(Under(y)) <= Cardinality(Under(x))
        /\ Cardinality(Under(y)) # Cardinality(Under(x))
    BY <1>1, <2>2, <2>3, FS_Subset
  <2>. QED
    BY <1>1, <1>4, <2>4, <2>5
<1>. QED
  BY <1>5

(* A set of the first numbers.                                                    *)
LEMMA Prefix ==
    ASSUME NEW n \in Nat, NEW A \in SUBSET (1..n),
           \A i \in 1..n, k \in A : i <= k => i \in A
    PROVE  /\ Cardinality(A) \in 0..n
           /\ \A k \in 1..n : k \in A <=> k <= Cardinality(A)
<1>1. CASE A = 1..n
  <2>1. Cardinality(1..n) = n
    BY FS_Interval
  <2>. QED
    BY <1>1, <2>1
<1>2. CASE A # 1..n
  <2>1. PICK m \in (1..n) \ A : \A x \in (1..n) \ A : m <= x
    <3>1. \A x \in 1..n : x \in Nat
      OBVIOUS
    <3>2. (1..n) \ A \in SUBSET Nat /\ (1..n) \ A # {}
      BY ONLY <1>2, <3>1, A \in SUBSET (1..n)
    <3>. QED
      BY ONLY <3>2, LeastElement
  <2>2. \A k \in 1..n : k \in A <=> k <= m - 1
    <3>1. ASSUME NEW k \in 1..n, k \in A PROVE k <= m - 1
      BY <2>1, <3>1
    <3>2. ASSUME NEW k \in 1..n, k <= m - 1 PROVE k \in A
      BY <2>1, <3>2
    <3>. QED
      BY <3>1, <3>2
  <2>3. A = 1..m - 1
    <3>1. \A k : k \in 1..m - 1 => k \in 1..n /\ k <= m - 1
      BY <2>1
    <3>2. \A k : k \in 1..n /\ k <= m - 1 => k \in 1..m - 1
      BY <2>1
    <3>. QED
      BY ONLY <2>2, <3>1, <3>2, A \in SUBSET (1..n)
  <2>4. Cardinality(1..m - 1) = m - 1
    BY <2>1, FS_Interval
  <2>. QED
    BY <2>1, <2>2, <2>3, <2>4
<1>. QED
  BY <1>1, <1>2
--------------------------------------------------------------------------------
(* Round robin: the arrival order.                                                *)
Before(w, q, p) == \/ w[q].arrival < w[p].arrival
                   \/ w[q].arrival = w[p].arrival /\ q <= p
RankIn(w, p) == Cardinality({q \in DOMAIN w : Before(w, q, p)})
OrderIn(w) == [k \in DOMAIN w |-> CHOOSE p \in DOMAIN w : RankIn(w, p) = k]
Came(w, time) == Cardinality({k \in DOMAIN w : w[OrderIn(w)[k]].arrival <= time})

LEMMA BeforeFacts ==
    ASSUME NEW w, Input(w)
    PROVE  /\ \A p, q \in DOMAIN w : Before(w, p, q) \/ Before(w, q, p)
           /\ \A p, q \in DOMAIN w : Before(w, p, q) /\ Before(w, q, p) => p = q
           /\ \A p, q, r \in DOMAIN w : Before(w, p, q) /\ Before(w, q, r) => Before(w, p, r)
<1>1. \A p \in DOMAIN w : p \in Nat /\ w[p].arrival \in Nat
  BY InputFacts
<1>2. \A p, q \in DOMAIN w : Before(w, p, q) \/ Before(w, q, p)
  BY <1>1 DEF Before
<1>3. \A p, q \in DOMAIN w : Before(w, p, q) /\ Before(w, q, p) => p = q
  BY <1>1 DEF Before
<1>4. \A p, q, r \in DOMAIN w : Before(w, p, q) /\ Before(w, q, r) => Before(w, p, r)
  BY <1>1 DEF Before
<1>. QED
  BY <1>2, <1>3, <1>4

LEMMA RankFacts ==
    ASSUME NEW w, Input(w)
    PROVE  /\ \A p \in DOMAIN w : RankIn(w, p) \in 1..Len(w)
           /\ \A p, q \in DOMAIN w : Before(w, p, q) /\ p # q => RankIn(w, p) < RankIn(w, q)
           /\ \A p, q \in DOMAIN w : RankIn(w, p) = RankIn(w, q) => p = q
           /\ \A k \in 1..Len(w) : \E p \in DOMAIN w : RankIn(w, p) = k
<1>. DEFINE D == DOMAIN w
            Up(p) == {q \in D : Before(w, q, p)}
<1>1. Len(w) \in Nat /\ D = 1..Len(w) /\ IsFiniteSet(D) /\ Cardinality(D) = Len(w)
  <2>1. Len(w) \in Nat /\ DOMAIN w = 1..Len(w)
    BY InputFacts
  <2>2. IsFiniteSet(1..Len(w))
    BY <2>1, FS_Interval
  <2>3. Cardinality(1..Len(w)) = Len(w)
    <3>1. Cardinality(1..Len(w)) = IF 1 > Len(w) THEN 0 ELSE Len(w) - 1 + 1
      BY <2>1, FS_Interval
    <3>. QED
      BY <2>1, <3>1
  <2>. QED
    BY <2>1, <2>2, <2>3
<1>2. /\ \A p, q \in D : Before(w, p, q) \/ Before(w, q, p)
      /\ \A p, q \in D : Before(w, p, q) /\ Before(w, q, p) => p = q
      /\ \A p, q, r \in D : Before(w, p, q) /\ Before(w, q, r) => Before(w, p, r)
  BY BeforeFacts
<1>3. ASSUME NEW p \in D
      PROVE  IsFiniteSet(Up(p)) /\ Cardinality(Up(p)) \in 1..Len(w) /\ RankIn(w, p) = Cardinality(Up(p))
  <2>1. RankIn(w, p) = Cardinality(Up(p))
    BY DEF RankIn
  <2>2. Up(p) \in SUBSET D /\ p \in Up(p)
    BY <1>2
  <2>. HIDE DEF Up, D
  <2>3. IsFiniteSet(Up(p)) /\ Cardinality(Up(p)) <= Len(w)
    BY <1>1, <2>2, FS_Subset
  <2>4. Cardinality(Up(p)) \in Nat /\ Cardinality(Up(p)) # 0
    BY <2>2, <2>3, FS_CardinalityType, FS_EmptySet
  <2>. QED
    BY <1>1, <2>1, <2>3, <2>4
<1>4. ASSUME NEW p \in D, NEW q \in D, Before(w, p, q), p # q
      PROVE  RankIn(w, p) < RankIn(w, q)
  <2>1. Up(p) \in SUBSET Up(q)
    BY <1>2, <1>4
  <2>2. q \in Up(q) /\ q \notin Up(p)
    BY <1>2, <1>4
  <2>. HIDE DEF Up, D
  <2>3. /\ Cardinality(Up(p)) <= Cardinality(Up(q))
        /\ Cardinality(Up(p)) # Cardinality(Up(q))
    BY <1>3, <2>1, <2>2, FS_Subset
  <2>. QED
    BY <1>3, <2>3
<1>5. ASSUME NEW p \in D, NEW q \in D, RankIn(w, p) = RankIn(w, q) PROVE p = q
  <2>1. RankIn(w, p) \in 1..Len(w) /\ RankIn(w, q) \in 1..Len(w)
    BY <1>3
  <2>2. ~(RankIn(w, p) < RankIn(w, q)) /\ ~(RankIn(w, q) < RankIn(w, p))
    BY <1>5, <2>1
  <2>. QED
    BY <1>2, <1>4, <2>2
<1>6. ASSUME NEW k \in 1..Len(w) PROVE \E p \in D : RankIn(w, p) = k
  <2>. DEFINE r == [p \in D |-> RankIn(w, p)]
  <2>1. r \in [D -> D]
    BY <1>1, <1>3
  <2>2. \A p, q \in D : r[p] = r[q] => p = q
    BY <1>5
  <2>. HIDE DEF r, D
  <2>3. r \in Injection(D, D)
    BY <2>1, <2>2 DEF Injection, IsInjective
  <2>4. r \in Surjection(D, D)
    BY <1>1, <2>3, FS_Injection
  <2>5. \E p \in D : r[p] = k
    BY <1>1, <2>4 DEF Surjection
  <2>. QED
    BY <2>5 DEF r
<1>7. \A p \in D : RankIn(w, p) \in 1..Len(w)
  BY <1>3
<1>. QED
  BY <1>4, <1>5, <1>6, <1>7

LEMMA OrderFacts ==
    ASSUME NEW w, Input(w)
    PROVE  /\ OrderIn(w) \in Seq(DOMAIN w) /\ DOMAIN OrderIn(w) = 1..Len(w)
           /\ Len(OrderIn(w)) = Len(w)
           /\ \A k \in 1..Len(w) : OrderIn(w)[k] \in DOMAIN w /\ RankIn(w, OrderIn(w)[k]) = k
           /\ \A p \in DOMAIN w : OrderIn(w)[RankIn(w, p)] = p
<1>1. Len(w) \in Nat /\ DOMAIN w = 1..Len(w)
  BY InputFacts
<1>2. ASSUME NEW k \in 1..Len(w)
      PROVE  OrderIn(w)[k] \in DOMAIN w /\ RankIn(w, OrderIn(w)[k]) = k
  <2>1. \E p \in DOMAIN w : RankIn(w, p) = k
    BY RankFacts
  <2>2. OrderIn(w)[k] = CHOOSE p \in DOMAIN w : RankIn(w, p) = k
    BY <1>1 DEF OrderIn
  <2>. QED
    BY <2>1, <2>2
<1>3. DOMAIN OrderIn(w) = 1..Len(w)
  BY <1>1 DEF OrderIn
<1>4. OrderIn(w) \in [1..Len(w) -> DOMAIN w]
  BY <1>1, <1>2 DEF OrderIn
<1>5. OrderIn(w) \in Seq(DOMAIN w)
  BY <1>1, <1>4, SeqDef
<1>6. Len(OrderIn(w)) = Len(w)
  BY <1>1, <1>3, <1>5, LenProperties
<1>7. ASSUME NEW p \in DOMAIN w PROVE OrderIn(w)[RankIn(w, p)] = p
  BY <1>2, RankFacts
<1>. QED
  BY <1>2, <1>3, <1>5, <1>6, <1>7

(* Those that have arrived are the first of the arrival order.                      *)
LEMMA CameFacts ==
    ASSUME NEW w, Input(w), NEW t \in Nat
    PROVE  /\ Came(w, t) \in 0..Len(w)
           /\ \A p \in DOMAIN w : w[p].arrival <= t <=> RankIn(w, p) <= Came(w, t)
<1>. DEFINE A == {k \in DOMAIN w : w[OrderIn(w)[k]].arrival <= t}
<1>1. Len(w) \in Nat /\ DOMAIN w = 1..Len(w)
  BY InputFacts
<1>2. \A p \in DOMAIN w : p \in Nat /\ w[p].arrival \in Nat
  BY InputFacts
<1>3. /\ \A k \in 1..Len(w) : OrderIn(w)[k] \in DOMAIN w /\ RankIn(w, OrderIn(w)[k]) = k
      /\ \A p \in DOMAIN w : OrderIn(w)[RankIn(w, p)] = p /\ RankIn(w, p) \in 1..Len(w)
  BY OrderFacts, RankFacts
<1>4. ASSUME NEW i \in 1..Len(w), NEW k \in A, i <= k PROVE i \in A
  <2>. DEFINE p == OrderIn(w)[i]
              q == OrderIn(w)[k]
  <2>1. /\ p \in DOMAIN w /\ q \in DOMAIN w /\ RankIn(w, p) = i /\ RankIn(w, q) = k
        /\ w[q].arrival <= t /\ k \in Nat /\ i \in Nat
    BY <1>1, <1>3
  <2>. HIDE DEF p, q
  <2>2. ~(Before(w, q, p) /\ q # p)
    BY <1>4, <2>1, RankFacts
  <2>3. w[p].arrival <= w[q].arrival
    BY <1>2, <2>1, <2>2 DEF Before
  <2>4. w[p].arrival <= t
    BY <1>2, <2>1, <2>3
  <2>. QED
    BY <1>1, <2>4 DEF p
<1>5. A \in SUBSET (1..Len(w))
  BY <1>1
<1>. HIDE DEF A
<1>6. /\ Cardinality(A) \in 0..Len(w)
      /\ \A k \in 1..Len(w) : k \in A <=> k <= Cardinality(A)
  BY <1>1, <1>4, <1>5, Prefix
<1>7. Came(w, t) = Cardinality(A)
  BY DEF Came, A
<1>8. ASSUME NEW p \in DOMAIN w
      PROVE  w[p].arrival <= t <=> RankIn(w, p) <= Came(w, t)
  <2>1. RankIn(w, p) \in A <=> w[p].arrival <= t
    BY <1>1, <1>3 DEF A
  <2>. QED
    BY <1>3, <1>6, <1>7, <2>1
<1>. QED
  BY <1>6, <1>7, <1>8

LEMMA CameLater ==
    ASSUME NEW w, Input(w), NEW t \in Nat, NEW u \in Nat, t <= u
    PROVE  Came(w, t) <= Came(w, u)
<1>1. Came(w, t) \in 0..Len(w) /\ Came(w, u) \in 0..Len(w) /\ Len(w) \in Nat
  BY CameFacts, InputFacts
<1>. SUFFICES ASSUME Came(w, t) # 0 PROVE Came(w, t) <= Came(w, u)
  BY <1>1
<1>2. PICK p \in DOMAIN w : RankIn(w, p) = Came(w, t)
  BY <1>1, RankFacts
<1>3. w[p].arrival <= t
  BY <1>1, <1>2, CameFacts
<1>4. w[p].arrival <= u
  BY <1>3, InputFacts
<1>. QED
  BY <1>2, <1>4, CameFacts
--------------------------------------------------------------------------------
(* A queue lists a set when it holds each of its members once, and nothing else.     *)
Listed(s, A) ==
    /\ s \in Seq(A)
    /\ \A i, j \in 1..Len(s) : s[i] = s[j] => i = j
    /\ \A a \in A : \E i \in 1..Len(s) : s[i] = a
Ahead(s, x, y) == \E i, j \in 1..Len(s) : i < j /\ s[i] = x /\ s[j] = y
KeepsOrder(s, r) == \A x, y : Ahead(s, x, y) => Ahead(r, x, y)

LEMMA ListedEmpty ==
    /\ Listed(<< >>, {})
    /\ \A A : Listed(<< >>, A) => A = {}
<1>1. Len(<< >>) = 0 /\ << >> \in Seq({})
  BY EmptySeq
<1>2. 1..0 = {}
  OBVIOUS
<1>. QED
  BY <1>1, <1>2 DEF Listed

LEMMA EmptyDomain == DOMAIN << >> = {} /\ Len(<< >>) = 0
<1>1. << >> \in Seq({}) /\ Len(<< >>) = 0
  BY EmptySeq
<1>2. DOMAIN << >> = 1..Len(<< >>)
  BY <1>1, LenProperties
<1>3. 1..0 = {}
  OBVIOUS
<1>. QED
  BY <1>1, <1>2, <1>3

LEMMA ListedOne ==
    ASSUME NEW a
    PROVE  Listed(<<a>>, {a})
<1>1. <<a>> \in Seq({a}) /\ Len(<<a>>) = 1 /\ <<a>>[1] = a
  OBVIOUS
<1>2. \A i \in 1..1 : i = 1
  OBVIOUS
<1>. QED
  BY <1>1, <1>2 DEF Listed

LEMMA ListedLen ==
    ASSUME NEW n \in Nat, NEW A, NEW s, A \subseteq 1..n, Listed(s, A)
    PROVE  Len(s) \in Nat /\ Len(s) <= n
<1>1. s \in Seq(A) /\ \A i, j \in 1..Len(s) : s[i] = s[j] => i = j
  BY DEF Listed
<1>2. Len(s) \in Nat /\ s \in [1..Len(s) -> 1..n]
  <2>1. s \in Seq(1..n)
    BY <1>1, SeqMonotonic
  <2>. QED
    BY <2>1, LenProperties
<1>. DEFINE D == 1..Len(s)
            T == 1..n
<1>3. IsFiniteSet(T)
  BY FS_Interval
<1>4. Cardinality(D) = Len(s)
  BY <1>2, FS_Interval
<1>5. Cardinality(T) = n
  BY FS_Interval
<1>6. s \in [D -> T] /\ \A i, j \in D : s[i] = s[j] => i = j
  BY <1>1, <1>2
<1>. HIDE DEF D, T
<1>7. s \in Injection(D, T)
  BY <1>6 DEF Injection, IsInjective
<1>8. Cardinality(D) <= Cardinality(T)
  BY <1>3, <1>7, FS_Injection
<1>. QED
  BY <1>2, <1>4, <1>5, <1>8

LEMMA ListedConcat ==
    ASSUME NEW A, NEW B, NEW s, NEW u, Listed(s, A), Listed(u, B), A \cap B = {}
    PROVE  /\ Listed(s \o u, A \cup B)
           /\ \A x, y : Ahead(s, x, y) => Ahead(s \o u, x, y)
           /\ \A x \in A, y \in B : Ahead(s \o u, x, y)
<1>. DEFINE c == s \o u
            l == Len(s)
            m == Len(u)
<1>1. s \in Seq(A \cup B) /\ u \in Seq(A \cup B)
  BY SeqMonotonic DEF Listed
<1>2. l \in Nat /\ m \in Nat
  BY <1>1, LenProperties
<1>3. c \in Seq(A \cup B)
  BY <1>1, ConcatProperties
<1>4. Len(c) = l + m
  BY <1>1, ConcatProperties
<1>5. \A i \in 1..l + m : c[i] = IF i <= l THEN s[i] ELSE u[i - l]
  BY <1>1, ConcatProperties
<1>6. /\ \A i, j \in 1..l : s[i] = s[j] => i = j
      /\ \A i, j \in 1..m : u[i] = u[j] => i = j
  BY DEF Listed
<1>7. /\ \A a \in A : \E i \in 1..l : s[i] = a
      /\ \A b \in B : \E i \in 1..m : u[i] = b
      /\ \A i \in 1..l : s[i] \in A
      /\ \A i \in 1..m : u[i] \in B
  BY ElementOfSeq DEF Listed
<1>. HIDE DEF c, l, m
<1>8. ASSUME NEW i \in 1..l PROVE i \in 1..l + m /\ c[i] = s[i]
  BY <1>2, <1>5
<1>9. ASSUME NEW i \in 1..m
      PROVE  l + i \in 1..l + m /\ c[l + i] = u[i] /\ l + i > l
  <2>1. l + i \in 1..l + m /\ ~(l + i <= l) /\ l + i - l = i /\ l + i > l
    BY <1>2
  <2>. DEFINE z == l + i
  <2>2. c[z] = IF z <= l THEN s[z] ELSE u[z - l]
    BY <1>5, <2>1
  <2>3. ~(z <= l) /\ z - l = i
    BY <1>2, <2>1
  <2>. HIDE DEF z
  <2>4. c[z] = u[i]
    BY ONLY <2>2, <2>3
  <2>. QED
    BY <2>1, <2>4 DEF z
<1>10. ASSUME NEW i \in 1..l + m
       PROVE  \/ i \in 1..l /\ c[i] = s[i] /\ c[i] \in A
              \/ i - l \in 1..m /\ c[i] = u[i - l] /\ c[i] \in B
  <2>1. CASE i <= l
    <3>1. i \in 1..l
      BY <1>2, <2>1
    <3>. QED
      BY <1>7, <1>8, <3>1
  <2>2. CASE ~(i <= l)
    <3>1. i - l \in 1..m
      BY <1>2, <2>2
    <3>2. c[i] = u[i - l]
      BY <1>5, <2>2
    <3>. QED
      BY <1>7, <3>1, <3>2
  <2>. QED
    BY <2>1, <2>2
<1>11. ASSUME NEW i \in 1..l + m, NEW j \in 1..l + m, c[i] = c[j] PROVE i = j
  <2>1. CASE i \in 1..l /\ c[i] = s[i] /\ c[i] \in A
    <3>1. j \in 1..l /\ c[j] = s[j]
      BY <1>10, <1>11, <2>1
    <3>. QED
      BY <1>6, <1>11, <2>1, <3>1
  <2>2. CASE i - l \in 1..m /\ c[i] = u[i - l] /\ c[i] \in B
    <3>1. j - l \in 1..m /\ c[j] = u[j - l]
      BY <1>10, <1>11, <2>2
    <3>2. i - l = j - l
      BY <1>6, <1>11, <2>2, <3>1
    <3>. QED
      BY <1>2, <3>2
  <2>. QED
    BY <1>10, <2>1, <2>2
<1>12. ASSUME NEW a \in A \cup B PROVE \E i \in 1..l + m : c[i] = a
  <2>1. CASE a \in A
    BY <1>7, <1>8, <2>1
  <2>2. CASE a \in B
    BY <1>7, <1>9, <2>2
  <2>. QED
    BY <2>1, <2>2
<1>13. Listed(c, A \cup B)
  BY <1>3, <1>4, <1>11, <1>12 DEF Listed
<1>14. ASSUME NEW x, NEW y, Ahead(s, x, y) PROVE Ahead(c, x, y)
  <2>1. PICK i \in 1..l, j \in 1..l : i < j /\ s[i] = x /\ s[j] = y
    BY <1>14 DEF Ahead, l
  <2>2. i \in 1..Len(c) /\ j \in 1..Len(c) /\ c[i] = x /\ c[j] = y
    BY <1>4, <1>8, <2>1
  <2>. QED
    BY <2>1, <2>2 DEF Ahead
<1>15. ASSUME NEW x \in A, NEW y \in B PROVE Ahead(c, x, y)
  <2>1. PICK i \in 1..l : s[i] = x
    BY <1>7
  <2>2. PICK j \in 1..m : u[j] = y
    BY <1>7
  <2>3. i \in 1..Len(c) /\ c[i] = x
    BY <1>4, <1>8, <2>1
  <2>4. l + j \in 1..Len(c) /\ c[l + j] = y /\ i < l + j
    BY <1>2, <1>4, <1>9, <2>2
  <2>. QED
    BY <2>3, <2>4 DEF Ahead
<1>. QED
  BY <1>13, <1>14, <1>15 DEF c

LEMMA ListedTail ==
    ASSUME NEW A, NEW s, Listed(s, A), s # << >>
    PROVE  /\ Head(s) \in A /\ Listed(Tail(s), A \ {Head(s)})
           /\ \A x : ~Ahead(s, x, Head(s))
           /\ \A x, y : Ahead(s, x, y) /\ x # Head(s) /\ y # Head(s) => Ahead(Tail(s), x, y)
<1>. DEFINE h == Head(s)
            r == Tail(s)
            l == Len(s)
<1>1. s \in Seq(A) /\ l \in Nat /\ l > 0
  BY EmptySeq DEF Listed
<1>2. h = s[1] /\ h \in A
  BY <1>1, HeadTailProperties
<1>3. r \in Seq(A) /\ Len(r) = l - 1
  BY <1>1, HeadTailProperties
<1>4. \A i \in 1..l - 1 : r[i] = s[i + 1]
  BY <1>1, <1>3, HeadTailProperties
<1>5. /\ \A i, j \in 1..l : s[i] = s[j] => i = j
      /\ \A a \in A : \E i \in 1..l : s[i] = a
  BY DEF Listed
<1>. HIDE DEF h, r, l
<1>6. ASSUME NEW i \in 1..l - 1
      PROVE  /\ i + 1 \in 1..l /\ i + 1 # 1 /\ 1 \in 1..l
             /\ r[i] = s[i + 1] /\ r[i] # h /\ r[i] \in A \ {h}
  <2>1. i + 1 \in 1..l /\ i + 1 # 1 /\ 1 \in 1..l
    BY <1>1
  <2>2. r[i] = s[i + 1]
    BY <1>4
  <2>3. r[i] # h
    BY <1>2, <1>5, <2>1, <2>2
  <2>4. r[i] \in A
    BY <1>3, ElementOfSeq
  <2>. QED
    BY <2>1, <2>2, <2>3, <2>4
<1>7. r \in Seq(A \ {h})
  <2>1. l - 1 \in Nat /\ r \in [1..l - 1 -> A]
    BY <1>1, <1>3, LenProperties
  <2>2. r \in [1..l - 1 -> A \ {h}]
    BY <1>6, <2>1
  <2>. QED
    BY <2>1, <2>2, SeqDef
<1>8. ASSUME NEW i \in 1..l - 1, NEW j \in 1..l - 1, r[i] = r[j] PROVE i = j
  <2>1. i + 1 = j + 1
    BY <1>5, <1>6, <1>8
  <2>. QED
    BY <2>1
<1>9. ASSUME NEW i \in 1..l, s[i] # h
      PROVE  i - 1 \in 1..l - 1 /\ r[i - 1] = s[i]
  <2>1. i # 1
    BY <1>2, <1>9
  <2>2. i - 1 \in 1..l - 1 /\ i - 1 + 1 = i
    BY <1>1, <2>1
  <2>. QED
    BY <1>6, <2>2
<1>10. ASSUME NEW a \in A \ {h} PROVE \E i \in 1..l - 1 : r[i] = a
  BY <1>5, <1>9
<1>11. Listed(r, A \ {h})
  BY <1>3, <1>7, <1>8, <1>10 DEF Listed
<1>12. ASSUME NEW x, Ahead(s, x, h) PROVE FALSE
  <2>1. PICK i \in 1..l, j \in 1..l : i < j /\ s[j] = h
    BY <1>12 DEF Ahead, l
  <2>2. 1 \in 1..l
    BY <1>1
  <2>3. j = 1
    BY <1>2, <1>5, <2>1, <2>2
  <2>. QED
    BY <2>1, <2>3
<1>13. ASSUME NEW x, NEW y, Ahead(s, x, y), x # h, y # h PROVE Ahead(r, x, y)
  <2>1. PICK i \in 1..l, j \in 1..l : i < j /\ s[i] = x /\ s[j] = y
    BY <1>13 DEF Ahead, l
  <2>2. /\ i - 1 \in 1..l - 1 /\ r[i - 1] = x
        /\ j - 1 \in 1..l - 1 /\ r[j - 1] = y /\ i - 1 < j - 1
    BY <1>9, <1>13, <2>1
  <2>. QED
    BY <1>3, <2>2 DEF Ahead
<1>. QED
  BY <1>2, <1>11, <1>12, <1>13 DEF h, r

(* The processes admitted between two times are listed in arrival order.             *)
LEMMA AdmittedListed ==
    ASSUME NEW w, Input(w), NEW a \in 0..Len(w), NEW b \in 0..Len(w), a <= b
    PROVE  Listed(SubSeq(OrderIn(w), a + 1, b), {p \in DOMAIN w : a < RankIn(w, p) /\ RankIn(w, p) <= b})
<1>. DEFINE A == {p \in DOMAIN w : a < RankIn(w, p) /\ RankIn(w, p) <= b}
            o == OrderIn(w)
            s == SubSeq(o, a + 1, b)
<1>1. Len(w) \in Nat /\ a \in Nat /\ b \in Nat /\ a <= b /\ b <= Len(w)
  BY InputFacts
<1>2. /\ \A k \in 1..Len(w) : o[k] \in DOMAIN w /\ RankIn(w, o[k]) = k
      /\ \A p \in DOMAIN w : o[RankIn(w, p)] = p
  BY OrderFacts
<1>3. \A p \in DOMAIN w : RankIn(w, p) \in 1..Len(w)
  BY RankFacts
<1>. HIDE DEF o
<1>4. ASSUME NEW k \in a + 1..b PROVE o[k] \in A /\ RankIn(w, o[k]) = k
  <2>1. k \in 1..Len(w) /\ a < k /\ k <= b
    BY <1>1
  <2>. QED
    BY <1>2, <2>1
<1>5. a + 1 \in Int /\ b \in Int /\ b - (a + 1) + 1 = b - a
  BY <1>1
<1>. HIDE DEF A
<1>6. s \in Seq(A)
  BY <1>4, <1>5, SubSeqProperties
<1>7. Len(s) = IF a + 1 <= b THEN b - (a + 1) + 1 ELSE 0
  BY <1>4, <1>5, SubSeqProperties
<1>8. \A i \in 1..b - (a + 1) + 1 : s[i] = o[a + 1 + i - 1]
  BY <1>4, <1>5, SubSeqProperties
<1>9. Len(s) = b - a
  BY <1>1, <1>7
<1>. HIDE DEF s
<1>10. ASSUME NEW i \in 1..b - a PROVE s[i] = o[a + i] /\ RankIn(w, s[i]) = a + i
  <2>1. i \in 1..b - (a + 1) + 1 /\ a + 1 + i - 1 = a + i /\ a + i \in a + 1..b
    BY <1>1
  <2>2. s[i] = o[a + 1 + i - 1]
    BY <1>8, <2>1
  <2>. QED
    BY <1>4, <2>1, <2>2
<1>11. ASSUME NEW i \in 1..b - a, NEW j \in 1..b - a, s[i] = s[j] PROVE i = j
  <2>1. a + i = a + j
    BY <1>10, <1>11
  <2>. QED
    BY <1>1, <2>1
<1>12. ASSUME NEW p \in A PROVE \E i \in 1..b - a : s[i] = p
  <2>1. p \in DOMAIN w /\ a < RankIn(w, p) /\ RankIn(w, p) <= b
    BY DEF A
  <2>. DEFINE i == RankIn(w, p) - a
  <2>2. i \in 1..b - a /\ a + i = RankIn(w, p)
    BY <1>1, <1>3, <2>1
  <2>3. s[i] = o[a + i]
    BY <1>10, <2>2
  <2>. QED
    BY <1>2, <2>1, <2>2, <2>3
<1>13. Listed(s, A)
  BY <1>6, <1>9, <1>11, <1>12 DEF Listed
<1>. QED
  BY <1>13 DEF A, s, o
--------------------------------------------------------------------------------
(* The ready queue lists the processes admitted so far that are not finished.        *)
Ready(w, rem, next) == {p \in DOMAIN w : RankIn(w, p) <= next /\ rem[p] > 0}
Fresh(w, rem, next) == \A p \in DOMAIN w : RankIn(w, p) > next => rem[p] = w[p].burst
Admits(w, rem, t, q, next) ==
    /\ next \in 0..Len(w) /\ next <= Came(w, t)
    /\ Fresh(w, rem, next)
    /\ Listed(q, Ready(w, rem, next))

(* Those that have arrived come after those that wait already.                       *)
LEMMA ReadyListed ==
    ASSUME NEW w, Input(w), NEW rem, NEW t \in Nat, NEW q, NEW next,
           Admits(w, rem, t, q, next), NEW ready,
           ready = q \o SubSeq(OrderIn(w), next + 1, Came(w, t))
    PROVE  /\ Listed(ready, Ready(w, rem, Came(w, t))) /\ Fresh(w, rem, Came(w, t))
           /\ KeepsOrder(q, ready)
<1>. DEFINE c == Came(w, t)
            A == {p \in DOMAIN w : next < RankIn(w, p) /\ RankIn(w, p) <= c}
<1>1. next \in 0..Len(w) /\ c \in 0..Len(w) /\ next <= c /\ Len(w) \in Nat
  BY CameFacts, InputFacts DEF Admits
<1>2. Listed(q, Ready(w, rem, next)) /\ Fresh(w, rem, next)
  BY DEF Admits
<1>3. Listed(SubSeq(OrderIn(w), next + 1, c), A)
  BY <1>1, AdmittedListed
<1>4. \A p \in DOMAIN w : RankIn(w, p) \in 1..Len(w) /\ w[p].burst > 0
  BY RankFacts, InputFacts
<1>5. Ready(w, rem, next) \cap A = {}
  BY <1>1, <1>4 DEF Ready
<1>6. Ready(w, rem, next) \cup A = Ready(w, rem, c)
  <2>1. ASSUME NEW p \in Ready(w, rem, c) PROVE p \in Ready(w, rem, next) \cup A
    BY <1>1, <1>4, <2>1 DEF Ready
  <2>2. ASSUME NEW p \in Ready(w, rem, next) PROVE p \in Ready(w, rem, c)
    BY <1>1, <1>4, <2>2 DEF Ready
  <2>3. ASSUME NEW p \in A PROVE p \in Ready(w, rem, c)
    BY <1>1, <1>2, <1>4, <2>3 DEF Ready, Fresh
  <2>. QED
    BY <2>1, <2>2, <2>3
<1>7. Fresh(w, rem, c)
  BY <1>1, <1>2, <1>4 DEF Fresh
<1>. HIDE DEF A, c
<1>8. ready = q \o SubSeq(OrderIn(w), next + 1, c)
  BY DEF c
<1>9. Listed(ready, Ready(w, rem, c)) /\ \A x, y : Ahead(q, x, y) => Ahead(ready, x, y)
  BY ONLY <1>2, <1>3, <1>5, <1>6, <1>8, ListedConcat
<1>. QED
  BY <1>7, <1>9 DEF c, KeepsOrder

(* After a turn: the rest of the queue, those that came meanwhile, and last the one    *)
(* whose turn it was.                                                             *)
QueueStep(w, rem, t, ready, h, rem2, to, last, next) ==
    /\ t \in Nat /\ to \in Nat /\ t <= to
    /\ Listed(ready, Ready(w, rem, Came(w, t))) /\ Fresh(w, rem, Came(w, t))
    /\ ready # << >> /\ h = Head(ready) /\ rem2[h] \in Nat
    /\ \A p \in DOMAIN w : p # h => rem2[p] = rem[p]
    /\ last = IF rem2[h] > 0 THEN <<h>> ELSE << >>
    /\ next = Tail(ready) \o SubSeq(OrderIn(w), Came(w, t) + 1, Came(w, to)) \o last

LEMMA NextListed ==
    ASSUME NEW w, Input(w), NEW rem, NEW t, NEW ready, NEW h, NEW rem2, NEW to, NEW last, NEW next,
           QueueStep(w, rem, t, ready, h, rem2, to, last, next)
    PROVE  /\ h \in DOMAIN w /\ Listed(next, Ready(w, rem2, Came(w, to)))
           /\ Fresh(w, rem2, Came(w, to))
           /\ \A x : ~Ahead(ready, x, h)
           /\ \A x, y : Ahead(ready, x, y) /\ x # h /\ y # h => Ahead(next, x, y)
           /\ \A x \in Ready(w, rem2, Came(w, to)) :
                x # h /\ rem2[h] > 0 => Ahead(next, x, h)
<1>. DEFINE c == Came(w, t)
            d == Came(w, to)
            A == {p \in DOMAIN w : c < RankIn(w, p) /\ RankIn(w, p) <= d}
            B == Ready(w, rem, c) \ {h}
            L == IF rem2[h] > 0 THEN {h} ELSE {}
            new == SubSeq(OrderIn(w), c + 1, d)
<1>0. /\ t \in Nat /\ to \in Nat /\ t <= to
      /\ Listed(ready, Ready(w, rem, c)) /\ Fresh(w, rem, c)
      /\ ready # << >> /\ h = Head(ready) /\ rem2[h] \in Nat
      /\ \A p \in DOMAIN w : p # h => rem2[p] = rem[p]
      /\ last = IF rem2[h] > 0 THEN <<h>> ELSE << >>
      /\ next = Tail(ready) \o new \o last
  BY DEF QueueStep
<1>1. c \in 0..Len(w) /\ d \in 0..Len(w) /\ c <= d /\ Len(w) \in Nat
  BY <1>0, CameFacts, CameLater, InputFacts
<1>2. \A p \in DOMAIN w : RankIn(w, p) \in 1..Len(w) /\ w[p].burst > 0
  BY RankFacts, InputFacts
<1>3. Listed(new, A)
  BY <1>1, AdmittedListed
<1>4. /\ h \in Ready(w, rem, c) /\ Listed(Tail(ready), B)
      /\ \A x : ~Ahead(ready, x, h)
      /\ \A x, y : Ahead(ready, x, y) /\ x # h /\ y # h => Ahead(Tail(ready), x, y)
  BY <1>0, ListedTail
<1>5. h \in DOMAIN w /\ RankIn(w, h) <= c
  BY <1>4 DEF Ready
<1>6. Listed(last, L)
  <2>1. CASE rem2[h] > 0
    BY <1>0, <2>1, ListedOne
  <2>2. CASE ~(rem2[h] > 0)
    BY <1>0, <2>2, ListedEmpty
  <2>. QED
    BY <2>1, <2>2
<1>7. B \cap A = {} /\ (B \cup A) \cap L = {}
  BY <1>1, <1>2, <1>5 DEF Ready
<1>8. B \cup A \cup L = Ready(w, rem2, d)
  <2>1. ASSUME NEW p \in Ready(w, rem2, d) PROVE p \in B \cup A \cup L
    <3>1. p \in DOMAIN w /\ RankIn(w, p) <= d /\ rem2[p] > 0
      BY DEF Ready
    <3>2. CASE p = h
      BY <3>1, <3>2
    <3>3. CASE p # h /\ RankIn(w, p) <= c
      BY <1>0, <3>1, <3>3 DEF Ready
    <3>4. CASE p # h /\ ~(RankIn(w, p) <= c)
      BY <1>1, <1>2, <3>1, <3>4
    <3>. QED
      BY <3>2, <3>3, <3>4
  <2>2. ASSUME NEW p \in B PROVE p \in Ready(w, rem2, d)
    BY <1>0, <1>1, <1>2, <2>2 DEF Ready
  <2>3. ASSUME NEW p \in A PROVE p \in Ready(w, rem2, d)
    <3>1. p \in DOMAIN w /\ RankIn(w, p) > c
      BY <1>1, <1>2
    <3>2. p # h
      <4>1. RankIn(w, h) \in Int /\ c \in Int /\ RankIn(w, h) <= c
        BY <1>1, <1>2, <1>5
      <4>. QED
        BY ONLY <3>1, <4>1
    <3>3. rem[p] = w[p].burst /\ rem2[p] = rem[p]
      BY <1>0, <3>1, <3>2 DEF Fresh
    <3>. QED
      BY <1>2, <3>1, <3>3 DEF Ready
  <2>4. ASSUME NEW p \in L PROVE p \in Ready(w, rem2, d)
    <3>1. p = h /\ rem2[h] > 0
      OBVIOUS
    <3>2. RankIn(w, h) <= d
      BY <1>1, <1>2, <1>5
    <3>. QED
      BY <1>5, <3>1, <3>2 DEF Ready
  <2>. QED
    BY <2>1, <2>2, <2>3, <2>4
<1>9. Fresh(w, rem2, d)
  <2>. SUFFICES ASSUME NEW p \in DOMAIN w, RankIn(w, p) > d PROVE rem2[p] = w[p].burst
    BY DEF Fresh
  <2>1. RankIn(w, p) > c /\ p # h
    BY <1>1, <1>2, <1>5
  <2>. QED
    BY <1>0, <2>1 DEF Fresh
<1>. DEFINE r == Tail(ready)
            m == r \o new
<1>10. next = m \o last
  BY <1>0
<1>. HIDE DEF A, B, L, new, r, c, d
<1>11. Listed(m, B \cup A) /\ \A x, y : Ahead(r, x, y) => Ahead(m, x, y)
  <2>1. Listed(r, B)
    BY <1>4 DEF r
  <2>. QED
    BY ONLY <1>3, <1>7, <2>1, ListedConcat
<1>. HIDE DEF m
<1>12. /\ Listed(next, B \cup A \cup L)
       /\ \A x, y : Ahead(m, x, y) => Ahead(next, x, y)
       /\ \A x \in B \cup A, y \in L : Ahead(next, x, y)
  BY ONLY <1>6, <1>7, <1>10, <1>11, ListedConcat
<1>13. ASSUME NEW x \in Ready(w, rem2, d), x # h, rem2[h] > 0 PROVE Ahead(next, x, h)
  <2>1. h \in L /\ x \in B \cup A
    BY <1>8, <1>13 DEF L
  <2>. QED
    BY <1>12, <2>1
<1>14. \A x, y : Ahead(ready, x, y) /\ x # h /\ y # h => Ahead(next, x, y)
  BY <1>4, <1>11, <1>12 DEF r
<1>. QED
  BY <1>4, <1>5, <1>8, <1>9, <1>12, <1>13, <1>14 DEF c, d

(* Nobody waits: the next process of the arrival order comes next.                    *)
LEMMA NextComes ==
    ASSUME NEW w, Input(w), NEW rem \in [DOMAIN w -> Nat], NEW t \in Nat, NEW q, NEW next,
           Admits(w, rem, t, q, next),
           q \o SubSeq(OrderIn(w), next + 1, Came(w, t)) = << >>,
           {p \in DOMAIN w : rem[p] > 0} # {}
    PROVE  /\ next < Len(w) /\ OrderIn(w)[next + 1] \in DOMAIN w
           /\ t < w[OrderIn(w)[next + 1]].arrival
           /\ \A p \in DOMAIN w : rem[p] > 0 => w[OrderIn(w)[next + 1]].arrival <= w[p].arrival
<1>. DEFINE c == Came(w, t)
            h == OrderIn(w)[next + 1]
<1>1. next \in 0..Len(w) /\ c \in 0..Len(w) /\ next <= c /\ Len(w) \in Nat
      /\ Listed(q, Ready(w, rem, next)) /\ Fresh(w, rem, next)
  BY CameFacts, InputFacts DEF Admits
<1>2. \A p \in DOMAIN w : /\ RankIn(w, p) \in 1..Len(w) /\ w[p].burst > 0 /\ p \in Nat
                          /\ w[p].arrival \in Nat /\ OrderIn(w)[RankIn(w, p)] = p
  BY RankFacts, InputFacts, OrderFacts
<1>3. Ready(w, rem, c) = {}
  <2>1. Listed(<< >>, Ready(w, rem, c))
    BY ReadyListed
  <2>. QED
    BY <2>1, ListedEmpty
<1>4. PICK p \in DOMAIN w : rem[p] > 0
  OBVIOUS
<1>5. RankIn(w, p) > c
  BY <1>1, <1>2, <1>3, <1>4 DEF Ready
<1>6. next + 1 \in 1..Len(w)
  BY <1>1, <1>2, <1>5
<1>7. h \in DOMAIN w /\ RankIn(w, h) = next + 1
  BY <1>6, OrderFacts
<1>. HIDE DEF h
<1>8. RankIn(w, h) > c
  <2>1. rem[h] = w[h].burst
    BY <1>1, <1>7 DEF Fresh
  <2>. QED
    BY <1>1, <1>2, <1>3, <1>7, <2>1 DEF Ready
<1>9. t < w[h].arrival
  <2>1. w[h].arrival <= t <=> RankIn(w, h) <= c
    BY <1>7, CameFacts
  <2>2. ~(RankIn(w, h) <= c)
    BY <1>1, <1>2, <1>7, <1>8
  <2>. QED
    BY <1>2, <1>7, <2>1, <2>2
<1>10. ASSUME NEW r \in DOMAIN w, rem[r] > 0 PROVE w[h].arrival <= w[r].arrival
  <2>1. RankIn(w, r) > c
    BY <1>1, <1>2, <1>3, <1>10 DEF Ready
  <2>2. ~(RankIn(w, r) < RankIn(w, h))
    <3>1. RankIn(w, r) \in Int /\ c \in Int /\ next \in Int /\ next <= c
      BY <1>1, <1>2
    <3>. HIDE DEF c
    <3>. QED
      BY ONLY <3>1, <2>1, <1>7
  <2>3. CASE r = h
    BY <1>2, <1>7, <2>3
  <2>4. CASE r # h
    <3>1. ~Before(w, r, h)
      BY <1>7, <2>2, <2>4, RankFacts
    <3>2. Before(w, h, r)
      BY <1>7, <3>1, BeforeFacts
    <3>3. w[h].arrival < w[r].arrival \/ w[h].arrival = w[r].arrival
      BY <3>2 DEF Before
    <3>4. w[h].arrival \in Int /\ w[r].arrival \in Int
      BY <1>7, InputFacts
    <3>. QED
      BY ONLY <3>3, <3>4
  <2>. QED
    BY <2>3, <2>4
<1>. QED
  BY <1>1, <1>6, <1>7, <1>9, <1>10 DEF h
--------------------------------------------------------------------------------
(* Turns between two slices of one process, and after its last slice.                *)
Waits(w, fi, items, k, q) ==
    w[q].arrival <= items[k].end /\ (fi[q] = -1 \/ fi[q] > items[k].end)
LastTurn(items, p, k) == k \in At(items, p) /\ \A j \in At(items, p) : j <= k
NextTurn(items, p, k, m) ==
    k \in At(items, p) /\ m \in At(items, p) /\ k < m
    /\ \A j \in At(items, p) : j <= k \/ j >= m
Between(items, q, k, m) == {i \in At(items, q) : k < i /\ i < m}

Closed(w, fi, items) ==
    \A p \in DOMAIN w, k, m \in 1..Len(items) : NextTurn(items, p, k, m) =>
        \A q \in DOMAIN w \ {p} :
            /\ \A i, j \in Between(items, q, k, m) : i = j
            /\ Waits(w, fi, items, k, q) => Between(items, q, k, m) # {}
OpenFor(w, rem, fi, items, s, p, k, q) ==
    /\ \A i, j \in Between(items, q, k, Len(items) + 1) : i = j
    /\ \/ Between(items, q, k, Len(items) + 1) # {}
       \/ Waits(w, fi, items, k, q) => Ahead(s, q, p)
    /\ Between(items, q, k, Len(items) + 1) # {} /\ rem[q] > 0 => Ahead(s, p, q)
Open(w, rem, fi, items, s) ==
    \A p \in DOMAIN w, k \in 1..Len(items) : LastTurn(items, p, k) /\ rem[p] > 0 =>
        \A q \in DOMAIN w \ {p} : OpenFor(w, rem, fi, items, s, p, k, q)
Short(w, items, n) == \A p \in DOMAIN w : \A k \in At(items, p) : Length(items[k]) <= n

(* One more segment: the turns before it are as they were.                           *)
LEMMA TurnsLonger ==
    ASSUME NEW items, NEW s, NEW new, Longer(items, s, new)
    PROVE  /\ Len(items) \in Nat /\ Len(new) = Len(items) + 1 /\ new[Len(items) + 1] = s
           /\ \A k \in 1..Len(items) : new[k] = items[k]
           /\ \A p, k, m : NextTurn(new, p, k, m) /\ m <= Len(items) => NextTurn(items, p, k, m)
           /\ \A p, k : NextTurn(new, p, k, Len(items) + 1) => s.name = p /\ LastTurn(items, p, k)
           /\ \A p, k : LastTurn(new, p, k) /\ s.name # p => LastTurn(items, p, k)
           /\ \A p, k : LastTurn(new, p, k) /\ s.name = p => k = Len(items) + 1
           /\ \A q, k, m : m <= Len(items) + 1 /\ m \in Nat =>
                             Between(new, q, k, m) = Between(items, q, k, m)
           /\ \A q, k : s.name # q => Between(new, q, k, Len(new) + 1)
                                      = Between(items, q, k, Len(items) + 1)
           /\ \A q, k : Between(new, q, k, Len(new) + 1)
                        \subseteq Between(items, q, k, Len(items) + 1) \cup {Len(items) + 1}
           /\ \A q : Between(new, q, Len(items) + 1, Len(new) + 1) = {}
           /\ \A q : \A k \in 1..Len(items) :
                s.name = q => Len(items) + 1 \in Between(new, q, k, Len(new) + 1)
           /\ \A p, k : LastTurn(new, p, k) => k \in 1..Len(new)
           /\ \A p, k : LastTurn(items, p, k) => k \in 1..Len(items)
<1>. DEFINE n == Len(items)
<1>1. /\ n \in Nat /\ Len(new) = n + 1 /\ new[n + 1] = s
      /\ \A k \in 1..n : new[k] = items[k]
  BY DEF Longer
<1>2. ASSUME NEW x
      PROVE  /\ \A k \in At(items, x) : k \in At(new, x) /\ k \in Nat /\ k >= 1 /\ k <= n
             /\ \A k \in At(new, x) : k \in At(items, x) \/ (k = n + 1 /\ s.name = x)
             /\ s.name = x => n + 1 \in At(new, x)
             /\ \A k \in At(new, x) : k \in Nat /\ k >= 1 /\ k <= n + 1
  <2>1. /\ \A k : k \in At(items, x) => k \in At(new, x)
        /\ \A k : k \in At(new, x) => k \in At(items, x) \/ (k = n + 1 /\ s.name = x)
        /\ s.name = x => n + 1 \in At(new, x)
    BY AtLonger
  <2>2. \A k \in At(items, x) : k \in Nat /\ k >= 1 /\ k <= n
    BY <1>1 DEF At
  <2>3. \A k \in At(new, x) : k \in Nat /\ k >= 1 /\ k <= n + 1
    BY <1>1 DEF At
  <2>. QED
    BY <2>1, <2>2, <2>3
<1>. HIDE DEF n
<1>3. ASSUME NEW p, NEW k, NEW m, NextTurn(new, p, k, m), m <= n
      PROVE  NextTurn(items, p, k, m)
  <2>1. k \in At(new, p) /\ m \in At(new, p) /\ k < m
        /\ \A j \in At(new, p) : j <= k \/ j >= m
    BY <1>3 DEF NextTurn
  <2>2. k # n + 1 /\ m # n + 1
    BY <1>1, <1>2, <1>3, <2>1
  <2>3. k \in At(items, p) /\ m \in At(items, p)
    BY <1>2, <2>1, <2>2
  <2>. QED
    BY <1>2, <2>1, <2>3 DEF NextTurn
<1>4. ASSUME NEW p, NEW k, NextTurn(new, p, k, n + 1) PROVE s.name = p /\ LastTurn(items, p, k)
  <2>1. k \in At(new, p) /\ n + 1 \in At(new, p) /\ k < n + 1
        /\ \A j \in At(new, p) : j <= k \/ j >= n + 1
    BY <1>4 DEF NextTurn
  <2>2. k \in At(items, p) /\ n + 1 \notin At(items, p)
    BY <1>1, <1>2, <2>1
  <2>3. s.name = p
    BY <1>2, <2>1, <2>2
  <2>4. \A j \in At(items, p) : j <= k
    BY <1>1, <1>2, <2>1
  <2>. QED
    BY <2>2, <2>3, <2>4 DEF LastTurn
<1>5. ASSUME NEW p, NEW k, LastTurn(new, p, k), s.name # p PROVE LastTurn(items, p, k)
  BY <1>2, <1>5 DEF LastTurn
<1>6. ASSUME NEW p, NEW k, LastTurn(new, p, k), s.name = p PROVE k = n + 1
  <2>1. k \in At(new, p) /\ n + 1 \in At(new, p) /\ n + 1 <= k
    BY <1>2, <1>6 DEF LastTurn
  <2>. QED
    BY <1>1, <1>2, <2>1
<1>7. ASSUME NEW q, NEW k, NEW m \in Nat, m <= n + 1
      PROVE  Between(new, q, k, m) = Between(items, q, k, m)
  <2>1. ASSUME NEW i \in Between(new, q, k, m) PROVE i \in Between(items, q, k, m)
    <3>1. i \in At(new, q) /\ k < i /\ i < m
      BY DEF Between
    <3>2. i # n + 1
      BY <1>1, <1>2, <1>7, <3>1
    <3>. QED
      BY <1>2, <3>1, <3>2 DEF Between
  <2>2. ASSUME NEW i \in Between(items, q, k, m) PROVE i \in Between(new, q, k, m)
    BY <1>2 DEF Between
  <2>. QED
    BY <2>1, <2>2
<1>8. ASSUME NEW q, NEW k, NEW i \in Between(new, q, k, n + 1 + 1)
      PROVE  i \in Between(items, q, k, n + 1) \/ (i = n + 1 /\ s.name = q)
  <2>1. i \in At(new, q) /\ k < i
    BY DEF Between
  <2>2. CASE i \in At(items, q)
    <3>1. i < n + 1
      BY <1>1, <1>2, <2>2
    <3>. QED
      BY <2>1, <2>2, <3>1 DEF Between
  <2>. QED
    BY <1>2, <2>1, <2>2
<1>9. ASSUME NEW q, NEW k, s.name # q
      PROVE  Between(new, q, k, n + 1 + 1) = Between(items, q, k, n + 1)
  <2>1. ASSUME NEW i \in Between(items, q, k, n + 1) PROVE i \in Between(new, q, k, n + 1 + 1)
    <3>1. i \in At(items, q) /\ k < i /\ i < n + 1
      BY DEF Between
    <3>2. i < n + 1 + 1 /\ i \in At(new, q)
      BY <1>1, <1>2, <3>1
    <3>. QED
      BY <3>1, <3>2 DEF Between
  <2>. QED
    BY <1>8, <1>9, <2>1
<1>10. ASSUME NEW q, NEW i \in Between(new, q, n + 1, n + 1 + 1) PROVE FALSE
  <2>1. i \in At(new, q) /\ n + 1 < i
    BY DEF Between
  <2>. QED
    BY <1>1, <1>2, <2>1
<1>11. ASSUME NEW q, NEW k \in 1..n, s.name = q PROVE n + 1 \in Between(new, q, k, n + 1 + 1)
  <2>1. n + 1 \in At(new, q)
    BY <1>2, <1>11
  <2>2. k < n + 1 /\ n + 1 < n + 1 + 1
    BY <1>1
  <2>. QED
    BY <2>1, <2>2 DEF Between
<1>12. \A q : Between(new, q, n + 1, n + 1 + 1) = {}
  BY <1>10
<1>13. \A q, k : Between(new, q, k, n + 1 + 1) \subseteq Between(items, q, k, n + 1) \cup {n + 1}
  BY <1>8
<1>14. \A p, k : LastTurn(new, p, k) => k \in 1..n + 1
  BY <1>1 DEF LastTurn, At
<1>15. \A p, k : LastTurn(items, p, k) => k \in 1..n
  BY DEF LastTurn, At, n
<1>16. Len(new) + 1 = n + 1 + 1
  BY <1>1
<1>. QED
  BY <1>1, <1>3, <1>4, <1>5, <1>6, <1>7, <1>9, <1>11, <1>12, <1>13, <1>14, <1>15, <1>16 DEF n

LEMMA TurnsIdle ==
    ASSUME NEW w, Input(w), NEW rem, NEW fi, NEW items, NEW s, NEW new, Longer(items, s, new),
           s.name = IDLE, NEW q, Closed(w, fi, items), Open(w, rem, fi, items, q)
    PROVE  Closed(w, fi, new) /\ Open(w, rem, fi, new, q)
<1>. DEFINE n == Len(items)
<1>1. /\ n \in Nat /\ Len(new) = n + 1
      /\ \A k \in 1..n : new[k] = items[k]
      /\ \A p, k, m : NextTurn(new, p, k, m) /\ m <= n => NextTurn(items, p, k, m)
      /\ \A p, k : NextTurn(new, p, k, n + 1) => s.name = p /\ LastTurn(items, p, k)
      /\ \A p, k : LastTurn(new, p, k) /\ s.name # p => LastTurn(items, p, k)
      /\ \A p, k : LastTurn(items, p, k) => k \in 1..n
  BY TurnsLonger
<1>2. /\ \A x, k, m : m <= n + 1 /\ m \in Nat =>
                         Between(new, x, k, m) = Between(items, x, k, m)
      /\ \A x, k : s.name # x => Between(new, x, k, Len(new) + 1) = Between(items, x, k, n + 1)
  BY TurnsLonger
<1>3. \A p \in DOMAIN w : p # IDLE
  BY InputFacts DEF IDLE
<1>. HIDE DEF n
<1>4. ASSUME NEW p \in DOMAIN w, NEW k \in 1..n + 1, NEW m \in 1..n + 1, NextTurn(new, p, k, m),
             NEW x \in DOMAIN w \ {p}
      PROVE  /\ \A i, j \in Between(new, x, k, m) : i = j
             /\ Waits(w, fi, new, k, x) => Between(new, x, k, m) # {}
  <2>1. m # n + 1
    BY <1>1, <1>3, <1>4
  <2>2. m \in 1..n /\ m <= n + 1 /\ m \in Nat /\ m <= n
    BY <1>1, <2>1
  <2>3. NextTurn(items, p, k, m) /\ k < m
    BY <1>1, <1>4, <2>2 DEF NextTurn
  <2>4. k \in 1..n
    BY <1>1, <2>2, <2>3
  <2>5. /\ \A i, j \in Between(items, x, k, m) : i = j
        /\ Waits(w, fi, items, k, x) => Between(items, x, k, m) # {}
    BY <2>2, <2>3, <2>4 DEF Closed, n
  <2>6. Between(new, x, k, m) = Between(items, x, k, m) /\ new[k] = items[k]
    BY <1>1, <1>2, <2>2, <2>4
  <2>. QED
    BY <2>5, <2>6 DEF Waits
<1>5. ASSUME NEW p \in DOMAIN w, NEW k \in 1..n + 1, LastTurn(new, p, k), rem[p] > 0,
             NEW x \in DOMAIN w \ {p}
      PROVE  OpenFor(w, rem, fi, new, q, p, k, x)
  <2>1. LastTurn(items, p, k) /\ k \in 1..n
    BY <1>1, <1>3, <1>5
  <2>2. OpenFor(w, rem, fi, items, q, p, k, x)
    BY <1>5, <2>1 DEF Open, n
  <2>3. Between(new, x, k, Len(new) + 1) = Between(items, x, k, n + 1) /\ new[k] = items[k]
    BY <1>1, <1>2, <1>3, <2>1
  <2>. QED
    BY <2>2, <2>3 DEF OpenFor, Waits, n
<1>6. Closed(w, fi, new)
  BY <1>1, <1>4 DEF Closed
<1>7. Open(w, rem, fi, new, q)
  BY <1>1, <1>5 DEF Open
<1>. QED
  BY <1>6, <1>7

(* The head of the queue takes a turn.                                            *)
TurnStep(w, rem, fi, s, h, rem2, fi2, ready, next) ==
    /\ h \in DOMAIN w /\ s.name = h /\ rem[h] > 0 /\ fi[h] = -1
    /\ \A p \in DOMAIN w : p # h => rem2[p] = rem[p] /\ fi2[p] = fi[p]
    /\ \A x : ~Ahead(ready, x, h)
    /\ \A x, y : Ahead(ready, x, y) /\ x # h /\ y # h => Ahead(next, x, y)
    /\ \A x \in DOMAIN w \ {h} :
         w[x].arrival <= s.end /\ rem[x] > 0 /\ rem2[h] > 0 => Ahead(next, x, h)
    /\ \A x \in DOMAIN w \ {h} : fi[x] > s.end \/ fi[x] = -1 => rem[x] > 0

LEMMA ClosedRun ==
    ASSUME NEW w, NEW rem, NEW fi, NEW items, NEW s, NEW new, Longer(items, s, new),
           NEW h, NEW rem2, NEW fi2, NEW ready, NEW next,
           TurnStep(w, rem, fi, s, h, rem2, fi2, ready, next),
           Closed(w, fi, items), Open(w, rem, fi, items, ready)
    PROVE  Closed(w, fi2, new)
<1>. DEFINE n == Len(items)
<1>1. /\ n \in Nat /\ Len(new) = n + 1
      /\ \A k \in 1..n : new[k] = items[k]
      /\ \A p, k, m : NextTurn(new, p, k, m) /\ m <= n => NextTurn(items, p, k, m)
      /\ \A p, k : NextTurn(new, p, k, n + 1) => s.name = p /\ LastTurn(items, p, k)
      /\ \A p, k : LastTurn(items, p, k) => k \in 1..n
  BY TurnsLonger
<1>2. \A x, k, m : m <= n + 1 /\ m \in Nat => Between(new, x, k, m) = Between(items, x, k, m)
  BY TurnsLonger
<1>3. /\ h \in DOMAIN w /\ s.name = h /\ rem[h] > 0 /\ fi[h] = -1
      /\ \A p \in DOMAIN w : p # h => fi2[p] = fi[p]
      /\ \A x : ~Ahead(ready, x, h)
  BY DEF TurnStep
<1>. HIDE DEF n
<1>4. ASSUME NEW x \in DOMAIN w, NEW k \in 1..n, Waits(w, fi2, new, k, x)
      PROVE  Waits(w, fi, items, k, x)
  BY <1>1, <1>3, <1>4 DEF Waits
<1>5. ASSUME NEW p \in DOMAIN w, NEW k \in 1..n + 1, NEW m \in 1..n + 1, NextTurn(new, p, k, m),
             NEW x \in DOMAIN w \ {p}
      PROVE  /\ \A i, j \in Between(new, x, k, m) : i = j
             /\ Waits(w, fi2, new, k, x) => Between(new, x, k, m) # {}
  <2>1. m <= n + 1 /\ m \in Nat
    BY <1>1
  <2>2. Between(new, x, k, m) = Between(items, x, k, m)
    BY <1>2, <2>1
  <2>3. CASE m # n + 1
    <3>1. m \in 1..n /\ m <= n
      BY <1>1, <2>3
    <3>2. NextTurn(items, p, k, m) /\ k < m
      BY <1>1, <1>5, <3>1 DEF NextTurn
    <3>3. k \in 1..n
      BY <1>1, <3>1, <3>2
    <3>4. /\ \A i, j \in Between(items, x, k, m) : i = j
          /\ Waits(w, fi, items, k, x) => Between(items, x, k, m) # {}
      BY <3>1, <3>2, <3>3 DEF Closed, n
    <3>. QED
      BY <1>4, <2>2, <3>3, <3>4
  <2>4. CASE m = n + 1
    <3>1. p = h /\ LastTurn(items, p, k) /\ k \in 1..n
      BY <1>1, <1>3, <1>5, <2>4
    <3>2. OpenFor(w, rem, fi, items, ready, p, k, x)
      BY <1>3, <3>1 DEF Open, n
    <3>3. /\ \A i, j \in Between(items, x, k, m) : i = j
          /\ Waits(w, fi, items, k, x) => Between(items, x, k, m) # {}
      BY <1>3, <2>4, <3>1, <3>2 DEF OpenFor, n
    <3>. QED
      BY <1>4, <2>2, <3>1, <3>3
  <2>. QED
    BY <2>3, <2>4
<1>. QED
  BY <1>1, <1>5 DEF Closed

HaveCome(w, items, t) == \A p \in DOMAIN w : At(items, p) # {} => w[p].arrival <= t

LEMMA OpenRun ==
    ASSUME NEW w, NEW rem, NEW fi, NEW items, NEW s, NEW new, Longer(items, s, new),
           NEW h, NEW rem2, NEW fi2, NEW ready, NEW next,
           TurnStep(w, rem, fi, s, h, rem2, fi2, ready, next),
           Open(w, rem, fi, items, ready), HaveCome(w, items, s.end)
    PROVE  Open(w, rem2, fi2, new, next)
<1>. DEFINE n == Len(items)
<1>1. /\ n \in Nat /\ Len(new) = n + 1 /\ new[n + 1] = s
      /\ \A k \in 1..n : new[k] = items[k]
      /\ \A p, k : LastTurn(new, p, k) /\ s.name # p => LastTurn(items, p, k)
      /\ \A p, k : LastTurn(new, p, k) /\ s.name = p => k = n + 1
      /\ \A p, k : LastTurn(items, p, k) => k \in 1..n
  BY TurnsLonger
<1>2. /\ \A x, k : s.name # x => Between(new, x, k, Len(new) + 1) = Between(items, x, k, n + 1)
      /\ \A x, k : Between(new, x, k, Len(new) + 1) \subseteq Between(items, x, k, n + 1) \cup {n + 1}
      /\ \A x : Between(new, x, n + 1, Len(new) + 1) = {}
      /\ \A x : \A k \in 1..n : s.name = x => n + 1 \in Between(new, x, k, Len(new) + 1)
  BY TurnsLonger
<1>3. /\ h \in DOMAIN w /\ s.name = h /\ rem[h] > 0 /\ fi[h] = -1
      /\ \A p \in DOMAIN w : p # h => rem2[p] = rem[p] /\ fi2[p] = fi[p]
      /\ \A x : ~Ahead(ready, x, h)
      /\ \A x, y : Ahead(ready, x, y) /\ x # h /\ y # h => Ahead(next, x, y)
      /\ \A x \in DOMAIN w \ {h} :
           w[x].arrival <= s.end /\ rem[x] > 0 /\ rem2[h] > 0 => Ahead(next, x, h)
      /\ \A x \in DOMAIN w \ {h} : fi[x] > s.end \/ fi[x] = -1 => rem[x] > 0
  BY DEF TurnStep
<1>. HIDE DEF n
<1>4. ASSUME NEW k, LastTurn(new, h, k), rem2[h] > 0, NEW x \in DOMAIN w \ {h}
      PROVE  OpenFor(w, rem2, fi2, new, next, h, k, x)
  <2>1. k = n + 1 /\ new[k] = s
    BY <1>1, <1>3, <1>4
  <2>2. Between(new, x, k, Len(new) + 1) = {}
    BY <1>2, <2>1
  <2>3. ASSUME Waits(w, fi2, new, k, x) PROVE Ahead(next, x, h)
    <3>1. w[x].arrival <= s.end /\ (fi[x] = -1 \/ fi[x] > s.end)
      BY <1>3, <2>1, <2>3 DEF Waits
    <3>. QED
      BY <1>3, <1>4, <3>1
  <2>. QED
    BY <2>2, <2>3 DEF OpenFor
<1>5. ASSUME NEW p \in DOMAIN w, p # h, NEW k, LastTurn(new, p, k), rem2[p] > 0,
             NEW x \in DOMAIN w \ {p}
      PROVE  OpenFor(w, rem2, fi2, new, next, p, k, x)
  <2>1. LastTurn(items, p, k) /\ k \in 1..n /\ rem[p] > 0 /\ new[k] = items[k]
    BY <1>1, <1>3, <1>5
  <2>2. OpenFor(w, rem, fi, items, ready, p, k, x)
    BY <2>1 DEF Open, n
  <2>. DEFINE old == Between(items, x, k, n + 1)
              after == Between(new, x, k, Len(new) + 1)
  <2>3. /\ \A i, j \in old : i = j
        /\ old # {} \/ (Waits(w, fi, items, k, x) => Ahead(ready, x, p))
        /\ old # {} /\ rem[x] > 0 => Ahead(ready, p, x)
    BY <2>2 DEF OpenFor, n
  <2>4. CASE x # h
    <3>1. after = old
      BY <1>2, <1>3, <2>4
    <3>2. rem2[x] = rem[x] /\ (Waits(w, fi2, new, k, x) <=> Waits(w, fi, items, k, x))
      BY <1>3, <2>1, <2>4 DEF Waits
    <3>3. Ahead(ready, x, p) => Ahead(next, x, p)
      BY <1>3, <1>5, <2>4
    <3>4. Ahead(ready, p, x) => Ahead(next, p, x)
      BY <1>3, <1>5, <2>4
    <3>5. /\ \A i, j \in after : i = j
          /\ after # {} \/ (Waits(w, fi2, new, k, x) => Ahead(next, x, p))
          /\ after # {} /\ rem2[x] > 0 => Ahead(next, p, x)
      BY ONLY <2>3, <3>1, <3>2, <3>3, <3>4
    <3>. QED
      BY <3>5 DEF OpenFor
  <2>5. CASE x = h
    <3>1. old = {}
      BY <1>3, <2>3, <2>5
    <3>2. after \subseteq {n + 1}
      <4>1. after \subseteq old \cup {n + 1}
        BY <1>2
      <4>. QED
        BY <3>1, <4>1
    <3>3. n + 1 \in after
      BY <1>2, <1>3, <2>1, <2>5
    <3>4. Ahead(next, p, x) \/ ~(rem2[x] > 0)
      <4>1. At(items, p) # {}
        BY <2>1 DEF LastTurn
      <4>2. w[p].arrival <= s.end
        BY <4>1 DEF HaveCome
      <4>. QED
        BY <1>3, <1>5, <2>1, <2>5, <4>2
    <3>. HIDE DEF after
    <3>5. /\ \A i, j \in after : i = j
          /\ after # {}
          /\ rem2[x] > 0 => Ahead(next, p, x)
      BY ONLY <3>2, <3>3, <3>4
    <3>. QED
      BY <3>5 DEF OpenFor, after
  <2>. QED
    BY <2>4, <2>5
<1>6. ASSUME NEW p \in DOMAIN w, NEW k \in 1..n + 1, LastTurn(new, p, k) /\ rem2[p] > 0,
             NEW x \in DOMAIN w \ {p}
      PROVE  OpenFor(w, rem2, fi2, new, next, p, k, x)
  BY <1>4, <1>5, <1>6
<1>. QED
  BY <1>1, <1>6 DEF Open

(* One after the other in a queue stay so when others join it at the end.             *)
LEMMA OpenMore ==
    ASSUME NEW w, NEW rem, NEW fi, NEW items, NEW s, NEW r, Open(w, rem, fi, items, s),
           KeepsOrder(s, r)
    PROVE  Open(w, rem, fi, items, r)
<1>1. ASSUME NEW p \in DOMAIN w, NEW k \in 1..Len(items), LastTurn(items, p, k) /\ rem[p] > 0,
             NEW q \in DOMAIN w \ {p}
      PROVE  OpenFor(w, rem, fi, items, r, p, k, q)
  <2>1. OpenFor(w, rem, fi, items, s, p, k, q)
    BY <1>1 DEF Open
  <2>. QED
    BY <2>1 DEF OpenFor, KeepsOrder
<1>. QED
  BY <1>1 DEF Open

LEMMA ShortLonger ==
    ASSUME NEW w, NEW n, NEW items, NEW s, NEW new, Longer(items, s, new), Short(w, items, n),
           s.name \in DOMAIN w => Length(s) <= n
    PROVE  Short(w, new, n)
<1>1. ASSUME NEW p \in DOMAIN w, NEW k \in At(new, p) PROVE Length(new[k]) <= n
  <2>1. CASE k \in At(items, p)
    <3>1. new[k] = items[k]
      BY <2>1, AtLonger
    <3>. QED
      BY <2>1, <3>1 DEF Short
  <2>2. CASE k \notin At(items, p)
    <3>1. k = Len(items) + 1 /\ s.name = p /\ new[Len(items) + 1] = s
      BY <2>2, AtLonger
    <3>. QED
      BY <3>1
  <2>. QED
    BY <2>1, <2>2
<1>. QED
  BY <1>1 DEF Short
--------------------------------------------------------------------------------
(* FCFS, SJF and priority: the order of each, and the chart against it.               *)
BetterIn(w, p, q) ==
    \/ w[p].arrival < w[q].arrival
    \/ w[p].arrival = w[q].arrival /\ p <= q
PreferredIn(a, w, p, q) ==
    \/ a = "fcfs" /\ BetterIn(w, p, q)
    \/ /\ a = "sjf"
       /\ w[p].burst < w[q].burst \/ (w[p].burst = w[q].burst /\ BetterIn(w, p, q))
    \/ /\ a = "priority"
       /\ \/ w[p].priority < w[q].priority
          \/ w[p].priority = w[q].priority /\ BetterIn(w, p, q)
RankOf(a, w, p) == IF a = "fcfs" THEN w[p].arrival
                   ELSE IF a = "sjf" THEN w[p].burst ELSE w[p].priority
Precedes(a, w, p, q) ==
    \/ RankOf(a, w, p) < RankOf(a, w, q)
    \/ /\ RankOf(a, w, p) = RankOf(a, w, q)
       /\ w[p].arrival < w[q].arrival \/ (w[p].arrival = w[q].arrival /\ p < q)
RunsRight(a, w, items) ==
    \A k \in 1..Len(items) : \A q \in DOMAIN w :
        (/\ items[k].name # IDLE /\ q # items[k].name
         /\ w[q].arrival <= items[k].start
         /\ \A j \in At(items, q) : j > k) => Precedes(a, w, items[k].name, q)

LEMMA PreferredFacts ==
    ASSUME NEW w, Input(w), NEW a \in {"fcfs", "sjf", "priority"}
    PROVE  /\ \A p, q \in DOMAIN w : PreferredIn(a, w, p, q) \/ PreferredIn(a, w, q, p)
           /\ \A p, q, r \in DOMAIN w :
                PreferredIn(a, w, p, q) /\ PreferredIn(a, w, q, r) => PreferredIn(a, w, p, r)
           /\ \A p, q \in DOMAIN w :
                PreferredIn(a, w, p, q) /\ p # q => Precedes(a, w, p, q)
           /\ \A p, q \in DOMAIN w :
                PreferredIn(a, w, p, q) /\ a = "fcfs" => w[p].arrival <= w[q].arrival
<1>1. \A p \in DOMAIN w : /\ p \in Nat /\ w[p].arrival \in Nat /\ w[p].burst \in Nat
                          /\ w[p].priority \in Int
  BY InputFacts
<1>2. CASE a = "fcfs"
  <2>1. \A p, q \in DOMAIN w : PreferredIn(a, w, p, q) <=> BetterIn(w, p, q)
    BY <1>2 DEF PreferredIn
  <2>2. \A p \in DOMAIN w : RankOf(a, w, p) = w[p].arrival
    BY <1>2 DEF RankOf
  <2>3. \A p, q \in DOMAIN w : PreferredIn(a, w, p, q) \/ PreferredIn(a, w, q, p)
    BY <1>1, <2>1 DEF BetterIn
  <2>4. \A p, q, r \in DOMAIN w :
          PreferredIn(a, w, p, q) /\ PreferredIn(a, w, q, r) => PreferredIn(a, w, p, r)
    BY <1>1, <2>1 DEF BetterIn
  <2>5. \A p, q \in DOMAIN w : PreferredIn(a, w, p, q) /\ p # q => Precedes(a, w, p, q)
    BY <1>1, <2>1, <2>2 DEF BetterIn, Precedes
  <2>6. \A p, q \in DOMAIN w : PreferredIn(a, w, p, q) => w[p].arrival <= w[q].arrival
    BY <1>1, <2>1 DEF BetterIn
  <2>. QED
    BY <2>3, <2>4, <2>5, <2>6
<1>3. CASE a = "sjf"
  <2>1. \A p, q \in DOMAIN w :
          PreferredIn(a, w, p, q) <=> \/ w[p].burst < w[q].burst
                                      \/ w[p].burst = w[q].burst /\ BetterIn(w, p, q)
    BY <1>3 DEF PreferredIn
  <2>2. \A p \in DOMAIN w : RankOf(a, w, p) = w[p].burst
    BY <1>3 DEF RankOf
  <2>3. \A p, q \in DOMAIN w : PreferredIn(a, w, p, q) \/ PreferredIn(a, w, q, p)
    BY <1>1, <2>1 DEF BetterIn
  <2>4. \A p, q, r \in DOMAIN w :
          PreferredIn(a, w, p, q) /\ PreferredIn(a, w, q, r) => PreferredIn(a, w, p, r)
    BY <1>1, <2>1 DEF BetterIn
  <2>5. \A p, q \in DOMAIN w : PreferredIn(a, w, p, q) /\ p # q => Precedes(a, w, p, q)
    BY <1>1, <2>1, <2>2 DEF BetterIn, Precedes
  <2>. QED
    BY <1>3, <2>3, <2>4, <2>5
<1>4. CASE a = "priority"
  <2>1. \A p, q \in DOMAIN w :
          PreferredIn(a, w, p, q) <=> \/ w[p].priority < w[q].priority
                                      \/ w[p].priority = w[q].priority /\ BetterIn(w, p, q)
    BY <1>4 DEF PreferredIn
  <2>2. \A p \in DOMAIN w : RankOf(a, w, p) = w[p].priority
    BY <1>4 DEF RankOf
  <2>3. \A p, q \in DOMAIN w : PreferredIn(a, w, p, q) \/ PreferredIn(a, w, q, p)
    BY <1>1, <2>1 DEF BetterIn
  <2>4. \A p, q, r \in DOMAIN w :
          PreferredIn(a, w, p, q) /\ PreferredIn(a, w, q, r) => PreferredIn(a, w, p, r)
    BY <1>1, <2>1 DEF BetterIn
  <2>5. \A p, q \in DOMAIN w : PreferredIn(a, w, p, q) /\ p # q => Precedes(a, w, p, q)
    BY <1>1, <2>1, <2>2 DEF BetterIn, Precedes
  <2>. QED
    BY <1>4, <2>3, <2>4, <2>5
<1>. QED
  BY <1>2, <1>3, <1>4

LEMMA PreferredExists ==
    ASSUME NEW w, Input(w), NEW a \in {"fcfs", "sjf", "priority"}, NEW C \in SUBSET DOMAIN w, C # {}
    PROVE  \E p \in C : \A q \in C : PreferredIn(a, w, p, q)
<1>. DEFINE R == {pair \in C \X C : PreferredIn(a, w, pair[1], pair[2])}
<1>1. IsFiniteSet(C)
  <2>1. DOMAIN w = 1..Len(w) /\ Len(w) \in Nat
    BY InputFacts
  <2>2. IsFiniteSet(1..Len(w))
    BY <2>1, FS_Interval
  <2>. QED
    BY <2>1, <2>2, FS_Subset
<1>2. \A x, y \in C : <<x, y>> \in R <=> PreferredIn(a, w, x, y)
  OBVIOUS
<1>3. /\ \A p, q \in DOMAIN w : PreferredIn(a, w, p, q) \/ PreferredIn(a, w, q, p)
      /\ \A p, q, r \in DOMAIN w :
           PreferredIn(a, w, p, q) /\ PreferredIn(a, w, q, r) => PreferredIn(a, w, p, r)
  BY PreferredFacts
<1>. HIDE DEF R
<1>4. \A x, y \in C : <<x, y>> \in R \/ <<y, x>> \in R
  BY <1>2, <1>3
<1>5. \A x, y, z \in C : <<x, y>> \in R /\ <<y, z>> \in R => <<x, z>> \in R
  BY <1>2, <1>3
<1>6. PICK x \in C : \A y \in C : <<x, y>> \in R
  BY ONLY <1>1, <1>4, <1>5, C # {}, FiniteLeast
<1>. QED
  BY <1>2, <1>6

LEMMA RightLonger ==
    ASSUME NEW a, NEW w, NEW items, NEW s, NEW new, Longer(items, s, new), RunsRight(a, w, items),
           \/ s.name = IDLE
           \/ \A q \in DOMAIN w :
                q # s.name /\ w[q].arrival <= s.start /\ At(items, q) = {} => Precedes(a, w, s.name, q)
    PROVE  RunsRight(a, w, new)
<1>. DEFINE n == Len(items)
<1>1. n \in Nat /\ Len(new) = n + 1 /\ new[n + 1] = s /\ \A k \in 1..n : new[k] = items[k]
  BY DEF Longer
<1>2. \A q, j : j \in At(items, q) => j \in At(new, q) /\ j \in Nat /\ j <= n
  BY AtLonger
<1>. HIDE DEF n
<1>3. ASSUME NEW k \in 1..n + 1, NEW q \in DOMAIN w,
             /\ new[k].name # IDLE /\ q # new[k].name
             /\ w[q].arrival <= new[k].start
             /\ \A j \in At(new, q) : j > k
      PROVE  Precedes(a, w, new[k].name, q)
  <2>1. CASE k = n + 1
    <3>1. At(items, q) = {}
      BY <1>1, <1>2, <1>3, <2>1
    <3>. QED
      BY <1>1, <1>3, <2>1, <3>1
  <2>2. CASE k # n + 1
    <3>1. k \in 1..n /\ new[k] = items[k]
      BY <1>1, <2>2
    <3>2. \A j \in At(items, q) : j > k
      BY <1>2, <1>3
    <3>. QED
      BY <1>3, <3>1, <3>2 DEF RunsRight, n
  <2>. QED
    BY <2>1, <2>2
<1>. QED
  BY <1>1, <1>3 DEF RunsRight
--------------------------------------------------------------------------------
(* Every reachable state: the table agrees with the chart; without preemption a        *)
(* process runs to its end, and round robin keeps the ready queue and the turns.      *)
Roomy(t) == t.capacity \in Nat \ {0} /\ Len(t.items) <= t.capacity

IInv ==
    /\ algorithm \in {"fcfs", "sjf", "priority", "rr"}
    /\ workload \in Workloads /\ quantum \in Quanta
    /\ status \in {"run", "done", "no memory"}
    /\ Roomy(timeline)
    /\ Table(workload, remaining, start_time, finish_time, Items, now)
    /\ algorithm # "rr" => /\ queue = << >> /\ next_to_arrive = 0
                           /\ \A p \in Procs : remaining[p] \in {0, Burst(p)}
                           /\ RunsRight(algorithm, workload, Items)
    /\ algorithm = "rr" => /\ Admits(workload, remaining, now, queue, next_to_arrive)
                           /\ Closed(workload, finish_time, Items)
                           /\ Open(workload, remaining, finish_time, Items, queue)
                           /\ Short(workload, Items, quantum)

LEMMA Assumed ==
    /\ \A w \in Workloads : Input(w)
    /\ \A n \in Quanta : n \in Nat /\ n > 0
    /\ InitialSize \in Nat \ {0}
<1>1. \A w \in Workloads : Input(w)
  BY SchedulerAssumption DEF Input, Records
<1>2. Quanta \subseteq Nat \ {0} /\ InitialSize \in Nat \ {0}
  BY SchedulerAssumption
<1>. QED
  BY <1>1, <1>2

(* A segment that takes time is appended, and finds room.                            *)
LEMMA AppendedFacts ==
    ASSUME NEW t, Roomy(t), Len(t.items) \in Nat, NEW name, NEW from, NEW to
    PROVE  /\ to <= from => Appended(t, name, from, to) = t
           /\ ~(to <= from) =>
                Appended(t, name, from, to).items = Append(t.items, Segment(name, from, to))
           /\ Len(Append(t.items, Segment(name, from, to))) = Len(t.items) + 1 =>
                Roomy(Appended(t, name, from, to))
<1>. DEFINE u == Appended(t, name, from, to)
            s == Append(t.items, Segment(name, from, to))
<1>1. to <= from => u = t
  BY DEF Appended
<1>2. ASSUME ~(to <= from)
      PROVE  /\ u.items = s
             /\ u.capacity = IF Len(t.items) = t.capacity THEN 2 * t.capacity ELSE t.capacity
  BY <1>2 DEF Appended
<1>. HIDE DEF u, s
<1>3. ASSUME ~(to <= from), Len(s) = Len(t.items) + 1 PROVE Roomy(u)
  <2>1. t.capacity \in Nat \ {0} /\ Len(t.items) <= t.capacity
    BY DEF Roomy
  <2>2. Len(u.items) = Len(t.items) + 1
    BY <1>2, <1>3
  <2>3. u.capacity \in Nat \ {0} /\ Len(t.items) + 1 <= u.capacity
    BY <1>2, <1>3, <2>1
  <2>. QED
    BY <2>2, <2>3 DEF Roomy
<1>. QED
  BY <1>1, <1>2, <1>3 DEF u, s

LEMMA InitInv == Init => IInv
<1>. SUFFICES ASSUME Init PROVE IInv
  OBVIOUS
<1>. DEFINE w == workload
<1>1. /\ algorithm \in {"fcfs", "sjf", "priority", "rr"}
      /\ w \in Workloads /\ quantum \in Quanta /\ status = "run" /\ now = 0
      /\ remaining = [p \in Procs |-> Burst(p)]
      /\ start_time = [p \in Procs |-> -1]
      /\ finish_time = [p \in Procs |-> -1]
      /\ timeline = [items |-> << >>, capacity |-> InitialSize]
      /\ queue = << >> /\ next_to_arrive = 0
  BY DEF Init
<1>2. Input(w)
  BY <1>1, Assumed
<1>3. Items = << >> /\ timeline.capacity = InitialSize
  BY <1>1 DEF Items
<1>4. Len(Items) = 0 /\ \A S : Items \in Seq(S)
  BY <1>3, EmptySeq
<1>5. 1..0 = {}
  OBVIOUS
<1>6. Roomy(timeline)
  BY <1>3, <1>4, Assumed DEF Roomy, Items
<1>7. Joined(w, Items, now)
  BY <1>1, <1>4, <1>5 DEF Joined
<1>8. \A p \in DOMAIN w : w[p].burst \in Nat /\ w[p].burst > 0 /\ w[p].burst # 0
  BY <1>2, InputFacts
<1>9. \A p \in DOMAIN w : /\ remaining[p] = w[p].burst /\ start_time[p] = -1
                          /\ finish_time[p] = -1
  BY <1>1 DEF Procs, Burst
<1>10. Typed(w, remaining, start_time, finish_time)
  <2>1. remaining \in [DOMAIN w -> Nat]
    BY <1>1, <1>8 DEF Procs, Burst
  <2>2. start_time \in [DOMAIN w -> Nat \cup {-1}] /\ finish_time \in [DOMAIN w -> Nat \cup {-1}]
    BY <1>1 DEF Procs
  <2>. QED
    BY <2>1, <2>2 DEF Typed
<1>11. \A x : At(Items, x) = {}
  BY <1>4, <1>5 DEF At
<1>12. \A p : TimeIn(Items, p) = 0
  BY <1>4, TimeFacts
<1>13. ASSUME NEW p \in DOMAIN w
       PROVE  Row(w, remaining, start_time, finish_time, Items, now, p)
  BY <1>8, <1>9, <1>11, <1>12 DEF Row
<1>14. Table(w, remaining, start_time, finish_time, Items, now)
  BY <1>7, <1>10, <1>13 DEF Table
<1>15. \A p \in Procs : remaining[p] \in {0, Burst(p)}
  BY <1>9 DEF Procs, Burst
<1>16. RunsRight(algorithm, w, Items)
  BY <1>4, <1>5 DEF RunsRight
<1>17. Admits(w, remaining, now, queue, next_to_arrive)
  <2>1. 0 \in 0..Len(w) /\ 0 <= Came(w, now) /\ now \in Nat
    BY <1>1, <1>2, InputFacts, CameFacts
  <2>2. \A p \in DOMAIN w : RankIn(w, p) \in 1..Len(w) /\ Len(w) \in Nat
    BY <1>2, RankFacts, InputFacts
  <2>3. Ready(w, remaining, 0) = {}
    BY <2>2 DEF Ready
  <2>4. Fresh(w, remaining, 0)
    BY <1>9 DEF Fresh
  <2>. QED
    BY <1>1, <2>1, <2>3, <2>4, ListedEmpty DEF Admits
<1>18. Closed(w, finish_time, Items)
  BY <1>4, <1>5 DEF Closed
<1>19. Open(w, remaining, finish_time, Items, queue)
  BY <1>4, <1>5 DEF Open
<1>20. Short(w, Items, quantum)
  BY <1>11 DEF Short
<1>. QED
  BY <1>1, <1>6, <1>14, <1>15, <1>16, <1>17, <1>18, <1>19, <1>20 DEF IInv

(* The clock moves on to a time no unfinished process arrives before.                 *)
LEMMA IdleFacts ==
    ASSUME NEW w, Input(w), NEW rem, NEW st, NEW fi, NEW t, NEW from, NEW to \in Nat,
           Table(w, rem, st, fi, t.items, from), Roomy(t), from <= to,
           \A p \in DOMAIN w : rem[p] > 0 => to <= w[p].arrival,
           NEW u, u = Appended(t, IDLE, from, to)
    PROVE  /\ Table(w, rem, st, fi, u.items, to) /\ Roomy(u)
           /\ (u = t /\ to = from) \/ Longer(t.items, Segment(IDLE, from, to), u.items)
<1>1. from \in Nat /\ Joined(w, t.items, from) /\ Len(t.items) \in Nat
  <2>1. from \in Nat /\ Joined(w, t.items, from) /\ t.items \in Seq(Segments(w))
    BY DEF Table, Joined
  <2>. QED
    BY <2>1, LenProperties
<1>2. CASE to <= from
  <2>1. u = t /\ to = from
    BY <1>1, <1>2, AppendedFacts
  <2>. QED
    BY <2>1
<1>3. CASE ~(to <= from)
  <2>1. u.items = Append(t.items, Segment(IDLE, from, to))
    BY <1>1, <1>3, AppendedFacts
  <2>2. from < to
    BY <1>1, <1>3
  <2>3. IdleStep(w, rem, t.items, from, u.items, to)
    BY <2>1, <2>2 DEF IdleStep
  <2>4. Longer(t.items, Segment(IDLE, from, to), u.items)
    BY <1>1, <2>1, <2>2, JoinedLonger
  <2>5. Len(u.items) = Len(t.items) + 1
    BY <2>4 DEF Longer
  <2>6. Roomy(u)
    BY <1>1, <1>3, <2>1, <2>5, AppendedFacts
  <2>7. Table(w, rem, st, fi, u.items, to)
    BY <2>3, TableIdle
  <2>. QED
    BY <2>4, <2>6, <2>7
<1>. QED
  BY <1>2, <1>3

LEMMA RunFacts ==
    ASSUME NEW w, Input(w), NEW rem, NEW st, NEW fi, NEW t, NEW from,
           Table(w, rem, st, fi, t.items, from), Roomy(t), NEW p, NEW run, NEW rem2, NEW st2,
           NEW fi2, NEW new, NEW to,
           RunStep(w, rem, st, fi, t.items, from, p, run, rem2, st2, fi2, new, to),
           NEW u, u = Appended(t, p, from, to)
    PROVE  /\ Table(w, rem2, st2, fi2, u.items, to) /\ Roomy(u)
           /\ Longer(t.items, Segment(p, from, to), u.items)
<1>1. Len(t.items) \in Nat
  <2>1. t.items \in Seq(Segments(w))
    BY DEF Table, Joined
  <2>. QED
    BY <2>1, LenProperties
<1>2. from \in Nat /\ to \in Nat /\ from < to /\ Longer(t.items, Segment(p, from, to), new)
  BY RunTyped
<1>3. ~(to <= from)
  BY <1>2
<1>4. new = Append(t.items, Segment(p, from, to))
  BY DEF RunStep
<1>5. u.items = new
  BY <1>1, <1>3, <1>4, AppendedFacts
<1>6. Len(new) = Len(t.items) + 1
  BY <1>2 DEF Longer
<1>7. Roomy(u)
  BY <1>1, <1>4, <1>6, AppendedFacts
<1>8. Table(w, rem2, st2, fi2, new, to)
  BY TableRun
<1>. QED
  BY <1>2, <1>5, <1>7, <1>8
--------------------------------------------------------------------------------
(* Every step keeps the invariant.                                                *)
LEMMA StopInv ==
    ASSUME IInv, NEW why \in {"done", "no memory"}, Stop(why)
    PROVE  IInv'
<1>1. /\ status' = why
      /\ UNCHANGED <<algorithm, workload, quantum>>
      /\ UNCHANGED <<now, remaining, start_time, finish_time, timeline, queue, next_to_arrive>>
  BY DEF Stop, input
<1>2. /\ algorithm \in {"fcfs", "sjf", "priority", "rr"}
      /\ workload \in Workloads /\ quantum \in Quanta
      /\ Roomy(timeline)
      /\ Table(workload, remaining, start_time, finish_time, timeline.items, now)
  BY DEF IInv, Items
<1>3. algorithm # "rr" => /\ queue = << >> /\ next_to_arrive = 0
                          /\ \A p \in Procs : remaining[p] \in {0, Burst(p)}
                          /\ RunsRight(algorithm, workload, timeline.items)
  BY DEF IInv, Items
<1>4. algorithm = "rr" => /\ Admits(workload, remaining, now, queue, next_to_arrive)
                          /\ Closed(workload, finish_time, timeline.items)
                          /\ Open(workload, remaining, finish_time, timeline.items, queue)
                          /\ Short(workload, timeline.items, quantum)
  BY DEF IInv, Items
<1>. QED
  BY <1>1, <1>2, <1>3, <1>4 DEF IInv, Items, Procs, Burst

LEMMA Rows ==
    ASSUME NEW w, Input(w), NEW rem, NEW st, NEW fi, NEW items, NEW t,
           Table(w, rem, st, fi, items, t)
    PROVE  /\ t \in Nat /\ rem \in [DOMAIN w -> Nat]
           /\ st \in [DOMAIN w -> Nat \cup {-1}] /\ fi \in [DOMAIN w -> Nat \cup {-1}]
           /\ \A p \in DOMAIN w : /\ rem[p] = w[p].burst => st[p] = -1
                                  /\ fi[p] = -1 <=> rem[p] # 0
                                  /\ fi[p] # -1 => fi[p] <= t
                                  /\ At(items, p) = {} => rem[p] = w[p].burst
           /\ HaveCome(w, items, t)
<1>1. t \in Nat
  BY DEF Table, Joined
<1>2. Typed(w, rem, st, fi)
  BY DEF Table
<1>3. ASSUME NEW p \in DOMAIN w
      PROVE  /\ rem[p] = w[p].burst => st[p] = -1
             /\ fi[p] = -1 <=> rem[p] # 0
             /\ fi[p] # -1 => fi[p] <= t
             /\ At(items, p) = {} => rem[p] = w[p].burst
             /\ At(items, p) # {} => w[p].arrival <= t
  <2>1. Row(w, rem, st, fi, items, t, p)
    BY DEF Table
  <2>2. /\ st[p] = -1 <=> rem[p] = w[p].burst
        /\ st[p] # -1 => w[p].arrival <= st[p] /\ st[p] <= t /\ At(items, p) # {}
        /\ At(items, p) # {} => st[p] # -1
        /\ fi[p] = -1 <=> rem[p] # 0
        /\ fi[p] # -1 => fi[p] <= t
    BY <2>1 DEF Row
  <2>3. st[p] \in Nat \cup {-1} /\ w[p].arrival \in Nat
    BY <1>2, InputFacts DEF Typed
  <2>. QED
    BY <1>1, <2>2, <2>3
<1>4. HaveCome(w, items, t)
  BY <1>3 DEF HaveCome
<1>. QED
  BY <1>1, <1>2, <1>3, <1>4 DEF Typed

(* What the invariant says while a scheduler runs.                                   *)
LEMMA RunningFacts ==
    ASSUME IInv
    PROVE  /\ Input(workload) /\ quantum \in Nat /\ quantum > 0
           /\ algorithm \in {"fcfs", "sjf", "priority", "rr"}
           /\ Roomy(timeline)
           /\ Table(workload, remaining, start_time, finish_time, timeline.items, now)
           /\ now \in Nat /\ remaining \in [DOMAIN workload -> Nat]
           /\ start_time \in [DOMAIN workload -> Nat \cup {-1}]
           /\ finish_time \in [DOMAIN workload -> Nat \cup {-1}]
           /\ Unfinished = {p \in DOMAIN workload : remaining[p] > 0}
<1>1. Input(workload) /\ quantum \in Nat /\ quantum > 0
  BY Assumed DEF IInv
<1>2. /\ algorithm \in {"fcfs", "sjf", "priority", "rr"} /\ Roomy(timeline)
      /\ Table(workload, remaining, start_time, finish_time, timeline.items, now)
  BY DEF IInv, Items
<1>3. /\ now \in Nat /\ remaining \in [DOMAIN workload -> Nat]
      /\ start_time \in [DOMAIN workload -> Nat \cup {-1}]
      /\ finish_time \in [DOMAIN workload -> Nat \cup {-1}]
  BY <1>1, <1>2, Rows
<1>. QED
  BY <1>1, <1>2, <1>3 DEF Unfinished, Procs

LEMMA ChosenFacts ==
    ASSUME IInv, algorithm # "rr", Candidates # {}, NEW p,
           p = CHOOSE x \in Candidates : \A q \in Candidates : Preferred(x, q)
    PROVE  /\ p \in Candidates /\ p \in DOMAIN workload /\ remaining[p] > 0
           /\ \A q \in Candidates : PreferredIn(algorithm, workload, p, q)
<1>1. Input(workload) /\ algorithm \in {"fcfs", "sjf", "priority"}
      /\ Unfinished = {x \in DOMAIN workload : remaining[x] > 0}
  BY RunningFacts
<1>2. Candidates \in SUBSET Unfinished /\ Candidates \in SUBSET DOMAIN workload
  BY <1>1 DEF Candidates
<1>3. \A x, q : Preferred(x, q) <=> PreferredIn(algorithm, workload, x, q)
  BY DEF Preferred, PreferredIn, Better, BetterIn, Arrival, Burst
<1>. DEFINE C == Candidates
<1>4. \E x \in C : \A q \in C : PreferredIn(algorithm, workload, x, q)
  BY <1>1, <1>2, PreferredExists
<1>. HIDE DEF C
<1>5. p = CHOOSE x \in C : \A q \in C : Preferred(x, q)
  BY DEF C
<1>6. p \in C /\ \A q \in C : Preferred(p, q)
  BY ONLY <1>3, <1>4, <1>5
<1>. QED
  BY <1>1, <1>2, <1>3, <1>6 DEF C

LEMMA RunToEndInv == IInv /\ RunToEnd => IInv'
<1>. SUFFICES ASSUME IInv, RunToEnd PROVE IInv'
  OBVIOUS
<1>. DEFINE w == workload
            p == CHOOSE x \in Candidates : \A q \in Candidates : Preferred(x, q)
            from == Begin(p)
            end == Begin(p) + Burst(p)
            t == Appended(timeline, IDLE, now, from)
            u == Appended(t, p, from, end)
<1>1. algorithm # "rr" /\ status = "run" /\ Candidates # {}
  BY DEF RunToEnd
<1>2. \/ /\ start_time' = [start_time EXCEPT ![p] = from]
         /\ remaining' = [remaining EXCEPT ![p] = 0]
         /\ finish_time' = [finish_time EXCEPT ![p] = end]
         /\ Advance(u, end)
         /\ UNCHANGED <<queue, next_to_arrive>>
      \/ Stop("no memory")
  BY DEF RunToEnd, NoMemory
<1>3. /\ p \in Candidates /\ p \in DOMAIN w /\ remaining[p] > 0
      /\ \A q \in Candidates : PreferredIn(algorithm, w, p, q)
  BY <1>1, ChosenFacts
<1>. HIDE DEF p
<1>4. /\ Input(w) /\ algorithm \in {"fcfs", "sjf", "priority"} /\ Roomy(timeline)
      /\ Table(w, remaining, start_time, finish_time, timeline.items, now)
      /\ now \in Nat /\ remaining \in [DOMAIN w -> Nat]
      /\ start_time \in [DOMAIN w -> Nat \cup {-1}] /\ finish_time \in [DOMAIN w -> Nat \cup {-1}]
      /\ Unfinished = {x \in DOMAIN w : remaining[x] > 0}
  BY <1>1, RunningFacts
<1>5. /\ \A x \in DOMAIN w : remaining[x] \in {0, w[x].burst}
      /\ RunsRight(algorithm, w, timeline.items) /\ queue = << >> /\ next_to_arrive = 0
      /\ w \in Workloads /\ quantum \in Quanta
  BY <1>1 DEF IInv, Procs, Burst, Items
<1>6. \A x \in DOMAIN w : /\ w[x].arrival \in Nat /\ w[x].burst \in Nat /\ w[x].burst > 0
                          /\ x # IDLE
  BY <1>4, InputFacts DEF IDLE
<1>7. remaining[p] = w[p].burst /\ start_time[p] = -1
  <2>1. remaining[p] = w[p].burst
    BY <1>3, <1>5
  <2>. QED
    BY <1>3, <1>4, <2>1, Rows
<1>8. /\ from \in Nat /\ now <= from /\ w[p].arrival <= from
      /\ from = now \/ (now < from /\ from = w[p].arrival)
      /\ end = from + w[p].burst
  BY <1>3, <1>4, <1>6 DEF Begin, Arrival, Burst
<1>9. ASSUME from # now
      PROVE  algorithm = "fcfs"
  <2>1. now < w[p].arrival
    BY <1>8, <1>9
  <2>2. ~(w[p].arrival <= now)
    BY <1>3, <1>4, <1>6, <2>1
  <2>. QED
    BY <1>3, <2>2 DEF Candidates, Arrival
<1>10. ASSUME NEW q \in DOMAIN w, remaining[q] > 0, now < from
       PROVE  from <= w[q].arrival
  <2>1. algorithm = "fcfs" /\ from = w[p].arrival
    BY <1>4, <1>8, <1>9, <1>10
  <2>2. q \in Candidates
    BY <1>4, <1>10, <2>1 DEF Candidates
  <2>. QED
    BY <1>3, <1>4, <2>1, <2>2, PreferredFacts
<1>. HIDE DEF from, end, t, u
<1>11. /\ Table(w, remaining, start_time, finish_time, t.items, from) /\ Roomy(t)
       /\ (t = timeline /\ from = now) \/ Longer(timeline.items, Segment(IDLE, now, from), t.items)
  <2>1. CASE from = now
    <3>1. t = timeline
      <4>1. Len(timeline.items) \in Nat
        <5>1. timeline.items \in Seq(Segments(w))
          BY <1>4 DEF Table, Joined
        <5>. QED
          BY <5>1, LenProperties
      <4>2. from <= now
        BY <1>4, <2>1
      <4>. QED
        BY <1>4, <4>1, <4>2, AppendedFacts DEF t
    <3>. QED
      BY <1>4, <2>1, <3>1
  <2>2. CASE from # now
    <3>1. now < from
      BY <1>8, <2>2
    <3>2. \A q \in DOMAIN w : remaining[q] > 0 => from <= w[q].arrival
      BY <1>10, <3>1
    <3>. QED
      BY <1>4, <1>8, <3>2, IdleFacts DEF t
  <2>. QED
    BY <2>1, <2>2
<1>12. RunsRight(algorithm, w, t.items)
  <2>1. CASE t = timeline
    BY <1>5, <2>1
  <2>2. CASE Longer(timeline.items, Segment(IDLE, now, from), t.items)
    <3>1. Segment(IDLE, now, from).name = IDLE
      BY DEF Segment
    <3>. QED
      BY <1>5, <2>2, <3>1, RightLonger
  <2>. QED
    BY <1>11, <2>1, <2>2
<1>13. CASE Stop("no memory")
  BY <1>13, StopInv
<1>14. CASE /\ start_time' = [start_time EXCEPT ![p] = from]
            /\ remaining' = [remaining EXCEPT ![p] = 0]
            /\ finish_time' = [finish_time EXCEPT ![p] = end]
            /\ Advance(u, end)
            /\ UNCHANGED <<queue, next_to_arrive>>
  <2>. DEFINE run == w[p].burst
  <2>1. /\ run \in Nat /\ 0 < run /\ run <= remaining[p] /\ end = from + run
        /\ remaining[p] - run = 0 /\ remaining[p] = run
    BY <1>3, <1>6, <1>7, <1>8
  <2>2. /\ remaining' = [remaining EXCEPT ![p] = remaining[p] - run]
        /\ start_time' = [start_time EXCEPT ![p] = IF start_time[p] = -1 THEN from
                                                   ELSE start_time[p]]
        /\ finish_time' = [finish_time EXCEPT ![p] = IF remaining[p] = run THEN end
                                                     ELSE finish_time[p]]
    BY <1>7, <1>14, <2>1
  <2>. HIDE DEF run
  <2>3. /\ Table(w, remaining', start_time', finish_time', u.items, end) /\ Roomy(u)
        /\ Longer(t.items, Segment(p, from, end), u.items)
    <3>. DEFINE new == Append(t.items, Segment(p, from, end))
    <3>1. RunStep(w, remaining, start_time, finish_time, t.items, from, p, run,
                  remaining', start_time', finish_time', new, end)
      BY <1>3, <1>8, <2>1, <2>2 DEF RunStep
    <3>. QED
      BY <1>4, <1>11, <3>1, RunFacts DEF u
  <2>4. /\ timeline' = u /\ now' = end
        /\ algorithm' = algorithm /\ workload' = w /\ quantum' = quantum /\ status' = status
        /\ queue' = queue /\ next_to_arrive' = next_to_arrive
    BY <1>14 DEF Advance, input
  <2>5. \A x \in DOMAIN w : remaining'[x] \in {0, w[x].burst}
    BY <1>4, <1>5, <1>14
  <2>6. RunsRight(algorithm, w, u.items)
    <3>. DEFINE s == Segment(p, from, end)
    <3>1. s.name = p /\ s.start = from
      BY DEF Segment
    <3>2. ASSUME NEW q \in DOMAIN w, q # p, w[q].arrival <= from, At(t.items, q) = {}
          PROVE  Precedes(algorithm, w, p, q)
      <4>1. remaining[q] = w[q].burst
        BY <1>4, <1>11, <3>2, Rows
      <4>2. q \in Unfinished
        BY <1>4, <1>6, <4>1
      <4>3. q \in Candidates
        BY <1>9, <3>2, <4>2 DEF Candidates, Arrival
      <4>4. PreferredIn(algorithm, w, p, q)
        BY <1>3, <4>3
      <4>. QED
        BY <1>3, <1>4, <3>2, <4>4, PreferredFacts
    <3>3. Longer(t.items, s, u.items)
      BY <2>3
    <3>. HIDE DEF s
    <3>. QED
      BY <1>12, <3>1, <3>2, <3>3, RightLonger
  <2>7. status' = "run" /\ algorithm' # "rr"
    BY <1>1, <2>4
  <2>. QED
    BY <1>4, <1>5, <2>3, <2>4, <2>5, <2>6, <2>7 DEF IInv, Items, Procs, Burst
<1>. QED
  BY <1>2, <1>13, <1>14 DEF u, t, end, from, p

LEMMA IdleInv == IInv /\ Idle => IInv'
<1>. SUFFICES ASSUME IInv, Idle PROVE IInv'
  OBVIOUS
<1>. DEFINE w == workload
            to == NextArrival
            t == Appended(timeline, IDLE, now, NextArrival)
<1>1. algorithm \in {"sjf", "priority"} /\ status = "run" /\ Unfinished # {} /\ Candidates = {}
  BY DEF Idle
<1>2. \/ /\ Advance(t, to)
         /\ UNCHANGED <<remaining, start_time, finish_time, queue, next_to_arrive>>
      \/ Stop("no memory")
  BY DEF Idle, NoMemory
<1>3. /\ Input(w) /\ Roomy(timeline)
      /\ Table(w, remaining, start_time, finish_time, timeline.items, now)
      /\ now \in Nat /\ Unfinished = {x \in DOMAIN w : remaining[x] > 0}
  BY RunningFacts
<1>4. /\ \A x \in DOMAIN w : remaining[x] \in {0, w[x].burst}
      /\ RunsRight(algorithm, w, timeline.items) /\ queue = << >> /\ next_to_arrive = 0
      /\ w \in Workloads /\ quantum \in Quanta
  BY <1>1 DEF IInv, Procs, Burst, Items
<1>5. \A x \in DOMAIN w : w[x].arrival \in Nat
  BY <1>3, InputFacts
<1>6. /\ to \in {w[x].arrival : x \in Unfinished}
      /\ \A x \in Unfinished : to <= w[x].arrival
  <2>. DEFINE V == {w[x].arrival : x \in Unfinished}
  <2>1. V \in SUBSET Nat /\ V # {}
    BY <1>1, <1>3, <1>5
  <2>2. PICK v \in V : \A y \in V : v <= y
    BY <2>1, LeastElement
  <2>3. v \in V /\ \A x \in Unfinished : v <= w[x].arrival
    BY <2>2
  <2>4. to = CHOOSE v_ \in V : \A x \in Unfinished : v_ <= w[x].arrival
    BY DEF NextArrival, Arrival
  <2>. HIDE DEF V, to
  <2>5. to \in V /\ \A x \in Unfinished : to <= w[x].arrival
    BY ONLY <2>3, <2>4
  <2>. QED
    BY <2>5 DEF V, to
<1>. HIDE DEF to
<1>7. to \in Nat /\ now <= to
  <2>1. PICK x \in Unfinished : to = w[x].arrival
    BY <1>6
  <2>2. x \in DOMAIN w /\ ~(w[x].arrival <= now)
    BY <1>1, <1>3 DEF Candidates, Arrival
  <2>. QED
    BY <1>3, <1>5, <2>1, <2>2
<1>8. \A x \in DOMAIN w : remaining[x] > 0 => to <= w[x].arrival
  BY <1>3, <1>6
<1>. HIDE DEF t
<1>9. /\ Table(w, remaining, start_time, finish_time, t.items, to) /\ Roomy(t)
      /\ (t = timeline /\ to = now) \/ Longer(timeline.items, Segment(IDLE, now, to), t.items)
  BY <1>3, <1>7, <1>8, IdleFacts DEF t, to
<1>10. RunsRight(algorithm, w, t.items)
  <2>1. CASE t = timeline
    BY <1>4, <2>1
  <2>2. CASE Longer(timeline.items, Segment(IDLE, now, to), t.items)
    <3>1. Segment(IDLE, now, to).name = IDLE
      BY DEF Segment
    <3>. QED
      BY <1>4, <2>2, <3>1, RightLonger
  <2>. QED
    BY <1>9, <2>1, <2>2
<1>11. CASE Stop("no memory")
  BY <1>11, StopInv
<1>12. CASE /\ Advance(t, to)
            /\ UNCHANGED <<remaining, start_time, finish_time, queue, next_to_arrive>>
  <2>1. /\ timeline' = t /\ now' = to
        /\ algorithm' = algorithm /\ workload' = w /\ quantum' = quantum /\ status' = status
        /\ remaining' = remaining /\ start_time' = start_time /\ finish_time' = finish_time
        /\ queue' = queue /\ next_to_arrive' = next_to_arrive
    BY <1>12 DEF Advance, input
  <2>. QED
    BY <1>1, <1>4, <1>9, <1>10, <2>1 DEF IInv, Items, Procs, Burst
<1>. QED
  BY <1>2, <1>11, <1>12 DEF t, to

LEMMA OrderIs ==
    /\ ArrivalOrder = OrderIn(workload)
    /\ \A time : Cardinality(Arrived(time)) = Came(workload, time)
    /\ \A from, time : Admitted(from, time)
                       = SubSeq(OrderIn(workload), from + 1, Came(workload, time))
<1>1. ArrivalOrder = OrderIn(workload)
  BY DEF ArrivalOrder, ArrivalRank, Procs, Better, Arrival, OrderIn, RankIn, Before
<1>2. ASSUME NEW time PROVE Cardinality(Arrived(time)) = Came(workload, time)
  BY <1>1 DEF Arrived, Procs, Arrival, Came
<1>. QED
  BY <1>1, <1>2 DEF Admitted

LEMMA SliceInv == IInv /\ Slice => IInv'
<1>. SUFFICES ASSUME IInv, Slice PROVE IInv'
  OBVIOUS
<1>. DEFINE w == workload
            ready == queue \o Admitted(next_to_arrive, now)
            p == Head(ready)
            run == IF remaining[p] < quantum THEN remaining[p] ELSE quantum
            end == now + run
            next == Requeued(Tail(ready), p, remaining[p] - run,
                             Admitted(Cardinality(Arrived(now)), end))
            t == Appended(timeline, p, now, end)
<1>1. algorithm = "rr" /\ status = "run" /\ Unfinished # {} /\ ready # << >>
  BY DEF Slice
<1>2. \/ /\ queue' = next
         /\ next_to_arrive' = Cardinality(Arrived(end))
         /\ start_time' = [start_time EXCEPT ![p] = IF @ < 0 THEN now ELSE @]
         /\ remaining' = [remaining EXCEPT ![p] = @ - run]
         /\ finish_time' = [finish_time EXCEPT ![p] = IF remaining[p] = run THEN end ELSE @]
         /\ Advance(t, end)
      \/ Stop("no memory")
      \/ Len(ready) > Len(w) \/ Len(next) > Len(w)
  BY DEF Slice, NoMemory
<1>3. /\ Input(w) /\ Roomy(timeline) /\ quantum \in Nat /\ quantum > 0
      /\ Table(w, remaining, start_time, finish_time, timeline.items, now)
      /\ now \in Nat /\ remaining \in [DOMAIN w -> Nat]
      /\ start_time \in [DOMAIN w -> Nat \cup {-1}] /\ finish_time \in [DOMAIN w -> Nat \cup {-1}]
  BY RunningFacts
<1>4. /\ Admits(w, remaining, now, queue, next_to_arrive)
      /\ Closed(w, finish_time, timeline.items)
      /\ Open(w, remaining, finish_time, timeline.items, queue)
      /\ Short(w, timeline.items, quantum)
      /\ w \in Workloads /\ quantum \in Quanta
  BY <1>1 DEF IInv, Items
<1>5. ready = queue \o SubSeq(OrderIn(w), next_to_arrive + 1, Came(w, now))
  BY OrderIs
<1>. HIDE DEF ready
<1>6. /\ Listed(ready, Ready(w, remaining, Came(w, now))) /\ Fresh(w, remaining, Came(w, now))
      /\ KeepsOrder(queue, ready)
  BY <1>3, <1>4, <1>5, ReadyListed
<1>7. p \in DOMAIN w /\ remaining[p] > 0 /\ remaining[p] \in Nat /\ RankIn(w, p) <= Came(w, now)
  <2>1. p \in Ready(w, remaining, Came(w, now))
    BY <1>1, <1>6, ListedTail
  <2>. QED
    BY <1>3, <2>1 DEF Ready
<1>. HIDE DEF p
<1>8. /\ run \in Nat /\ 0 < run /\ run <= remaining[p] /\ run <= quantum
      /\ remaining[p] - run \in Nat
  BY <1>3, <1>7
<1>. HIDE DEF run
<1>9. end \in Nat /\ now < end /\ now <= end /\ end = now + run /\ end - now = run
  BY <1>3, <1>8
<1>. HIDE DEF end
<1>. DEFINE rem2 == [remaining EXCEPT ![p] = remaining[p] - run]
            last == IF rem2[p] > 0 THEN <<p>> ELSE << >>
<1>10. /\ rem2[p] = remaining[p] - run /\ rem2[p] \in Nat
       /\ \A x \in DOMAIN w : x # p => rem2[x] = remaining[x]
  BY <1>3, <1>7, <1>8
<1>. HIDE DEF rem2
<1>11. next = Tail(ready) \o SubSeq(OrderIn(w), Came(w, now) + 1, Came(w, end)) \o last
  BY <1>10, OrderIs DEF Requeued
<1>. HIDE DEF next, last
<1>12. /\ Listed(next, Ready(w, rem2, Came(w, end))) /\ Fresh(w, rem2, Came(w, end))
       /\ \A x : ~Ahead(ready, x, p)
       /\ \A x, y : Ahead(ready, x, y) /\ x # p /\ y # p => Ahead(next, x, y)
       /\ \A x \in Ready(w, rem2, Came(w, end)) : x # p /\ rem2[p] > 0 => Ahead(next, x, p)
  <2>1. p = Head(ready) /\ last = IF rem2[p] > 0 THEN <<p>> ELSE << >>
    BY DEF p, last
  <2>2. QueueStep(w, remaining, now, ready, p, rem2, end, last, next)
    BY ONLY <1>1, <1>3, <1>6, <1>9, <1>10, <1>11, <2>1 DEF QueueStep
  <2>. QED
    BY <1>3, <2>2, NextListed
<1>13. Len(ready) <= Len(w) /\ Len(next) <= Len(w)
  <2>1. Len(w) \in Nat /\ DOMAIN w = 1..Len(w)
    BY <1>3, InputFacts
  <2>2. /\ Ready(w, remaining, Came(w, now)) \subseteq 1..Len(w)
        /\ Ready(w, rem2, Came(w, end)) \subseteq 1..Len(w)
    BY <2>1 DEF Ready
  <2>3. Len(ready) <= Len(w)
    BY <1>6, <2>1, <2>2, ListedLen
  <2>4. Len(next) <= Len(w)
    BY <1>12, <2>1, <2>2, ListedLen
  <2>. QED
    BY <2>3, <2>4
<1>14. ~(Len(ready) > Len(w)) /\ ~(Len(next) > Len(w))
  <2>1. Len(ready) \in Nat /\ Len(next) \in Nat /\ Len(w) \in Nat
    BY <1>3, <1>6, <1>12, InputFacts, LenProperties DEF Listed
  <2>. QED
    BY <1>13, <2>1
<1>15. CASE Stop("no memory")
  BY <1>15, StopInv
<1>16. CASE /\ queue' = next
            /\ next_to_arrive' = Cardinality(Arrived(end))
            /\ start_time' = [start_time EXCEPT ![p] = IF @ < 0 THEN now ELSE @]
            /\ remaining' = [remaining EXCEPT ![p] = @ - run]
            /\ finish_time' = [finish_time EXCEPT ![p] = IF remaining[p] = run THEN end ELSE @]
            /\ Advance(t, end)
  <2>. DEFINE items == timeline.items
              s == Segment(p, now, end)
              fi2 == [finish_time EXCEPT ![p] = IF remaining[p] = run THEN end
                                                ELSE finish_time[p]]
              st2 == [start_time EXCEPT ![p] = IF start_time[p] = -1 THEN now
                                               ELSE start_time[p]]
  <2>1. remaining' = rem2 /\ start_time' = st2 /\ finish_time' = fi2
    <3>1. remaining' = rem2 /\ finish_time' = fi2
      BY <1>16 DEF rem2
    <3>2. start_time[p] < 0 <=> start_time[p] = -1
      BY <1>3, <1>7
    <3>. QED
      BY <1>16, <3>1, <3>2
  <2>2. w[p].arrival <= now
    BY <1>3, <1>7, CameFacts
  <2>. DEFINE new == Append(items, s)
  <2>3. RunStep(w, remaining, start_time, finish_time, items, now, p, run, rem2, st2, fi2, new, end)
    BY <1>7, <1>8, <1>9, <2>2 DEF RunStep, rem2
  <2>. HIDE DEF st2, fi2, new, t
  <2>4. /\ Table(w, rem2, st2, fi2, t.items, end) /\ Roomy(t)
        /\ Longer(items, s, t.items)
    BY <1>3, <2>3, RunFacts DEF t
  <2>5. /\ \A q \in DOMAIN w : q # p => fi2[q] = finish_time[q]
    BY <1>3, <2>3, RunTyped
  <2>6. s.name = p /\ s.end = end /\ s.start = now /\ Length(s) = run
    BY <1>9 DEF Segment, Length
  <2>. HIDE DEF s
  <2>7. TurnStep(w, remaining, finish_time, s, p, rem2, fi2, ready, next)
    <3>1. finish_time[p] = -1
      BY <1>3, <1>7, Rows
    <3>2. ASSUME NEW x \in DOMAIN w \ {p}, w[x].arrival <= s.end, remaining[x] > 0, rem2[p] > 0
          PROVE  Ahead(next, x, p)
      <4>1. RankIn(w, x) <= Came(w, end)
        BY <1>3, <1>9, <2>6, <3>2, CameFacts
      <4>2. x \in Ready(w, rem2, Came(w, end))
        BY <1>10, <3>2, <4>1 DEF Ready
      <4>. QED
        BY <1>12, <3>2, <4>2
    <3>3. ASSUME NEW x \in DOMAIN w \ {p}, finish_time[x] > s.end \/ finish_time[x] = -1
          PROVE  remaining[x] > 0
      <4>1. /\ finish_time[x] = -1 <=> remaining[x] # 0
            /\ finish_time[x] # -1 => finish_time[x] <= now
        BY <1>3, Rows
      <4>2. remaining[x] \in Nat /\ finish_time[x] \in Nat \cup {-1}
        BY <1>3
      <4>. QED
        BY <1>3, <1>9, <2>6, <3>3, <4>1, <4>2
    <3>. QED
      BY <1>7, <1>10, <1>12, <2>5, <2>6, <3>1, <3>2, <3>3 DEF TurnStep
  <2>8. Open(w, remaining, finish_time, items, ready)
    BY <1>4, <1>6, OpenMore
  <2>9. HaveCome(w, items, s.end)
    <3>1. HaveCome(w, items, now)
      BY <1>3, Rows
    <3>2. \A x \in DOMAIN w : w[x].arrival \in Nat
      BY <1>3, InputFacts
    <3>. QED
      BY <1>3, <1>9, <2>6, <3>1, <3>2 DEF HaveCome
  <2>10. Closed(w, fi2, t.items)
    BY <1>4, <2>4, <2>7, <2>8, ClosedRun
  <2>11. Open(w, rem2, fi2, t.items, next)
    BY <2>4, <2>7, <2>8, <2>9, OpenRun
  <2>12. Short(w, t.items, quantum)
    BY <1>4, <1>8, <2>4, <2>6, ShortLonger
  <2>13. Admits(w, rem2, end, next, Came(w, end))
    <3>1. Came(w, end) \in 0..Len(w) /\ Came(w, end) <= Came(w, end)
      BY <1>3, <1>9, CameFacts
    <3>. QED
      BY <1>12, <3>1 DEF Admits
  <2>14. /\ timeline' = t /\ now' = end
         /\ algorithm' = algorithm /\ workload' = w /\ quantum' = quantum /\ status' = status
         /\ queue' = next /\ next_to_arrive' = Came(w, end)
    BY <1>16, OrderIs DEF Advance, input
  <2>. QED
    BY <1>1, <1>4, <2>1, <2>4, <2>10, <2>11, <2>12, <2>13, <2>14 DEF IInv, Items
<1>. QED
  BY <1>2, <1>14, <1>15, <1>16 DEF t, next, end, run, p, ready

LEMMA RrIdleInv == IInv /\ RrIdle => IInv'
<1>. SUFFICES ASSUME IInv, RrIdle PROVE IInv'
  OBVIOUS
<1>. DEFINE w == workload
            to == Arrival(ArrivalOrder[next_to_arrive + 1])
            t == Appended(timeline, IDLE, now, to)
<1>1. /\ algorithm = "rr" /\ status = "run" /\ Unfinished # {}
      /\ queue \o Admitted(next_to_arrive, now) = << >>
  BY DEF RrIdle
<1>2. \/ /\ Advance(t, to)
         /\ UNCHANGED <<remaining, start_time, finish_time, queue, next_to_arrive>>
      \/ Stop("no memory")
      \/ next_to_arrive >= Len(w)
  BY DEF RrIdle, NoMemory
<1>3. /\ Input(w) /\ Roomy(timeline)
      /\ Table(w, remaining, start_time, finish_time, timeline.items, now)
      /\ now \in Nat /\ remaining \in [DOMAIN w -> Nat]
      /\ Unfinished = {x \in DOMAIN w : remaining[x] > 0}
  BY RunningFacts
<1>4. /\ Admits(w, remaining, now, queue, next_to_arrive)
      /\ Closed(w, finish_time, timeline.items)
      /\ Open(w, remaining, finish_time, timeline.items, queue)
      /\ Short(w, timeline.items, quantum)
      /\ w \in Workloads /\ quantum \in Quanta
  BY <1>1 DEF IInv, Items
<1>5. /\ next_to_arrive < Len(w) /\ OrderIn(w)[next_to_arrive + 1] \in DOMAIN w
      /\ now < to
      /\ \A x \in DOMAIN w : remaining[x] > 0 => to <= w[x].arrival
  <2>1. queue \o SubSeq(OrderIn(w), next_to_arrive + 1, Came(w, now)) = << >>
    BY <1>1, OrderIs
  <2>2. to = w[OrderIn(w)[next_to_arrive + 1]].arrival
    BY OrderIs DEF Arrival
  <2>. QED
    BY <1>1, <1>3, <1>4, <2>1, <2>2, NextComes
<1>6. to \in Nat /\ now <= to
  <2>1. to = w[OrderIn(w)[next_to_arrive + 1]].arrival
    BY OrderIs DEF Arrival
  <2>2. to \in Nat
    BY <1>3, <1>5, <2>1, InputFacts
  <2>. QED
    BY <1>3, <1>5, <2>2
<1>7. ~(next_to_arrive >= Len(w))
  BY <1>3, <1>4, <1>5, InputFacts DEF Admits
<1>. HIDE DEF to, t
<1>8. /\ Table(w, remaining, start_time, finish_time, t.items, to) /\ Roomy(t)
      /\ (t = timeline /\ to = now) \/ Longer(timeline.items, Segment(IDLE, now, to), t.items)
  BY <1>3, <1>5, <1>6, IdleFacts DEF t
<1>9. Longer(timeline.items, Segment(IDLE, now, to), t.items)
  BY <1>3, <1>5, <1>6, <1>8
<1>10. Segment(IDLE, now, to).name = IDLE /\ IDLE \notin DOMAIN w
  BY <1>3, InputFacts DEF Segment, IDLE
<1>11. /\ Closed(w, finish_time, t.items)
       /\ Open(w, remaining, finish_time, t.items, queue)
  BY <1>3, <1>4, <1>9, <1>10, TurnsIdle
<1>12. Short(w, t.items, quantum)
  BY <1>4, <1>9, <1>10, ShortLonger
<1>13. Admits(w, remaining, to, queue, next_to_arrive)
  <2>1. next_to_arrive \in 0..Len(w) /\ next_to_arrive <= Came(w, now)
    BY <1>4 DEF Admits
  <2>2. Came(w, now) <= Came(w, to) /\ Came(w, now) \in 0..Len(w) /\ Came(w, to) \in 0..Len(w)
    BY <1>3, <1>6, CameFacts, CameLater
  <2>3. next_to_arrive <= Came(w, to)
    BY <1>3, <2>1, <2>2, InputFacts
  <2>. QED
    BY <1>4, <2>1, <2>3 DEF Admits
<1>14. CASE Stop("no memory")
  BY <1>14, StopInv
<1>15. CASE /\ Advance(t, to)
            /\ UNCHANGED <<remaining, start_time, finish_time, queue, next_to_arrive>>
  <2>1. /\ timeline' = t /\ now' = to
        /\ algorithm' = algorithm /\ workload' = w /\ quantum' = quantum /\ status' = status
        /\ remaining' = remaining /\ start_time' = start_time /\ finish_time' = finish_time
        /\ queue' = queue /\ next_to_arrive' = next_to_arrive
    BY <1>15 DEF Advance, input
  <2>. QED
    BY <1>1, <1>4, <1>8, <1>11, <1>12, <1>13, <2>1 DEF IInv, Items
<1>. QED
  BY <1>2, <1>7, <1>14, <1>15 DEF t, to

LEMMA FinishInv == IInv /\ Finish => IInv'
<1>. QED
  BY StopInv DEF Finish

LEMMA NextInv == IInv /\ [Next]_vars => IInv'
<1>. SUFFICES ASSUME IInv, [Next]_vars PROVE IInv'
  OBVIOUS
<1>1. CASE Next
  BY <1>1, RunToEndInv, IdleInv, SliceInv, RrIdleInv, FinishInv DEF Next
<1>2. CASE UNCHANGED vars
  <2>1. /\ UNCHANGED <<algorithm, workload, quantum, now, remaining, start_time, finish_time>>
        /\ UNCHANGED <<timeline, queue, next_to_arrive, status>>
    BY <1>2 DEF vars, input
  <2>. QED
    BY <2>1 DEF IInv, Items, Procs, Burst
<1>. QED
  BY <1>1, <1>2

LEMMA Invariance == Spec => []IInv
<1>. QED
  BY InitInv, NextInv, PTL DEF Spec
--------------------------------------------------------------------------------
LEMMA TypesHold == IInv => TypeOK
<1>. SUFFICES ASSUME IInv PROVE TypeOK
  OBVIOUS
<1>. DEFINE w == workload
<1>1. /\ Input(w) /\ Roomy(timeline)
      /\ Table(w, remaining, start_time, finish_time, timeline.items, now)
      /\ now \in Nat /\ remaining \in [DOMAIN w -> Nat]
      /\ start_time \in [DOMAIN w -> Nat \cup {-1}] /\ finish_time \in [DOMAIN w -> Nat \cup {-1}]
      /\ algorithm \in {"fcfs", "sjf", "priority", "rr"}
  BY RunningFacts
<1>2. ASSUME NEW p \in Procs
      PROVE  /\ remaining[p] \in 0..Burst(p)
             /\ start_time[p] = -1 \/ start_time[p] \in Arrival(p)..now
             /\ finish_time[p] = -1 \/ finish_time[p] \in Arrival(p)..now
  <2>1. p \in DOMAIN w /\ w[p].burst \in Nat /\ w[p].arrival \in Nat
    BY <1>1, InputFacts DEF Procs
  <2>2. /\ remaining[p] <= w[p].burst
        /\ start_time[p] # -1 => w[p].arrival <= start_time[p] /\ start_time[p] <= now
        /\ finish_time[p] # -1 => w[p].arrival <= finish_time[p] /\ finish_time[p] <= now
    <3>1. Row(w, remaining, start_time, finish_time, timeline.items, now, p)
      BY <1>1, <2>1 DEF Table
    <3>. QED
      BY <3>1 DEF Row
  <2>. QED
    BY <1>1, <2>1, <2>2 DEF Arrival, Burst
<1>3. /\ \A k \in DOMAIN queue : queue[k] \in Procs
      /\ next_to_arrive \in 0..Len(w)
  <2>1. CASE algorithm = "rr"
    <3>1. Admits(w, remaining, now, queue, next_to_arrive)
      BY <2>1 DEF IInv
    <3>2. queue \in Seq(Ready(w, remaining, next_to_arrive)) /\ next_to_arrive \in 0..Len(w)
      BY <3>1 DEF Admits, Listed
    <3>3. \A k \in DOMAIN queue : queue[k] \in Ready(w, remaining, next_to_arrive)
      BY <3>2, LenProperties, ElementOfSeq
    <3>. QED
      BY <3>2, <3>3 DEF Ready, Procs
  <2>2. CASE algorithm # "rr"
    <3>1. queue = << >> /\ next_to_arrive = 0
      BY <2>2 DEF IInv
    <3>. QED
      BY <1>1, <3>1, InputFacts, EmptyDomain
  <2>. QED
    BY <2>1, <2>2
<1>4. Len(timeline.items) <= timeline.capacity
  BY <1>1 DEF Roomy
<1>5. status \in {"run", "done", "no memory", "queue full", "lost a process"}
  BY DEF IInv
<1>. QED
  BY <1>1, <1>2, <1>3, <1>4, <1>5 DEF TypeOK

LEMMA ChartHolds == IInv => ChartMatchesTable
<1>. SUFFICES ASSUME IInv PROVE ChartMatchesTable
  OBVIOUS
<1>. DEFINE w == workload
            n == Len(Items)
<1>1. /\ Input(w) /\ Table(w, remaining, start_time, finish_time, Items, now)
      /\ now \in Nat /\ remaining \in [DOMAIN w -> Nat]
      /\ start_time \in [DOMAIN w -> Nat \cup {-1}] /\ finish_time \in [DOMAIN w -> Nat \cup {-1}]
  BY RunningFacts DEF Items
<1>2. /\ Items \in Seq(Segments(w))
      /\ \A k \in 1..n : Items[k].start = IF k = 1 THEN 0 ELSE Items[k - 1].end
      /\ now = IF n = 0 THEN 0 ELSE Items[n].end
  BY <1>1 DEF Table, Joined
<1>3. n \in Nat /\ DOMAIN Items = 1..n /\ (Items = << >> <=> n = 0)
  BY <1>2, LenProperties, EmptySeq
<1>4. \A x : Places(x) = At(Items, x)
  BY <1>3 DEF Places, At
<1>5. ASSUME NEW x, NEW k \in At(Items, x) PROVE Items[k].start \in Nat /\ Items[k].end \in Nat
  <2>1. Items[k] \in Segments(w)
    BY <1>2, ElementOfSeq DEF At
  <2>. QED
    BY <2>1 DEF Segments
<1>6. \A p : TimeOf(p) = TimeIn(Items, p)
  BY DEF TimeOf, TimeIn
<1>7. ASSUME NEW p \in DOMAIN w
      PROVE  /\ TimeOf(p) = Burst(p) - remaining[p]
             /\ \A k \in Places(p) :
                  /\ Items[k].start >= start_time[p]
                  /\ finish_time[p] = -1 \/ Items[k].end <= finish_time[p]
             /\ start_time[p] # -1 => start_time[p] >= Arrival(p)
                                      /\ \E k \in Places(p) : Items[k].start = start_time[p]
             /\ finish_time[p] # -1 <=> remaining[p] = 0
             /\ finish_time[p] # -1 => \E k \in Places(p) : Items[k].end = finish_time[p]
             /\ \A k \in Places(IDLE) :
                  Arrival(p) >= Items[k].end \/ finish_time[p] \in 0..Items[k].start
  <2>1. Row(w, remaining, start_time, finish_time, Items, now, p)
    BY <1>1 DEF Table
  <2>2. w[p].arrival \in Nat /\ remaining[p] \in Nat
        /\ start_time[p] \in Nat \cup {-1} /\ finish_time[p] \in Nat \cup {-1}
    BY <1>1, InputFacts
  <2>3. TimeOf(p) = Burst(p) - remaining[p]
    BY <1>6, <2>1 DEF Row, Burst
  <2>4. \A k \in At(Items, p) : /\ start_time[p] <= Items[k].start
                                /\ finish_time[p] = -1 \/ Items[k].end <= finish_time[p]
    BY <2>1 DEF Row
  <2>5. start_time[p] # -1 => w[p].arrival <= start_time[p]
                              /\ \E k \in At(Items, p) : Items[k].start = start_time[p]
    BY <2>1 DEF Row
  <2>6. /\ finish_time[p] # -1 <=> remaining[p] = 0
        /\ finish_time[p] # -1 => \E k \in At(Items, p) : Items[k].end = finish_time[p]
    BY <2>1 DEF Row
  <2>7. ASSUME NEW k \in At(Items, IDLE)
        PROVE  w[p].arrival >= Items[k].end \/ finish_time[p] \in 0..Items[k].start
    <3>1. \/ Items[k].end <= w[p].arrival
          \/ finish_time[p] # -1 /\ finish_time[p] <= Items[k].start
      BY <2>1 DEF Row
    <3>. QED
      BY <1>5, <2>2, <3>1
  <2>8. \A k \in At(Items, p) : Items[k].start >= start_time[p]
    BY <1>5, <2>2, <2>4
  <2>. QED
    BY <1>4, <2>2, <2>3, <2>4, <2>5, <2>6, <2>7, <2>8 DEF Arrival
<1>8. now = IF Items = << >> THEN 0 ELSE Last(Items).end
  BY <1>2, <1>3 DEF Last
<1>. HIDE DEF n
<1>9. \A k \in DOMAIN Items : Items[k].start = IF k = 1 THEN 0 ELSE Items[k - 1].end
  BY <1>2, <1>3
<1>. QED
  BY <1>7, <1>8, <1>9 DEF ChartMatchesTable, Procs

LEMMA RightHolds == IInv => RunsTheRightProcess
<1>. SUFFICES ASSUME IInv, algorithm # "rr" PROVE RunsTheRightProcess
  BY DEF RunsTheRightProcess
<1>1. Input(workload) /\ Table(workload, remaining, start_time, finish_time, Items, now)
  BY RunningFacts DEF Items
<1>2. DOMAIN Items = 1..Len(Items)
  <2>1. Items \in Seq(Segments(workload))
    BY <1>1 DEF Table, Joined
  <2>. QED
    BY <2>1, LenProperties
<1>3. RunsRight(algorithm, workload, Items)
  BY DEF IInv
<1>4. \A x : Places(x) = At(Items, x)
  BY <1>2 DEF Places, At
<1>5. ASSUME NEW k \in DOMAIN Items, NEW q \in Procs,
             /\ Items[k].name # IDLE /\ q # Items[k].name
             /\ Arrival(q) <= Items[k].start
             /\ \A j \in Places(q) : j > k
      PROVE  \/ Rank(Items[k].name) < Rank(q)
             \/ /\ Rank(Items[k].name) = Rank(q)
                /\ \/ Arrival(Items[k].name) < Arrival(q)
                   \/ Arrival(Items[k].name) = Arrival(q) /\ Items[k].name < q
  <2>1. Precedes(algorithm, workload, Items[k].name, q)
    BY <1>2, <1>3, <1>4, <1>5 DEF RunsRight, Procs, Arrival
  <2>2. \A x : Rank(x) = RankOf(algorithm, workload, x)
    BY DEF Rank, RankOf, Arrival, Burst
  <2>. QED
    BY <2>1, <2>2 DEF Precedes, Arrival
<1>. QED
  BY <1>5 DEF RunsTheRightProcess

LEMMA TurnsHold == IInv => FairTurns
<1>. SUFFICES ASSUME IInv, algorithm = "rr" PROVE FairTurns
  BY DEF FairTurns
<1>. DEFINE w == workload
            n == Len(Items)
<1>1. Input(w) /\ Table(w, remaining, start_time, finish_time, Items, now)
  BY RunningFacts DEF Items
<1>2. Items \in Seq(Segments(w))
  BY <1>1 DEF Table, Joined
<1>3. n \in Nat /\ DOMAIN Items = 1..n
  BY <1>2, LenProperties
<1>4. Closed(w, finish_time, Items) /\ Short(w, Items, quantum)
  BY DEF IInv
<1>5. \A x : Places(x) = At(Items, x)
  BY <1>3 DEF Places, At
<1>6. ASSUME NEW k \in DOMAIN Items, Items[k].name # IDLE
      PROVE  Items[k].name \in DOMAIN w /\ k \in At(Items, Items[k].name) /\ k \in Nat
  <2>1. Items[k] \in Segments(w)
    BY <1>2, <1>3, ElementOfSeq
  <2>. QED
    BY <1>3, <1>6, <2>1 DEF Segments, At
<1>. HIDE DEF n
<1>7. ASSUME NEW k \in DOMAIN Items, Items[k].name # IDLE PROVE Length(Items[k]) <= quantum
  BY <1>4, <1>6, <1>7 DEF Short
<1>8. ASSUME NEW k \in DOMAIN Items, Items[k].name # IDLE, NEW m \in Places(Items[k].name),
             m > k /\ \A j \in Places(Items[k].name) : j <= k \/ j >= m,
             NEW q \in Procs \ {Items[k].name}
      PROVE  LET turns == Cardinality(Places(q) \cap (k + 1)..(m - 1))
                 waits == /\ Arrival(q) <= Items[k].end
                          /\ finish_time[q] = -1 \/ finish_time[q] > Items[k].end
             IN  turns <= 1 /\ (waits => turns = 1)
  <2>. DEFINE p == Items[k].name
              G == Places(q) \cap (k + 1)..(m - 1)
  <2>1. p \in DOMAIN w /\ k \in At(Items, p) /\ k \in Nat /\ m \in At(Items, p) /\ m > k
    BY <1>5, <1>6, <1>8
  <2>2. m \in 1..n /\ k \in 1..n /\ m \in Nat
    BY <1>3, <2>1 DEF At, n
  <2>3. NextTurn(Items, p, k, m)
    BY <1>5, <1>8, <2>1, <2>2 DEF NextTurn
  <2>4. G = Between(Items, q, k, m)
    <3>1. \A i \in At(Items, q) : i \in Nat
      BY <1>3 DEF At
    <3>2. \A i \in At(Items, q) : i \in (k + 1)..(m - 1) <=> k < i /\ i < m
      BY <2>1, <2>2, <3>1
    <3>. QED
      BY <1>5, <3>2 DEF Between
  <2>5. q \in DOMAIN w \ {p}
    BY DEF Procs
  <2>6. /\ \A i, j \in G : i = j
        /\ Waits(w, finish_time, Items, k, q) => G # {}
    BY <1>4, <2>1, <2>2, <2>3, <2>4, <2>5 DEF Closed, n
  <2>. HIDE DEF G
  <2>7. G = {} \/ \E i : G = {i}
    BY <2>6
  <2>8. Cardinality(G) = IF G = {} THEN 0 ELSE 1
    BY <2>7, FS_EmptySet, FS_Singleton
  <2>9. /\ Cardinality(G) <= 1
        /\ Waits(w, finish_time, Items, k, q) => Cardinality(G) = 1
    BY <2>6, <2>8
  <2>. QED
    BY <2>9 DEF G, Waits, Arrival
<1>. QED
  BY <1>7, <1>8 DEF FairTurns
--------------------------------------------------------------------------------
(* A scheduler that is done has finished every process, and round robin loses none.    *)
NothingLost == /\ status \notin {"queue full", "lost a process"}
               /\ status = "done" => Unfinished = {}
               /\ Len(queue) <= Len(workload)
               /\ \A i, j \in DOMAIN queue : queue[i] = queue[j] => i = j

LEMMA DoneWhenFinished == Spec => [](status = "done" => Unfinished = {})
<1>. DEFINE Done == status = "done" => Unfinished = {}
<1>1. Init => Done
  BY DEF Init
<1>2. Done /\ [Next]_vars => Done'
  <2>. SUFFICES ASSUME Done, [Next]_vars, status' = "done" PROVE (Unfinished = {})'
    OBVIOUS
  <2>1. CASE Finish
    <3>1. Unfinished = {} /\ remaining' = remaining /\ workload' = workload
      BY <2>1 DEF Finish, Stop, input
    <3>. QED
      BY <3>1 DEF Unfinished, Procs
  <2>2. CASE RunToEnd \/ Idle
    BY <2>2 DEF RunToEnd, Idle, Advance, NoMemory, Stop
  <2>3. CASE Slice \/ RrIdle
    BY <2>3 DEF Slice, RrIdle, Advance, NoMemory, Stop
  <2>4. CASE UNCHANGED vars
    BY <2>4 DEF vars, input, Unfinished, Procs
  <2>. QED
    BY <2>1, <2>2, <2>3, <2>4 DEF Next
<1>. QED
  BY <1>1, <1>2, PTL DEF Spec

(* The variables have their types in every reachable state: a process has between     *)
(* nothing and its whole burst left, it starts and ends after it arrived and not later *)
(* than now, and the timeline is never longer than its array.                       *)
THEOREM TypeCorrect == Spec => []TypeOK
<1>. QED
  BY Invariance, TypesHold, PTL

(* The Gantt chart and the table that print_schedule_result prints agree, for every     *)
(* input, every algorithm and every quantum.                                       *)
THEOREM ChartIsTable == Spec => []ChartMatchesTable
<1>. QED
  BY Invariance, ChartHolds, PTL

(* FCFS, SJF and priority give the CPU to the process their order puts first.          *)
THEOREM RightProcess == Spec => []RunsTheRightProcess
<1>. QED
  BY Invariance, RightHolds, PTL

(* Round robin: between two slices of one process every other process that waits gets  *)
(* exactly one, and no slice is longer than the quantum.                            *)
THEOREM TurnsAreFair == Spec => []FairTurns
<1>. QED
  BY Invariance, TurnsHold, PTL

(* The ready queue of run_rr, an array of count places, never overflows and never       *)
(* holds a process twice, the loop never finds it empty with every process admitted     *)
(* and some unfinished, and a scheduler ends with every process finished or without     *)
(* memory.                                                                       *)
THEOREM QueueSuffices == Spec => []NothingLost
<1>1. IInv /\ (status = "done" => Unfinished = {}) => NothingLost
  <2>. SUFFICES ASSUME IInv, status = "done" => Unfinished = {} PROVE NothingLost
    OBVIOUS
  <2>1. Len(workload) \in Nat /\ DOMAIN workload = 1..Len(workload)
    BY RunningFacts, InputFacts
  <2>2. Len(queue) <= Len(workload) /\ \A i, j \in DOMAIN queue : queue[i] = queue[j] => i = j
    <3>1. CASE algorithm = "rr"
      <4>1. Listed(queue, Ready(workload, remaining, next_to_arrive))
        BY <3>1 DEF IInv, Admits
      <4>2. Ready(workload, remaining, next_to_arrive) \subseteq 1..Len(workload)
        BY <2>1 DEF Ready
      <4>3. Len(queue) <= Len(workload)
        BY <2>1, <4>1, <4>2, ListedLen
      <4>4. DOMAIN queue = 1..Len(queue)
        BY <4>1, LenProperties DEF Listed
      <4>. QED
        BY <4>1, <4>3, <4>4 DEF Listed
    <3>2. CASE algorithm # "rr"
      <4>1. queue = << >>
        BY <3>2 DEF IInv
      <4>. QED
        BY <2>1, <4>1, EmptyDomain
    <3>. QED
      BY <3>1, <3>2
  <2>. QED
    BY <2>2 DEF IInv, NothingLost
<1>. QED
  BY <1>1, Invariance, DoneWhenFinished, PTL
================================================================================
