------------------------------ MODULE MemoryProofs ------------------------------
(* Proofs about Memory, for every memory size, set of owners, set of pages, number *)
(* of frames and length of the reference string.                                  *)
EXTENDS Memory, FiniteSetTheorems, SequenceTheorems, WellFoundedInduction, TLAPS

(* What is assumed of the constants, one conjunct at a time.                      *)
LEMMA Assumed ==
    /\ MaxMemory \in Nat \ {0} /\ Part!NoOwner \notin Owners
    /\ Pages \subseteq Nat /\ MaxFrames \in Nat \ {0} /\ MaxReferences \in Nat \ {0}
  BY MemoryAssumption
     DEF MemoryAssumption, Part!PartitionAssumption, Pag!PagingAssumption

(* The operators of the instanced modules are those of this one.                  *)
LEMMA PartCards == \A S : Part!Cardinality(S) = Cardinality(S)
  BY DEF Part!Cardinality, Cardinality, Part!IsFiniteSet, IsFiniteSet

LEMMA PagCards == \A S : Pag!Cardinality(S) = Cardinality(S)
  BY DEF Pag!Cardinality, Cardinality, Pag!IsFiniteSet, IsFiniteSet

(* Numbers have least elements.                                                  *)
Less == {pair \in Nat \X Nat : pair[1] < pair[2]}

LEMMA LeastElement ==
    ASSUME NEW S \in SUBSET Nat, S # {}
    PROVE  \E x \in S : \A y \in S : x <= y
<1>1. IsWellFoundedOn(Less, Nat)
  BY NatLessThanWellFounded DEF OpToRel, Less
<1>2. PICK x \in S : \A y \in S : <<y, x>> \notin Less
  BY <1>1, WFMin
<1>3. ASSUME NEW y \in S PROVE x <= y
  <2>1. ~(y < x)
    BY <1>2 DEF Less
  <2>. QED
    BY <2>1
<1>. QED
  BY <1>3
--------------------------------------------------------------------------------
(* Page replacement.  A cache at time t: n frames fr with the stamps st that count.*)
Slots(n) == 0..n - 1
Full(n, fr) == {f \in Slots(n) : fr[f] # -1}

WellFormed(n, fr, st, t) ==
    /\ n \in Nat \ {0} /\ t \in Nat
    /\ fr \in [Slots(n) -> Pages \cup {-1}]
    /\ st \in [Slots(n) -> -1..t - 1]
    /\ \A f \in Full(n, fr) : st[f] >= 0
    /\ \A f, g \in Full(n, fr) : fr[f] = fr[g] => f = g
    /\ \A f, g \in Full(n, fr) : st[f] = st[g] => f = g

(* A reference at time t to a page in frame f, and the load of a page into f.       *)
Touch(n, fr, st, t, page, f, fr2, st2) ==
    /\ f \in Full(n, fr) /\ fr[f] = page
    /\ fr2 = fr /\ st2 = [st EXCEPT ![f] = t]

Load(n, fr, st, t, page, f, fr2, st2) ==
    /\ f \in Slots(n) /\ page \in Pages
    /\ \A g \in Slots(n) : fr[g] # page
    /\ \/ fr[f] = -1
       \/ \A g \in Slots(n) : fr[g] # -1 /\ st[f] <= st[g]
    /\ fr2 = [fr EXCEPT ![f] = page] /\ st2 = [st EXCEPT ![f] = t]

LEMMA TouchKeeps ==
    ASSUME NEW n, NEW fr, NEW st, NEW t, NEW page, NEW f, NEW fr2, NEW st2,
           WellFormed(n, fr, st, t), Touch(n, fr, st, t, page, f, fr2, st2)
    PROVE  WellFormed(n, fr2, st2, t + 1)
<1>1. f \in Slots(n) /\ st2 \in [Slots(n) -> -1..(t + 1) - 1]
  BY DEF WellFormed, Touch, Slots, Full
<1>2. \A g \in Slots(n) : st2[g] = IF g = f THEN t ELSE st[g]
  BY <1>1 DEF WellFormed, Touch
<1>3. \A g \in Slots(n) : st[g] \in Int /\ st[g] < t
  BY DEF WellFormed
<1>. QED
  BY <1>1, <1>2, <1>3 DEF WellFormed, Touch, Full

LEMMA LoadKeeps ==
    ASSUME NEW n, NEW fr, NEW st, NEW t, NEW page, NEW f, NEW fr2, NEW st2,
           WellFormed(n, fr, st, t), page \in Pages, f \in Slots(n),
           \A g \in Slots(n) : fr[g] # page,
           fr2 = [fr EXCEPT ![f] = page], st2 = [st EXCEPT ![f] = t]
    PROVE  WellFormed(n, fr2, st2, t + 1)
<1>1. st2 \in [Slots(n) -> -1..(t + 1) - 1] /\ fr2 \in [Slots(n) -> Pages \cup {-1}]
  BY DEF WellFormed, Slots
<1>2. \A g \in Slots(n) : /\ st2[g] = IF g = f THEN t ELSE st[g]
                          /\ fr2[g] = IF g = f THEN page ELSE fr[g]
  BY DEF WellFormed
<1>3. \A g \in Slots(n) : st[g] \in Int /\ st[g] < t
  BY DEF WellFormed
<1>. QED
  BY <1>1, <1>2, <1>3 DEF WellFormed, Full

LEMMA WaitKeeps ==
    ASSUME NEW n, NEW fr, NEW st, NEW t, WellFormed(n, fr, st, t)
    PROVE  WellFormed(n, fr, st, t + 1)
<1>1. st \in [Slots(n) -> -1..(t + 1) - 1]
  BY DEF WellFormed
<1>. QED
  BY <1>1 DEF WellFormed
--------------------------------------------------------------------------------
(* The stack property of LRU: a cache (n, fr, st) lies within one with a frame more *)
(* (m, frm, stm) if the pages of the first are in the second with the same stamps, *)
(* and what else is in the second was used before all of the first.              *)
Within(n, fr, st, m, frm, stm) ==
    /\ m = n + 1
    /\ \A f \in Full(n, fr) : \E g \in Full(m, frm) : frm[g] = fr[f] /\ stm[g] = st[f]
    /\ \A g \in Full(m, frm) :
         (\A f \in Slots(n) : fr[f] # frm[g]) =>
             \A f \in Slots(n) : fr[f] # -1 /\ stm[g] < st[f]

(* The larger cache, when full, has a page that the smaller one has not.           *)
LEMMA PageMore ==
    ASSUME NEW n, NEW fr, NEW st, NEW t, NEW m, NEW frm, NEW stm,
           WellFormed(n, fr, st, t), WellFormed(m, frm, stm, t), m = n + 1,
           \A g \in Slots(m) : frm[g] # -1
    PROVE  \E g \in Full(m, frm) : \A f \in Slots(n) : fr[f] # frm[g]
<1>. SUFFICES ASSUME \A g \in Full(m, frm) : \E f \in Slots(n) : fr[f] = frm[g]
              PROVE  FALSE
  OBVIOUS
<1>. DEFINE h == [g \in Slots(m) |-> CHOOSE f \in Slots(n) : fr[f] = frm[g]]
<1>1. \A g \in Slots(m) : h[g] \in Slots(n) /\ fr[h[g]] = frm[g]
  BY DEF Full
<1>2. h \in [Slots(m) -> Slots(n)]
  BY <1>1
<1>3. /\ IsFiniteSet(Slots(n)) /\ IsFiniteSet(Slots(m))
      /\ Cardinality(Slots(n)) < Cardinality(Slots(m))
  <2>1. n \in Int /\ m \in Int /\ n > 0 /\ 0 \in Int
    BY DEF WellFormed
  <2>2. n - 1 \in Int /\ m - 1 \in Int
    BY <2>1
  <2>. QED
    BY <2>1, <2>2, FS_Interval DEF Slots
<1>. HIDE DEF h
<1>4. PICK x, y \in Slots(m) : x # y /\ h[x] = h[y]
  BY <1>2, <1>3, FS_PigeonHole
<1>5. frm[x] = frm[y] /\ x \in Full(m, frm) /\ y \in Full(m, frm)
  BY <1>1, <1>4 DEF Full
<1>. QED
  BY <1>4, <1>5 DEF WellFormed

LEMMA WithinTouch ==
    ASSUME NEW n, NEW fr, NEW st, NEW t, NEW m, NEW frm, NEW stm,
           WellFormed(n, fr, st, t), WellFormed(m, frm, stm, t),
           Within(n, fr, st, m, frm, stm),
           NEW page, NEW f, NEW fr2, NEW st2, NEW g, NEW frm2, NEW stm2,
           Touch(n, fr, st, t, page, f, fr2, st2),
           Touch(m, frm, stm, t, page, g, frm2, stm2)
    PROVE  Within(n, fr2, st2, m, frm2, stm2)
<1>1. /\ \A x \in Slots(n) : st2[x] = (IF x = f THEN t ELSE st[x])
      /\ \A x \in Slots(m) : stm2[x] = (IF x = g THEN t ELSE stm[x])
      /\ fr2 = fr /\ frm2 = frm /\ fr[f] = page /\ frm[g] = page
      /\ f \in Full(n, fr) /\ g \in Full(m, frm)
  BY DEF WellFormed, Touch
<1>2. \A x \in Slots(m) : stm[x] \in Int /\ stm[x] < t
  BY DEF WellFormed
<1>3. ASSUME NEW x \in Full(n, fr)
      PROVE  \E y \in Full(m, frm) : frm[y] = fr[x] /\ stm2[y] = st2[x]
  <2>1. CASE x = f
    BY <1>1, <2>1 DEF Full
  <2>2. CASE x # f
    <3>1. PICK y \in Full(m, frm) : frm[y] = fr[x] /\ stm[y] = st[x]
      BY DEF Within
    <3>2. y # g
      BY <1>1, <2>2, <3>1 DEF WellFormed
    <3>. QED
      BY <1>1, <2>2, <3>1, <3>2 DEF Full
  <2>. QED
    BY <2>1, <2>2
<1>4. ASSUME NEW y \in Full(m, frm), \A x \in Slots(n) : fr[x] # frm[y],
             NEW x \in Slots(n)
      PROVE  fr[x] # -1 /\ stm2[y] < st2[x]
  <2>1. fr[x] # -1 /\ stm[y] < st[x]
    BY <1>4 DEF Within
  <2>2. y # g
    BY <1>1, <1>4 DEF Full
  <2>. QED
    BY <1>1, <1>2, <2>1, <2>2 DEF Full
<1>. QED
  BY <1>1, <1>3, <1>4 DEF Within

(* A fault in the smaller cache: the larger one has the page, or loads it as well.  *)
LEMMA WithinLoadTouch ==
    ASSUME NEW n, NEW fr, NEW st, NEW t, NEW m, NEW frm, NEW stm,
           WellFormed(n, fr, st, t), WellFormed(m, frm, stm, t),
           Within(n, fr, st, m, frm, stm),
           NEW page, NEW f, NEW fr2, NEW st2, NEW g, NEW frm2, NEW stm2,
           Load(n, fr, st, t, page, f, fr2, st2),
           Touch(m, frm, stm, t, page, g, frm2, stm2)
    PROVE  Within(n, fr2, st2, m, frm2, stm2)
<1>1. /\ \A x \in Slots(n) : /\ st2[x] = (IF x = f THEN t ELSE st[x])
                             /\ fr2[x] = (IF x = f THEN page ELSE fr[x])
      /\ \A x \in Slots(m) : stm2[x] = (IF x = g THEN t ELSE stm[x])
      /\ frm2 = frm /\ frm[g] = page /\ page \in Pages /\ page # -1
      /\ f \in Slots(n) /\ g \in Full(m, frm) /\ g \in Slots(m)
  BY Assumed DEF WellFormed, Touch, Load, Full
<1>2. \A x \in Slots(m) : stm[x] \in Int /\ stm[x] < t
  BY DEF WellFormed
<1>3. \A x \in Slots(n) : fr[x] # page /\ fr[x] # -1 /\ stm[g] < st[x]
  BY <1>1 DEF Within, Load
<1>4. \A x \in Slots(n) : st[f] <= st[x]
  BY <1>1, <1>3 DEF Load
<1>5. \A x \in Slots(n) : st[x] \in Int /\ st[x] < t
  BY DEF WellFormed
<1>6. ASSUME NEW x \in Full(n, fr2)
      PROVE  \E y \in Full(m, frm) : frm[y] = fr2[x] /\ stm2[y] = st2[x]
  <2>1. CASE x = f
    BY <1>1, <2>1
  <2>2. CASE x # f
    <3>1. PICK y \in Full(m, frm) : frm[y] = fr[x] /\ stm[y] = st[x]
      BY <1>1, <1>3, <2>2 DEF Within, Full
    <3>2. y # g
      BY <1>1, <1>3, <2>2, <3>1 DEF Full
    <3>. QED
      BY <1>1, <2>2, <3>1, <3>2 DEF Full
  <2>. QED
    BY <2>1, <2>2
<1>7. ASSUME NEW y \in Full(m, frm), \A x \in Slots(n) : fr2[x] # frm[y],
             NEW x \in Slots(n)
      PROVE  fr2[x] # -1 /\ stm2[y] < st2[x]
  <2>1. y # g /\ y \in Slots(m)
    BY <1>1, <1>7 DEF Full
  <2>2. stm2[y] = stm[y]
    BY <1>1, <2>1
  <2>3. CASE frm[y] = fr[f]
    <3>1. PICK z \in Full(m, frm) : frm[z] = fr[f] /\ stm[z] = st[f]
      BY <1>1, <1>3 DEF Within, Full
    <3>2. z = y
      BY <2>3, <3>1 DEF WellFormed
    <3>3. x # f => st[f] # st[x]
      BY <1>1, <1>3 DEF WellFormed, Full
    <3>4. x # f => stm2[y] < st2[x]
      BY <1>1, <1>4, <1>5, <2>2, <3>1, <3>2, <3>3
    <3>5. x = f => stm2[y] < st2[x]
      BY <1>1, <1>2, <2>1, <2>2
    <3>. QED
      BY <1>1, <1>3, <3>4, <3>5
  <2>4. CASE frm[y] # fr[f]
    <3>1. \A z \in Slots(n) : fr[z] # frm[y]
      BY <1>1, <1>7, <2>4
    <3>2. \A z \in Slots(n) : stm[y] < st[z]
      BY <3>1 DEF Within
    <3>3. x # f => stm2[y] < st2[x]
      BY <1>1, <2>2, <3>2
    <3>4. x = f => stm2[y] < st2[x]
      BY <1>1, <1>2, <2>1, <2>2
    <3>. QED
      BY <1>1, <1>3, <3>3, <3>4
  <2>. QED
    BY <2>3, <2>4
<1>. QED
  BY <1>1, <1>6, <1>7 DEF Within

LEMMA WithinLoad ==
    ASSUME NEW n, NEW fr, NEW st, NEW t, NEW m, NEW frm, NEW stm,
           WellFormed(n, fr, st, t), WellFormed(m, frm, stm, t),
           Within(n, fr, st, m, frm, stm),
           NEW page, NEW f, NEW fr2, NEW st2, NEW g, NEW frm2, NEW stm2,
           Load(n, fr, st, t, page, f, fr2, st2),
           Load(m, frm, stm, t, page, g, frm2, stm2)
    PROVE  Within(n, fr2, st2, m, frm2, stm2)
<1>1. /\ \A x \in Slots(n) : /\ st2[x] = (IF x = f THEN t ELSE st[x])
                             /\ fr2[x] = (IF x = f THEN page ELSE fr[x])
      /\ \A x \in Slots(m) : /\ stm2[x] = (IF x = g THEN t ELSE stm[x])
                             /\ frm2[x] = (IF x = g THEN page ELSE frm[x])
      /\ page \in Pages /\ page # -1 /\ f \in Slots(n) /\ g \in Slots(m)
  BY Assumed DEF WellFormed, Load, Full
<1>2. /\ \A x \in Slots(m) : stm[x] \in Int /\ stm[x] < t
      /\ \A x \in Slots(n) : st[x] \in Int /\ st[x] < t
  BY DEF WellFormed
<1>3. /\ \A x \in Slots(n) : fr[x] # page
      /\ \A x \in Slots(m) : frm[x] # page
  BY DEF Load
(* What the larger cache gives up is not in the smaller one.                      *)
<1>4. ASSUME NEW x \in Full(n, fr), frm[g] = fr[x] PROVE FALSE
  <2>1. x \in Slots(n) /\ fr[x] # -1
    BY DEF Full
  <2>2. \A z \in Slots(m) : frm[z] # -1 /\ stm[g] <= stm[z]
    BY <1>4, <2>1 DEF Load
  <2>3. PICK y \in Full(m, frm) : \A z \in Slots(n) : fr[z] # frm[y]
    BY <2>2, PageMore DEF Within
  <2>4. stm[y] < st[x]
    BY <2>1, <2>3 DEF Within
  <2>5. PICK z \in Full(m, frm) : frm[z] = fr[x] /\ stm[z] = st[x]
    BY DEF Within
  <2>6. z = g
    BY <1>1, <1>4, <2>2, <2>5 DEF WellFormed, Full
  <2>7. stm[g] = st[x] /\ stm[g] <= stm[y] /\ y \in Slots(m)
    BY <2>2, <2>5, <2>6 DEF Full
  <2>. QED
    BY <1>2, <2>1, <2>4, <2>7
<1>5. ASSUME NEW x \in Full(n, fr2)
      PROVE  \E y \in Full(m, frm2) : frm2[y] = fr2[x] /\ stm2[y] = st2[x]
  <2>1. CASE x = f
    <3>1. g \in Full(m, frm2) /\ frm2[g] = fr2[x] /\ stm2[g] = st2[x]
      BY <1>1, <2>1 DEF Full
    <3>. QED
      BY <3>1
  <2>2. CASE x # f
    <3>1. x \in Full(n, fr) /\ fr2[x] = fr[x] /\ st2[x] = st[x]
      BY <1>1, <2>2 DEF Full
    <3>2. PICK y \in Full(m, frm) : frm[y] = fr[x] /\ stm[y] = st[x]
      BY <3>1 DEF Within
    <3>3. y # g
      BY <1>4, <3>1, <3>2
    <3>. QED
      BY <1>1, <3>1, <3>2, <3>3 DEF Full
  <2>. QED
    BY <2>1, <2>2
<1>6. ASSUME NEW y \in Full(m, frm2), \A x \in Slots(n) : fr2[x] # frm2[y],
             NEW x \in Slots(n)
      PROVE  fr2[x] # -1 /\ stm2[y] < st2[x]
  <2>1. y # g /\ y \in Full(m, frm) /\ stm2[y] = stm[y] /\ frm2[y] = frm[y] /\ y \in Slots(m)
    BY <1>1, <1>6 DEF Full
  <2>2. CASE frm[y] = fr[f]
    <3>1. fr[f] # -1
      BY <2>1, <2>2 DEF Full
    <3>2. \A z \in Slots(n) : fr[z] # -1 /\ st[f] <= st[z]
      BY <3>1 DEF Load
    <3>3. PICK z \in Full(m, frm) : frm[z] = fr[f] /\ stm[z] = st[f]
      BY <1>1, <3>1 DEF Within, Full
    <3>4. z = y
      BY <2>1, <2>2, <3>3 DEF WellFormed
    <3>5. x # f => st[f] # st[x]
      BY <1>1, <3>2 DEF WellFormed, Full
    <3>6. x # f => stm2[y] < st2[x]
      BY <1>1, <1>2, <2>1, <3>2, <3>3, <3>4, <3>5
    <3>7. x = f => stm2[y] < st2[x]
      BY <1>1, <1>2, <2>1
    <3>. QED
      BY <1>1, <3>2, <3>6, <3>7
  <2>3. CASE frm[y] # fr[f]
    <3>1. \A z \in Slots(n) : fr[z] # frm[y]
      BY <1>1, <1>6, <2>1, <2>3
    <3>2. \A z \in Slots(n) : fr[z] # -1 /\ stm[y] < st[z]
      BY <2>1, <3>1 DEF Within
    <3>3. x # f => stm2[y] < st2[x]
      BY <1>1, <2>1, <3>2
    <3>4. x = f => stm2[y] < st2[x]
      BY <1>1, <1>2, <2>1
    <3>. QED
      BY <1>1, <3>2, <3>3, <3>4
  <2>. QED
    BY <2>2, <2>3
<1>. QED
  BY <1>5, <1>6 DEF Within
--------------------------------------------------------------------------------
(* The code of one reference: the first frame with the least value.               *)
LEMMA FirstOf ==
    ASSUME NEW S \in SUBSET Nat, S # {}
    PROVE  Pag!First(S) \in S /\ Pag!Large!First(S) \in S
<1>1. \E f \in S : \A g \in S : f <= g
  BY LeastElement
<1>. QED
  BY <1>1 DEF Pag!First, Pag!Large!First

LEMMA LeastValue ==
    ASSUME NEW n \in Nat \ {0}, NEW st, \A f \in Slots(n) : st[f] \in Nat
    PROVE  {f \in Slots(n) : \A g \in Slots(n) : st[f] <= st[g]} # {}
<1>. DEFINE V == {st[f] : f \in Slots(n)}
<1>1. V \in SUBSET Nat
  OBVIOUS
<1>2. 0 \in Slots(n)
  BY DEF Slots
<1>3. V # {}
  BY <1>2
<1>4. PICK v \in V : \A w \in V : v <= w
  BY <1>1, <1>3, LeastElement
<1>. QED
  BY <1>4

(* What one reference to a page does, in terms of the frame it hits or fills.       *)
HitAt(alg, n, fr, lo, us, fa, t, page, f, fr2, lo2, us2, fa2, answer) ==
    /\ f \in Full(n, fr) /\ fr[f] = page
    /\ fr2 = fr /\ lo2 = lo /\ fa2 = fa
    /\ us2 = IF alg = "lru" THEN [us EXCEPT ![f] = t] ELSE us
    /\ answer = [fault |-> FALSE, evicted |-> -1]

FaultAt(alg, n, fr, lo, us, fa, t, page, f, fr2, lo2, us2, fa2, answer) ==
    /\ f \in Slots(n) /\ \A g \in Slots(n) : fr[g] # page
    /\ \/ fr[f] = -1
       \/ /\ \A g \in Slots(n) : fr[g] # -1
          /\ alg = "fifo" => \A g \in Slots(n) : lo[f] <= lo[g]
          /\ alg # "fifo" => \A g \in Slots(n) : us[f] <= us[g]
    /\ fr2 = [fr EXCEPT ![f] = page]
    /\ lo2 = [lo EXCEPT ![f] = t] /\ us2 = [us EXCEPT ![f] = t]
    /\ fa2 = fa + 1 /\ answer = [fault |-> TRUE, evicted |-> fr[f]]

PagInv ==
    /\ Pag!TypeOK
    /\ more_faults \in Nat
    /\ WellFormed(frame_count, frames, loaded_at, i)
    /\ WellFormed(frame_count, frames, last_used_at, i)
    /\ WellFormed(frame_count + 1, more_frames, more_loaded_at, i)
    /\ WellFormed(frame_count + 1, more_frames, more_last_used_at, i)
    /\ algorithm = "lru" =>
          /\ Within(frame_count, frames, last_used_at,
                    frame_count + 1, more_frames, more_last_used_at)
          /\ more_faults <= faults

LEMMA SmallStep ==
    ASSUME PagInv, NEW page \in Pages, Pag!Reference(page)
    PROVE  \E f \in Slots(frame_count) :
             \/ HitAt(algorithm, frame_count, frames, loaded_at, last_used_at, faults, i,
                      page, f, frames', loaded_at', last_used_at', faults', step')
             \/ FaultAt(algorithm, frame_count, frames, loaded_at, last_used_at, faults, i,
                        page, f, frames', loaded_at', last_used_at', faults', step')
<1>1. /\ Pag!Frames = Slots(frame_count) /\ Slots(frame_count) \subseteq Nat
      /\ Pag!Empty = -1 /\ page # -1 /\ frame_count \in Nat \ {0}
  BY Assumed DEF Pag!Frames, Pag!Empty, Slots, PagInv, WellFormed
<1>2. CASE Pag!Holding(page) # {} /\ Pag!Hit(Pag!First(Pag!Holding(page)))
  <2>. DEFINE f == Pag!First(Pag!Holding(page))
  <2>1. f \in Pag!Holding(page)
    BY <1>1, <1>2, FirstOf DEF Pag!Holding
  <2>2. f \in Slots(frame_count) /\ frames[f] = page
    BY <1>1, <2>1 DEF Pag!Holding
  <2>. HIDE DEF f
  <2>3. Pag!Hit(f)
    BY <1>2 DEF f
  <2>4. HitAt(algorithm, frame_count, frames, loaded_at, last_used_at, faults, i,
              page, f, frames', loaded_at', last_used_at', faults', step')
    BY <1>1, <2>2, <2>3 DEF Pag!Hit, HitAt, Full
  <2>. QED
    BY <2>2, <2>4
<1>3. CASE Pag!Holding(page) = {} /\ Pag!Fault(page)
  <2>. DEFINE f == Pag!Target
  <2>1. \A g \in Slots(frame_count) : frames[g] # page
    BY <1>1, <1>3 DEF Pag!Holding
  <2>2. f \in Slots(frame_count)
        /\ \/ frames[f] = -1
           \/ /\ \A g \in Slots(frame_count) : frames[g] # -1
              /\ algorithm = "fifo" =>
                    \A g \in Slots(frame_count) : loaded_at[f] <= loaded_at[g]
              /\ algorithm # "fifo" =>
                    \A g \in Slots(frame_count) : last_used_at[f] <= last_used_at[g]
    <3>1. CASE Pag!Holding(-1) # {}
      <4>1. Pag!Target \in Pag!Holding(-1)
        BY <1>1, <3>1, FirstOf DEF Pag!Holding, Pag!Target
      <4>. QED
        BY <1>1, <4>1 DEF Pag!Holding
    <3>2. CASE Pag!Holding(-1) = {}
      <4>1. \A g \in Slots(frame_count) : frames[g] # -1
        BY <1>1, <3>2 DEF Pag!Holding
      <4>2. \A g \in Slots(frame_count) : loaded_at[g] \in Nat /\ last_used_at[g] \in Nat
        BY <4>1 DEF PagInv, WellFormed, Full
      <4>. DEFINE V == IF algorithm = "fifo" THEN loaded_at ELSE last_used_at
                  W == {g \in Slots(frame_count) :
                          \A x \in Slots(frame_count) : V[g] <= V[x]}
      <4>3. \A g \in Slots(frame_count) : V[g] \in Nat
        BY <4>2
      <4>4. f = Pag!First(W)
        BY <1>1, <3>2 DEF Pag!Target, Pag!Victim
      <4>. HIDE DEF V, f
      <4>5. W # {}
        BY <1>1, <4>3, LeastValue
      <4>6. f \in W
        BY <1>1, <4>4, <4>5, FirstOf
      <4>. QED
        BY <4>1, <4>6 DEF V
    <3>. QED
      BY <3>1, <3>2
  <2>3. FaultAt(algorithm, frame_count, frames, loaded_at, last_used_at, faults, i,
                page, f, frames', loaded_at', last_used_at', faults', step')
    BY <1>3, <2>1, <2>2 DEF Pag!Fault, FaultAt
  <2>. QED
    BY <2>2, <2>3
<1>. QED
  BY <1>2, <1>3 DEF Pag!Reference

LEMMA LargeStep ==
    ASSUME PagInv, NEW page \in Pages, Pag!Large!Reference(page)
    PROVE  \E f \in Slots(frame_count + 1) :
             \/ HitAt(algorithm, frame_count + 1, more_frames,
                      more_loaded_at, more_last_used_at, more_faults, i,
                      page, f, more_frames',
                      more_loaded_at', more_last_used_at', more_faults', more_step')
             \/ FaultAt(algorithm, frame_count + 1, more_frames,
                      more_loaded_at, more_last_used_at, more_faults, i,
                        page, f, more_frames',
                      more_loaded_at', more_last_used_at', more_faults', more_step')
<1>1. /\ Pag!Large!Frames = Slots(frame_count + 1) /\ Slots(frame_count + 1) \subseteq Nat
      /\ Pag!Large!Empty = -1 /\ page # -1 /\ frame_count + 1 \in Nat \ {0}
  BY Assumed DEF Pag!Large!Frames, Pag!Large!Empty, Slots, PagInv, WellFormed
<1>2. CASE Pag!Large!Holding(page) # {} /\ Pag!Large!Hit(Pag!Large!First(Pag!Large!Holding(page)))
  <2>. DEFINE f == Pag!Large!First(Pag!Large!Holding(page))
  <2>1. f \in Pag!Large!Holding(page)
    BY <1>1, <1>2, FirstOf DEF Pag!Large!Holding
  <2>2. f \in Slots(frame_count + 1) /\ more_frames[f] = page
    BY <1>1, <2>1 DEF Pag!Large!Holding
  <2>. HIDE DEF f
  <2>3. Pag!Large!Hit(f)
    BY <1>2 DEF f
  <2>4. HitAt(algorithm, frame_count + 1, more_frames,
                      more_loaded_at, more_last_used_at, more_faults, i,
              page, f, more_frames',
                      more_loaded_at', more_last_used_at', more_faults', more_step')
    BY <1>1, <2>2, <2>3 DEF Pag!Large!Hit, HitAt, Full
  <2>. QED
    BY <2>2, <2>4
<1>3. CASE Pag!Large!Holding(page) = {} /\ Pag!Large!Fault(page)
  <2>. DEFINE f == Pag!Large!Target
  <2>1. \A g \in Slots(frame_count + 1) : more_frames[g] # page
    BY <1>1, <1>3 DEF Pag!Large!Holding
  <2>2. f \in Slots(frame_count + 1)
        /\ \/ more_frames[f] = -1
           \/ /\ \A g \in Slots(frame_count + 1) : more_frames[g] # -1
              /\ algorithm = "fifo" =>
                    \A g \in Slots(frame_count + 1) : more_loaded_at[f] <= more_loaded_at[g]
              /\ algorithm # "fifo" =>
                    \A g \in Slots(frame_count + 1) : more_last_used_at[f] <= more_last_used_at[g]
    <3>1. CASE Pag!Large!Holding(-1) # {}
      <4>1. Pag!Large!Target \in Pag!Large!Holding(-1)
        BY <1>1, <3>1, FirstOf DEF Pag!Large!Holding, Pag!Large!Target
      <4>. QED
        BY <1>1, <4>1 DEF Pag!Large!Holding
    <3>2. CASE Pag!Large!Holding(-1) = {}
      <4>1. \A g \in Slots(frame_count + 1) : more_frames[g] # -1
        BY <1>1, <3>2 DEF Pag!Large!Holding
      <4>2. \A g \in Slots(frame_count + 1) : more_loaded_at[g] \in Nat /\ more_last_used_at[g] \in Nat
        BY <4>1 DEF PagInv, WellFormed, Full
      <4>. DEFINE V == IF algorithm = "fifo" THEN more_loaded_at ELSE more_last_used_at
                  W == {g \in Slots(frame_count + 1) :
                          \A x \in Slots(frame_count + 1) : V[g] <= V[x]}
      <4>3. \A g \in Slots(frame_count + 1) : V[g] \in Nat
        BY <4>2
      <4>4. f = Pag!Large!First(W)
        BY <1>1, <3>2 DEF Pag!Large!Target, Pag!Large!Victim
      <4>. HIDE DEF V, f
      <4>5. W # {}
        BY <1>1, <4>3, LeastValue
      <4>6. f \in W
        BY <1>1, <4>4, <4>5, FirstOf
      <4>. QED
        BY <4>1, <4>6 DEF V
    <3>. QED
      BY <3>1, <3>2
  <2>3. FaultAt(algorithm, frame_count + 1, more_frames,
                      more_loaded_at, more_last_used_at, more_faults, i,
                page, f, more_frames',
                      more_loaded_at', more_last_used_at', more_faults', more_step')
    BY <1>3, <2>1, <2>2 DEF Pag!Large!Fault, FaultAt
  <2>. QED
    BY <2>2, <2>3
<1>. QED
  BY <1>2, <1>3 DEF Pag!Large!Reference
--------------------------------------------------------------------------------
LEMMA PagInitInv == Pag!PairInit => PagInv
<1>. SUFFICES ASSUME Pag!PairInit PROVE PagInv
  OBVIOUS
<1>1. /\ Pag!Frames = Slots(frame_count) /\ Pag!Large!Frames = Slots(frame_count + 1)
      /\ Pag!Empty = -1 /\ Pag!Large!Empty = -1
  BY DEF Pag!Frames, Pag!Large!Frames, Pag!Empty, Pag!Large!Empty, Slots
<1>2. frame_count \in Nat \ {0} /\ frame_count + 1 \in Nat \ {0} /\ frame_count \in 1..MaxFrames
  BY Assumed DEF Pag!PairInit, Pag!Init
<1>3. /\ frames = [f \in Slots(frame_count) |-> -1]
      /\ loaded_at = [f \in Slots(frame_count) |-> -1]
      /\ last_used_at = [f \in Slots(frame_count) |-> -1]
      /\ more_frames = [f \in Slots(frame_count + 1) |-> -1]
      /\ more_loaded_at = [f \in Slots(frame_count + 1) |-> -1]
      /\ more_last_used_at = [f \in Slots(frame_count + 1) |-> -1]
      /\ i = 0 /\ faults = 0 /\ more_faults = 0
  BY <1>1 DEF Pag!PairInit, Pag!Init, Pag!Large!Init
<1>4. /\ Full(frame_count, frames) = {} /\ Full(frame_count + 1, more_frames) = {}
  BY <1>3 DEF Full
<1>5. /\ WellFormed(frame_count, frames, loaded_at, i)
      /\ WellFormed(frame_count, frames, last_used_at, i)
      /\ WellFormed(frame_count + 1, more_frames, more_loaded_at, i)
      /\ WellFormed(frame_count + 1, more_frames, more_last_used_at, i)
  BY <1>2, <1>3, <1>4 DEF WellFormed
<1>6. Within(frame_count, frames, last_used_at, frame_count + 1, more_frames, more_last_used_at)
  BY <1>4 DEF Within
<1>7. Pag!TypeOK
  BY <1>1, <1>2, <1>3, Assumed DEF Pag!PairInit, Pag!Init, Pag!TypeOK
<1>. QED
  BY <1>3, <1>5, <1>6, <1>7 DEF PagInv

(* The stamps and the types after one reference, in either cache.                 *)
LEMMA TurnKeeps ==
    ASSUME NEW alg, NEW n, NEW fr, NEW lo, NEW us, NEW fa, NEW t, NEW page \in Pages, NEW f,
           NEW fr2, NEW lo2, NEW us2, NEW fa2, NEW answer,
           WellFormed(n, fr, lo, t), WellFormed(n, fr, us, t),
           \/ HitAt(alg, n, fr, lo, us, fa, t, page, f, fr2, lo2, us2, fa2, answer)
           \/ FaultAt(alg, n, fr, lo, us, fa, t, page, f, fr2, lo2, us2, fa2, answer)
    PROVE  WellFormed(n, fr2, lo2, t + 1) /\ WellFormed(n, fr2, us2, t + 1)
<1>1. CASE HitAt(alg, n, fr, lo, us, fa, t, page, f, fr2, lo2, us2, fa2, answer)
  <2>1. WellFormed(n, fr2, lo2, t + 1)
    BY <1>1, WaitKeeps DEF HitAt
  <2>2. CASE alg = "lru"
    <3>1. Touch(n, fr, us, t, page, f, fr2, us2)
      BY <1>1, <2>2 DEF HitAt, Touch
    <3>. QED
      BY <2>1, <3>1, TouchKeeps
  <2>3. CASE alg # "lru"
    <3>1. fr2 = fr /\ us2 = us
      BY <1>1, <2>3 DEF HitAt
    <3>. QED
      BY <2>1, <3>1, WaitKeeps
  <2>. QED
    BY <2>2, <2>3
<1>2. CASE FaultAt(alg, n, fr, lo, us, fa, t, page, f, fr2, lo2, us2, fa2, answer)
  <2>1. /\ f \in Slots(n) /\ \A g \in Slots(n) : fr[g] # page
        /\ fr2 = [fr EXCEPT ![f] = page]
        /\ lo2 = [lo EXCEPT ![f] = t] /\ us2 = [us EXCEPT ![f] = t]
    BY <1>2 DEF FaultAt
  <2>. QED
    BY <2>1, LoadKeeps
<1>. QED
  BY <1>1, <1>2

(* One reference keeps the larger cache of LRU around the smaller one.            *)
LEMMA WithinNext ==
    ASSUME PagInv, algorithm = "lru", NEW page \in Pages,
           Pag!Reference(page), Pag!Large!Reference(page)
    PROVE  /\ Within(frame_count, frames', last_used_at',
                     frame_count + 1, more_frames', more_last_used_at')
           /\ more_faults' <= faults'
<1>. DEFINE n == frame_count
            m == frame_count + 1
<1>1. PICK f \in Slots(n) :
         \/ HitAt(algorithm, n, frames, loaded_at, last_used_at, faults, i,
                  page, f, frames', loaded_at', last_used_at', faults', step')
         \/ FaultAt(algorithm, n, frames, loaded_at, last_used_at, faults, i,
                    page, f, frames', loaded_at', last_used_at', faults', step')
  BY SmallStep
<1>2. PICK g \in Slots(m) :
         \/ HitAt(algorithm, m, more_frames, more_loaded_at, more_last_used_at, more_faults,
                  i, page, g, more_frames', more_loaded_at', more_last_used_at',
                  more_faults', more_step')
         \/ FaultAt(algorithm, m, more_frames, more_loaded_at, more_last_used_at, more_faults,
                    i, page, g, more_frames', more_loaded_at', more_last_used_at',
                    more_faults', more_step')
  BY LargeStep
<1>3. /\ WellFormed(n, frames, last_used_at, i)
      /\ WellFormed(m, more_frames, more_last_used_at, i)
      /\ Within(n, frames, last_used_at, m, more_frames, more_last_used_at)
      /\ more_faults <= faults /\ more_faults \in Nat /\ faults \in Nat
  BY Assumed DEF PagInv, Pag!TypeOK
<1>. DEFINE SH == HitAt(algorithm, n, frames, loaded_at, last_used_at, faults, i,
                        page, f, frames', loaded_at', last_used_at', faults', step')
            LH == HitAt(algorithm, m, more_frames, more_loaded_at, more_last_used_at,
                        more_faults, i, page, g, more_frames', more_loaded_at',
                        more_last_used_at', more_faults', more_step')
<1>. HIDE DEF n, m
<1>4. /\ IF SH THEN Touch(n, frames, last_used_at, i, page, f, frames', last_used_at')
                    /\ faults' = faults
               ELSE Load(n, frames, last_used_at, i, page, f, frames', last_used_at')
                    /\ faults' = faults + 1
  BY <1>1 DEF HitAt, FaultAt, Touch, Load
<1>5. /\ IF LH THEN Touch(m, more_frames, more_last_used_at, i, page, g,
                          more_frames', more_last_used_at')
                    /\ more_faults' = more_faults
               ELSE Load(m, more_frames, more_last_used_at, i, page, g,
                         more_frames', more_last_used_at')
                    /\ more_faults' = more_faults + 1
  BY <1>2 DEF HitAt, FaultAt, Touch, Load
<1>6. SH => LH
  <2>. SUFFICES ASSUME SH, ~LH PROVE FALSE
    OBVIOUS
  <2>1. f \in Full(n, frames) /\ frames[f] = page
    BY <1>4 DEF Touch
  <2>2. PICK x \in Full(m, more_frames) : more_frames[x] = page
    BY <1>3, <2>1 DEF Within
  <2>3. \A y \in Slots(m) : more_frames[y] # page
    BY <1>5 DEF Load
  <2>. QED
    BY <2>2, <2>3 DEF Full
<1>7. Within(n, frames', last_used_at', m, more_frames', more_last_used_at')
  <2>. HIDE DEF SH, LH
  <2>1. CASE SH
    BY <1>3, <1>4, <1>5, <1>6, <2>1, WithinTouch
  <2>2. CASE ~SH /\ LH
    BY <1>3, <1>4, <1>5, <2>2, WithinLoadTouch
  <2>3. CASE ~SH /\ ~LH
    BY <1>3, <1>4, <1>5, <2>3, WithinLoad
  <2>. QED
    BY <2>1, <2>2, <2>3
<1>8. more_faults' <= faults'
  <2>. HIDE DEF SH, LH
  <2>. QED
    BY <1>3, <1>4, <1>5, <1>6
<1>. QED
  BY <1>7, <1>8 DEF n, m

LEMMA PagNextInv ==
    ASSUME PagInv, NEW page \in Pages, Pag!Reference(page), Pag!Large!Reference(page)
    PROVE  PagInv'
<1>. DEFINE n == frame_count
            m == frame_count + 1
<1>1. PICK f \in Slots(n) :
         \/ HitAt(algorithm, n, frames, loaded_at, last_used_at, faults, i,
                  page, f, frames', loaded_at', last_used_at', faults', step')
         \/ FaultAt(algorithm, n, frames, loaded_at, last_used_at, faults, i,
                    page, f, frames', loaded_at', last_used_at', faults', step')
  BY SmallStep
<1>2. PICK g \in Slots(m) :
         \/ HitAt(algorithm, m, more_frames, more_loaded_at, more_last_used_at, more_faults,
                  i, page, g, more_frames', more_loaded_at', more_last_used_at',
                  more_faults', more_step')
         \/ FaultAt(algorithm, m, more_frames, more_loaded_at, more_last_used_at, more_faults,
                    i, page, g, more_frames', more_loaded_at', more_last_used_at',
                    more_faults', more_step')
  BY LargeStep
<1>3. i' = i + 1 /\ i < MaxReferences /\ UNCHANGED <<algorithm, frame_count, status>>
  BY DEF Pag!Reference
<1>4. /\ WellFormed(n, frames, loaded_at, i) /\ WellFormed(n, frames, last_used_at, i)
      /\ WellFormed(m, more_frames, more_loaded_at, i)
      /\ WellFormed(m, more_frames, more_last_used_at, i)
  BY DEF PagInv
<1>5. /\ WellFormed(n, frames', loaded_at', i') /\ WellFormed(n, frames', last_used_at', i')
      /\ WellFormed(m, more_frames', more_loaded_at', i')
      /\ WellFormed(m, more_frames', more_last_used_at', i')
  <2>. HIDE DEF n, m
  <2>1. WellFormed(n, frames', loaded_at', i') /\ WellFormed(n, frames', last_used_at', i')
    BY <1>1, <1>3, <1>4, TurnKeeps
  <2>2. WellFormed(m, more_frames', more_loaded_at', i')
        /\ WellFormed(m, more_frames', more_last_used_at', i')
    BY <1>2, <1>3, <1>4, TurnKeeps
  <2>. QED
    BY <2>1, <2>2
<1>6. algorithm' = "lru" =>
         /\ Within(frame_count', frames', last_used_at',
                   frame_count' + 1, more_frames', more_last_used_at')
         /\ more_faults' <= faults'
  BY <1>3, WithinNext
<1>7. more_faults' \in Nat /\ faults' \in 0..i'
  <2>1. more_faults \in Nat /\ faults \in 0..i /\ i \in Nat
    BY DEF PagInv, Pag!TypeOK
  <2>2. faults' \in {faults, faults + 1} /\ more_faults' \in {more_faults, more_faults + 1}
    BY <1>1, <1>2 DEF HitAt, FaultAt
  <2>. QED
    BY <1>3, <2>1, <2>2
<1>8. step' \in [fault : BOOLEAN, evicted : Pages \cup {-1}]
  <2>1. frames[f] \in Pages \cup {-1}
    BY DEF PagInv, WellFormed
  <2>2. step' = [fault |-> FALSE, evicted |-> -1] \/ step' = [fault |-> TRUE, evicted |-> frames[f]]
    BY <1>1 DEF HitAt, FaultAt
  <2>3. TRUE \in BOOLEAN /\ FALSE \in BOOLEAN /\ -1 \in Pages \cup {-1}
    OBVIOUS
  <2>4. \A b \in BOOLEAN, e \in Pages \cup {-1} :
          [fault |-> b, evicted |-> e] \in [fault : BOOLEAN, evicted : Pages \cup {-1}]
    BY Zenon
  <2>5. \/ /\ step' = [fault |-> FALSE, evicted |-> -1]
           /\ FALSE \in BOOLEAN /\ -1 \in Pages \cup {-1}
        \/ /\ step' = [fault |-> TRUE, evicted |-> frames[f]]
           /\ TRUE \in BOOLEAN /\ frames[f] \in Pages \cup {-1}
    BY <2>1, <2>2, <2>3
  <2>. QED
    BY <2>4, <2>5
<1>9. Pag!TypeOK'
  <2>1. Pag!Empty = -1
    BY DEF Pag!Empty
  <2>2. /\ frames' \in [Slots(frame_count') -> Pages \cup {-1}]
        /\ loaded_at' \in [Slots(frame_count') -> -1..i' - 1]
        /\ last_used_at' \in [Slots(frame_count') -> -1..i' - 1]
    BY <1>3, <1>5 DEF WellFormed
  <2>3. i' \in 0..MaxReferences
    BY <1>3, Assumed DEF PagInv, Pag!TypeOK
  <2>4. /\ algorithm' \in {"fifo", "lru"} /\ frame_count' \in 1..MaxFrames
        /\ status' \in {"run", "done", "failed"}
    BY <1>3 DEF PagInv, Pag!TypeOK
  <2>5. Slots(frame_count') = 0..frame_count' - 1
    BY DEF Slots
  <2>. QED
    BY <1>7, <1>8, <2>1, <2>2, <2>3, <2>4, <2>5 DEF Pag!TypeOK, Pag!Frames, Pag!Empty
<1>. QED
  BY <1>3, <1>5, <1>6, <1>7, <1>9 DEF PagInv

LEMMA PagStep == PagInv /\ Pag!PairNext => PagInv'
<1>. SUFFICES ASSUME PagInv, Pag!PairNext PROVE PagInv'
  OBVIOUS
<1>1. CASE \E page \in Pages : Pag!Reference(page) /\ Pag!Large!Reference(page)
  BY <1>1, PagNextInv
<1>2. CASE Pag!End /\ UNCHANGED Pag!more_vars
  BY <1>2 DEF Pag!End, Pag!more_vars, PagInv, Pag!TypeOK, Pag!Frames, Pag!Empty
<1>. QED
  BY <1>1, <1>2 DEF Pag!PairNext
--------------------------------------------------------------------------------
(* The queue behind the frames: L are the frames in use, and a frame's place in the *)
(* queue is one more than the number of frames with an older stamp.               *)
Before(L, st, f) == {g \in L : st[g] < st[f]}
Pos(L, st, f) == Cardinality(Before(L, st, f)) + 1
QueueOf(L, fr, st) ==
    [k \in 1..Pag!Cardinality(L) |->
        fr[CHOOSE f \in L : Pag!Cardinality(Before(L, st, f)) = k - 1]]

Stamped(L, st) ==
    /\ IsFiniteSet(L) /\ \A f \in L : st[f] \in Int
    /\ \A f, g \in L : st[f] = st[g] => f = g
Holds(L, fr) == \A f \in L : fr[f] \in Pages
Newest(L, st, h, st2) ==
    /\ st2[h] \in Int
    /\ \A f \in L \ {h} : st2[f] = st[f] /\ st[f] < st2[h]

LEMMA Ranks ==
    ASSUME NEW L, NEW st, Stamped(L, st)
    PROVE  /\ Cardinality(L) \in Nat
           /\ \A f \in L : IsFiniteSet(Before(L, st, f)) /\ Pos(L, st, f) \in 1..Cardinality(L)
           /\ \A f, g \in L : st[f] < st[g] => Pos(L, st, f) < Pos(L, st, g)
           /\ \A f, g \in L : Pos(L, st, f) = Pos(L, st, g) => f = g
           /\ \A k \in 1..Cardinality(L) : \E f \in L : Pos(L, st, f) = k
<1>0. IsFiniteSet(L) /\ Cardinality(L) \in Nat
  BY FS_CardinalityType DEF Stamped
<1>1. ASSUME NEW f \in L
      PROVE  /\ IsFiniteSet(Before(L, st, f))
             /\ Cardinality(Before(L, st, f)) \in Nat /\ Pos(L, st, f) \in 1..Cardinality(L)
  <2>1. Before(L, st, f) \in SUBSET (L \ {f})
    BY DEF Before, Stamped
  <2>2. IsFiniteSet(L \ {f}) /\ Cardinality(L \ {f}) = Cardinality(L) - 1
    BY <1>0, FS_RemoveElement
  <2>3. /\ IsFiniteSet(Before(L, st, f))
        /\ Cardinality(Before(L, st, f)) <= Cardinality(L) - 1
    BY <2>1, <2>2, FS_Subset
  <2>4. Cardinality(Before(L, st, f)) \in Nat
    BY <2>3, FS_CardinalityType
  <2>. QED
    BY <1>0, <2>3, <2>4 DEF Pos
<1>2. ASSUME NEW f \in L, NEW g \in L, st[f] < st[g]
      PROVE  Pos(L, st, f) < Pos(L, st, g)
  <2>1. Before(L, st, f) \in SUBSET Before(L, st, g)
    BY <1>2 DEF Before, Stamped
  <2>2. f \in Before(L, st, g) /\ f \notin Before(L, st, f)
    BY <1>2 DEF Before, Stamped
  <2>3. /\ Cardinality(Before(L, st, f)) <= Cardinality(Before(L, st, g))
        /\ Cardinality(Before(L, st, f)) # Cardinality(Before(L, st, g))
    BY <1>1, <2>1, <2>2, FS_Subset
  <2>. QED
    BY <1>1, <2>3 DEF Pos
<1>3. ASSUME NEW f \in L, NEW g \in L, Pos(L, st, f) = Pos(L, st, g) PROVE f = g
  <2>1. ~(Pos(L, st, f) < Pos(L, st, g)) /\ ~(Pos(L, st, g) < Pos(L, st, f))
    BY <1>1, <1>3
  <2>2. ~(st[f] < st[g]) /\ ~(st[g] < st[f])
    BY <1>2, <2>1
  <2>. QED
    BY <2>2 DEF Stamped
<1>4. ASSUME NEW k \in 1..Cardinality(L) PROVE \E f \in L : Pos(L, st, f) = k
  <2>. DEFINE T == 1..Cardinality(L)
              p == [f \in L |-> Pos(L, st, f)]
  <2>1. p \in [L -> T]
    BY <1>1
  <2>2. \A f, g \in L : p[f] = p[g] => f = g
    BY <1>3
  <2>3. IsFiniteSet(T) /\ Cardinality(T) = Cardinality(L)
    <3>1. 1 \in Int /\ Cardinality(L) \in Int
      BY <1>0
    <3>2. IsFiniteSet(T)
          /\ Cardinality(T) = IF 1 > Cardinality(L) THEN 0 ELSE Cardinality(L) - 1 + 1
      BY <3>1, FS_Interval
    <3>. QED
      BY <1>0, <3>2
  <2>. HIDE DEF p, T
  <2>4. p \in Injection(L, T)
    BY <2>1, <2>2 DEF Injection, IsInjective
  <2>5. p \in Surjection(L, T)
    BY <2>3, <2>4, FS_Injection
  <2>6. \A x \in T : \E f \in L : p[f] = x
    BY <2>5 DEF Surjection
  <2>. QED
    BY <2>6 DEF T, p
<1>. QED
  BY <1>0, <1>1, <1>2, <1>3, <1>4

LEMMA QueueAt ==
    ASSUME NEW L, NEW st, NEW fr, Stamped(L, st), Holds(L, fr)
    PROVE  /\ QueueOf(L, fr, st) \in Seq(Pages)
           /\ Len(QueueOf(L, fr, st)) = Cardinality(L)
           /\ DOMAIN QueueOf(L, fr, st) = 1..Cardinality(L)
           /\ \A f \in L : QueueOf(L, fr, st)[Pos(L, st, f)] = fr[f]
<1>. DEFINE at(k) == CHOOSE f \in L : Pag!Cardinality(Before(L, st, f)) = k - 1
            C == Cardinality(L)
<1>1. C \in Nat
  BY Ranks
<1>2. \A f \in L : Cardinality(Before(L, st, f)) \in Nat
  BY Ranks, FS_CardinalityType
<1>3. \A k \in 1..C : at(k) \in L /\ Pos(L, st, at(k)) = k
  <2>1. ASSUME NEW k \in 1..C PROVE \E f \in L : Cardinality(Before(L, st, f)) = k - 1
    <3>1. PICK f \in L : Pos(L, st, f) = k
      BY Ranks
    <3>. QED
      BY <1>2, <3>1 DEF Pos
  <2>2. ASSUME NEW k \in 1..C
        PROVE  at(k) \in L /\ Cardinality(Before(L, st, at(k))) = k - 1
    BY <2>1, PagCards
  <2>. QED
    BY <1>1, <2>2 DEF Pos
<1>. HIDE DEF at
<1>4. QueueOf(L, fr, st) = [k \in 1..C |-> fr[at(k)]]
  BY PagCards DEF QueueOf, at
<1>5. QueueOf(L, fr, st) \in [1..C -> Pages]
  BY <1>3, <1>4 DEF Holds
<1>6. QueueOf(L, fr, st) \in Seq(Pages) /\ Len(QueueOf(L, fr, st)) = C
  BY <1>1, <1>5
<1>7. ASSUME NEW f \in L PROVE QueueOf(L, fr, st)[Pos(L, st, f)] = fr[f]
  <2>1. Pos(L, st, f) \in 1..C
    BY Ranks
  <2>2. at(Pos(L, st, f)) = f
    BY <1>3, <2>1, Ranks
  <2>. QED
    BY <1>4, <2>1, <2>2
<1>. QED
  BY <1>4, <1>6, <1>7

(* A stamp that becomes the newest moves its frame to the end of the queue.        *)
LEMMA PosTouch ==
    ASSUME NEW L, NEW st, NEW h \in L, NEW st2, Stamped(L, st), Newest(L, st, h, st2)
    PROVE  /\ Stamped(L, st2)
           /\ Pos(L, st2, h) = Cardinality(L)
           /\ \A f \in L \ {h} :
                Pos(L, st2, f) = IF st[f] < st[h] THEN Pos(L, st, f) ELSE Pos(L, st, f) - 1
<1>1. /\ \A f \in L : st[f] \in Int /\ st2[f] \in Int
      /\ \A f \in L \ {h} : st2[f] = st[f] /\ st[f] < st2[h]
  BY DEF Stamped, Newest
<1>2. Stamped(L, st2)
  BY <1>1 DEF Stamped
<1>3. Before(L, st2, h) = L \ {h}
  BY <1>1 DEF Before
<1>4. Pos(L, st2, h) = Cardinality(L)
  <2>1. Cardinality(L \ {h}) = Cardinality(L) - 1
    BY FS_RemoveElement DEF Stamped
  <2>2. Cardinality(L) \in Nat
    BY Ranks
  <2>. QED
    BY <1>3, <2>1, <2>2 DEF Pos
<1>5. ASSUME NEW f \in L \ {h}
      PROVE  Pos(L, st2, f) = IF st[f] < st[h] THEN Pos(L, st, f) ELSE Pos(L, st, f) - 1
  <2>1. IsFiniteSet(Before(L, st, f)) /\ Cardinality(Before(L, st, f)) \in Nat
    BY Ranks, FS_CardinalityType
  <2>2. CASE st[f] < st[h]
    <3>1. Before(L, st2, f) = Before(L, st, f)
      BY <1>1, <2>2 DEF Before
    <3>. QED
      BY <2>2, <3>1 DEF Pos
  <2>3. CASE ~(st[f] < st[h])
    <3>1. h \in Before(L, st, f)
      BY <1>1, <2>3 DEF Before, Stamped
    <3>2. Before(L, st2, f) = Before(L, st, f) \ {h}
      BY <1>1 DEF Before
    <3>3. Cardinality(Before(L, st2, f)) = Cardinality(Before(L, st, f)) - 1
      BY <2>1, <3>1, <3>2, FS_RemoveElement
    <3>. QED
      BY <2>1, <2>3, <3>3 DEF Pos
  <2>. QED
    BY <2>2, <2>3
<1>. QED
  BY <1>2, <1>4, <1>5

MovedBack(q, j, e) == Append(SubSeq(q, 1, j - 1) \o SubSeq(q, j + 1, Len(q)), e)

LEMMA QueueTouch ==
    ASSUME NEW L, NEW st, NEW h \in L, NEW st2, Stamped(L, st), Newest(L, st, h, st2),
           NEW fr, Holds(L, fr), NEW fr2, Holds(L, fr2), \A f \in L \ {h} : fr2[f] = fr[f]
    PROVE  QueueOf(L, fr2, st2)
             = MovedBack(QueueOf(L, fr, st), Pos(L, st, h), fr2[h])
<1>. DEFINE q == QueueOf(L, fr, st)
            j == Pos(L, st, h)
            q2 == QueueOf(L, fr2, st2)
            r == MovedBack(q, j, fr2[h])
            C == Cardinality(L)
<1>1. /\ C \in Nat /\ q \in Seq(Pages) /\ Len(q) = C
      /\ j \in 1..C /\ \A f \in L : q[Pos(L, st, f)] = fr[f]
  BY Ranks, QueueAt
<1>. HIDE DEF q, j
<1>2. Stamped(L, st2) /\ Holds(L, fr2)
  BY PosTouch
<1>3. q2 \in Seq(Pages) /\ Len(q2) = C /\ \A f \in L : q2[Pos(L, st2, f)] = fr2[f]
  <2>. HIDE DEF C
  <2>. QED
    BY ONLY <1>2, QueueAt DEF C
<1>4. /\ r \in Seq(Pages) /\ Len(r) = C
      /\ \A k \in 1..C : r[k] = IF k < j THEN q[k] ELSE IF k < C THEN q[k + 1] ELSE fr2[h]
  <2>. DEFINE a == SubSeq(q, 1, j - 1)
              b == SubSeq(q, j + 1, C)
  <2>1. /\ a \in Seq(Pages) /\ Len(a) = j - 1 /\ \A k \in 1..j - 1 : a[k] = q[k]
    <3>1. \A k \in 1..j - 1 : q[k] \in Pages
      BY <1>1, ElementOfSeq
    <3>2. 1 \in Int /\ j - 1 \in Int /\ j - 1 >= 0
      BY <1>1
    <3>3. /\ a \in Seq(Pages) /\ Len(a) = (IF 1 <= j - 1 THEN j - 1 - 1 + 1 ELSE 0)
          /\ \A k \in 1..j - 1 - 1 + 1 : a[k] = q[1 + k - 1]
      BY <3>1, <3>2, SubSeqProperties
    <3>. QED
      BY <3>2, <3>3
  <2>2. /\ b \in Seq(Pages) /\ Len(b) = C - j /\ \A k \in 1..C - j : b[k] = q[j + k]
    <3>1. \A k \in j + 1..C : q[k] \in Pages
      BY <1>1, ElementOfSeq
    <3>2. j + 1 \in Int /\ C \in Int /\ j \in Int /\ j <= C
      BY <1>1
    <3>3. /\ b \in Seq(Pages) /\ Len(b) = (IF j + 1 <= C THEN C - (j + 1) + 1 ELSE 0)
          /\ \A k \in 1..C - (j + 1) + 1 : b[k] = q[j + 1 + k - 1]
      BY <3>1, <3>2, SubSeqProperties
    <3>. QED
      BY <3>2, <3>3
  <2>. HIDE DEF a, b
  <2>3. /\ a \o b \in Seq(Pages) /\ Len(a \o b) = Len(a) + Len(b)
        /\ \A k \in 1..Len(a) + Len(b) :
             (a \o b)[k] = IF k <= Len(a) THEN a[k] ELSE b[k - Len(a)]
    BY <2>1, <2>2, ConcatProperties
  <2>4. fr2[h] \in Pages
    BY DEF Holds
  <2>. DEFINE c == a \o b
  <2>. HIDE DEF c
  <2>5. c \in Seq(Pages) /\ Len(c) = C - 1
    BY <1>1, <2>1, <2>2, <2>3 DEF c
  <2>6. /\ Append(c, fr2[h]) \in Seq(Pages) /\ Len(Append(c, fr2[h])) = C
        /\ \A k \in 1..C - 1 : Append(c, fr2[h])[k] = c[k]
        /\ Append(c, fr2[h])[C] = fr2[h]
    BY <1>1, <2>4, <2>5, AppendProperties
  <2>7. r = Append(c, fr2[h])
    BY <1>1 DEF a, b, c, MovedBack
  <2>8. ASSUME NEW k \in 1..C - 1 PROVE c[k] = IF k < j THEN q[k] ELSE q[k + 1]
    <3>1. C \in Nat /\ j \in 1..C /\ k \in 1..Len(a) + Len(b)
      BY <1>1, <2>1, <2>2
    <3>2. c[k] = IF k <= Len(a) THEN a[k] ELSE b[k - Len(a)]
      BY <2>3, <3>1 DEF c
    <3>3. CASE k < j
      BY <2>1, <3>1, <3>2, <3>3
    <3>4. CASE ~(k < j)
      <4>1. k - Len(a) \in 1..C - j /\ j + (k - Len(a)) = k + 1 /\ ~(k <= Len(a))
        BY <2>1, <3>1, <3>4
      <4>. QED
        BY <2>2, <3>2, <3>4, <4>1
    <3>. QED
      BY <3>3, <3>4
  <2>9. ASSUME NEW k \in 1..C
        PROVE  r[k] = IF k < j THEN q[k] ELSE IF k < C THEN q[k + 1] ELSE fr2[h]
    <3>. HIDE DEF r, C
    <3>1. C \in Nat /\ j \in 1..C
      BY <1>1
    <3>2. CASE k = C
      BY <2>6, <2>7, <3>1, <3>2
    <3>3. CASE k # C
      <4>1. k \in 1..C - 1
        BY <3>1, <3>3
      <4>2. r[k] = c[k]
        BY <2>6, <2>7, <4>1
      <4>. QED
        BY <2>8, <3>1, <4>1, <4>2
    <3>. QED
      BY <3>2, <3>3
  <2>. QED
    BY <2>6, <2>7, <2>9
<1>. HIDE DEF q2, r
<1>5. ASSUME NEW k \in 1..C PROVE q2[k] = r[k]
  <2>1. PICK f \in L : Pos(L, st2, f) = k
    BY <1>2, Ranks
  <2>2. q2[k] = fr2[f]
    BY <1>3, <2>1
  <2>3. CASE f = h
    <3>1. k = C
      BY <2>1, <2>3, PosTouch
    <3>. QED
      BY <1>1, <1>4, <2>2, <2>3, <3>1
  <2>4. CASE f # h
    <3>1. k = IF st[f] < st[h] THEN Pos(L, st, f) ELSE Pos(L, st, f) - 1
      BY <2>1, <2>4, PosTouch
    <3>2. q[Pos(L, st, f)] = fr2[f] /\ Pos(L, st, f) \in 1..C
      BY <1>1, <2>4, Ranks
    <3>3. CASE st[f] < st[h]
      <4>1. k < j
        BY <3>1, <3>3, Ranks DEF j
      <4>. QED
        BY <1>4, <2>2, <3>1, <3>2, <3>3, <4>1
    <3>4. CASE ~(st[f] < st[h])
      <4>1. st[h] < st[f]
        BY <2>4, <3>4 DEF Stamped
      <4>2. j < Pos(L, st, f) /\ k = Pos(L, st, f) - 1
        BY <3>1, <3>4, <4>1, Ranks DEF j
      <4>3. ~(k < j) /\ k < C /\ k + 1 = Pos(L, st, f)
        BY <1>1, <3>2, <4>2
      <4>. QED
        BY <1>4, <2>2, <3>2, <4>3
    <3>. QED
      BY <3>3, <3>4
  <2>. QED
    BY <2>3, <2>4
<1>6. q2 = r
  BY <1>3, <1>4, <1>5, SeqEqual
<1>. QED
  BY <1>6 DEF q2, r, q, j

(* A frame that was empty goes to the end of the queue.                          *)
LEMMA QueueFill ==
    ASSUME NEW L, NEW st, NEW h, NEW st2, Stamped(L, st), h \notin L, Newest(L, st, h, st2),
           NEW fr, Holds(L, fr), NEW fr2, fr2[h] \in Pages, \A f \in L : fr2[f] = fr[f],
           NEW M, M = L \cup {h}
    PROVE  QueueOf(M, fr2, st2) = Append(QueueOf(L, fr, st), fr2[h])
<1>. DEFINE q == QueueOf(L, fr, st)
            q2 == QueueOf(M, fr2, st2)
            r == Append(q, fr2[h])
            C == Cardinality(L)
<1>1. C \in Nat /\ q \in Seq(Pages) /\ Len(q) = C /\ \A f \in L : q[Pos(L, st, f)] = fr[f]
  BY Ranks, QueueAt
<1>2. IsFiniteSet(M) /\ Cardinality(M) = C + 1
  BY FS_AddElement DEF Stamped
<1>3. /\ \A f \in L : /\ st[f] \in Int /\ st2[f] \in Int /\ f # h
                      /\ st2[f] = st[f] /\ st[f] < st2[h]
      /\ st2[h] \in Int
  BY DEF Stamped, Newest
<1>4. Stamped(M, st2) /\ Holds(M, fr2)
  BY <1>2, <1>3 DEF Stamped, Holds, Newest
<1>5. q2 \in Seq(Pages) /\ Len(q2) = C + 1 /\ \A f \in M : q2[Pos(M, st2, f)] = fr2[f]
  BY ONLY <1>2, <1>4, QueueAt
<1>6. /\ r \in Seq(Pages) /\ Len(r) = C + 1 /\ r[C + 1] = fr2[h]
      /\ \A k \in 1..C : r[k] = q[k]
  BY <1>1, AppendProperties
<1>7. Before(M, st2, h) = L /\ \A f \in L : Before(M, st2, f) = Before(L, st, f)
  <2>1. Before(M, st2, h) = L
    BY <1>3 DEF Before
  <2>2. ASSUME NEW f \in L PROVE Before(M, st2, f) = Before(L, st, f)
    BY <1>3 DEF Before
  <2>. QED
    BY <2>1, <2>2
<1>8. Pos(M, st2, h) = C + 1 /\ \A f \in L : Pos(M, st2, f) = Pos(L, st, f)
  BY <1>7 DEF Pos
<1>. HIDE DEF q, q2, r
<1>9. ASSUME NEW k \in 1..C + 1 PROVE q2[k] = r[k]
  <2>1. PICK f \in M : Pos(M, st2, f) = k
    BY <1>2, <1>4, Ranks
  <2>2. q2[k] = fr2[f]
    BY <1>5, <2>1
  <2>3. CASE f = h
    BY <1>6, <1>8, <2>1, <2>2, <2>3
  <2>4. CASE f \in L
    <3>1. k = Pos(L, st, f) /\ k \in 1..C
      BY <1>8, <2>1, <2>4, Ranks
    <3>. QED
      BY <1>1, <1>6, <2>2, <2>4, <3>1
  <2>. QED
    BY <2>3, <2>4
<1>10. q2 = r
  BY <1>5, <1>6, <1>9, SeqEqual
<1>. QED
  BY <1>10 DEF q2, r, q
--------------------------------------------------------------------------------
(* The queue that the refinement mapping of Paging reads off frames and stamps.     *)
Counted == IF algorithm = "fifo" THEN loaded_at ELSE last_used_at
InUse == Full(frame_count, frames)
TheQueue ==
    [k \in 1..Pag!Cardinality(Pag!Loaded) |->
        frames[CHOOSE f \in Pag!Loaded : Pag!Cardinality(Pag!Older(f)) = k - 1]]

LEMMA QueueIs == /\ TheQueue = QueueOf(InUse, frames, Counted)
                 /\ TheQueue' = QueueOf(InUse', frames', Counted')
  BY DEF TheQueue, QueueOf, InUse, Counted, Full, Slots, Before,
         Pag!Loaded, Pag!Frames, Pag!Empty, Pag!Stamp, Pag!Older

LEMMA InUseStamped ==
    ASSUME PagInv
    PROVE  /\ Stamped(InUse, Counted) /\ Holds(InUse, frames)
           /\ i \in Int /\ \A f \in InUse : Counted[f] < i
           /\ InUse \subseteq Slots(frame_count) /\ frame_count \in Nat \ {0}
           /\ IsFiniteSet(Slots(frame_count)) /\ Cardinality(Slots(frame_count)) = frame_count
<1>1. WellFormed(frame_count, frames, Counted, i)
  BY DEF PagInv, Counted
<1>2. IsFiniteSet(Slots(frame_count)) /\ Cardinality(Slots(frame_count)) = frame_count
  <2>1. frame_count \in Nat \ {0} /\ frame_count - 1 \in Int /\ 0 \in Int
    BY <1>1 DEF WellFormed
  <2>. QED
    BY <2>1, FS_Interval DEF Slots
<1>3. InUse \subseteq Slots(frame_count)
  BY DEF InUse, Full
<1>4. IsFiniteSet(InUse)
  BY <1>2, <1>3, FS_Subset
<1>. QED
  BY <1>1, <1>2, <1>3, <1>4 DEF WellFormed, Stamped, Holds, InUse, Full

(* A hit of the code is a hit of the queue.                                       *)
LEMMA CacheHit ==
    ASSUME PagInv, NEW page \in Pages, NEW f,
           UNCHANGED <<algorithm, frame_count>>,
           HitAt(algorithm, frame_count, frames, loaded_at, last_used_at, faults, i,
                 page, f, frames', loaded_at', last_used_at', faults', step')
    PROVE  \E k \in DOMAIN TheQueue :
             /\ TheQueue[k] = page
             /\ TheQueue' = IF algorithm = "lru" THEN MovedBack(TheQueue, k, page)
                                                 ELSE TheQueue
<1>. DEFINE j == Pos(InUse, Counted, f)
<1>1. f \in InUse /\ frames[f] = page /\ frames' = frames /\ InUse' = InUse
  BY DEF HitAt, InUse
<1>2. /\ j \in 1..Cardinality(InUse) /\ TheQueue[j] = page
      /\ DOMAIN TheQueue = 1..Cardinality(InUse)
  BY <1>1, InUseStamped, Ranks, QueueAt, QueueIs
<1>3. CASE algorithm = "lru"
  <2>1. Counted = last_used_at /\ Counted' = [Counted EXCEPT ![f] = i]
    BY <1>3 DEF HitAt, Counted
  <2>2. Newest(InUse, Counted, f, Counted')
    <3>1. Counted \in [Slots(frame_count) -> -1..i - 1]
      BY <2>1 DEF PagInv, WellFormed
    <3>. QED
      BY <1>1, <2>1, <3>1, InUseStamped DEF Newest
  <2>3. QueueOf(InUse, frames, Counted') = MovedBack(TheQueue, j, page)
    BY <1>1, <2>2, InUseStamped, QueueIs, QueueTouch
  <2>. QED
    BY <1>1, <1>2, <1>3, <2>3, QueueIs
<1>4. CASE algorithm # "lru"
  <2>1. Counted' = Counted
    BY <1>4 DEF HitAt, Counted
  <2>2. TheQueue' = TheQueue
    BY <1>1, <2>1, QueueIs
  <2>. QED
    BY <1>2, <1>4, <2>2
<1>. QED
  BY <1>3, <1>4

(* A fault of the code is a load of the queue.                                    *)
LEMMA CacheLoad ==
    ASSUME PagInv, NEW page \in Pages, NEW f,
           UNCHANGED <<algorithm, frame_count>>,
           FaultAt(algorithm, frame_count, frames, loaded_at, last_used_at, faults, i,
                   page, f, frames', loaded_at', last_used_at', faults', step')
    PROVE  /\ \A k \in DOMAIN TheQueue : TheQueue[k] # page
           /\ \/ /\ Len(TheQueue) < frame_count
                 /\ TheQueue' = Append(TheQueue, page)
                 /\ step' = [fault |-> TRUE, evicted |-> -1]
              \/ /\ Len(TheQueue) = frame_count
                 /\ TheQueue' = Append(Tail(TheQueue), page)
                 /\ step' = [fault |-> TRUE, evicted |-> Head(TheQueue)]
<1>1. /\ f \in Slots(frame_count) /\ \A g \in Slots(frame_count) : frames[g] # page
      /\ frames' = [frames EXCEPT ![f] = page] /\ Counted' = [Counted EXCEPT ![f] = i]
      /\ step' = [fault |-> TRUE, evicted |-> frames[f]]
      /\ \/ frames[f] = -1
         \/ \A g \in Slots(frame_count) : frames[g] # -1 /\ Counted[f] <= Counted[g]
  BY DEF FaultAt, Counted
<1>2. /\ Stamped(InUse, Counted) /\ Holds(InUse, frames)
      /\ i \in Int /\ \A g \in InUse : Counted[g] < i
      /\ InUse \subseteq Slots(frame_count) /\ frame_count \in Nat \ {0}
      /\ IsFiniteSet(Slots(frame_count)) /\ Cardinality(Slots(frame_count)) = frame_count
  BY InUseStamped
<1>3. /\ Counted \in [Slots(frame_count) -> -1..i - 1]
      /\ frames \in [Slots(frame_count) -> Pages \cup {-1}] /\ page # -1
  BY Assumed DEF PagInv, WellFormed, Counted
<1>4. \A g \in Slots(frame_count) : /\ Counted'[g] = IF g = f THEN i ELSE Counted[g]
                                    /\ frames'[g] = IF g = f THEN page ELSE frames[g]
  BY <1>1, <1>3
<1>5. /\ TheQueue \in Seq(Pages) /\ Len(TheQueue) = Cardinality(InUse)
      /\ DOMAIN TheQueue = 1..Cardinality(InUse)
      /\ \A g \in InUse : TheQueue[Pos(InUse, Counted, g)] = frames[g]
  BY <1>2, QueueAt, QueueIs
<1>6. \A k \in DOMAIN TheQueue : TheQueue[k] # page
  <2>1. ASSUME NEW k \in 1..Cardinality(InUse) PROVE TheQueue[k] # page
    <3>1. PICK g \in InUse : Pos(InUse, Counted, g) = k
      BY <1>2, Ranks
    <3>. QED
      BY <1>1, <1>2, <1>5, <3>1
  <2>. QED
    BY <1>5, <2>1
<1>7. InUse' = InUse \cup {f}
  BY <1>1, <1>3, <1>4 DEF InUse, Full
<1>8. CASE frames[f] = -1
  <2>1. f \notin InUse
    BY <1>8 DEF InUse, Full
  <2>2. Cardinality(InUse) < frame_count
    <3>1. /\ Cardinality(InUse) <= frame_count
          /\ Cardinality(InUse) = frame_count => InUse = Slots(frame_count)
      BY <1>2, FS_Subset
    <3>. QED
      BY <1>1, <1>2, <2>1, <3>1, Ranks
  <2>3. /\ Newest(InUse, Counted, f, Counted')
        /\ \A g \in InUse : frames'[g] = frames[g]
        /\ frames'[f] = page
    BY <1>1, <1>2, <1>4, <2>1 DEF Newest
  <2>4. QueueOf(InUse', frames', Counted') = Append(QueueOf(InUse, frames, Counted), frames'[f])
    <3>1. frames'[f] \in Pages
      BY <2>3
    <3>. QED
      BY <1>2, <1>7, <2>1, <2>3, <3>1, QueueFill
  <2>. QED
    BY <1>1, <1>5, <1>6, <1>7, <1>8, <2>2, <2>3, <2>4, QueueIs
<1>9. CASE frames[f] # -1
  <2>1. \A g \in Slots(frame_count) : frames[g] # -1 /\ Counted[f] <= Counted[g]
    BY <1>1, <1>9
  <2>2. InUse = Slots(frame_count) /\ f \in InUse /\ InUse' = InUse
    BY <1>1, <1>7, <2>1 DEF InUse, Full
  <2>3. Pos(InUse, Counted, f) = 1
    <3>1. Before(InUse, Counted, f) = {}
      BY <1>2, <2>1, <2>2 DEF Before, Stamped
    <3>. QED
      BY <3>1, FS_EmptySet DEF Pos
  <2>4. /\ Newest(InUse, Counted, f, Counted') /\ Holds(InUse, frames')
        /\ \A g \in InUse \ {f} : frames'[g] = frames[g]
        /\ frames'[f] = page
    BY <1>1, <1>2, <1>4, <2>2 DEF Newest, Holds
  <2>5. QueueOf(InUse, frames', Counted')
          = MovedBack(TheQueue, 1, frames'[f])
    BY <1>2, <2>2, <2>3, <2>4, QueueTouch, QueueIs
  <2>6. TheQueue # << >> /\ Head(TheQueue) = frames[f]
    BY <1>2, <1>5, <2>2, <2>3
  <2>7. MovedBack(TheQueue, 1, page) = Append(Tail(TheQueue), page)
    <3>1. SubSeq(TheQueue, 1, 0) = << >>
      BY SubSeqEmpty
    <3>2. Tail(TheQueue) = SubSeq(TheQueue, 2, Len(TheQueue)) /\ Tail(TheQueue) \in Seq(Pages)
      BY <1>5, <2>6, TailIsSubSeq, HeadTailProperties
    <3>3. << >> \o Tail(TheQueue) = Tail(TheQueue)
      BY <3>2, ConcatEmptySeq
    <3>. QED
      BY <3>1, <3>2, <3>3, 1 - 1 = 0, 1 + 1 = 2 DEF MovedBack
  <2>. QED
    BY <1>1, <1>2, <1>5, <1>6, <2>2, <2>4, <2>5, <2>6, <2>7, QueueIs
<1>. QED
  BY <1>8, <1>9

(* Whatever the paging mode does is a step of the queue, or leaves it alone.       *)
LEMMA CacheSame ==
    ASSUME UNCHANGED <<algorithm, paging_vars>>
    PROVE  UNCHANGED Pag!Cache!vars
  BY DEF paging_vars, Pag!Cache!vars, Pag!Loaded, Pag!Older, Pag!Stamp, Pag!Frames

LEMMA CacheStep ==
    ASSUME PagInv, Pag!PairNext
    PROVE  Pag!Cache!Next \/ UNCHANGED Pag!Cache!vars
<1>1. ASSUME NEW page \in Pages, Pag!Reference(page) PROVE Pag!Cache!Next
  <2>1. UNCHANGED <<algorithm, frame_count>>
    BY <1>1 DEF Pag!Reference
  <2>2. PICK f \in Slots(frame_count) :
           \/ HitAt(algorithm, frame_count, frames, loaded_at, last_used_at, faults, i,
                    page, f, frames', loaded_at', last_used_at', faults', step')
           \/ FaultAt(algorithm, frame_count, frames, loaded_at, last_used_at, faults, i,
                      page, f, frames', loaded_at', last_used_at', faults', step')
    BY <1>1, SmallStep
  <2>3. CASE HitAt(algorithm, frame_count, frames, loaded_at, last_used_at, faults, i,
                   page, f, frames', loaded_at', last_used_at', faults', step')
    <3>1. \E k \in DOMAIN TheQueue :
             /\ TheQueue[k] = page
             /\ TheQueue' = IF algorithm = "lru" THEN MovedBack(TheQueue, k, page)
                                                 ELSE TheQueue
      BY <2>1, <2>3, CacheHit
    <3>2. step' = [fault |-> FALSE, evicted |-> -1] /\ faults' = faults
      BY <2>3 DEF HitAt
    <3>3. Pag!Cache!Hit(page)
      BY <3>1, <3>2
         DEF Pag!Cache!Hit, Pag!Cache!RemoveAt, MovedBack, TheQueue, Pag!Empty
    <3>. QED
      BY <2>1, <3>3 DEF Pag!Cache!Next
  <2>4. CASE FaultAt(algorithm, frame_count, frames, loaded_at, last_used_at, faults, i,
                     page, f, frames', loaded_at', last_used_at', faults', step')
    <3>1. /\ \A k \in DOMAIN TheQueue : TheQueue[k] # page
          /\ \/ /\ Len(TheQueue) < frame_count
                /\ TheQueue' = Append(TheQueue, page)
                /\ step' = [fault |-> TRUE, evicted |-> -1]
             \/ /\ Len(TheQueue) = frame_count
                /\ TheQueue' = Append(Tail(TheQueue), page)
                /\ step' = [fault |-> TRUE, evicted |-> Head(TheQueue)]
      BY <2>1, <2>4, CacheLoad
    <3>2. faults' = faults + 1
      BY <2>4 DEF FaultAt
    <3>3. page \notin {TheQueue[k] : k \in DOMAIN TheQueue}
      BY <3>1
    <3>4. Pag!Cache!Load(page)
      BY <3>1, <3>2, <3>3 DEF Pag!Cache!Load, Pag!Cache!Resident, TheQueue, Pag!Empty
    <3>. QED
      BY <2>1, <3>4 DEF Pag!Cache!Next
  <2>. QED
    BY <2>2, <2>3, <2>4
<1>2. ASSUME Pag!End PROVE UNCHANGED Pag!Cache!vars
  BY <1>2 DEF Pag!End, Pag!Cache!vars, Pag!Loaded, Pag!Older, Pag!Stamp, Pag!Frames
<1>. QED
  BY <1>1, <1>2 DEF Pag!PairNext

LEMMA CacheInit == Pag!PairInit => Pag!Cache!Init
<1>. SUFFICES ASSUME Pag!PairInit PROVE Pag!Cache!Init
  OBVIOUS
<1>1. Pag!Loaded = {}
  BY DEF Pag!PairInit, Pag!Init, Pag!Loaded
<1>2. Pag!Cardinality(Pag!Loaded) = 0
  BY <1>1, FS_EmptySet, PagCards
<1>3. TheQueue = << >>
  BY <1>2 DEF TheQueue
<1>4. /\ algorithm \in {"fifo", "lru"} /\ frame_count \in Nat \ {0}
      /\ step = [fault |-> FALSE, evicted |-> Pag!Empty] /\ faults = 0
  BY Assumed DEF Pag!PairInit, Pag!Init
<1>. QED
  BY <1>3, <1>4 DEF Pag!Cache!Init, TheQueue
--------------------------------------------------------------------------------
(* Dynamic partitions.  Lists of blocks that tile the memory from 0 to m.           *)
Blocks == [start : Nat, size : Nat \ {0}, owner : Owners \cup {Part!NoOwner}]

Chained(s) ==
    /\ s \in Seq(Blocks) /\ s # << >> /\ s[1].start = 0
    /\ \A k \in 1..Len(s) - 1 : s[k + 1].start = s[k].start + s[k].size
Separate(s) ==
    \A k \in 1..Len(s) - 1 : ~(s[k].owner = Part!NoOwner /\ s[k + 1].owner = Part!NoOwner)
Regions(s) == {s[k] : k \in {x \in 1..Len(s) : s[x].owner # Part!NoOwner}}
OneEach(s) == \A a, b \in Regions(s) : a.owner = b.owner => a = b
End(b) == b.start + b.size
Tiled(s, m) == Chained(s) /\ End(s[Len(s)]) = m

LEMMA BlockFacts ==
    ASSUME NEW s \in Seq(Blocks)
    PROVE  /\ Len(s) \in Nat /\ DOMAIN s = 1..Len(s)
           /\ s = << >> <=> Len(s) = 0
           /\ \A k \in 1..Len(s) :
                /\ s[k] \in Blocks /\ s[k].start \in Nat /\ s[k].size \in Nat /\ s[k].size > 0
                /\ s[k].owner \in Owners \cup {Part!NoOwner}
                /\ s[k] = [start |-> s[k].start, size |-> s[k].size, owner |-> s[k].owner]
<1>1. ASSUME NEW b \in Blocks
      PROVE  /\ b.start \in Nat /\ b.size \in Nat /\ b.size > 0
             /\ b.owner \in Owners \cup {Part!NoOwner}
             /\ b = [start |-> b.start, size |-> b.size, owner |-> b.owner]
  BY DEF Blocks
<1>2. Len(s) \in Nat /\ DOMAIN s = 1..Len(s) /\ (s = << >> <=> Len(s) = 0)
  OBVIOUS
<1>3. \A k \in 1..Len(s) : s[k] \in Blocks
  BY ElementOfSeq
<1>. QED
  BY <1>1, <1>2, <1>3

(* The blocks lie one after the other.                                           *)
LEMMA InOrder ==
    ASSUME NEW s, Chained(s)
    PROVE  /\ \A j, k \in 1..Len(s) : j < k => End(s[j]) <= s[k].start
           /\ \A k \in 1..Len(s) : End(s[k]) <= End(s[Len(s)])
           /\ \A j, k \in 1..Len(s) : s[j].start < s[k].start <=> j < k
           /\ \A j, k \in 1..Len(s) : s[j].start = s[k].start => j = k
<1>1. /\ Len(s) \in Nat /\ Len(s) > 0
      /\ \A k \in 1..Len(s) : s[k].start \in Nat /\ s[k].size \in Nat /\ s[k].size > 0
  <2>1. s \in Seq(Blocks) /\ s # << >>
    BY DEF Chained
  <2>2. Len(s) \in Nat
    BY <2>1, BlockFacts
  <2>3. Len(s) > 0
    BY <2>1, <2>2, BlockFacts
  <2>4. ASSUME NEW k \in 1..Len(s) PROVE s[k].start \in Nat
    BY <2>1, BlockFacts
  <2>5. ASSUME NEW k \in 1..Len(s) PROVE s[k].size \in Nat /\ s[k].size > 0
    BY <2>1, BlockFacts
  <2>. QED
    BY <2>2, <2>3, <2>4, <2>5
<1>2. ASSUME NEW j \in 1..Len(s) PROVE \A k \in 1..Len(s) : j < k => End(s[j]) <= s[k].start
  <2>. DEFINE Wrong == {k \in 1..Len(s) : j < k /\ ~(End(s[j]) <= s[k].start)}
  <2>. SUFFICES ASSUME Wrong # {} PROVE FALSE
    OBVIOUS
  <2>1. Wrong \in SUBSET Nat
    BY <1>1
  <2>2. PICK k \in Wrong : \A x \in Wrong : k <= x
    BY <2>1, LeastElement
  <2>3. k - 1 \in 1..Len(s) - 1 /\ k - 1 \in 1..Len(s) /\ k - 1 + 1 = k /\ j <= k - 1
    BY <1>1, <2>2
  <2>4. s[k].start = End(s[k - 1])
    <3>1. s[k - 1 + 1].start = s[k - 1].start + s[k - 1].size
      BY <2>3 DEF Chained
    <3>. QED
      BY <2>3, <3>1 DEF End
  <2>5. CASE k - 1 = j
    BY <1>1, <2>2, <2>4, <2>5 DEF End
  <2>6. CASE k - 1 # j
    <3>1. k - 1 \notin Wrong
      BY <1>1, <2>2, <2>3
    <3>2. End(s[j]) <= s[k - 1].start
      BY <1>1, <2>3, <2>6, <3>1
    <3>3. /\ s[k - 1].start \in Nat /\ s[k - 1].size \in Nat
          /\ s[j].start \in Nat /\ s[j].size \in Nat
      BY <1>1, <2>3
    <3>4. End(s[j]) <= s[k].start
      BY <2>4, <3>2, <3>3 DEF End
    <3>. QED
      BY <2>2, <3>4
  <2>. QED
    BY <2>5, <2>6
<1>3. ASSUME NEW k \in 1..Len(s) PROVE End(s[k]) <= End(s[Len(s)])
  <2>1. CASE k = Len(s)
    BY <1>1, <2>1 DEF End
  <2>2. CASE k # Len(s)
    <3>1. End(s[k]) <= s[Len(s)].start
      BY <1>1, <1>2, <2>2
    <3>. QED
      BY <1>1, <3>1 DEF End
  <2>. QED
    BY <2>1, <2>2
<1>4. ASSUME NEW j \in 1..Len(s), NEW k \in 1..Len(s)
      PROVE  /\ s[j].start < s[k].start <=> j < k
             /\ s[j].start = s[k].start => j = k
  <2>1. j < k => s[j].start < s[k].start
    <3>1. j < k => End(s[j]) <= s[k].start
      BY <1>2
    <3>. QED
      BY <1>1, <3>1 DEF End
  <2>2. k < j => s[k].start < s[j].start
    <3>1. k < j => End(s[k]) <= s[j].start
      BY <1>2
    <3>. QED
      BY <1>1, <3>1 DEF End
  <2>. QED
    BY <1>1, <2>1, <2>2
<1>. QED
  BY <1>2, <1>3, <1>4
--------------------------------------------------------------------------------
(* The scan of merge_free_partitions.                                            *)
LEMMA MergeOneFacts ==
    ASSUME NEW c, Chained(c), Separate(c),
           NEW p \in Blocks, p.start = End(c[Len(c)]),
           NEW n, n = Len(c),
           NEW d, d = Part!MergeOne(c, p)
    PROVE  /\ Chained(d) /\ Separate(d) /\ End(d[Len(d)]) = End(p)
           /\ d[Len(d)].owner = Part!NoOwner <=> p.owner = Part!NoOwner
           /\ Regions(d) = Regions(c) \cup {b \in {p} : b.owner # Part!NoOwner}
<1>1. c \in Seq(Blocks) /\ c # << >> /\ c[1].start = 0
      /\ \A k \in 1..n - 1 : c[k + 1].start = c[k].start + c[k].size
  BY DEF Chained
<1>2. n \in Nat /\ n > 0 /\ DOMAIN c = 1..n
  <2>1. n \in Nat /\ DOMAIN c = 1..n
    BY <1>1, BlockFacts
  <2>. QED
    BY <1>1, <2>1, BlockFacts
<1>3. \A k \in 1..n : c[k].start \in Nat /\ c[k].size \in Nat /\ c[k].size > 0
  <2>1. \A k \in 1..n : c[k].start \in Nat
    BY <1>1, BlockFacts
  <2>2. \A k \in 1..n : c[k].size \in Nat /\ c[k].size > 0
    BY <1>1, BlockFacts
  <2>. QED
    BY <2>1, <2>2
<1>4. \A k \in 1..n : c[k] \in Blocks
  BY <1>1, ElementOfSeq
<1>5. p.start \in Nat /\ p.size \in Nat /\ p.size > 0
  BY DEF Blocks
<1>6. Part!Last(c) = c[n]
  BY DEF Part!Last
<1>7. CASE c[n].owner = Part!NoOwner /\ p.owner = Part!NoOwner
  <2>1. d = [c EXCEPT ![n].size = @ + p.size]
    BY <1>1, <1>6, <1>7 DEF Part!MergeOne, Part!IsFree
  <2>. DEFINE e == [c[n] EXCEPT !.size = @ + p.size]
  <2>2. /\ e \in Blocks /\ e.start = c[n].start /\ e.size = c[n].size + p.size
        /\ e.owner = Part!NoOwner
    BY <1>2, <1>3, <1>4, <1>5, <1>7 DEF Blocks
  <2>3. d = [c EXCEPT ![n] = e]
    BY <2>1
  <2>. HIDE DEF e
  <2>4. Len(d) = n
    BY ONLY <1>1, <1>2, <2>2, <2>3, ExceptSeq
  <2>14. d \in Seq(Blocks)
    BY ONLY <1>1, <1>2, <2>2, <2>3, ExceptSeq
  <2>5. \A k \in 1..n : d[k] = IF k = n THEN e ELSE c[k]
    BY <1>1, <1>2, <2>2, <2>3, ExceptSeq
  <2>6. d # << >>
    BY ONLY <1>2, <2>4, <2>14, EmptySeq
  <2>7. d[1].start = 0
    BY ONLY <1>1, <1>2, <2>2, <2>5
  <2>8. ASSUME NEW k \in 1..Len(d) - 1 PROVE d[k + 1].start = d[k].start + d[k].size
    <3>1. k \in 1..n - 1 /\ k \in 1..n /\ k + 1 \in 1..n /\ k # n
      <4>1. k \in 1..n - 1
        BY ONLY <2>4, k \in 1..Len(d) - 1
      <4>. QED
        BY ONLY <1>2, <4>1
    <3>2. d[k] = c[k] /\ d[k + 1].start = c[k + 1].start
      BY <2>2, <2>5, <3>1
    <3>. QED
      BY <1>1, <3>1, <3>2
  <2>9. Chained(d)
    BY <2>14, <2>6, <2>7, <2>8 DEF Chained
  <2>10. ASSUME NEW k \in 1..Len(d) - 1,
                d[k].owner = Part!NoOwner, d[k + 1].owner = Part!NoOwner
         PROVE  FALSE
    <3>1. k \in 1..n - 1 /\ k \in 1..n /\ k + 1 \in 1..n /\ k # n
      <4>1. k \in 1..n - 1
        BY ONLY <2>4, k \in 1..Len(d) - 1
      <4>. QED
        BY ONLY <1>2, <4>1
    <3>2. c[k].owner = Part!NoOwner /\ c[k + 1].owner = Part!NoOwner
      BY <1>7, <2>5, <2>10, <3>1
    <3>. QED
      BY <3>1, <3>2 DEF Separate
  <2>11. End(d[Len(d)]) = End(p)
    <3>1. d[n] = e /\ n \in 1..n
      BY ONLY <1>2, <2>5
    <3>2. c[n].start \in Nat /\ c[n].size \in Nat
      BY ONLY <1>3, <3>1
    <3>3. p.start = c[n].start + c[n].size
      BY DEF End
    <3>4. e.start + e.size = p.start + p.size
      BY ONLY <1>5, <2>2, <3>2, <3>3
    <3>. QED
      BY <2>4, <3>1, <3>4 DEF End
  <2>12. d[Len(d)].owner = Part!NoOwner
    <3>1. d[n] = e
      BY ONLY <1>2, <2>5
    <3>. QED
      BY <2>2, <2>4, <3>1
  <2>13. Regions(d) = Regions(c)
    BY <1>2, <1>7, <2>2, <2>4, <2>5 DEF Regions
  <2>. QED
    BY <1>7, <2>9, <2>10, <2>11, <2>12, <2>13 DEF Separate
<1>8. CASE ~(c[n].owner = Part!NoOwner /\ p.owner = Part!NoOwner)
  <2>1. d = Append(c, p)
    BY <1>1, <1>6, <1>8 DEF Part!MergeOne, Part!IsFree
  <2>2. /\ d \in Seq(Blocks) /\ d # << >>
        /\ \A k \in 1..n : d[k] = c[k]
        /\ d[n + 1] = p
    BY <1>1, <2>1, AppendProperties
  <2>9. Len(d) = n + 1
    BY <1>1, <2>1, AppendProperties
  <2>3. d[1].start = 0
    BY <1>1, <1>2, <2>2
  <2>4. ASSUME NEW k \in 1..Len(d) - 1 PROVE d[k + 1].start = d[k].start + d[k].size
    <3>1. CASE k = n
      BY <1>2, <2>2, <2>9, <3>1 DEF End
    <3>2. CASE k # n
      <4>1. k \in 1..n - 1 /\ k \in 1..n /\ k + 1 \in 1..n
        <5>1. k \in 1..n
          BY ONLY <1>2, <2>9, k \in 1..Len(d) - 1
        <5>. QED
          BY ONLY <1>2, <3>2, <5>1
      <4>. QED
        BY <1>1, <2>2, <4>1
    <3>. QED
      BY <3>1, <3>2
  <2>5. Chained(d)
    BY <2>2, <2>3, <2>4 DEF Chained
  <2>6. ASSUME NEW k \in 1..Len(d) - 1,
               d[k].owner = Part!NoOwner, d[k + 1].owner = Part!NoOwner
        PROVE  FALSE
    <3>1. CASE k = n
      BY <1>2, <1>8, <2>2, <2>6, <2>9, <3>1
    <3>2. CASE k # n
      <4>1. k \in 1..n - 1 /\ k \in 1..n /\ k + 1 \in 1..n
        <5>1. k \in 1..n
          BY ONLY <1>2, <2>9, k \in 1..Len(d) - 1
        <5>. QED
          BY ONLY <1>2, <3>2, <5>1
      <4>2. c[k].owner = Part!NoOwner /\ c[k + 1].owner = Part!NoOwner
        BY <2>2, <2>6, <4>1
      <4>. QED
        BY <4>1, <4>2 DEF Separate
    <3>. QED
      BY <3>1, <3>2
  <2>7. d[Len(d)] = p
    <3>1. d[n + 1] = p
      BY ONLY <2>2
    <3>. QED
      BY ONLY <2>9, <3>1, Zenon
  <2>8. Regions(d) = Regions(c) \cup {b \in {p} : b.owner # Part!NoOwner}
    BY <1>2, <2>2, <2>9 DEF Regions
  <2>. QED
    BY <2>5, <2>6, <2>7, <2>8 DEF Separate
<1>. QED
  BY <1>7, <1>8

IsScan(f, s, m) ==
    f = [j \in 0..m |-> IF j = 0 THEN << >> ELSE Part!MergeOne(f[j - 1], s[j])]

LEMMA ScanExists ==
    ASSUME NEW s, NEW n \in Nat
    PROVE  \E f : IsScan(f, s, n)
<1>. DEFINE Wrong == {m \in Nat : ~\E f : IsScan(f, s, m)}
<1>. SUFFICES ASSUME Wrong # {} PROVE FALSE
  OBVIOUS
<1>1. Wrong \in SUBSET Nat
  OBVIOUS
<1>2. PICK m \in Wrong : \A x \in Wrong : m <= x
  BY <1>1, LeastElement
<1>3. CASE m = 0
  <2>. DEFINE g == [j \in 0..0 |-> << >>]
  <2>1. g = [j \in 0..0 |-> IF j = 0 THEN << >> ELSE Part!MergeOne(g[j - 1], s[j])]
    <3>1. \A j \in 0..0 : j = 0
      OBVIOUS
    <3>. QED
      BY <3>1
  <2>. HIDE DEF g
  <2>2. IsScan(g, s, 0)
    BY <2>1 DEF IsScan
  <2>. QED
    BY <1>2, <1>3, <2>2
<1>4. CASE m # 0
  <2>1. m \in Nat /\ m - 1 \in Nat /\ ~(m <= m - 1)
    BY <1>2, <1>4
  <2>2. PICK f : IsScan(f, s, m - 1)
    BY <1>2, <2>1
  <2>. DEFINE g == [j \in 0..m |-> IF j = m THEN Part!MergeOne(f[m - 1], s[m]) ELSE f[j]]
  <2>3. ASSUME NEW j \in 0..m
        PROVE  g[j] = IF j = 0 THEN << >> ELSE Part!MergeOne(g[j - 1], s[j])
    <3>1. CASE j = m
      <4>1. m - 1 \in 0..m /\ m - 1 # m /\ j # 0
        BY <2>1, <1>4, <3>1
      <4>2. g[j - 1] = f[m - 1]
        BY <3>1, <4>1
      <4>3. g[j] = Part!MergeOne(f[m - 1], s[m])
        BY <3>1
      <4>. QED
        BY <3>1, <4>1, <4>2, <4>3
    <3>2. CASE j # m
      <4>1. j \in 0..m - 1
        BY <2>1, <3>2
      <4>2. f[j] = IF j = 0 THEN << >> ELSE Part!MergeOne(f[j - 1], s[j])
        BY <2>2, <4>1 DEF IsScan
      <4>3. g[j] = f[j]
        BY <3>2
      <4>4. ASSUME j # 0 PROVE g[j - 1] = f[j - 1]
        <5>1. j - 1 \in 0..m /\ j - 1 # m
          BY <2>1, <4>1, <4>4
        <5>. QED
          BY <5>1
      <4>. QED
        BY <4>2, <4>3, <4>4
    <3>. QED
      BY <3>1, <3>2
  <2>4. DOMAIN g = 0..m /\ g = [j \in DOMAIN g |-> g[j]]
    OBVIOUS
  <2>. HIDE DEF g
  <2>5. IsScan(g, s, m)
    BY <2>3, <2>4 DEF IsScan
  <2>. QED
    BY <1>2, <2>5
<1>. QED
  BY <1>3, <1>4

(* After j steps the scan holds the first j blocks, their free neighbours merged.     *)
Scanned(c, s, j) ==
    /\ Chained(c) /\ Separate(c) /\ End(c[Len(c)]) = End(s[j])
    /\ Regions(c) = {s[k] : k \in {x \in 1..j : s[x].owner # Part!NoOwner}}

LEMMA MergedFacts ==
    ASSUME NEW s, Chained(s), NEW k, NEW r, r = Part!Merged(s, k)
    PROVE  /\ Chained(r) /\ Separate(r) /\ End(r[Len(r)]) = End(s[Len(s)])
           /\ Regions(r) = Regions(s)
<1>1. s \in Seq(Blocks) /\ s # << >>
  BY DEF Chained
<1>2. Len(s) \in Nat
  BY <1>1
<1>3. Len(s) > 0
  BY <1>1, <1>2, BlockFacts
<1>4. \A j \in 1..Len(s) : s[j] \in Blocks
  BY <1>1, ElementOfSeq
<1>. DEFINE scan == CHOOSE f : IsScan(f, s, Len(s))
<1>5. IsScan(scan, s, Len(s))
  BY <1>2, ScanExists
<1>6. r = scan[Len(s)]
  BY DEF Part!Merged, IsScan
<1>. HIDE DEF scan
<1>7. /\ scan[0] = << >>
      /\ \A j \in 1..Len(s) : scan[j] = Part!MergeOne(scan[j - 1], s[j])
  <2>1. 0 \in 0..Len(s)
    BY <1>2
  <2>2. scan[0] = << >>
    BY <1>5, <2>1 DEF IsScan
  <2>3. ASSUME NEW j \in 1..Len(s) PROVE scan[j] = Part!MergeOne(scan[j - 1], s[j])
    <3>1. j \in 0..Len(s) /\ j # 0
      BY <1>2
    <3>. QED
      BY <1>5, <3>1 DEF IsScan
  <2>. QED
    BY <2>2, <2>3
<1>8. ASSUME NEW j \in 1..Len(s) PROVE Scanned(scan[j], s, j)
  <2>. DEFINE Wrong == {x \in 1..Len(s) : ~Scanned(scan[x], s, x)}
  <2>. SUFFICES ASSUME Wrong # {} PROVE FALSE
    OBVIOUS
  <2>1. Wrong \in SUBSET Nat
    BY <1>2
  <2>2. PICK m \in Wrong : \A x \in Wrong : m <= x
    BY <2>1, LeastElement
  <2>3. s[m] \in Blocks /\ m \in 1..Len(s)
    BY <1>4, <2>2
  <2>4. CASE m = 1
    <3>1. scan[0] = << >>
      BY <1>7
    <3>2. scan[m] = Part!MergeOne(scan[0], s[m])
      BY <1>7, <2>3, <2>4
    <3>3. scan[m] = <<s[1]>>
      BY <2>4, <3>1, <3>2 DEF Part!MergeOne
    <3>4. Scanned(<<s[1]>>, s, 1)
      <4>. DEFINE c == <<s[1]>>
      <4>1. c \in Seq(Blocks) /\ c # << >> /\ c[1] = s[1]
        BY <2>3, <2>4
      <4>2. Len(c) = 1
        OBVIOUS
      <4>3. s[1].start = 0
        BY DEF Chained
      <4>. HIDE DEF c
      <4>4. 1..Len(c) - 1 = {}
        BY <4>2
      <4>5. Chained(c) /\ Separate(c) /\ End(c[Len(c)]) = End(s[1])
        BY <4>1, <4>2, <4>3, <4>4 DEF Chained, Separate
      <4>6. Regions(c) = {s[x] : x \in {y \in 1..1 : s[y].owner # Part!NoOwner}}
        <5>1. Regions(c) = {c[x] : x \in {y \in 1..1 : c[y].owner # Part!NoOwner}}
          BY <4>2 DEF Regions
        <5>2. \A x \in 1..1 : c[x] = s[x]
          BY <4>1
        <5>. QED
          BY <5>1, <5>2
      <4>. QED
        BY <4>5, <4>6 DEF Scanned, c
    <3>. QED
      BY <2>2, <2>4, <3>3, <3>4
  <2>5. CASE m # 1
    <3>1. m - 1 \in 1..Len(s) - 1 /\ m - 1 \in 1..Len(s) /\ ~(m <= m - 1) /\ m - 1 + 1 = m
      BY <1>2, <2>3, <2>5
    <3>. DEFINE c == scan[m - 1]
                p == s[m]
    <3>2. Scanned(c, s, m - 1)
      BY <2>2, <3>1
    <3>3. scan[m] = Part!MergeOne(c, p)
      BY <1>7, <2>3
    <3>4. p.start = End(s[m - 1])
      <4>1. s[m - 1 + 1].start = s[m - 1].start + s[m - 1].size
        BY <3>1 DEF Chained
      <4>. QED
        BY <3>1, <4>1 DEF End
    <3>. HIDE DEF c
    <3>5. Chained(c) /\ Separate(c) /\ p.start = End(c[Len(c)]) /\ p \in Blocks
      BY <2>3, <3>2, <3>4 DEF Scanned
    <3>. HIDE DEF p
    <3>. DEFINE d == scan[m]
    <3>6. d = Part!MergeOne(c, p)
      BY <3>3
    <3>. HIDE DEF d
    <3>7. /\ Chained(d) /\ Separate(d) /\ End(d[Len(d)]) = End(p)
          /\ Regions(d) = Regions(c) \cup {b \in {p} : b.owner # Part!NoOwner}
      BY <3>5, <3>6, MergeOneFacts
    <3>8. Regions(d) = {s[x] : x \in {y \in 1..m : s[y].owner # Part!NoOwner}}
      <4>1. Regions(c) = {s[x] : x \in {y \in 1..m - 1 : s[y].owner # Part!NoOwner}}
        BY <3>2 DEF Scanned
      <4>2. \A y : y \in 1..m <=> y \in 1..m - 1 \/ y = m
        BY <1>2, <2>3
      <4>. QED
        BY <3>7, <4>1, <4>2 DEF p
    <3>9. Scanned(d, s, m)
      BY <3>7, <3>8 DEF Scanned, p
    <3>. QED
      BY <2>2, <3>9 DEF d
  <2>. QED
    BY <2>4, <2>5
<1>9. Scanned(r, s, Len(s))
  <2>1. Len(s) \in 1..Len(s)
    BY <1>2, <1>3
  <2>. QED
    BY <1>6, <1>8, <2>1
<1>. QED
  BY <1>9 DEF Scanned, Regions
--------------------------------------------------------------------------------
(* The list after an allocation: block k is replaced by b and by what is left over. *)
Splice(s, k, b, e) == SubSeq(s, 1, k - 1) \o <<b>> \o e \o SubSeq(s, k + 1, Len(s))

MaySplice(s, k, b, e) ==
    s \in Seq(Blocks) /\ k \in 1..Len(s) /\ b \in Blocks /\ e \in Seq(Blocks)
Spliceds(t, s, k, b, e) ==
    /\ t \in Seq(Blocks) /\ Len(t) = Len(s) + Len(e)
    /\ \A x \in 1..Len(s) + Len(e) : t[x] = IF x < k THEN s[x] ELSE IF x = k THEN b
                                          ELSE IF x <= k + Len(e) THEN e[x - k]
                                          ELSE s[x - Len(e)]

LEMMA Spliced ==
    ASSUME NEW s, NEW k, NEW b, NEW e, MaySplice(s, k, b, e)
    PROVE  Spliceds(Splice(s, k, b, e), s, k, b, e)
<1>. DEFINE L == Len(s)
            c == Len(e)
            t == Splice(s, k, b, e)
<1>16. /\ s \in Seq(Blocks) /\ L = Len(s) /\ k \in 1..L /\ b \in Blocks /\ e \in Seq(Blocks)
      /\ c = Len(e) /\ t = Splice(s, k, b, e)
  BY DEF MaySplice
<1>. HIDE DEF L, c, t
<1>1. L \in Nat /\ c \in Nat /\ k \in Nat /\ 1 <= k /\ k <= L
  BY <1>16
<1>. DEFINE a == SubSeq(s, 1, k - 1)
            f == SubSeq(s, k + 1, L)
            u == a \o <<b>>
            v == u \o e
<1>2. /\ a \in Seq(Blocks) /\ Len(a) = k - 1 /\ \A x \in 1..k - 1 : a[x] = s[x]
  <2>1. \A x \in 1..k - 1 : s[x] \in Blocks
    BY <1>16, ElementOfSeq
  <2>2. 1 \in Int /\ k - 1 \in Int /\ k - 1 >= 0
    BY <1>1
  <2>3. /\ a \in Seq(Blocks) /\ Len(a) = (IF 1 <= k - 1 THEN k - 1 - 1 + 1 ELSE 0)
        /\ \A x \in 1..k - 1 - 1 + 1 : a[x] = s[1 + x - 1]
    BY <2>1, <2>2, SubSeqProperties
  <2>. QED
    BY <2>2, <2>3
<1>3. /\ f \in Seq(Blocks) /\ Len(f) = L - k /\ \A x \in 1..L - k : f[x] = s[k + x]
  <2>1. \A x \in k + 1..L : s[x] \in Blocks
    BY <1>16, ElementOfSeq
  <2>2. k + 1 \in Int /\ L \in Int /\ k \in Int /\ k <= L
    BY <1>1
  <2>3. /\ f \in Seq(Blocks) /\ Len(f) = (IF k + 1 <= L THEN L - (k + 1) + 1 ELSE 0)
        /\ \A x \in 1..L - (k + 1) + 1 : f[x] = s[k + 1 + x - 1]
    BY <2>1, <2>2, SubSeqProperties
  <2>. QED
    BY <2>2, <2>3
<1>. HIDE DEF a, f
<1>4. <<b>> \in Seq(Blocks) /\ Len(<<b>>) = 1 /\ <<b>>[1] = b
  BY <1>16
<1>5. /\ u \in Seq(Blocks) /\ Len(u) = k
      /\ \A x \in 1..k - 1 : u[x] = s[x]
      /\ u[k] = b
  <2>1. /\ u \in Seq(Blocks) /\ Len(u) = Len(a) + Len(<<b>>)
        /\ \A x \in 1..Len(a) + Len(<<b>>) :
             u[x] = IF x <= Len(a) THEN a[x] ELSE <<b>>[x - Len(a)]
    BY <1>2, <1>4, <1>16, ConcatProperties
  <2>. HIDE DEF u
  <2>2. \A x \in 1..k : u[x] = IF x <= k - 1 THEN s[x] ELSE <<b>>[x - (k - 1)]
    BY ONLY <1>1, <1>2, <1>4, <2>1
  <2>3. Len(u) = k
    BY ONLY <1>1, <1>2, <1>4, <2>1
  <2>4. k \in 1..k /\ ~(k <= k - 1) /\ k - (k - 1) = 1
    BY ONLY <1>1
  <2>5. u[k] = b
    BY ONLY <1>4, <2>2, <2>4
  <2>6. \A x \in 1..k - 1 : u[x] = s[x]
    BY ONLY <1>1, <2>2
  <2>. QED
    BY <2>1, <2>3, <2>5, <2>6
<1>. HIDE DEF u
<1>6. /\ v \in Seq(Blocks) /\ Len(v) = k + c
      /\ \A x \in 1..k : v[x] = u[x]
      /\ \A x \in 1..c : v[k + x] = e[x]
  <2>1. /\ v \in Seq(Blocks) /\ Len(v) = Len(u) + Len(e)
        /\ \A x \in 1..Len(u) + Len(e) : v[x] = IF x <= Len(u) THEN u[x] ELSE e[x - Len(u)]
    BY <1>5, <1>16, ConcatProperties
  <2>. HIDE DEF v
  <2>2. \A x \in 1..k + c : v[x] = IF x <= k THEN u[x] ELSE e[x - k]
    BY ONLY <1>5, <2>1, <1>16
  <2>3. Len(v) = k + c
    BY ONLY <1>5, <2>1, <1>16
  <2>4. \A x \in 1..k : v[x] = u[x]
    BY ONLY <1>1, <2>2
  <2>5. ASSUME NEW x \in 1..c PROVE v[k + x] = e[x]
    <3>. DEFINE y == k + x
    <3>1. y \in 1..k + c /\ ~(y <= k) /\ y - k = x
      BY ONLY <1>1, x \in 1..c
    <3>. HIDE DEF y
    <3>2. v[y] = e[y - k]
      BY ONLY <2>2, <3>1
    <3>. QED
      BY <3>1, <3>2 DEF y
  <2>. QED
    BY <2>1, <2>3, <2>4, <2>5
<1>. HIDE DEF v
<1>7. t = v \o f
  BY <1>16 DEF v, u, a, f, Splice
<1>8. /\ t \in Seq(Blocks) /\ Len(t) = Len(v) + Len(f)
      /\ \A x \in 1..Len(v) + Len(f) : t[x] = IF x <= Len(v) THEN v[x] ELSE f[x - Len(v)]
  BY ONLY <1>3, <1>6, <1>7, ConcatProperties
<1>9. Len(t) = L + c
  BY ONLY <1>1, <1>3, <1>6, <1>8
<1>10. \A x \in 1..L + c : t[x] = IF x <= k + c THEN v[x] ELSE f[x - (k + c)]
  BY ONLY <1>1, <1>3, <1>6, <1>8
<1>11. ASSUME NEW x \in 1..L + c
       PROVE  t[x] = IF x < k THEN s[x] ELSE IF x = k THEN b
                     ELSE IF x <= k + c THEN e[x - k] ELSE s[x - c]
  <2>1. CASE x < k
    <3>1. x <= k + c /\ x \in 1..k /\ x \in 1..k - 1
      BY <1>1, <2>1
    <3>. QED
      BY <1>5, <1>6, <1>10, <2>1, <3>1
  <2>2. CASE x = k
    <3>1. x <= k + c /\ x \in 1..k /\ ~(x < k)
      BY <1>1, <2>2
    <3>. QED
      BY <1>5, <1>6, <1>10, <2>2, <3>1
  <2>3. CASE k < x /\ x <= k + c
    <3>1. x - k \in 1..c /\ k + (x - k) = x
      BY <1>1, <2>3
    <3>2. v[k + (x - k)] = e[x - k]
      BY <1>6, <3>1
    <3>3. t[x] = v[x]
      BY <1>10, <2>3
    <3>4. t[x] = e[x - k]
      BY ONLY <3>1, <3>2, <3>3
    <3>. QED
      BY <1>1, <2>3, <3>4
  <2>4. CASE k + c < x
    <3>1. /\ ~(x <= k + c) /\ x - (k + c) \in 1..L - k /\ k + (x - (k + c)) = x - c
          /\ ~(x < k) /\ x # k
      BY <1>1, <2>4
    <3>2. f[x - (k + c)] = s[k + (x - (k + c))]
      BY <1>3, <3>1
    <3>3. t[x] = f[x - (k + c)]
      BY <1>10, <3>1
    <3>4. t[x] = s[x - c]
      BY ONLY <3>1, <3>2, <3>3
    <3>. QED
      BY <3>1, <3>4
  <2>. QED
    BY <1>1, <2>1, <2>2, <2>3, <2>4
<1>. QED
  BY <1>8, <1>9, <1>11 DEF Spliceds, L, c, t

(* Block k is free and takes a region of n: with nothing left over, or with a rest.  *)
LEMMA TakenWhole ==
    ASSUME NEW s, Chained(s), Separate(s), NEW L, L = Len(s),
           NEW k \in 1..L, s[k].owner = Part!NoOwner,
           NEW b \in Blocks, b.start = s[k].start, b.size = s[k].size,
           b.owner # Part!NoOwner,
           NEW t \in Seq(Blocks), Len(t) = L,
           \A x \in 1..L : t[x] = IF x = k THEN b ELSE s[x]
    PROVE  /\ Chained(t) /\ Separate(t) /\ End(t[Len(t)]) = End(s[L])
           /\ Regions(t) = Regions(s) \cup {b}
<1>1. s \in Seq(Blocks) /\ s # << >>
  BY DEF Chained
<1>2. L \in Nat /\ L > 0
  BY <1>1, BlockFacts
<1>3. t # << >>
  BY ONLY <1>2, t \in Seq(Blocks), Len(t) = L, EmptySeq
<1>4. \A x \in 1..L : t[x].start = s[x].start /\ t[x].size = s[x].size
  OBVIOUS
<1>5. t[1].start = 0
  BY <1>2, <1>4 DEF Chained
<1>6. \A x \in 1..L - 1 : x \in 1..L /\ x + 1 \in 1..L
  BY <1>2
<1>7. ASSUME NEW x \in 1..L - 1 PROVE t[x + 1].start = t[x].start + t[x].size
  BY <1>4, <1>6 DEF Chained
<1>8. ASSUME NEW x \in 1..L - 1, t[x].owner = Part!NoOwner, t[x + 1].owner = Part!NoOwner
      PROVE  FALSE
  <2>1. x # k /\ x + 1 # k
    BY <1>6, <1>8
  <2>2. s[x].owner = Part!NoOwner /\ s[x + 1].owner = Part!NoOwner
    BY <1>6, <1>8, <2>1
  <2>. QED
    BY <2>2 DEF Separate
<1>9. End(t[L]) = End(s[L])
  BY <1>2, <1>4 DEF End
<1>10. Regions(t) = Regions(s) \cup {b}
  <2>1. Regions(t) = {t[x] : x \in {y \in 1..L : t[y].owner # Part!NoOwner}}
    BY DEF Regions
  <2>2. Regions(s) = {s[x] : x \in {y \in 1..L : s[y].owner # Part!NoOwner}}
    BY DEF Regions
  <2>. QED
    BY <2>1, <2>2
<1>11. Chained(t)
  BY <1>3, <1>5, <1>7 DEF Chained
<1>. QED
  BY <1>8, <1>9, <1>10, <1>11 DEF Separate

Halves(s, k, b, e) ==
    /\ k \in 1..Len(s) /\ s[k].owner = Part!NoOwner
    /\ b \in Blocks /\ e \in Blocks /\ b.start = s[k].start
    /\ e.start = End(b) /\ e.size = s[k].size - b.size
    /\ b.owner # Part!NoOwner /\ e.owner = Part!NoOwner
Halved(t, s, k, b, e) ==
    /\ t \in Seq(Blocks) /\ Len(t) = Len(s) + 1
    /\ \A x \in 1..Len(s) + 1 : t[x] = IF x < k THEN s[x] ELSE IF x = k THEN b
                                     ELSE IF x = k + 1 THEN e ELSE s[x - 1]

LEMMA TakenPart ==
    ASSUME NEW s, Chained(s), Separate(s), NEW k, NEW b, NEW e, Halves(s, k, b, e),
           NEW t, Halved(t, s, k, b, e)
    PROVE  /\ Chained(t) /\ Separate(t) /\ End(t[Len(t)]) = End(s[Len(s)])
           /\ Regions(t) = Regions(s) \cup {b}
<1>. DEFINE L == Len(s)
<1>14. /\ L = Len(s) /\ k \in 1..L /\ s[k].owner = Part!NoOwner
       /\ b \in Blocks /\ e \in Blocks /\ b.start = s[k].start
       /\ e.start = End(b) /\ e.size = s[k].size - b.size
       /\ b.owner # Part!NoOwner /\ e.owner = Part!NoOwner
  BY DEF Halves
<1>15. t \in Seq(Blocks) /\ Len(t) = L + 1
  BY DEF Halved
<1>16. \A x \in 1..L + 1 : t[x] = IF x < k THEN s[x] ELSE IF x = k THEN b
                                  ELSE IF x = k + 1 THEN e ELSE s[x - 1]
  BY DEF Halved
<1>. HIDE DEF L
<1>. USE <1>14, <1>15, <1>16
<1>1. s \in Seq(Blocks) /\ s # << >>
  BY DEF Chained
<1>2. L \in Nat /\ L > 0 /\ k \in Nat /\ 1 <= k /\ k <= L
  BY <1>1, BlockFacts
<1>3. t # << >>
  BY ONLY <1>2, <1>15, EmptySeq
<1>4. /\ b.start \in Nat /\ b.size \in Nat /\ e.start \in Nat /\ e.size \in Nat
      /\ s[k].start \in Nat /\ s[k].size \in Nat
  <2>1. s[k] \in Blocks
    BY <1>1, ElementOfSeq
  <2>. QED
    BY <2>1 DEF Blocks
<1>5. End(e) = End(s[k])
  BY <1>4 DEF End
<1>12. /\ \A x \in 1..k - 1 : t[x] = s[x]
       /\ t[k] = b /\ t[k + 1] = e
  <2>1. k \in 1..L + 1 /\ k + 1 \in 1..L + 1 /\ ~(k < k) /\ ~(k + 1 < k) /\ k + 1 # k
    BY <1>2
  <2>2. \A x \in 1..k - 1 : x \in 1..L + 1 /\ x < k
    BY <1>2
  <2>. QED
    BY <2>1, <2>2
<1>13. ASSUME NEW x \in k + 1..L PROVE t[x + 1] = s[x]
  <2>. DEFINE y == x + 1
  <2>1. y \in 1..L + 1 /\ ~(y < k) /\ y # k /\ y # k + 1 /\ y - 1 = x
    BY <1>2
  <2>. HIDE DEF y
  <2>2. t[y] = s[y - 1]
    BY <2>1
  <2>. QED
    BY <2>1, <2>2 DEF y
<1>6. t[1].start = 0
  <2>1. CASE k = 1
    BY <1>12, <2>1 DEF Chained
  <2>2. CASE k # 1
    <3>1. 1 \in 1..k - 1
      BY <1>2, <2>2
    <3>. QED
      BY <1>12, <3>1 DEF Chained
  <2>. QED
    BY <2>1, <2>2
(* A neighbour of block k in s is not free.                                       *)
<1>7. /\ k > 1 => s[k - 1].owner # Part!NoOwner
      /\ k < L => s[k + 1].owner # Part!NoOwner
  <2>1. ASSUME k > 1 PROVE s[k - 1].owner # Part!NoOwner
    <3>1. k - 1 \in 1..L - 1 /\ k - 1 + 1 = k
      BY <1>2, <2>1
    <3>. QED
      BY <3>1 DEF Separate
  <2>2. ASSUME k < L PROVE s[k + 1].owner # Part!NoOwner
    <3>1. k \in 1..L - 1
      BY <1>2, <2>2
    <3>. QED
      BY <3>1 DEF Separate
  <2>. QED
    BY <2>1, <2>2
<1>8. ASSUME NEW x \in 1..L + 1 - 1
      PROVE  /\ t[x + 1].start = t[x].start + t[x].size
             /\ ~(t[x].owner = Part!NoOwner /\ t[x + 1].owner = Part!NoOwner)
  <2>1. CASE x < k - 1
    <3>1. x \in 1..k - 1 /\ x + 1 \in 1..k - 1 /\ x \in 1..L - 1
      BY <1>2, <2>1
    <3>2. t[x] = s[x] /\ t[x + 1] = s[x + 1]
      BY <1>12, <3>1
    <3>. QED
      BY <3>1, <3>2 DEF Chained, Separate
  <2>2. CASE x = k - 1
    <3>1. x \in 1..k - 1 /\ x + 1 = k /\ x \in 1..L - 1
      BY <1>2, <2>2
    <3>2. t[x] = s[x] /\ t[x + 1] = b
      BY <1>12, <3>1
    <3>3. s[x + 1].start = s[x].start + s[x].size
      BY <3>1 DEF Chained
    <3>. QED
      BY <3>1, <3>2, <3>3
  <2>3. CASE x = k
    BY <1>4, <1>12, <2>3 DEF End
  <2>4. CASE x = k + 1
    <3>1. x \in k + 1..L /\ k < L /\ k \in 1..L - 1
      BY <1>2, <2>4
    <3>2. t[x] = e /\ t[x + 1] = s[k + 1]
      BY <1>12, <1>13, <2>4, <3>1
    <3>3. s[k + 1].start = End(s[k])
      BY <3>1 DEF Chained, End
    <3>. QED
      BY <1>5, <1>7, <3>1, <3>2, <3>3 DEF End
  <2>5. CASE x > k + 1
    <3>. DEFINE y == x - 1
    <3>1. y \in k + 1..L /\ y + 1 \in k + 1..L /\ y \in 1..L - 1 /\ y + 1 = x
      BY <1>2, <2>5
    <3>. HIDE DEF y
    <3>2. t[y + 1] = s[y] /\ t[y + 1 + 1] = s[y + 1]
      BY <1>13, <3>1
    <3>3. /\ s[y + 1].start = s[y].start + s[y].size
          /\ ~(s[y].owner = Part!NoOwner /\ s[y + 1].owner = Part!NoOwner)
      BY <3>1 DEF Chained, Separate
    <3>. QED
      BY <3>1, <3>2, <3>3
  <2>. QED
    BY <1>2, <2>1, <2>2, <2>3, <2>4, <2>5
<1>9. End(t[L + 1]) = End(s[L])
  <2>1. CASE k = L
    BY <1>5, <1>12, <2>1
  <2>2. CASE k # L
    <3>1. L \in k + 1..L
      BY <1>2, <2>2
    <3>. QED
      BY <1>13, <3>1
  <2>. QED
    BY <2>1, <2>2
<1>10. Regions(t) = Regions(s) \cup {b}
  <2>1. Regions(t) = {t[x] : x \in {y \in 1..L + 1 : t[y].owner # Part!NoOwner}}
    BY DEF Regions
  <2>2. Regions(s) = {s[x] : x \in {y \in 1..L : s[y].owner # Part!NoOwner}}
    BY DEF Regions
  <2>3. ASSUME NEW x \in 1..L + 1, t[x].owner # Part!NoOwner
        PROVE  t[x] \in Regions(s) \cup {b}
    <3>1. CASE x < k
      <4>1. x \in 1..k - 1 /\ x \in 1..L
        BY <1>2, <3>1
      <4>. QED
        BY <1>12, <2>2, <2>3, <4>1
    <3>2. CASE x > k + 1
      <4>1. x - 1 \in k + 1..L /\ x - 1 \in 1..L /\ x - 1 + 1 = x
        BY <1>2, <3>2
      <4>2. t[x - 1 + 1] = s[x - 1]
        BY <1>13, <4>1
      <4>. QED
        BY <2>2, <2>3, <4>1, <4>2
    <3>3. CASE x = k \/ x = k + 1
      BY <1>12, <2>3, <3>3
    <3>. QED
      BY <1>2, <3>1, <3>2, <3>3
  <2>4. ASSUME NEW x \in 1..L, s[x].owner # Part!NoOwner PROVE s[x] \in Regions(t)
    <3>1. CASE x < k
      <4>1. x \in 1..k - 1 /\ x \in 1..L + 1
        BY <1>2, <3>1
      <4>2. t[x] = s[x]
        BY <1>12, <4>1
      <4>. QED
        BY <2>1, <2>4, <4>1, <4>2
    <3>2. CASE x > k
      <4>1. x \in k + 1..L /\ x + 1 \in 1..L + 1
        BY <1>2, <3>2
      <4>2. t[x + 1] = s[x]
        BY <1>13, <4>1
      <4>. QED
        BY <2>1, <2>4, <4>1, <4>2
    <3>. QED
      BY <1>2, <1>12, <2>4, <3>1, <3>2
  <2>5. b \in Regions(t)
    <3>1. k \in 1..L + 1
      BY <1>2
    <3>. QED
      BY <1>12, <2>1, <3>1
  <2>6. Regions(t) \subseteq Regions(s) \cup {b}
    BY <2>1, <2>3
  <2>7. Regions(s) \subseteq Regions(t)
    BY <2>2, <2>4
  <2>. QED
    BY ONLY <2>5, <2>6, <2>7
<1>11. Chained(t)
  BY <1>3, <1>6, <1>8 DEF Chained
<1>. QED
  BY <1>8, <1>9, <1>11, <1>10 DEF Separate

Takes(s, k, n, o) ==
    /\ k \in 1..Len(s) /\ s[k].owner = Part!NoOwner
    /\ n \in Nat \ {0} /\ n <= s[k].size
    /\ o \in Owners /\ \A x \in 1..Len(s) : s[x].owner # o
Taken(s, k, n, o) ==
    Splice(s, k, Part!Block(s[k].start, n, o), Part!Leftover(s[k], n))

LEMMA TakenKeeps ==
    ASSUME NEW s, Chained(s), Separate(s), OneEach(s), NEW k, NEW n, NEW o, Takes(s, k, n, o),
           NEW t, t = Taken(s, k, n, o)
    PROVE  /\ Chained(t) /\ Separate(t) /\ OneEach(t) /\ End(t[Len(t)]) = End(s[Len(s)])
           /\ Regions(t) = Regions(s) \cup {Part!Block(s[k].start, n, o)}
<1>. DEFINE L == Len(s)
            b == Part!Block(s[k].start, n, o)
<1>8. /\ L = Len(s) /\ b = Part!Block(s[k].start, n, o)
      /\ k \in 1..L /\ s[k].owner = Part!NoOwner
      /\ n \in Nat \ {0} /\ n <= s[k].size
      /\ o \in Owners /\ \A x \in 1..L : s[x].owner # o
  BY DEF Takes
<1>9. t = Splice(s, k, b, Part!Leftover(s[k], n))
  BY DEF Taken
<1>. HIDE DEF L, b
<1>. USE <1>8, <1>9
<1>. DEFINE e == Part!Leftover(s[k], n)
            rest == Part!Block(s[k].start + n, s[k].size - n, Part!NoOwner)
<1>1. s \in Seq(Blocks) /\ L \in Nat /\ L = Len(s) /\ k \in 1..L
  <2>1. s \in Seq(Blocks)
    BY DEF Chained
  <2>. QED
    BY <2>1
<1>7. Chained(s) /\ Separate(s) /\ s[k].owner = Part!NoOwner
  OBVIOUS
<1>2. /\ s[k].start \in Nat /\ s[k].size \in Nat /\ s[k].size > 0
  <2>1. s[k] \in Blocks
    BY <1>1, ElementOfSeq
  <2>. QED
    BY <2>1 DEF Blocks
<1>3. /\ b.start = s[k].start /\ b.size = n /\ b.owner = o /\ b.owner # Part!NoOwner
      /\ b \in Blocks
  <2>1. o # Part!NoOwner
    BY Assumed
  <2>2. b.start = s[k].start /\ b.size = n /\ b.owner = o
    BY DEF Part!Block
  <2>3. b \in Blocks
    BY <1>2 DEF Blocks, Part!Block
  <2>. QED
    BY <2>1, <2>2, <2>3
<1>4. /\ Chained(t) /\ Separate(t) /\ End(t[Len(t)]) = End(s[L])
      /\ Regions(t) = Regions(s) \cup {b}
  <2>1. CASE n = s[k].size
    <3>1. e = << >>
      BY <1>2, <2>1 DEF Part!Leftover
    <3>2. e \in Seq(Blocks) /\ Len(e) = 0
      BY <3>1
    <3>. DEFINE c == Len(e)
    <3>. HIDE DEF e
    <3>3. c = 0
      BY <3>2
    <3>4. t = Splice(s, k, b, e)
      BY DEF e
    <3>5. /\ t \in Seq(Blocks) /\ Len(t) = L + c
          /\ \A x \in 1..L + c : t[x] = IF x < k THEN s[x] ELSE IF x = k THEN b
                                      ELSE IF x <= k + c THEN e[x - k] ELSE s[x - c]
      <4>1. MaySplice(s, k, b, e)
        BY ONLY <1>1, <1>3, <3>2 DEF MaySplice
      <4>2. Spliceds(t, s, k, b, e)
        BY ONLY <3>4, <4>1, Spliced
      <4>. QED
        BY ONLY <1>1, <4>2 DEF Spliceds, c
    <3>. HIDE DEF c
    <3>6. Len(t) = L
      BY ONLY <1>1, <3>3, <3>5
    <3>7. ASSUME NEW x \in 1..L PROVE t[x] = IF x = k THEN b ELSE s[x]
      <4>1. x \in 1..L + c /\ (k < x => ~(x <= k + c)) /\ x - c = x
        BY <1>1, <3>3
      <4>2. t[x] = IF x < k THEN s[x] ELSE IF x = k THEN b
                   ELSE IF x <= k + c THEN e[x - k] ELSE s[x - c]
        BY <3>5, <4>1
      <4>3. x \in Int /\ k \in Int
        BY <1>1
      <4>. QED
        BY ONLY <4>1, <4>2, <4>3
    <3>8. b.size = s[k].size
      BY <1>3, <2>1
    <3>. QED
      BY ONLY <1>1, <1>3, <1>7, <3>5, <3>6, <3>7, <3>8, TakenWhole
  <2>2. CASE n < s[k].size
    <3>1. e = <<rest>>
      BY <2>2 DEF Part!Leftover
    <3>2. /\ rest \in Blocks /\ rest.start = End(b) /\ rest.size = s[k].size - b.size
          /\ rest.owner = Part!NoOwner
      <4>1. /\ rest.start = s[k].start + n /\ rest.size = s[k].size - n
            /\ rest.owner = Part!NoOwner
        BY DEF Part!Block
      <4>2. rest \in Blocks
        BY <1>2, <2>2 DEF Blocks, Part!Block
      <4>. QED
        BY <1>3, <4>1, <4>2 DEF End
    <3>. HIDE DEF rest
    <3>3. e \in Seq(Blocks) /\ Len(e) = 1 /\ e[1] = rest
      BY <3>1, <3>2
    <3>. DEFINE c == Len(e)
    <3>. HIDE DEF e
    <3>4. c = 1
      BY <3>3
    <3>5. t = Splice(s, k, b, e)
      BY DEF e
    <3>6. /\ t \in Seq(Blocks) /\ Len(t) = L + c
          /\ \A x \in 1..L + c : t[x] = IF x < k THEN s[x] ELSE IF x = k THEN b
                                      ELSE IF x <= k + c THEN e[x - k] ELSE s[x - c]
      <4>1. MaySplice(s, k, b, e)
        BY ONLY <1>1, <1>3, <3>3 DEF MaySplice
      <4>2. Spliceds(t, s, k, b, e)
        BY ONLY <3>5, <4>1, Spliced
      <4>. QED
        BY ONLY <1>1, <4>2 DEF Spliceds, c
    <3>. HIDE DEF c
    <3>7. Len(t) = L + 1
      BY ONLY <1>1, <3>4, <3>6
    <3>8. ASSUME NEW x \in 1..L + 1
          PROVE  t[x] = IF x < k THEN s[x] ELSE IF x = k THEN b
                        ELSE IF x = k + 1 THEN rest ELSE s[x - 1]
      <4>1. /\ x \in 1..L + c /\ (k < x => (x <= k + c <=> x = k + 1))
            /\ x - c = x - 1 /\ (x = k + 1 => x - k = 1)
        BY <1>1, <3>4
      <4>2. t[x] = IF x < k THEN s[x] ELSE IF x = k THEN b
                   ELSE IF x <= k + c THEN e[x - k] ELSE s[x - c]
        BY <3>6, <4>1
      <4>3. x \in Int /\ k \in Int
        BY <1>1
      <4>. QED
        BY ONLY <3>3, <4>1, <4>2, <4>3
    <3>. QED
      <4>1. Halves(s, k, b, rest)
        BY ONLY <1>1, <1>3, <1>7, <3>2 DEF Halves
      <4>2. Halved(t, s, k, b, rest)
        BY ONLY <1>1, <3>6, <3>7, <3>8 DEF Halved
      <4>. QED
        BY ONLY <1>1, <1>7, <4>1, <4>2, TakenPart
  <2>3. n = s[k].size \/ n < s[k].size
    BY <1>2
  <2>. QED
    BY ONLY <2>1, <2>2, <2>3
<1>5. ASSUME NEW a \in Regions(s) PROVE a.owner # o
  BY DEF Regions
<1>6. OneEach(t)
  BY <1>3, <1>4, <1>5 DEF OneEach
<1>. QED
  BY <1>4, <1>6 DEF L, b

(* The list without the owner of block k, before its neighbours are merged.          *)
Held(s, k) == k \in 1..Len(s) /\ s[k].owner # Part!NoOwner
Freed(s, k) == [s EXCEPT ![k].owner = Part!NoOwner]

LEMMA Released ==
    ASSUME NEW s, Chained(s), NEW k, Held(s, k), NEW t, t = Freed(s, k)
    PROVE  /\ Chained(t) /\ End(t[Len(t)]) = End(s[Len(s)])
           /\ Regions(t) = Regions(s) \ {s[k]}
<1>. DEFINE L == Len(s)
<1>16. L = Len(s) /\ k \in 1..L /\ s[k].owner # Part!NoOwner
  BY DEF Held
<1>17. t = [s EXCEPT ![k].owner = Part!NoOwner]
  BY DEF Freed
<1>. HIDE DEF L
<1>. USE <1>16
<1>1. s \in Seq(Blocks) /\ s # << >>
  BY DEF Chained
<1>2. L \in Nat /\ L > 0
  BY <1>1, BlockFacts
<1>. DEFINE e == [s[k] EXCEPT !.owner = Part!NoOwner]
<1>3. e \in Blocks /\ e.start = s[k].start /\ e.size = s[k].size /\ e.owner = Part!NoOwner
  <2>1. s[k] \in Blocks
    BY <1>1, ElementOfSeq
  <2>. QED
    BY <2>1 DEF Blocks
<1>4. t = [s EXCEPT ![k] = e]
  BY <1>17
<1>. HIDE DEF e
<1>5. Len(t) = L
  BY ONLY <1>1, <1>3, <1>4, <1>16, ExceptSeq
<1>6. t \in Seq(Blocks)
  BY ONLY <1>1, <1>3, <1>4, <1>16, ExceptSeq
<1>7. \A x \in 1..L : t[x] = IF x = k THEN e ELSE s[x]
  BY ONLY <1>1, <1>3, <1>4, <1>16, ExceptSeq
<1>8. \A x \in 1..L : t[x].start = s[x].start /\ t[x].size = s[x].size
  BY <1>3, <1>7
<1>9. t # << >>
  BY ONLY <1>2, <1>5, <1>6, EmptySeq
<1>10. t[1].start = 0
  BY <1>2, <1>8 DEF Chained
<1>11. \A x \in 1..L - 1 : x \in 1..L /\ x + 1 \in 1..L
  BY <1>2
<1>12. ASSUME NEW x \in 1..L - 1 PROVE t[x + 1].start = t[x].start + t[x].size
  BY <1>8, <1>11 DEF Chained
<1>13. Chained(t)
  BY <1>5, <1>6, <1>9, <1>10, <1>12 DEF Chained
<1>14. End(t[L]) = End(s[L])
  BY <1>2, <1>8 DEF End
<1>15. Regions(t) = Regions(s) \ {s[k]}
  <2>1. Regions(t) = {t[x] : x \in {y \in 1..L : t[y].owner # Part!NoOwner}}
    BY <1>5 DEF Regions
  <2>2. Regions(s) = {s[x] : x \in {y \in 1..L : s[y].owner # Part!NoOwner}}
    BY DEF Regions
  <2>3. ASSUME NEW x \in 1..L, s[x] = s[k] PROVE x = k
    <3>1. s[x].start = s[k].start
      BY <2>3
    <3>2. \A y, z \in 1..Len(s) : s[y].start = s[z].start => y = z
      BY InOrder
    <3>3. x \in 1..Len(s) /\ k \in 1..Len(s)
      OBVIOUS
    <3>. QED
      BY ONLY <3>1, <3>2, <3>3
  <2>4. Regions(t) \subseteq Regions(s) \ {s[k]}
    <3>1. ASSUME NEW x \in 1..L, t[x].owner # Part!NoOwner
          PROVE  t[x] \in Regions(s) \ {s[k]}
      <4>1. x # k
        BY <1>3, <1>7, <3>1
      <4>2. t[x] = s[x]
        BY <1>7, <4>1
      <4>. QED
        BY <2>2, <2>3, <3>1, <4>1, <4>2
    <3>. QED
      BY <2>1, <3>1
  <2>5. Regions(s) \ {s[k]} \subseteq Regions(t)
    <3>1. ASSUME NEW x \in 1..L, s[x].owner # Part!NoOwner, s[x] # s[k]
          PROVE  s[x] \in Regions(t)
      <4>1. t[x] = s[x]
        BY <1>7, <3>1
      <4>. QED
        BY <2>1, <3>1, <4>1
    <3>. QED
      BY <2>2, <3>1
  <2>. QED
    BY <2>4, <2>5
<1>. QED
  BY <1>5, <1>13, <1>14, <1>15 DEF L
--------------------------------------------------------------------------------
(* The state of the list of partitions, in every reachable state.                  *)
PartInv ==
    /\ algorithm \in {"ff", "bf"} /\ memory_size \in 1..MaxMemory
    /\ Tiled(partitions, memory_size) /\ Separate(partitions) /\ OneEach(partitions)
    /\ status \in {"none", "success", "duplicate", "full", "memory", "unknown"}
    /\ had_error \in BOOLEAN

LEMMA PartFacts ==
    ASSUME PartInv
    PROVE  /\ partitions \in Seq(Blocks) /\ partitions # << >> /\ Chained(partitions)
           /\ Len(partitions) \in Nat /\ Len(partitions) > 0
           /\ DOMAIN partitions = 1..Len(partitions)
           /\ memory_size \in Nat /\ memory_size > 0
<1>1. partitions \in Seq(Blocks) /\ partitions # << >> /\ Chained(partitions)
  BY DEF PartInv, Tiled, Chained
<1>2. Len(partitions) \in Nat /\ DOMAIN partitions = 1..Len(partitions)
  BY <1>1, BlockFacts
<1>3. Len(partitions) > 0
  BY <1>1, <1>2, BlockFacts
<1>4. memory_size \in Nat /\ memory_size > 0
  BY Assumed DEF PartInv
<1>. QED
  BY <1>1, <1>2, <1>3, <1>4

LEMMA SelectedFits ==
    ASSUME PartInv, NEW n, Part!Fitting(n) # {}
    PROVE  /\ Part!Selected(n) \in Part!Fitting(n)
           /\ \A j \in Part!Fitting(n) : IF algorithm = "ff" THEN Part!Selected(n) <= j
                                         ELSE Part!BetterFit(Part!Selected(n), j)
<1>. DEFINE F == Part!Fitting(n)
<1>1. /\ F \in SUBSET Nat
      /\ \A k \in F : partitions[k].start \in Nat /\ partitions[k].size \in Nat
  <2>1. F \subseteq 1..Len(partitions)
    BY PartFacts DEF Part!Fitting
  <2>2. \A k \in 1..Len(partitions) : partitions[k].start \in Nat
    BY PartFacts, BlockFacts
  <2>3. \A k \in 1..Len(partitions) : partitions[k].size \in Nat
    BY PartFacts, BlockFacts
  <2>. QED
    BY <2>1, <2>2, <2>3, PartFacts
<1>. HIDE DEF F
<1>2. \E k \in F : \A j \in F : IF algorithm = "ff" THEN k <= j ELSE Part!BetterFit(k, j)
  <2>1. CASE algorithm = "ff"
    BY <1>1, <2>1, LeastElement DEF F
  <2>2. CASE algorithm # "ff"
    <3>. DEFINE V == {partitions[k].size : k \in F}
    <3>1. V \in SUBSET Nat /\ V # {}
      BY <1>1 DEF F
    <3>2. PICK v \in V : \A w \in V : v <= w
      BY <3>1, LeastElement
    <3>. DEFINE W == {partitions[k].start : k \in {j \in F : partitions[j].size = v}}
    <3>3. W \in SUBSET Nat /\ W # {}
      BY <1>1, <3>2
    <3>4. PICK a \in W : \A w \in W : a <= w
      BY <3>3, LeastElement
    <3>5. PICK k \in F : partitions[k].size = v /\ partitions[k].start = a
      BY <3>4
    <3>6. ASSUME NEW j \in F PROVE Part!BetterFit(k, j)
      <4>1. v <= partitions[j].size
        BY <3>2
      <4>2. partitions[j].size = v => a <= partitions[j].start
        BY <3>4
      <4>3. /\ partitions[k].size \in Nat /\ partitions[k].start \in Nat
            /\ partitions[j].size \in Nat /\ partitions[j].start \in Nat
        BY <1>1
      <4>4. \/ partitions[k].size < partitions[j].size
            \/ /\ partitions[k].size = partitions[j].size
               /\ partitions[k].start <= partitions[j].start
        BY ONLY <3>5, <4>1, <4>2, <4>3
      <4>. QED
        BY ONLY <4>4 DEF Part!BetterFit
    <3>. QED
      BY <2>2, <3>6
  <2>. QED
    BY <2>1, <2>2
<1>. QED
  BY <1>2 DEF Part!Selected, F

Best(k, n) == /\ k \in Part!Fitting(n)
              /\ \A j \in Part!Fitting(n) : IF algorithm = "ff" THEN k <= j
                                            ELSE Part!BetterFit(k, j)

(* What an operation does to the regions of the owners.                            *)
Allocates(o, n, k) ==
    /\ Part!Places(o) = {} /\ Best(k, n) /\ status' = "success"
    /\ Regions(partitions')
         = Regions(partitions) \cup {Part!Block(partitions[k].start, n, o)}
Refuses(o, n) ==
    /\ \/ Part!Places(o) # {} /\ status' = "duplicate"
       \/ Part!Fitting(n) = {} /\ status' = "full"
       \/ status' = "memory"
    /\ UNCHANGED partitions
Releases(o, k) ==
    /\ k \in Part!Places(o) /\ status' = "success"
    /\ Regions(partitions') = Regions(partitions) \ {partitions[k]}

LEMMA FailKeeps ==
    ASSUME PartInv, UNCHANGED <<algorithm, memory_size, partitions>>,
           status' \in {"success", "duplicate", "full", "memory", "unknown"},
           had_error' \in BOOLEAN
    PROVE  PartInv'
  BY DEF PartInv

LEMMA AllocStep ==
    ASSUME PartInv, NEW o \in Owners, NEW n \in 1..memory_size + 1, Part!Alloc(o, n)
    PROVE  PartInv' /\ (Refuses(o, n) \/ \E k : Allocates(o, n, k))
<1>1. UNCHANGED <<algorithm, memory_size>> /\ n \in Nat \ {0}
  <2>1. n \in Nat \ {0}
    BY PartFacts
  <2>. QED
    BY <2>1 DEF Part!Alloc
<1>2. CASE Part!Places(o) # {}
  <2>1. status' = "duplicate" /\ had_error' = TRUE /\ UNCHANGED partitions
    BY <1>2 DEF Part!Alloc, Part!Fail
  <2>2. PartInv'
    BY <1>1, <2>1, FailKeeps
  <2>. QED
    BY <1>2, <2>1, <2>2 DEF Refuses
<1>3. CASE Part!Places(o) = {} /\ Part!Fitting(n) = {}
  <2>1. status' = "full" /\ had_error' = TRUE /\ UNCHANGED partitions
    BY <1>3 DEF Part!Alloc, Part!Fail
  <2>2. PartInv'
    BY <1>1, <2>1, FailKeeps
  <2>. QED
    BY <1>3, <2>1, <2>2 DEF Refuses
<1>4. CASE Part!Places(o) = {} /\ Part!Fitting(n) # {}
  <2>. DEFINE k == Part!Selected(n)
              b == Part!Block(partitions[k].start, n, o)
              L == Len(partitions)
  <2>1. \/ /\ partitions' = SubSeq(partitions, 1, k - 1) \o <<b>>
                            \o Part!Leftover(partitions[k], n) \o SubSeq(partitions, k + 1, L)
           /\ status' = "success" /\ UNCHANGED had_error
        \/ status' = "memory" /\ had_error' = TRUE /\ UNCHANGED partitions
    BY <1>4 DEF Part!Alloc, Part!Fail, Part!Succeed
  <2>2. CASE status' = "memory" /\ had_error' = TRUE /\ UNCHANGED partitions
    <3>1. PartInv'
      BY <1>1, <2>2, FailKeeps
    <3>. QED
      BY <2>2, <3>1 DEF Refuses
  <2>3. CASE /\ partitions' = SubSeq(partitions, 1, k - 1) \o <<b>>
                              \o Part!Leftover(partitions[k], n)
                              \o SubSeq(partitions, k + 1, L)
             /\ status' = "success" /\ UNCHANGED had_error
    <3>1. Best(k, n)
      BY <1>4, SelectedFits DEF Best
    <3>. HIDE DEF k
    <3>2. k \in 1..L /\ partitions[k].owner = Part!NoOwner /\ n <= partitions[k].size
      <4>1. k \in 1..L /\ partitions[k].owner = Part!NoOwner /\ partitions[k].size >= n
        BY <3>1, PartFacts DEF Best, Part!Fitting, Part!IsFree
      <4>2. partitions[k].size \in Nat
        BY <4>1, PartFacts, BlockFacts
      <4>. QED
        BY <1>1, <4>1, <4>2
    <3>3. \A x \in 1..L : partitions[x].owner # o
      BY <1>4, PartFacts DEF Part!Places
    <3>4. Chained(partitions) /\ Separate(partitions) /\ OneEach(partitions)
      BY PartFacts DEF PartInv
    <3>. DEFINE t == partitions'
    <3>5. t = SubSeq(partitions, 1, k - 1) \o <<b>> \o Part!Leftover(partitions[k], n)
              \o SubSeq(partitions, k + 1, L)
      BY <2>3
    <3>. HIDE DEF t
    <3>6. /\ Chained(t) /\ Separate(t) /\ OneEach(t) /\ End(t[Len(t)]) = End(partitions[L])
          /\ Regions(t) = Regions(partitions) \cup {b}
      <4>1. Takes(partitions, k, n, o)
        BY <1>1, <3>2, <3>3 DEF Takes
      <4>2. t = Taken(partitions, k, n, o)
        BY <3>5 DEF Taken, Splice
      <4>. QED
        BY ONLY <3>4, <4>1, <4>2, TakenKeeps
    <3>7. Tiled(t, memory_size)
      BY <3>6 DEF Tiled, PartInv
    <3>8. PartInv'
      BY <1>1, <2>3, <3>6, <3>7 DEF PartInv, t
    <3>9. Allocates(o, n, k)
      BY <1>4, <2>3, <3>1, <3>6 DEF Allocates, t
    <3>. QED
      BY <3>8, <3>9
  <2>. QED
    BY <2>1, <2>2, <2>3
<1>. QED
  BY <1>2, <1>3, <1>4

LEMMA FreeStep ==
    ASSUME PartInv, NEW o \in Owners, Part!Free(o)
    PROVE  PartInv' /\ \/ Part!Places(o) = {} /\ status' = "unknown" /\ UNCHANGED partitions
                       \/ \E k : Releases(o, k)
<1>1. UNCHANGED <<algorithm, memory_size>>
  BY DEF Part!Free
<1>2. CASE Part!Places(o) = {}
  <2>1. status' = "unknown" /\ had_error' = TRUE /\ UNCHANGED partitions
    BY <1>2 DEF Part!Free, Part!Fail
  <2>2. PartInv'
    BY <1>1, <2>1, FailKeeps
  <2>. QED
    BY <1>2, <2>1, <2>2
<1>3. CASE Part!Places(o) # {}
  <2>. DEFINE k == CHOOSE x \in Part!Places(o) : \A j \in Part!Places(o) : x <= j
              u == [partitions EXCEPT ![k].owner = Part!NoOwner]
              t == partitions'
              L == Len(partitions)
  <2>1. t = Part!Merged(u, k) /\ status' = "success" /\ UNCHANGED had_error
    BY <1>3 DEF Part!Free, Part!Succeed
  <2>2. k \in Part!Places(o)
    <3>1. Part!Places(o) \in SUBSET Nat
      BY PartFacts DEF Part!Places
    <3>2. \E x \in Part!Places(o) : \A j \in Part!Places(o) : x <= j
      BY <1>3, <3>1, LeastElement
    <3>. QED
      BY <3>2
  <2>. HIDE DEF k
  <2>3. k \in 1..L /\ partitions[k].owner = o /\ partitions[k].owner # Part!NoOwner
    <3>1. k \in 1..L /\ partitions[k].owner = o
      BY <2>2, PartFacts DEF Part!Places
    <3>2. o # Part!NoOwner
      BY Assumed
    <3>. QED
      BY <3>1, <3>2
  <2>4. Chained(partitions)
    BY PartFacts
  <2>5. u = [partitions EXCEPT ![k].owner = Part!NoOwner]
    OBVIOUS
  <2>. HIDE DEF u, t
  <2>6. /\ Chained(u) /\ End(u[Len(u)]) = End(partitions[L])
        /\ Regions(u) = Regions(partitions) \ {partitions[k]}
    <3>1. Held(partitions, k)
      BY <2>3 DEF Held
    <3>2. u = Freed(partitions, k)
      BY <2>5 DEF Freed
    <3>. QED
      BY ONLY <2>4, <3>1, <3>2, Released
  <2>7. /\ Chained(t) /\ Separate(t) /\ End(t[Len(t)]) = End(u[Len(u)])
        /\ Regions(t) = Regions(u)
    BY <2>1, <2>6, MergedFacts
  <2>8. OneEach(t)
    BY <2>6, <2>7 DEF OneEach, PartInv
  <2>9. Tiled(t, memory_size)
    BY <2>6, <2>7 DEF Tiled, PartInv
  <2>10. PartInv'
    BY <1>1, <2>1, <2>7, <2>8, <2>9 DEF PartInv, t
  <2>11. Releases(o, k)
    BY <2>1, <2>2, <2>6, <2>7 DEF Releases, t
  <2>. QED
    BY <2>10, <2>11
<1>. QED
  BY <1>2, <1>3

LEMMA PartStep == PartInv /\ Part!Next => PartInv'
<1>. SUFFICES ASSUME PartInv, Part!Next PROVE PartInv'
  OBVIOUS
<1>1. PICK o \in Owners : Part!Free(o) \/ \E n \in 1..memory_size + 1 : Part!Alloc(o, n)
  BY DEF Part!Next
<1>2. CASE Part!Free(o)
  BY <1>2, FreeStep
<1>3. CASE \E n \in 1..memory_size + 1 : Part!Alloc(o, n)
  BY <1>3, AllocStep
<1>. QED
  BY <1>1, <1>2, <1>3

LEMMA PartInit == Part!Init => PartInv
<1>. SUFFICES ASSUME Part!Init PROVE PartInv
  OBVIOUS
<1>. DEFINE b == Part!Block(0, memory_size, Part!NoOwner)
            s == <<b>>
<1>1. /\ algorithm \in {"ff", "bf"} /\ memory_size \in 1..MaxMemory /\ partitions = s
      /\ status = "none" /\ had_error = FALSE
  BY DEF Part!Init
<1>2. b \in Blocks /\ b.start = 0 /\ b.size = memory_size /\ b.owner = Part!NoOwner
  <2>1. memory_size \in Nat \ {0}
    BY <1>1, Assumed
  <2>2. b.start = 0 /\ b.size = memory_size /\ b.owner = Part!NoOwner
    BY DEF Part!Block
  <2>3. b \in Blocks
    BY <2>1 DEF Blocks, Part!Block
  <2>. QED
    BY <2>2, <2>3
<1>. HIDE DEF b
<1>3. s \in Seq(Blocks) /\ s # << >> /\ s[1] = b
  BY <1>2
<1>4. Len(s) = 1
  OBVIOUS
<1>. HIDE DEF s
<1>5. 1..Len(s) - 1 = {}
  BY <1>4
<1>6. Tiled(s, memory_size) /\ Separate(s)
  <2>1. End(b) = memory_size
    BY <1>1, <1>2, Assumed DEF End
  <2>. QED
    BY <1>2, <1>3, <1>4, <1>5, <2>1 DEF Tiled, Chained, Separate
<1>7. OneEach(s)
  <2>1. Regions(s) = {}
    BY <1>2, <1>3, <1>4 DEF Regions
  <2>. QED
    BY <2>1 DEF OneEach
<1>. QED
  BY <1>1, <1>6, <1>7 DEF PartInv

(* What the invariant says of the list in the words of Partition.                   *)
LEMMA PartTypes == PartInv => Part!TypeOK
<1>. SUFFICES ASSUME PartInv PROVE Part!TypeOK
  OBVIOUS
<1>1. ASSUME NEW k \in DOMAIN partitions
      PROVE  /\ partitions[k].start \in 0..memory_size - 1
             /\ partitions[k].size \in 1..memory_size
             /\ partitions[k].owner \in Owners \cup {Part!NoOwner}
  <2>1. k \in 1..Len(partitions)
    BY PartFacts
  <2>2. partitions[k].owner \in Owners \cup {Part!NoOwner}
    BY <2>1, PartFacts, BlockFacts
  <2>3. partitions[k].start \in Nat /\ partitions[k].size \in Nat /\ partitions[k].size > 0
    BY <2>1, PartFacts, BlockFacts
  <2>4. End(partitions[k]) <= memory_size
    <3>1. End(partitions[k]) <= End(partitions[Len(partitions)])
      BY <2>1, PartFacts, InOrder
    <3>. QED
      BY <3>1 DEF PartInv, Tiled
  <2>5. memory_size \in Nat
    BY PartFacts
  <2>6. partitions[k].start + partitions[k].size <= memory_size
    BY <2>4 DEF End
  <2>7. partitions[k].start \in 0..memory_size - 1 /\ partitions[k].size \in 1..memory_size
    BY ONLY <2>3, <2>5, <2>6
  <2>. QED
    BY <2>2, <2>7
<1>. QED
  BY <1>1 DEF PartInv, Part!TypeOK

LEMMA PartTiling == PartInv => Part!Tiling
<1>. SUFFICES ASSUME PartInv PROVE Part!Tiling
  OBVIOUS
<1>1. partitions[1].start = 0
  BY PartFacts DEF Chained
<1>2. ASSUME NEW k \in 1..Len(partitions) - 1
      PROVE  /\ partitions[k + 1].start = partitions[k].start + partitions[k].size
             /\ ~(Part!IsFree(partitions[k]) /\ Part!IsFree(partitions[k + 1]))
  BY PartFacts DEF Chained, PartInv, Separate, Part!IsFree
<1>3. Part!Last(partitions).start + Part!Last(partitions).size = memory_size
  BY DEF PartInv, Tiled, End, Part!Last
<1>4. ASSUME NEW o \in Owners PROVE Part!Cardinality(Part!Places(o)) <= 1
  <2>1. ASSUME NEW j \in Part!Places(o), NEW k \in Part!Places(o) PROVE j = k
    <3>1. /\ j \in 1..Len(partitions) /\ partitions[j].owner = o
          /\ k \in 1..Len(partitions) /\ partitions[k].owner = o
      BY PartFacts DEF Part!Places
    <3>2. o # Part!NoOwner
      BY Assumed
    <3>3. partitions[j] \in Regions(partitions) /\ partitions[k] \in Regions(partitions)
      BY <3>1, <3>2 DEF Regions
    <3>4. partitions[j] = partitions[k]
      BY <3>1, <3>3 DEF PartInv, OneEach
    <3>5. \A x, y \in 1..Len(partitions) :
             partitions[x].start = partitions[y].start => x = y
      BY PartFacts, InOrder
    <3>. QED
      BY <3>1, <3>4, <3>5
  <2>2. CASE Part!Places(o) = {}
    BY <2>2, FS_EmptySet, PartCards
  <2>3. CASE Part!Places(o) # {}
    <3>1. PICK k \in Part!Places(o) : TRUE
      BY <2>3
    <3>2. Part!Places(o) = {k}
      BY <2>1, <3>1
    <3>. QED
      BY <3>2, FS_Singleton, PartCards
  <2>. QED
    BY <2>2, <2>3
<1>. QED
  BY <1>1, <1>2, <1>3, <1>4 DEF Part!Tiling
--------------------------------------------------------------------------------
(* The list seen as a map of regions: RegionsOf(partitions) is the regions of Map.   *)
RegionsOf(s) ==
    [o \in {s[k].owner : k \in DOMAIN s} \ {Part!NoOwner} |->
       LET p == s[CHOOSE k \in {x \in DOMAIN s : s[x].owner = o} : TRUE]
       IN  [start |-> p.start, size |-> p.size]]

IsMap(f, R) ==
    /\ f = [o \in DOMAIN f |-> f[o]] /\ DOMAIN f = {b.owner : b \in R}
    /\ \A b \in R : f[b.owner] = [start |-> b.start, size |-> b.size]

LEMMA RegionsAre ==
    ASSUME NEW s, Chained(s), OneEach(s)
    PROVE  IsMap(RegionsOf(s), Regions(s))
<1>. DEFINE f == RegionsOf(s)
            D == {s[k].owner : k \in DOMAIN s} \ {Part!NoOwner}
            At(o) == CHOOSE k \in {x \in DOMAIN s : s[x].owner = o} : TRUE
<1>1. DOMAIN s = 1..Len(s)
  BY BlockFacts DEF Chained
<1>2. f = [o \in D |-> [start |-> s[At(o)].start, size |-> s[At(o)].size]]
  BY DEF RegionsOf
<1>3. D = {b.owner : b \in Regions(s)}
  BY <1>1 DEF Regions
<1>4. ASSUME NEW b \in Regions(s) PROVE f[b.owner] = [start |-> b.start, size |-> b.size]
  <2>. DEFINE o == b.owner
  <2>1. PICK k \in 1..Len(s) : s[k] = b /\ s[k].owner # Part!NoOwner
    BY DEF Regions
  <2>2. o \in D
    BY <1>3
  <2>3. At(o) \in DOMAIN s /\ s[At(o)].owner = o
    BY <1>1, <2>1
  <2>. HIDE DEF At, f, D
  <2>4. s[At(o)] \in Regions(s)
    BY <1>1, <2>1, <2>3 DEF Regions
  <2>5. s[At(o)] = b
    BY <2>3, <2>4 DEF OneEach
  <2>. QED
    BY <1>2, <2>2, <2>5
<1>5. f = [o \in DOMAIN f |-> f[o]] /\ DOMAIN f = D
  BY <1>2
<1>. QED
  BY <1>3, <1>4, <1>5 DEF IsMap

WithRegion(f, b) == [q \in DOMAIN f \cup {b.owner} |->
                       IF q = b.owner THEN [start |-> b.start, size |-> b.size] ELSE f[q]]
Without(f, o) == [q \in DOMAIN f \ {o} |-> f[q]]

LEMMA MapAlloc ==
    ASSUME NEW f, NEW R, IsMap(f, R), NEW g, NEW M, IsMap(g, M), NEW b, M = R \cup {b},
           b.owner \notin DOMAIN f
    PROVE  g = WithRegion(f, b)
<1>1. DOMAIN g = DOMAIN f \cup {b.owner}
  BY DEF IsMap
<1>2. g[b.owner] = [start |-> b.start, size |-> b.size]
  BY DEF IsMap
<1>3. ASSUME NEW q \in DOMAIN f PROVE g[q] = f[q]
  <2>1. PICK a \in R : a.owner = q
    BY DEF IsMap
  <2>. QED
    BY <2>1 DEF IsMap
<1>4. g = [q \in DOMAIN g |-> g[q]]
  BY DEF IsMap
<1>. QED
  BY <1>1, <1>2, <1>3, <1>4 DEF WithRegion

LEMMA MapFree ==
    ASSUME NEW f, NEW R, IsMap(f, R), \A a, c \in R : a.owner = c.owner => a = c,
           NEW b, b \in R, NEW g, NEW M, IsMap(g, M), M = R \ {b}
    PROVE  g = Without(f, b.owner)
<1>1. DOMAIN g = DOMAIN f \ {b.owner}
  BY DEF IsMap
<1>2. ASSUME NEW q \in DOMAIN g PROVE g[q] = f[q]
  <2>1. PICK a \in R \ {b} : a.owner = q
    BY DEF IsMap
  <2>. QED
    BY <2>1 DEF IsMap
<1>3. g = [q \in DOMAIN g |-> g[q]]
  BY DEF IsMap
<1>. QED
  BY <1>1, <1>2, <1>3 DEF Without
--------------------------------------------------------------------------------
(* The free cells of the memory, and the holes they make.                          *)
InBlock(a, b) == b.start <= a /\ a < End(b)
FreeOf(s, m) == {a \in 0..m - 1 : \A b \in Regions(s) : ~InBlock(a, b)}

LEMMA TiledFacts ==
    ASSUME NEW s, NEW m, Tiled(s, m)
    PROVE  /\ Chained(s) /\ Len(s) \in Nat /\ Len(s) > 0
           /\ \A k \in 1..Len(s) : /\ s[k].start \in Nat /\ s[k].size \in Nat
                                   /\ s[k].size > 0 /\ End(s[k]) \in Nat /\ End(s[k]) <= m
           /\ m \in Nat /\ m = End(s[Len(s)])
<1>1. Chained(s) /\ m = End(s[Len(s)])
  BY DEF Tiled
<1>2. s \in Seq(Blocks) /\ s # << >>
  BY <1>1 DEF Chained
<1>3. Len(s) \in Nat
  BY <1>2, BlockFacts
<1>4. Len(s) > 0
  BY <1>2, <1>3, BlockFacts
<1>5. \A k \in 1..Len(s) : s[k].start \in Nat
  BY <1>2, BlockFacts
<1>6. \A k \in 1..Len(s) : s[k].size \in Nat /\ s[k].size > 0
  BY <1>2, BlockFacts
<1>7. \A k \in 1..Len(s) : End(s[k]) \in Nat
  BY <1>5, <1>6 DEF End
<1>8. \A k \in 1..Len(s) : End(s[k]) <= m
  BY <1>1, InOrder
<1>9. m \in Nat
  BY <1>1, <1>3, <1>4, <1>7
<1>. QED
  BY <1>1, <1>3, <1>4, <1>5, <1>6, <1>7, <1>8, <1>9

LEMMA CellOf ==
    ASSUME NEW s, NEW m, Tiled(s, m), NEW a \in 0..m - 1
    PROVE  \E k \in 1..Len(s) : InBlock(a, s[k])
<1>. DEFINE K == {k \in 1..Len(s) : a < End(s[k])}
<1>1. Len(s) \in K
  BY TiledFacts
<1>2. K \in SUBSET Nat
  BY TiledFacts
<1>3. PICK k \in K : \A x \in K : k <= x
  BY <1>1, <1>2, LeastElement
<1>4. s[k].start <= a
  <2>1. CASE k = 1
    BY <2>1, TiledFacts DEF Chained
  <2>2. CASE k # 1
    <3>1. k - 1 \in 1..Len(s) /\ k - 1 \in 1..Len(s) - 1 /\ k - 1 + 1 = k /\ ~(k <= k - 1)
      BY <1>3, <2>2, TiledFacts
    <3>2. ~(a < End(s[k - 1]))
      BY <1>3, <3>1
    <3>3. s[k - 1 + 1].start = End(s[k - 1])
      BY <3>1, TiledFacts DEF Chained, End
    <3>4. s[k].start = End(s[k - 1])
      BY <3>1, <3>3
    <3>5. End(s[k - 1]) \in Nat
      BY <3>1, TiledFacts
    <3>. QED
      BY ONLY <3>2, <3>4, <3>5, a \in 0..m - 1
  <2>. QED
    BY <2>1, <2>2
<1>. QED
  BY <1>3, <1>4 DEF InBlock

LEMMA FreeCell ==
    ASSUME NEW s, NEW m, Tiled(s, m), NEW k \in 1..Len(s), NEW a \in Int, InBlock(a, s[k])
    PROVE  a \in FreeOf(s, m) <=> s[k].owner = Part!NoOwner
<1>1. a \in 0..m - 1
  <2>1. s[k].start \in Nat /\ End(s[k]) \in Nat /\ End(s[k]) <= m /\ m \in Nat
    BY TiledFacts
  <2>. QED
    BY <2>1 DEF InBlock
<1>2. ASSUME s[k].owner # Part!NoOwner PROVE a \notin FreeOf(s, m)
  <2>1. s[k] \in Regions(s)
    BY <1>2 DEF Regions
  <2>. QED
    BY <2>1 DEF FreeOf
<1>3. ASSUME s[k].owner = Part!NoOwner PROVE a \in FreeOf(s, m)
  <2>1. ASSUME NEW b \in Regions(s) PROVE ~InBlock(a, b)
    <3>1. PICK x \in 1..Len(s) : b = s[x] /\ s[x].owner # Part!NoOwner
      BY DEF Regions
    <3>2. x # k
      BY <1>3, <3>1
    <3>3. /\ x < k => End(s[x]) <= s[k].start
          /\ k < x => End(s[k]) <= s[x].start
      BY TiledFacts, InOrder
    <3>4. /\ s[k].start \in Nat /\ End(s[k]) \in Nat
          /\ s[x].start \in Nat /\ End(s[x]) \in Nat
      BY TiledFacts
    <3>5. x < k \/ k < x
      BY <3>2
    <3>. QED
      BY <3>1, <3>3, <3>4, <3>5 DEF InBlock
  <2>. QED
    BY <1>1, <2>1 DEF FreeOf
<1>. QED
  BY <1>2, <1>3

(* A free block is a hole: its cells are free and the cells next to it are not.      *)
LEMMA HoleEdges ==
    ASSUME NEW s, NEW m, Tiled(s, m), Separate(s),
           NEW k \in 1..Len(s), s[k].owner = Part!NoOwner
    PROVE  /\ s[k].start - 1 \notin FreeOf(s, m) /\ End(s[k]) \notin FreeOf(s, m)
           /\ \A a \in s[k].start..End(s[k]) - 1 : a \in FreeOf(s, m)
<1>1. /\ s[k].start \in Nat /\ s[k].size \in Nat /\ s[k].size > 0 /\ End(s[k]) \in Nat
      /\ End(s[k]) <= m /\ m \in Nat /\ Len(s) \in Nat
  BY TiledFacts
<1>2. s[k].start - 1 \notin FreeOf(s, m)
  <2>1. CASE k = 1
    <3>1. s[k].start = 0
      BY <2>1, TiledFacts DEF Chained
    <3>. QED
      BY <3>1 DEF FreeOf
  <2>2. CASE k # 1
    <3>. DEFINE j == k - 1
    <3>1. j \in 1..Len(s) /\ j \in 1..Len(s) - 1 /\ j + 1 = k
      BY <1>1, <2>2
    <3>. HIDE DEF j
    <3>2. s[j].owner # Part!NoOwner
      BY <3>1 DEF Separate
    <3>3. s[j + 1].start = s[j].start + s[j].size
      BY <3>1, TiledFacts DEF Chained
    <3>4. s[j].start \in Nat /\ s[j].size \in Nat /\ s[j].size > 0
      BY <3>1, TiledFacts
    <3>5. InBlock(s[k].start - 1, s[j])
      BY <3>1, <3>3, <3>4 DEF InBlock, End
    <3>6. s[k].start - 1 \in Int
      BY <1>1
    <3>. QED
      BY <3>1, <3>2, <3>5, <3>6, FreeCell
  <2>. QED
    BY <2>1, <2>2
<1>3. End(s[k]) \notin FreeOf(s, m)
  <2>1. CASE k = Len(s)
    <3>1. End(s[k]) = m
      BY <2>1, TiledFacts
    <3>. QED
      BY <1>1, <3>1 DEF FreeOf
  <2>2. CASE k # Len(s)
    <3>. DEFINE j == k + 1
    <3>1. j \in 1..Len(s) /\ k \in 1..Len(s) - 1
      BY <1>1, <2>2
    <3>2. s[j].owner # Part!NoOwner
      BY <3>1 DEF Separate
    <3>3. s[j].start = End(s[k])
      BY <3>1, TiledFacts DEF Chained, End
    <3>. HIDE DEF j
    <3>4. s[j].size \in Nat /\ s[j].size > 0
      BY <3>1, TiledFacts
    <3>5. InBlock(End(s[k]), s[j])
      BY <1>1, <3>3, <3>4 DEF InBlock, End
    <3>6. End(s[k]) \in Int
      BY <1>1
    <3>. QED
      BY <3>1, <3>2, <3>5, <3>6, FreeCell
  <2>. QED
    BY <2>1, <2>2
<1>4. ASSUME NEW a \in s[k].start..End(s[k]) - 1 PROVE a \in FreeOf(s, m)
  <2>1. a \in Int /\ InBlock(a, s[k])
    BY <1>1 DEF InBlock
  <2>. QED
    BY <2>1, FreeCell
<1>. QED
  BY <1>2, <1>3, <1>4

HoleAt(s, k) == [start |-> s[k].start, size |-> s[k].size]
IsHole(h, s, m) ==
    /\ h \in [start : {a \in FreeOf(s, m) : a - 1 \notin FreeOf(s, m)}, size : 1..m]
    /\ h.start..h.start + h.size - 1 \subseteq FreeOf(s, m)
    /\ h.start + h.size \notin FreeOf(s, m)

LEMMA BlockIsHole ==
    ASSUME NEW s, NEW m, Tiled(s, m), Separate(s),
           NEW k \in 1..Len(s), s[k].owner = Part!NoOwner
    PROVE  IsHole(HoleAt(s, k), s, m)
<1>. DEFINE h == HoleAt(s, k)
<1>1. /\ s[k].start \in Nat /\ s[k].size \in Nat /\ s[k].size > 0
      /\ End(s[k]) <= m /\ m \in Nat
  BY TiledFacts
<1>2. /\ s[k].start - 1 \notin FreeOf(s, m) /\ End(s[k]) \notin FreeOf(s, m)
      /\ \A a \in s[k].start..End(s[k]) - 1 : a \in FreeOf(s, m)
  BY HoleEdges
<1>3. h.start = s[k].start /\ h.size = s[k].size
  BY DEF HoleAt
<1>4. s[k].start \in s[k].start..End(s[k]) - 1
  BY <1>1 DEF End
<1>5. s[k].start \in FreeOf(s, m)
  BY <1>2, <1>4
<1>6. s[k].size \in 1..m
  BY <1>1 DEF End
<1>7. h \in [start : {a \in FreeOf(s, m) : a - 1 \notin FreeOf(s, m)}, size : 1..m]
  BY <1>2, <1>5, <1>6 DEF HoleAt
<1>8. h.start + h.size = End(s[k])
  BY <1>3 DEF End
<1>9. IsHole(h, s, m)
  <2>. HIDE DEF h
  <2>1. h.start..h.start + h.size - 1 \subseteq FreeOf(s, m)
    <3>1. ASSUME NEW a \in h.start..h.start + h.size - 1
          PROVE  a \in s[k].start..End(s[k]) - 1
      BY <1>1, <1>3 DEF End
    <3>. QED
      BY <1>2, <3>1
  <2>. QED
    BY <1>2, <1>7, <1>8, <2>1 DEF IsHole
<1>. QED
  BY <1>9

LEMMA HoleIsBlock ==
    ASSUME NEW s, NEW m, Tiled(s, m), Separate(s), NEW h, IsHole(h, s, m)
    PROVE  \E k \in 1..Len(s) : s[k].owner = Part!NoOwner /\ h = HoleAt(s, k)
<1>1. /\ h = [start |-> h.start, size |-> h.size]
      /\ h.start \in FreeOf(s, m) /\ h.start - 1 \notin FreeOf(s, m) /\ h.size \in 1..m
      /\ h.start..h.start + h.size - 1 \subseteq FreeOf(s, m)
      /\ h.start + h.size \notin FreeOf(s, m)
  BY DEF IsHole
<1>2. h.start \in 0..m - 1 /\ m \in Nat
  BY <1>1, TiledFacts DEF FreeOf
<1>3. PICK k \in 1..Len(s) : InBlock(h.start, s[k])
  BY <1>2, CellOf
<1>4. s[k].owner = Part!NoOwner
  <2>1. h.start \in Int
    BY <1>2
  <2>. QED
    BY <1>1, <1>3, <2>1, FreeCell
<1>5. /\ s[k].start \in Nat /\ s[k].size \in Nat /\ End(s[k]) \in Nat
      /\ End(s[k]) = s[k].start + s[k].size
  BY TiledFacts DEF End
<1>6. /\ s[k].start - 1 \notin FreeOf(s, m) /\ End(s[k]) \notin FreeOf(s, m)
      /\ \A a \in s[k].start..End(s[k]) - 1 : a \in FreeOf(s, m)
  BY <1>4, HoleEdges
<1>7. s[k].start <= h.start /\ h.start < End(s[k])
  BY <1>3 DEF InBlock
<1>8. h.start = s[k].start
  <2>. SUFFICES ASSUME s[k].start < h.start PROVE FALSE
    BY <1>2, <1>5, <1>7
  <2>1. h.start - 1 \in s[k].start..End(s[k]) - 1
    BY <1>2, <1>5, <1>7
  <2>. QED
    BY <1>1, <1>6, <2>1
<1>9. h.start + h.size = End(s[k])
  <2>1. CASE h.start + h.size < End(s[k])
    <3>1. h.start + h.size \in s[k].start..End(s[k]) - 1
      BY <1>1, <1>2, <1>5, <1>7, <2>1
    <3>. QED
      BY <1>1, <1>6, <3>1
  <2>2. CASE h.start + h.size > End(s[k])
    <3>1. End(s[k]) \in h.start..h.start + h.size - 1
      BY <1>1, <1>2, <1>5, <1>7, <2>2
    <3>. QED
      BY <1>1, <1>6, <3>1
  <2>. QED
    BY <1>1, <1>2, <1>5, <2>1, <2>2
<1>10. h.size = s[k].size
  BY <1>1, <1>2, <1>5, <1>8, <1>9
<1>. QED
  BY <1>1, <1>4, <1>8, <1>10 DEF HoleAt
--------------------------------------------------------------------------------
(* The list implements the map.                                                  *)
TheMap == RegionsOf(partitions)
TheFree == FreeOf(partitions, memory_size)

LEMMA MapIs ==
    /\ Part!Map!Init <=> /\ algorithm \in {"ff", "bf"} /\ memory_size \in Nat \ {0}
                         /\ TheMap = << >> /\ status = "none"
    /\ UNCHANGED <<algorithm, memory_size, partitions, status>> => UNCHANGED Part!Map!vars
<1>1. TheMap = [o \in {partitions[k].owner : k \in DOMAIN partitions} \ {Part!NoOwner} |->
                  LET p == partitions[CHOOSE k \in Part!Places(o) : TRUE]
                  IN  [start |-> p.start, size |-> p.size]]
  BY DEF TheMap, RegionsOf, Part!Places
<1>. QED
  BY <1>1 DEF Part!Map!Init, Part!Map!vars, TheMap, RegionsOf, Part!Places

LEMMA TheHoles ==
    ASSUME PartInv
    PROVE  /\ Part!Map!FreeCells = TheFree
           /\ \A h : h \in Part!Map!Holes <=> IsHole(h, partitions, memory_size)
<1>1. IsMap(TheMap, Regions(partitions))
  BY PartFacts, RegionsAre DEF PartInv, TheMap
<1>2. Part!Map!FreeCells
        = {a \in 0..memory_size - 1 :
             \A o \in DOMAIN TheMap :
                a \notin TheMap[o].start..TheMap[o].start + TheMap[o].size - 1}
  BY DEF Part!Map!FreeCells, Part!Map!Cells, TheMap, RegionsOf, Part!Places
<1>3. ASSUME NEW a \in 0..memory_size - 1
      PROVE  (\A o \in DOMAIN TheMap :
                 a \notin TheMap[o].start..TheMap[o].start + TheMap[o].size - 1)
             <=> \A b \in Regions(partitions) : ~InBlock(a, b)
  <2>1. ASSUME NEW b \in Regions(partitions)
        PROVE  b.start \in Nat /\ b.size \in Nat
    BY PartFacts, BlockFacts DEF Regions
  <2>2. ASSUME NEW b \in Regions(partitions)
        PROVE  /\ b.owner \in DOMAIN TheMap
               /\ TheMap[b.owner].start = b.start /\ TheMap[b.owner].size = b.size
    <3>1. b.owner \in DOMAIN TheMap
      BY <1>1 DEF IsMap
    <3>2. TheMap[b.owner] = [start |-> b.start, size |-> b.size]
      BY <1>1 DEF IsMap
    <3>. QED
      BY <3>1, <3>2
  <2>3. ASSUME NEW o \in DOMAIN TheMap PROVE \E b \in Regions(partitions) : b.owner = o
    BY <1>1 DEF IsMap
  <2>4. ASSUME NEW b \in Regions(partitions)
        PROVE  a \in b.start..b.start + b.size - 1 <=> InBlock(a, b)
    <3>1. a \in Int /\ b.start \in Int /\ b.size \in Int
      BY <2>1, PartFacts
    <3>. QED
      BY <3>1 DEF InBlock, End
  <2>. QED
    BY ONLY <2>2, <2>3, <2>4
<1>4. Part!Map!FreeCells = TheFree
  BY <1>2, <1>3 DEF TheFree, FreeOf
<1>. QED
  BY <1>4 DEF Part!Map!Holes, Part!Map!Cells, IsHole, TheFree

LEMMA MapAllocates ==
    ASSUME PartInv, PartInv', NEW o \in Owners, NEW n \in 1..memory_size + 1, NEW k,
           Allocates(o, n, k), UNCHANGED <<algorithm, memory_size>>
    PROVE  Part!Map!Alloc(o, n)
<1>. DEFINE s == partitions
            b == Part!Block(s[k].start, n, o)
<1>1. Best(k, n) /\ Part!Places(o) = {} /\ status' = "success"
  BY DEF Allocates
<1>2. k \in 1..Len(s) /\ s[k].owner = Part!NoOwner /\ s[k].size >= n
  BY <1>1, PartFacts DEF Best, Part!Fitting, Part!IsFree
<1>3. Tiled(s, memory_size) /\ Separate(s) /\ Chained(s)
  BY PartFacts DEF PartInv
<1>4. b.start = s[k].start /\ b.size = n /\ b.owner = o
  BY DEF Part!Block
<1>. DEFINE g == HoleAt(s, k)
<1>5. g \in Part!Map!Fitting(n)
  <2>1. IsHole(g, s, memory_size)
    BY <1>2, <1>3, BlockIsHole
  <2>2. g.size >= n
    BY <1>2 DEF HoleAt
  <2>. QED
    BY <2>1, <2>2, TheHoles DEF Part!Map!Fitting
<1>6. ASSUME NEW h \in Part!Map!Fitting(n) PROVE Part!Map!Preferred(g, h)
  <2>1. IsHole(h, s, memory_size) /\ h.size >= n
    BY <1>6, TheHoles DEF Part!Map!Fitting
  <2>2. PICK j \in 1..Len(s) : s[j].owner = Part!NoOwner /\ h = HoleAt(s, j)
    BY <1>3, <2>1, HoleIsBlock
  <2>3. /\ g.start = s[k].start /\ g.size = s[k].size
        /\ h.start = s[j].start /\ h.size = s[j].size
    BY <2>2 DEF HoleAt
  <2>4. j \in Part!Fitting(n)
    BY <2>1, <2>2, <2>3, PartFacts DEF Part!Fitting, Part!IsFree
  <2>5. CASE algorithm = "ff"
    <3>1. k <= j
      BY <1>1, <2>4, <2>5 DEF Best
    <3>2. /\ s[j].start < s[k].start <=> j < k
          /\ s[j].start \in Nat /\ s[k].start \in Nat
      BY <1>2, <1>3, InOrder, TiledFacts
    <3>3. j \in Nat /\ k \in Nat
      BY <1>2
    <3>4. g.start <= h.start
      BY ONLY <2>3, <3>1, <3>2, <3>3
    <3>. QED
      BY <2>5, <3>4 DEF Part!Map!Preferred
  <2>6. CASE algorithm = "bf"
    <3>1. Part!BetterFit(k, j)
      BY <1>1, <2>4, <2>6 DEF Best
    <3>. QED
      BY <2>3, <2>6, <3>1 DEF Part!BetterFit, Part!Map!Preferred
  <2>. QED
    BY <2>5, <2>6 DEF PartInv
<1>7. IsMap(TheMap, Regions(s))
  BY PartFacts, RegionsAre DEF PartInv, TheMap
<1>8. IsMap(TheMap', Regions(s) \cup {b})
  <2>. DEFINE t == partitions'
  <2>1. Chained(t) /\ OneEach(t)
    BY DEF PartInv, Tiled
  <2>2. Regions(t) = Regions(s) \cup {b}
    BY DEF Allocates
  <2>. HIDE DEF t
  <2>3. IsMap(RegionsOf(t), Regions(s) \cup {b})
    BY <2>1, <2>2, RegionsAre
  <2>. QED
    BY <2>3 DEF TheMap, t
<1>9. o \notin DOMAIN TheMap
  <2>1. \A x \in DOMAIN s : s[x].owner # o
    BY <1>1 DEF Part!Places
  <2>. QED
    BY <2>1 DEF TheMap, RegionsOf
<1>10. TheMap' = [q \in DOMAIN TheMap \cup {o} |->
                    IF q = o THEN [start |-> g.start, size |-> n] ELSE TheMap[q]]
  <2>1. g.start = s[k].start
    BY DEF HoleAt
  <2>. DEFINE new == TheMap'
              old == TheMap
              R == Regions(s)
              M == R \cup {b}
  <2>2. IsMap(old, R) /\ IsMap(new, M) /\ M = R \cup {b} /\ b.owner \notin DOMAIN old
    BY <1>4, <1>7, <1>8, <1>9
  <2>. HIDE DEF new, old, b, R, M
  <2>3. new = WithRegion(old, b)
    BY ONLY <2>2, MapAlloc
  <2>. QED
    BY <1>4, <2>1, <2>3 DEF new, old, WithRegion
<1>. HIDE DEF g
<1>. QED
  BY <1>1, <1>5, <1>6, <1>9, <1>10
     DEF Part!Map!Alloc, TheMap, RegionsOf, Part!Places

LEMMA MapReleases ==
    ASSUME PartInv, PartInv', NEW o \in Owners, NEW k, Releases(o, k)
    PROVE  Part!Map!Free(o)
<1>. DEFINE s == partitions
<1>1. k \in 1..Len(s) /\ s[k].owner = o /\ o # Part!NoOwner
  BY PartFacts, Assumed DEF Releases, Part!Places
<1>2. s[k] \in Regions(s)
  BY <1>1 DEF Regions
<1>3. IsMap(TheMap, Regions(s)) /\ OneEach(s)
  BY PartFacts, RegionsAre DEF PartInv, TheMap
<1>4. IsMap(TheMap', Regions(s) \ {s[k]})
  <2>. DEFINE t == partitions'
  <2>1. Chained(t) /\ OneEach(t)
    BY DEF PartInv, Tiled
  <2>2. Regions(t) = Regions(s) \ {s[k]}
    BY DEF Releases
  <2>. HIDE DEF t
  <2>3. IsMap(RegionsOf(t), Regions(s) \ {s[k]})
    BY <2>1, <2>2, RegionsAre
  <2>. QED
    BY <2>3 DEF TheMap, t
<1>5. o \in DOMAIN TheMap
  BY <1>1, <1>2, <1>3 DEF IsMap
<1>6. TheMap' = [q \in DOMAIN TheMap \ {o} |-> TheMap[q]]
  <2>. DEFINE new == TheMap'
              old == TheMap
              R == Regions(s)
              b == s[k]
              M == R \ {b}
  <2>1. \A a, c \in R : a.owner = c.owner => a = c
    BY <1>3 DEF OneEach
  <2>2. IsMap(old, R) /\ b \in R /\ IsMap(new, M) /\ M = R \ {b} /\ b.owner = o
    BY <1>1, <1>2, <1>3, <1>4
  <2>. HIDE DEF new, old, R, b, M
  <2>3. new = Without(old, b.owner)
    BY ONLY <2>1, <2>2, MapFree
  <2>. QED
    BY <2>2, <2>3 DEF new, old, Without
<1>. QED
  BY <1>5, <1>6 DEF Releases, Part!Map!Free, TheMap, RegionsOf, Part!Places

LEMMA MapInit == Part!Init => Part!Map!Init
<1>. SUFFICES ASSUME Part!Init PROVE Part!Map!Init
  OBVIOUS
<1>1. PartInv
  BY PartInit
<1>2. Regions(partitions) = {}
  <2>1. partitions = <<Part!Block(0, memory_size, Part!NoOwner)>>
    BY DEF Part!Init
  <2>2. Len(partitions) = 1 /\ partitions[1].owner = Part!NoOwner
    BY <2>1 DEF Part!Block
  <2>. QED
    BY <2>2 DEF Regions
<1>3. IsMap(TheMap, {})
  BY <1>1, <1>2, PartFacts, RegionsAre DEF PartInv, TheMap
<1>4. TheMap = << >>
  <2>1. DOMAIN TheMap = {} /\ TheMap = [o \in DOMAIN TheMap |-> TheMap[o]]
    BY <1>3 DEF IsMap
  <2>. QED
    BY <2>1
<1>. QED
  BY <1>1, <1>4, MapIs, PartFacts DEF Part!Init

LEMMA MapStep ==
    ASSUME PartInv, PartInv', Part!Next
    PROVE  Part!Map!Next
<1>1. PICK o \in Owners : Part!Free(o) \/ \E n \in 1..memory_size + 1 : Part!Alloc(o, n)
  BY DEF Part!Next
<1>2. CASE Part!Free(o)
  <2>1. UNCHANGED <<algorithm, memory_size>>
    BY <1>2 DEF Part!Free
  <2>2. CASE Part!Places(o) = {} /\ status' = "unknown" /\ UNCHANGED partitions
    <3>1. o \notin DOMAIN TheMap
      BY <2>2 DEF TheMap, RegionsOf, Part!Places
    <3>2. UNCHANGED TheMap
      BY <2>2 DEF TheMap
    <3>3. Part!Map!FreeFails(o)
      BY <2>2, <3>1, <3>2 DEF Part!Map!FreeFails, TheMap, RegionsOf, Part!Places
    <3>. QED
      BY <2>1, <3>3 DEF Part!Map!Next
  <2>3. CASE \E k : Releases(o, k)
    <3>1. Part!Map!Free(o)
      BY <2>3, MapReleases
    <3>. QED
      BY <2>1, <3>1 DEF Part!Map!Next
  <2>. QED
    BY <1>2, <2>2, <2>3, FreeStep
<1>3. ASSUME NEW n \in 1..memory_size + 1, Part!Alloc(o, n) PROVE Part!Map!Next
  <2>1. UNCHANGED <<algorithm, memory_size>>
    BY <1>3 DEF Part!Alloc
  <2>2. CASE Refuses(o, n)
    <3>1. UNCHANGED TheMap
      BY <2>2 DEF TheMap, Refuses
    <3>2. CASE Part!Places(o) # {} /\ status' = "duplicate"
      <4>1. o \in DOMAIN TheMap
        BY <3>2, Assumed DEF TheMap, RegionsOf, Part!Places
      <4>2. Part!Map!AllocFails(o, n)
        BY <3>1, <3>2, <4>1 DEF Part!Map!AllocFails, TheMap, RegionsOf, Part!Places
      <4>. QED
        BY <2>1, <4>2 DEF Part!Map!Next
    <3>3. CASE Part!Fitting(n) = {} /\ status' = "full"
      <4>1. Part!Map!Fitting(n) = {}
        <5>. SUFFICES ASSUME NEW h \in Part!Map!Fitting(n) PROVE FALSE
          OBVIOUS
        <5>1. IsHole(h, partitions, memory_size) /\ h.size >= n
          BY TheHoles DEF Part!Map!Fitting
        <5>2. Tiled(partitions, memory_size) /\ Separate(partitions)
          BY DEF PartInv
        <5>3. PICK j \in 1..Len(partitions) :
                 partitions[j].owner = Part!NoOwner /\ h = HoleAt(partitions, j)
          BY <5>1, <5>2, HoleIsBlock
        <5>4. j \in Part!Fitting(n)
          BY <5>1, <5>3, PartFacts DEF Part!Fitting, Part!IsFree, HoleAt
        <5>. QED
          BY <3>3, <5>4
      <4>2. Part!Map!AllocFails(o, n)
        BY <3>1, <3>3, <4>1 DEF Part!Map!AllocFails, TheMap, RegionsOf, Part!Places
      <4>. QED
        BY <2>1, <4>2 DEF Part!Map!Next
    <3>4. CASE status' = "memory"
      <4>1. Part!Map!AllocFails(o, n)
        BY <3>1, <3>4 DEF Part!Map!AllocFails, TheMap, RegionsOf, Part!Places
      <4>. QED
        BY <2>1, <4>1 DEF Part!Map!Next
    <3>. QED
      BY <2>2, <3>2, <3>3, <3>4 DEF Refuses
  <2>3. ASSUME NEW k, Allocates(o, n, k) PROVE Part!Map!Next
    <3>1. Part!Map!Alloc(o, n)
      BY <2>1, <2>3, MapAllocates
    <3>. QED
      BY <2>1, <3>1 DEF Part!Map!Next
  <2>. QED
    BY <1>3, <2>2, <2>3, AllocStep
<1>. QED
  BY <1>1, <1>2, <1>3
--------------------------------------------------------------------------------
(* The program: types of its own variables, and the simulation of its mode.         *)
IInv ==
    /\ phase \in {"parse", "run", "exit"}
    /\ exit_status \in {-1, 0, 1} /\ (exit_status = -1 <=> phase # "exit")
    /\ \/ mode = "partition" /\ PartInv
       \/ mode = "paging" /\ PagInv

LEMMA InitInv == Init => IInv
<1>1. Pag!PairInit => PagInv
  BY PagInitInv
<1>2. Part!Init => PartInv
  BY PartInit
<1>. QED
  BY <1>1, <1>2 DEF Init, IInv

(* The simulation of a mode is in the variables that Memory leaves alone when it does. *)
LEMMA PartKept ==
    PartInv /\ UNCHANGED <<algorithm, status, partition_vars>> => PartInv'
  BY DEF PartInv, partition_vars

LEMMA PagKept ==
    PagInv /\ UNCHANGED <<algorithm, status, paging_vars>> => PagInv'
  BY DEF PagInv, paging_vars, Pag!TypeOK, Pag!Loaded, Pag!Frames, Pag!Stamp

LEMMA NextInv == IInv /\ [Next]_vars => IInv'
<1>. SUFFICES ASSUME IInv, [Next]_vars PROVE IInv'
  OBVIOUS
<1>1. ASSUME UNCHANGED <<mode, algorithm, status, partition_vars, paging_vars>>
      PROVE  \/ mode' = "partition" /\ PartInv'
             \/ mode' = "paging" /\ PagInv'
  BY <1>1, PartKept, PagKept DEF IInv
<1>2. CASE Reject
  BY <1>1, <1>2 DEF Reject, Exit, IInv
<1>3. CASE Accept
  BY <1>1, <1>3 DEF Accept, IInv
<1>4. CASE RunPartition
  <2>1. CASE Part!Next /\ UNCHANGED <<program, paging_vars>>
    <3>1. mode = "partition" /\ PartInv
      BY <1>4 DEF RunPartition, IInv
    <3>2. PartInv'
      BY <2>1, <3>1, PartStep
    <3>. QED
      BY <2>1, <3>1, <3>2 DEF IInv, program
  <2>2. CASE /\ Exit(IF had_error THEN 1 ELSE 0)
             /\ UNCHANGED <<mode, algorithm, status, partition_vars, paging_vars>>
    BY <1>1, <2>2 DEF Exit, IInv
  <2>. QED
    BY <1>4, <2>1, <2>2 DEF RunPartition
<1>5. CASE RunPaging
  <2>1. CASE Pag!PairNext /\ UNCHANGED <<program, partition_vars>>
    <3>1. mode = "paging" /\ PagInv
      BY <1>5 DEF RunPaging, IInv
    <3>2. PagInv'
      BY <2>1, <3>1, PagStep
    <3>. QED
      BY <2>1, <3>1, <3>2 DEF IInv, program
  <2>2. CASE /\ Exit(IF status = "done" THEN 0 ELSE 1)
             /\ UNCHANGED <<mode, algorithm, status, partition_vars, paging_vars>>
    BY <1>1, <2>2 DEF Exit, IInv
  <2>. QED
    BY <1>5, <2>1, <2>2 DEF RunPaging
<1>6. CASE UNCHANGED vars
  BY <1>1, <1>6 DEF vars, program, IInv
<1>. QED
  BY <1>2, <1>3, <1>4, <1>5, <1>6 DEF Next

LEMMA Invariance == Spec => []IInv
  BY InitInv, NextInv, PTL DEF Spec

(* Types: parsing, running and exiting, whichever simulation runs.                 *)
THEOREM TypeCorrect == Spec => []TypeOK
<1>1. IInv => TypeOK
  BY PartTypes DEF IInv, PagInv, TypeOK
<1>. QED
  BY <1>1, Invariance, PTL

(* The list tiles the memory after every allocation and every release, with a free   *)
(* neighbour merged on either side.                                              *)
THEOREM ListTiles == Spec => []Tiling
<1>1. IInv => Tiling
  BY PartTiling DEF IInv, Tiling
<1>. QED
  BY <1>1, Invariance, PTL

(* The stack property of LRU, for every reference string and number of frames.      *)
THEOREM LruFaultsLess == Spec => []Inclusion
<1>1. ASSUME IInv, mode = "paging", algorithm = "lru" PROVE Pag!Inclusion
  <2>1. /\ PagInv
        /\ Within(frame_count, frames, last_used_at,
                  frame_count + 1, more_frames, more_last_used_at)
        /\ more_faults <= faults
    BY <1>1 DEF IInv, PagInv
  <2>2. ASSUME NEW f \in Pag!Loaded PROVE frames[f] \in {more_frames[g] : g \in Pag!Large!Loaded}
    <3>1. f \in Full(frame_count, frames)
      BY DEF Pag!Loaded, Pag!Frames, Pag!Empty, Full, Slots
    <3>2. PICK g \in Full(frame_count + 1, more_frames) : more_frames[g] = frames[f]
      BY <2>1, <3>1 DEF Within
    <3>3. g \in Pag!Large!Loaded
      BY <3>2 DEF Pag!Large!Loaded, Pag!Large!Frames, Pag!Large!Empty, Full, Slots
    <3>. QED
      BY <3>2, <3>3
  <2>. QED
    BY <2>1, <2>2 DEF Pag!Inclusion
<1>2. IInv => Inclusion
  BY <1>1 DEF Inclusion, Pag!Inclusion
<1>. QED
  BY <1>2, Invariance, PTL

(* Allocations and releases of the list are those of the map of regions and holes.   *)
THEOREM ListImplementsMap == Spec => ImplementsMap
<1>1. Init => (mode = "partition" => Part!Map!Init)
  BY MapInit DEF Init
<1>2. IInv /\ IInv' /\ [Next]_vars
        => [mode = "partition" => Part!Map!Next \/ UNCHANGED Part!Map!vars]_vars
  <2>. SUFFICES ASSUME IInv, IInv', Next, mode = "partition"
                PROVE  Part!Map!Next \/ UNCHANGED Part!Map!vars
    OBVIOUS
  <2>1. ASSUME UNCHANGED <<mode, algorithm, status, partition_vars, paging_vars>>
        PROVE  UNCHANGED Part!Map!vars
    BY <2>1, MapIs DEF partition_vars
  <2>2. CASE Reject
    BY <2>1, <2>2 DEF Reject
  <2>3. CASE Accept
    BY <2>1, <2>3 DEF Accept
  <2>4. CASE RunPartition
    <3>1. CASE Part!Next /\ UNCHANGED <<program, paging_vars>>
      <4>1. mode' = "partition"
        BY <3>1 DEF program
      <4>2. PartInv /\ PartInv'
        BY <4>1 DEF IInv
      <4>. QED
        BY <3>1, <4>2, MapStep
    <3>. QED
      BY <2>1, <2>4, <3>1 DEF RunPartition
  <2>5. CASE RunPaging
    BY <2>5 DEF RunPaging
  <2>. QED
    BY <2>2, <2>3, <2>4, <2>5 DEF Next
<1>3. Spec => [][mode = "partition" => Part!Map!Next \/ UNCHANGED Part!Map!vars]_vars
  BY <1>2, Invariance, PTL DEF Spec
<1>4. Spec => (mode = "partition" => Part!Map!Init)
  BY <1>1 DEF Spec
<1>. QED
  BY <1>3, <1>4 DEF ImplementsMap

(* Every hit and every eviction is that of the queue of pages.                      *)
THEOREM StampsImplementQueue == Spec => ImplementsCache
<1>1. Init => (mode = "paging" => Pag!Cache!Init)
  BY CacheInit DEF Init
<1>2. IInv /\ IInv' /\ [Next]_vars
        => [mode = "paging" => Pag!Cache!Next \/ UNCHANGED Pag!Cache!vars]_vars
  <2>. SUFFICES ASSUME IInv, Next, mode = "paging"
                PROVE  Pag!Cache!Next \/ UNCHANGED Pag!Cache!vars
    OBVIOUS
  <2>1. ASSUME UNCHANGED <<mode, algorithm, status, partition_vars, paging_vars>>
        PROVE  UNCHANGED Pag!Cache!vars
    BY <2>1, CacheSame
  <2>2. CASE Reject
    BY <2>1, <2>2 DEF Reject
  <2>3. CASE Accept
    BY <2>1, <2>3 DEF Accept
  <2>4. CASE RunPartition
    BY <2>4 DEF RunPartition
  <2>5. CASE RunPaging
    <3>1. CASE Pag!PairNext /\ UNCHANGED <<program, partition_vars>>
      <4>1. PagInv
        BY DEF IInv
      <4>. QED
        BY <3>1, <4>1, CacheStep
    <3>. QED
      BY <2>1, <2>5, <3>1 DEF RunPaging
  <2>. QED
    BY <2>2, <2>3, <2>4, <2>5 DEF Next
<1>3. Spec => [][mode = "paging" => Pag!Cache!Next \/ UNCHANGED Pag!Cache!vars]_vars
  BY <1>2, Invariance, PTL DEF Spec
<1>4. Spec => (mode = "paging" => Pag!Cache!Init)
  BY <1>1 DEF Spec
<1>. QED
  BY <1>3, <1>4 DEF ImplementsCache
================================================================================
