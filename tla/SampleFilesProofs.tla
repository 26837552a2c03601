--------------------------- MODULE SampleFilesProofs ---------------------------
(* Theorems about SampleFiles for all readings, any number of runs and of rows.     *)
EXTENDS SampleFiles, SequenceTheorems, WellFoundedInduction, TLAPS

LEMMA Assumed == MaxValue \in Nat /\ MaxRuns \in Nat /\ MaxRows \in Nat
  BY SampleAssumption

(* Under way: the run has a number. Status 0 is left only beside its own summary.    *)
Underway == pc # "idle" => run # 0
Summarised == pc = "idle" /\ result = 0 => summary.run = run
Inv == TypeOK /\ Underway /\ Summarised

LEMMA InvInit == Init => Inv
  <1>1. << >> \in Seq(Readings) /\ Len(<< >>) = 0
    OBVIOUS
  <1>2. Init => enabled \in BOOLEAN /\ error \in BOOLEAN
    BY Zenon DEF Init
  <1>3. Init => run = 0 /\ pc = "idle" /\ result = 1 /\ samples = << >> /\ summary.run = 0
    BY DEF Init, NoSummary
  <1> QED
    BY <1>1, <1>2, <1>3, Assumed DEF Inv, TypeOK, Underway, Summarised

LEMMA InvNext == Inv /\ [Next]_vars => Inv'
  <1> SUFFICES ASSUME Inv, [Next]_vars PROVE Inv'
    OBVIOUS
  <1> USE DEF Inv, TypeOK, Underway, Summarised
  <1>1. CASE OpenCsv
    <2>1. << >> \in Seq(Readings) /\ Len(<< >>) = 0
      OBVIOUS
    <2>2. error' \in BOOLEAN /\ enabled' \in BOOLEAN
      BY <1>1, Zenon DEF OpenCsv
    <2>3. /\ run' = run + 1 /\ run < MaxRuns /\ pc' = "sampling" /\ result' = 1
          /\ samples' = << >> /\ summary' = summary
      BY <1>1 DEF OpenCsv
    <2> QED
      BY <2>1, <2>2, <2>3, Assumed
  <1>2. ASSUME NEW r \in Readings, PrintRow(r) PROVE Inv'
    <2>1. CASE samples' = samples
      BY <1>2, <2>1 DEF PrintRow
    <2>2. CASE samples' = Append(samples, r)
      <3>1. samples' \in Seq(Readings) /\ Len(samples') = Len(samples) + 1
        BY <2>2
      <3> QED
        BY <1>2, <3>1, Assumed DEF PrintRow
    <2> QED
      BY <1>2, <2>1, <2>2 DEF PrintRow
  <1>3. CASE FlushRow
    BY <1>3 DEF FlushRow, Flush, FlushFails
  <1>4. CASE EndSampling
    BY <1>4 DEF EndSampling
  <1>5. CASE Interrupted
    BY <1>5 DEF Interrupted
  <1>6. CASE Cleanup
    <2>1. error' \in BOOLEAN
      BY <1>6, Zenon DEF Cleanup, FlushFails
    <2>2. /\ pc # "idle" /\ pc' \in {"summary", "idle"}
          /\ result' \in {0, 1} /\ (pc' = "idle" => result' = 1)
      BY <1>6 DEF Cleanup
    <2>3. UNCHANGED <<run, enabled, samples, summary>>
      BY <1>6 DEF Cleanup
    <2>4. enabled' \in BOOLEAN
      BY <2>3
    <2> QED
      BY <2>1, <2>2, <2>3, <2>4
  <1>7. CASE WriteSummary
    BY <1>7 DEF WriteSummary, SummaryOf, AfterSummary, NoSummary
  <1>8. CASE Killed
    <2>1. error' \in BOOLEAN
      BY <1>8, Zenon DEF Killed
    <2>2. pc' = "idle" /\ result' = 1 /\ UNCHANGED <<run, enabled, samples>>
      BY <1>8 DEF Killed
    <2>3. summary'.run \in {0, summary.run, run}
      BY <1>8 DEF Killed, NoSummary, SummaryOf
    <2>4. /\ run' \in 0..MaxRuns /\ result' \in {0, 1} /\ samples' \in Seq(Readings)
          /\ Len(samples') <= MaxRows /\ summary'.run \in 0..run' /\ Underway' /\ Summarised'
      BY <2>2, <2>3
    <2>5. enabled' \in BOOLEAN
      BY <2>2
    <2> QED
      BY <2>1, <2>2, <2>4, <2>5
  <1>9. CASE UNCHANGED vars
    BY <1>9 DEF vars
  <1> QED
    BY <1>1, <1>2, <1>3, <1>4, <1>5, <1>6, <1>7, <1>8, <1>9 DEF Next

LEMMA Invariant == Spec => []Inv
  BY InvInit, InvNext, PTL DEF Spec

(* The variables keep their types, and no run prints more rows than it may.          *)
THEOREM TypeCorrect == Spec => []TypeOK
  BY Invariant, PTL DEF Inv

(* However runs fail, are interrupted or are killed: a summary of an earlier run is     *)
(* found only beside a run that has not ended with status 0.                        *)
THEOREM OldSummaryAlwaysBetrayed == Spec => []OldSummaryBetrayed
  <1>1. Inv => OldSummaryBetrayed
    BY DEF Inv, TypeOK, Summarised, OldSummaryBetrayed
  <1> QED
    BY <1>1, Invariant, PTL
--------------------------------------------------------------------------------
(* What samples.csv and the buffer hold together: header and rows, whole and in order.  *)
Texts == {Decimal[n] : n \in Nat} \cup {"true", "false", "NA"} \cup ToSet(Header)
         \cup {Printed(r.found[name]) : r \in Readings, name \in Names}
Lines == Seq(Texts)
RowsOf == [k \in 1..Len(samples) |-> Row(samples[k], k - 1)]

FileHolds == run # 0 /\ ~error => /\ csv.lines \in Seq(Lines) /\ buffer \in Seq(Lines)
                                 /\ csv.tail = << >>
                                 /\ csv.lines \o buffer = <<Header>> \o RowsOf
Flushed == ~error /\ pc # "flush" /\ samples # << >> => buffer = << >>

LEMMA HeaderIsLine == Header \in Lines
  <1>1. Header \in Seq(ToSet(Header))
    BY DEF Header, ToSet, Psi, Cgroup, Oslab
  <1> QED
    BY <1>1 DEF Lines, Texts

LEMMA RowIsLine == ASSUME NEW r \in Readings, NEW i \in Nat PROVE Row(r, i) \in Lines
  <1>1. PrintedBool(enabled) \in Texts /\ PrintedBool(Available(r)) \in Texts
    BY DEF PrintedBool, Texts
  <1>2. Fields(r, Psi) \in Lines /\ Fields(r, Cgroup) \in Lines /\ Fields(r, Oslab) \in Lines
    BY DEF Fields, Lines, Texts, Names, ToSet, Psi, Cgroup, Oslab
  <1>3. Missing(Cgroup) \in Lines /\ Missing(Oslab) \in Lines
    BY DEF Missing, Lines, Texts, Cgroup, Oslab
  <1>4. CgroupFields(r) \in Lines /\ OslabFields(r) \in Lines
    BY <1>2, <1>3 DEF CgroupFields, OslabFields
  <1>5. Decimal[i] \in Texts
    BY DEF Texts
  <1> QED
    BY <1>1, <1>2, <1>4, <1>5 DEF Row, Lines

(* The row as a function of all that it depends on.                                 *)
RowOf(on, r, i) ==
    <<Decimal[i], PrintedBool(on)>> \o Fields(r, Psi)
    \o (IF on THEN Fields(r, Cgroup) ELSE Missing(Cgroup))
    \o <<PrintedBool(Available(r))>> \o OslabFields(r)

LEMMA RowsAre == RowsOf = [k \in 1..Len(samples) |-> RowOf(enabled, samples[k], k - 1)]
  BY DEF RowsOf, Row, RowOf, CgroupFields

LEMMA RowsAreNext ==
    RowsOf' = [k \in 1..Len(samples') |-> RowOf(enabled', samples'[k], k - 1)]
  BY DEF RowsOf, Row, RowOf, CgroupFields, OslabFields

LEMMA AppendRight ==
    ASSUME NEW S, NEW s \in Seq(S), NEW t \in Seq(S), NEW x \in S
    PROVE  s \o Append(t, x) = Append(s \o t, x)
  OBVIOUS

LEMMA AppendIs ==
    ASSUME NEW S, NEW s \in Seq(S), NEW x \in S
    PROVE  Append(s, x) = [k \in 1..Len(s) + 1 |-> IF k = Len(s) + 1 THEN x ELSE s[k]]
  <1> DEFINE n == Len(s)
             t == Append(s, x)
  <1>1. /\ t \in Seq(S) /\ Len(t) = n + 1 /\ t[n + 1] = x
        /\ \A k \in 1..n : t[k] = s[k]
    BY AppendProperties
  <1>2. n \in Nat
    BY LenProperties
  <1> HIDE DEF n, t
  <1>3. t = [k \in 1..n + 1 |-> t[k]]
    BY <1>1, <1>2
  <1>4. \A k \in 1..n + 1 : t[k] = IF k = n + 1 THEN x ELSE s[k]
    BY <1>1, <1>2
  <1> QED
    BY <1>3, <1>4 DEF n, t

LEMMA EmptyRight == ASSUME NEW S, NEW s \in Seq(S) PROVE s \o << >> = s
  OBVIOUS

(* A row is printed.                                                              *)
LEMMA RowsOfAppend ==
    ASSUME samples \in Seq(Readings), NEW r \in Readings, samples' = Append(samples, r),
           enabled' = enabled
    PROVE  /\ RowsOf \in Seq(Lines)
           /\ RowsOf' = Append(RowsOf, Row(r, Len(samples)))
  <1> DEFINE n == Len(samples)
  <1>1. n \in Nat /\ n = Len(samples)
    OBVIOUS
  <1>2. /\ Len(samples') = n + 1 /\ samples'[n + 1] = r
        /\ \A k \in 1..n : samples'[k] = samples[k] /\ samples[k] \in Readings
    OBVIOUS
  <1> HIDE DEF n
  <1>3. \A k \in 1..n : Row(samples[k], k - 1) \in Lines
    BY <1>1, <1>2, RowIsLine
  <1>4. RowsOf \in Seq(Lines) /\ Len(RowsOf) = n
    BY <1>1, <1>3 DEF RowsOf
  <1>5. Row(r, n) = RowOf(enabled, r, n)
    BY DEF Row, RowOf, CgroupFields
  <1>6. RowsOf' = [k \in 1..n + 1 |-> IF k = n + 1 THEN Row(r, n) ELSE RowsOf[k]]
    <2>1. \A k \in 1..n : RowsOf[k] = RowOf(enabled, samples[k], k - 1)
      BY <1>1, RowsAre
    <2> QED
      BY <1>1, <1>2, <1>5, <2>1, RowsAreNext
  <1>7. Append(RowsOf, Row(r, n)) = [k \in 1..n + 1 |-> IF k = n + 1 THEN Row(r, n) ELSE RowsOf[k]]
    <2>1. Row(r, n) \in Lines
      BY <1>1, RowIsLine
    <2> QED
      BY <1>4, <2>1, AppendIs
  <1> QED
    BY <1>1, <1>4, <1>6, <1>7

LEMMA FileInit == Init => FileHolds /\ Flushed
  BY DEF Init, FileHolds, Flushed

(* A flush that succeeds moves the buffer into the file, whole.                       *)
LEMMA WrittenWhole ==
    ASSUME csv.lines \in Seq(Lines), buffer \in Seq(Lines), csv.tail = << >>
    PROVE  /\ Written(csv, buffer).tail = << >>
           /\ Written(csv, buffer).lines = csv.lines \o buffer
  <1>1. CASE buffer = << >>
    BY <1>1 DEF Written
  <1>2. CASE buffer # << >>
    <2>1. Head(buffer) \in Lines /\ buffer = <<Head(buffer)>> \o Tail(buffer)
          /\ Tail(buffer) \in Seq(Lines)
      BY <1>2
    <2>2. Glue(csv.tail, Head(buffer)) = Head(buffer)
      BY <2>1 DEF Glue, Lines
    <2>3. csv.lines \o <<Head(buffer)>> \o Tail(buffer) = csv.lines \o buffer
      BY <2>1
    <2> QED
      BY <1>2, <2>2, <2>3 DEF Written
  <1> QED
    BY <1>1, <1>2

LEMMA FileNext == Inv /\ FileHolds /\ Flushed /\ [Next]_vars => FileHolds' /\ Flushed'
  <1> SUFFICES ASSUME Inv, FileHolds, Flushed, [Next]_vars PROVE FileHolds' /\ Flushed'
    OBVIOUS
  <1>0. ASSUME UNCHANGED <<run, enabled, samples, csv, buffer, error>>
        PROVE  FileHolds'
    <2>1. RowsOf' = RowsOf
      BY <1>0 DEF RowsOf, Row, CgroupFields, OslabFields
    <2> QED
      BY <1>0, <2>1 DEF FileHolds
  <1>1. CASE OpenCsv
    <2>1. /\ samples' = << >> /\ buffer' = <<Header>> /\ csv' = NoFile
      BY <1>1 DEF OpenCsv
    <2>2. RowsOf' = << >>
      BY <2>1 DEF RowsOf
    <2>3. /\ csv'.lines = << >> /\ csv'.tail = << >>
      BY <2>1 DEF NoFile
    <2>4. << >> \o <<Header>> = <<Header>> \o << >> /\ <<Header>> \in Seq(Lines)
          /\ << >> \in Seq(Lines)
      BY HeaderIsLine
    <2> QED
      BY <2>1, <2>2, <2>3, <2>4 DEF FileHolds, Flushed
  <1>2. ASSUME NEW r \in Readings, PrintRow(r) PROVE FileHolds' /\ Flushed'
    <2>1. CASE ~Readable(r)
      <3>1. UNCHANGED <<run, enabled, samples, csv, buffer, error>> /\ pc = "sampling"
        BY <1>2, <2>1 DEF PrintRow
      <3> QED
        BY <1>0, <3>1 DEF Flushed
    <2>2. CASE Readable(r)
      <3> DEFINE row == Row(r, Len(samples))
      <3>1. /\ buffer' = Append(buffer, row) /\ samples' = Append(samples, r)
            /\ UNCHANGED <<run, enabled, csv, error>> /\ run # 0
            /\ pc' = IF error THEN "cleanup" ELSE "flush"
        BY <1>2, <2>2 DEF PrintRow, Inv, Underway
      <3>2. Flushed'
        BY <3>1 DEF Flushed
      <3>3. ASSUME ~error PROVE FileHolds'
        <4>1. /\ csv.lines \in Seq(Lines) /\ buffer \in Seq(Lines) /\ csv.tail = << >>
              /\ csv.lines \o buffer = <<Header>> \o RowsOf
          BY <3>1, <3>3 DEF FileHolds
        <4>2. samples \in Seq(Readings) /\ row \in Lines
          BY RowIsLine DEF Inv, TypeOK
        <4>3. RowsOf \in Seq(Lines) /\ RowsOf' = Append(RowsOf, row)
          BY <3>1, <4>2, RowsOfAppend
        <4> DEFINE lines == csv.lines
        <4> lines \in Seq(Lines) /\ buffer \in Seq(Lines) /\ row \in Lines
          BY <4>1, <4>2
        <4> HIDE DEF row, lines
        <4>4. lines \o Append(buffer, row) = Append(lines \o buffer, row)
          BY AppendRight
        <4>5. <<Header>> \o Append(RowsOf, row) = Append(<<Header>> \o RowsOf, row)
          BY <4>2, <4>3, HeaderIsLine, AppendRight
        <4>6. Append(buffer, row) \in Seq(Lines)
          BY <4>1, <4>2
        <4> QED
          BY <3>1, <4>1, <4>3, <4>4, <4>5, <4>6 DEF FileHolds, lines
      <3> QED
        BY <3>1, <3>2, <3>3 DEF FileHolds
    <2> QED
      BY <2>1, <2>2
  <1>3. ASSUME UNCHANGED <<run, enabled, samples>>,
               \/ csv' = Written(csv, buffer) /\ buffer' = << >> /\ UNCHANGED error
               \/ FlushFails
        PROVE  FileHolds' /\ Flushed'
    <2>1. RowsOf' = RowsOf
      BY <1>3 DEF RowsOf, Row, CgroupFields, OslabFields
    <2>2. CASE FlushFails
      BY <2>2 DEF FlushFails, FileHolds, Flushed
    <2>3. CASE csv' = Written(csv, buffer) /\ buffer' = << >> /\ UNCHANGED error
      <3>1. Flushed'
        BY <2>3 DEF Flushed
      <3>2. ASSUME run # 0, ~error PROVE FileHolds'
        <4>1. /\ csv.lines \in Seq(Lines) /\ buffer \in Seq(Lines) /\ csv.tail = << >>
              /\ csv.lines \o buffer = <<Header>> \o RowsOf
          BY <3>2 DEF FileHolds
        <4>2. csv'.tail = << >> /\ csv'.lines = csv.lines \o buffer
          BY <2>3, <4>1, WrittenWhole
        <4> DEFINE lines == csv.lines
        <4> lines \in Seq(Lines) /\ buffer \in Seq(Lines)
          BY <4>1
        <4> HIDE DEF lines
        <4>3. lines \o buffer \in Seq(Lines) /\ << >> \in Seq(Lines)
          BY ConcatProperties
        <4>4. (lines \o buffer) \o << >> = lines \o buffer
          BY <4>3, EmptyRight
        <4> QED
          BY <1>3, <2>1, <2>3, <4>1, <4>2, <4>3, <4>4 DEF FileHolds, lines
      <3> QED
        BY <1>3, <2>3, <3>1, <3>2 DEF FileHolds
    <2> QED
      BY <1>3, <2>2, <2>3
  <1>4. CASE FlushRow
    BY <1>3, <1>4 DEF FlushRow, Flush
  <1>5. CASE Cleanup
    <2>1. CASE buffer = << >>
      <3>1. UNCHANGED <<run, enabled, samples, csv, buffer, error>>
        BY <1>5, <2>1 DEF Cleanup
      <3> QED
        BY <1>0, <2>1, <3>1 DEF Flushed
    <2>2. CASE buffer # << >>
      BY <1>3, <1>5, <2>2 DEF Cleanup
    <2> QED
      BY <2>1, <2>2
  <1>6. CASE Killed
    <2>1. UNCHANGED <<run, enabled, samples>> /\ buffer' = << >>
      BY <1>6 DEF Killed
    <2>2. CASE buffer # << >>
      BY <1>6, <2>2 DEF Killed, FileHolds, Flushed
    <2>3. CASE buffer = << >>
      <3>1. PartlyWritten(csv, buffer) = {}
        BY <2>3 DEF PartlyWritten
      <3>2. csv' = csv
        BY <1>6, <3>1 DEF Killed, Views
      <3>3. error' = (error \/ buffer # << >>)
        BY <1>6 DEF Killed
      <3>4. RowsOf' = RowsOf
        BY <2>1 DEF RowsOf, Row, CgroupFields, OslabFields
      <3> QED
        BY <2>1, <2>3, <3>2, <3>3, <3>4 DEF FileHolds, Flushed
    <2> QED
      BY <2>2, <2>3
  <1>7. CASE EndSampling \/ Interrupted \/ WriteSummary \/ UNCHANGED vars
    <2>1. /\ UNCHANGED <<run, enabled, samples, csv, buffer, error>>
          /\ pc' # "flush" => pc # "flush"
      BY <1>7 DEF EndSampling, Interrupted, WriteSummary, vars
    <2> QED
      BY <1>0, <2>1 DEF Flushed
  <1> QED
    BY <1>1, <1>2, <1>4, <1>5, <1>6, <1>7 DEF Next

RowsKept == run # 0 /\ ~error /\ pc # "flush" /\ samples # << >> =>
                csv.tail = << >> /\ csv.lines = <<Header>> \o RowsOf

(* Unless a write has failed, samples.csv holds after every flush the header and one     *)
(* whole line for each row printed, in order: also when the run was interrupted or killed. *)
THEOREM NoRowLost == Spec => []RowsKept
  <1>1. FileHolds /\ Flushed => RowsKept
    <2> SUFFICES ASSUME FileHolds, Flushed, run # 0, ~error, pc # "flush", samples # << >>
                 PROVE  csv.tail = << >> /\ csv.lines = <<Header>> \o RowsOf
      BY DEF RowsKept
    <2>1. buffer = << >> /\ csv.lines \in Seq(Lines)
      BY DEF FileHolds, Flushed
    <2>2. csv.lines \o << >> = csv.lines
      BY <2>1, EmptyRight
    <2> QED
      BY <2>1, <2>2 DEF FileHolds
  <1>2. Spec => [](Inv /\ FileHolds /\ Flushed)
    BY InvInit, InvNext, FileInit, FileNext, PTL DEF Spec
  <1> QED
    BY <1>1, <1>2, PTL
--------------------------------------------------------------------------------
(* What the fold over the file makes of a printed field.                           *)
Values == {NotFound} \cup 0..MaxValue

LEMMA DecimalRead ==
    ASSUME NEW n \in 0..MaxValue
    PROVE  IsNumber(Decimal[n]) /\ Number(Decimal[n]) = n
<1>1. \A m \in 0..MaxValue : Decimal[m] = Decimal[n] => m = n
  BY SampleAssumption
<1>2. PICK x \in 0..MaxValue : Decimal[x] = Decimal[n]
  OBVIOUS
<1>. QED
  BY <1>1 DEF IsNumber, Number

LEMMA PrintedRead ==
    ASSUME NEW v \in Values
    PROVE  /\ IsNumber(Printed(v)) <=> v # NotFound
           /\ v # NotFound => Number(Printed(v)) = v
<1>1. CASE v = NotFound
  <2>1. Printed(v) = "NA"
    BY <1>1 DEF Printed
  <2>2. ~IsNumber("NA")
    BY SampleAssumption DEF IsNumber
  <2>. QED
    BY <1>1, <2>1, <2>2
<1>2. CASE v # NotFound
  <2>1. Printed(v) = Decimal[v] /\ v \in 0..MaxValue
    BY <1>2 DEF Printed, Values
  <2>. QED
    BY <1>2, <2>1, DecimalRead
<1>. QED
  BY <1>1, <1>2
--------------------------------------------------------------------------------
(* Header and rows have the same shape: two fields, the lines of PSI, the cgroup,    *)
(* one field, and those of overview.                                            *)
IsConcat(S, s, t, u) ==
    /\ u \in Seq(S) /\ Len(u) = Len(s) + Len(t)
    /\ \A k \in 1..Len(s) : u[k] = s[k]
    /\ \A k \in 1..Len(t) : u[Len(s) + k] = t[k]

LEMMA Concat ==
    ASSUME NEW S, NEW s \in Seq(S), NEW t \in Seq(S)
    PROVE  IsConcat(S, s, t, s \o t)
<1>. DEFINE m == Len(s)
            n == Len(t)
            u == s \o t
<1>1. /\ u \in Seq(S) /\ Len(u) = m + n
      /\ \A k \in 1..m + n : u[k] = IF k <= m THEN s[k] ELSE t[k - m]
  BY ConcatProperties
<1>2. m \in Nat /\ n \in Nat
  BY LenProperties
<1>. HIDE DEF m, n, u
<1>3. ASSUME NEW k \in 1..m PROVE u[k] = s[k]
  BY <1>1, <1>2
<1>4. ASSUME NEW k \in 1..n PROVE u[m + k] = t[k]
  <2>. DEFINE j == m + k
  <2>1. j \in 1..m + n /\ ~(j <= m) /\ j - m = k
    BY <1>2
  <2>. HIDE DEF j
  <2>2. u[j] = t[k]
    BY <1>1, <2>1
  <2>. QED
    BY <2>2 DEF j
<1>. QED
  BY <1>1, <1>3, <1>4 DEF m, n, u, IsConcat

IsFive(S, a, b, c, d, e, s) ==
    /\ s \in Seq(S) /\ Len(s) = 16
    /\ \A k \in 1..2 : s[k] = a[k]
    /\ \A k \in 1..6 : s[2 + k] = b[k]
    /\ \A k \in 1..5 : s[8 + k] = c[k]
    /\ s[14] = d[1]
    /\ \A k \in 1..2 : s[14 + k] = e[k]

LEMMA FiveParts ==
    ASSUME NEW S, NEW a \in Seq(S), NEW b \in Seq(S), NEW c \in Seq(S), NEW d \in Seq(S),
           NEW e \in Seq(S), Len(a) = 2, Len(b) = 6, Len(c) = 5, Len(d) = 1, Len(e) = 2
    PROVE  IsFive(S, a, b, c, d, e, a \o b \o c \o d \o e)
<1>. DEFINE ab == a \o b
            abc == ab \o c
            abcd == abc \o d
            s == abcd \o e
<1>1. IsConcat(S, a, b, ab)
  BY Concat
<1>2. ab \in Seq(S) /\ Len(ab) = 8
  BY <1>1 DEF IsConcat
<1>20. (\A k \in 1..2 : ab[k] = a[k]) /\ \A k \in 1..6 : ab[2 + k] = b[k]
  BY <1>1 DEF IsConcat
<1>. HIDE DEF ab
<1>3. IsConcat(S, ab, c, abc)
  BY <1>2, Concat
<1>4. abc \in Seq(S) /\ Len(abc) = 13
  BY <1>2, <1>3 DEF IsConcat
<1>40. (\A k \in 1..8 : abc[k] = ab[k]) /\ \A k \in 1..5 : abc[8 + k] = c[k]
  BY <1>2, <1>3 DEF IsConcat
<1>. HIDE DEF abc
<1>5. IsConcat(S, abc, d, abcd)
  BY <1>4, Concat
<1>6. abcd \in Seq(S) /\ Len(abcd) = 14
  BY <1>4, <1>5 DEF IsConcat
<1>60. (\A k \in 1..13 : abcd[k] = abc[k]) /\ abcd[14] = d[1]
  <2>1. \A k \in 1..1 : abcd[13 + k] = d[k]
    BY <1>4, <1>5 DEF IsConcat
  <2>2. \A k \in 1..13 : abcd[k] = abc[k]
    BY <1>4, <1>5 DEF IsConcat
  <2>3. 1 \in 1..1 /\ 13 + 1 = 14
    OBVIOUS
  <2>4. abcd[13 + 1] = d[1]
    BY <2>1, <2>3, Zenon
  <2>. QED
    BY <2>2, <2>3, <2>4, Zenon
<1>. HIDE DEF abcd
<1>7. IsConcat(S, abcd, e, s)
  BY <1>6, Concat
<1>8. s \in Seq(S) /\ Len(s) = 16
  BY <1>6, <1>7 DEF IsConcat
<1>80. (\A k \in 1..14 : s[k] = abcd[k]) /\ \A k \in 1..2 : s[14 + k] = e[k]
  BY <1>6, <1>7 DEF IsConcat
<1>. HIDE DEF s
<1>9. \A k \in 1..2 : s[k] = a[k]
  BY <1>20, <1>40, <1>60, <1>80
<1>10. ASSUME NEW k \in 1..6 PROVE s[2 + k] = b[k]
  <2>1. 2 + k \in 1..14 /\ 2 + k \in 1..13 /\ 2 + k \in 1..8
    OBVIOUS
  <2>2. ab[2 + k] = b[k]
    BY <1>20
  <2>. QED
    BY <1>40, <1>60, <1>80, <2>1, <2>2
<1>11. ASSUME NEW k \in 1..5 PROVE s[8 + k] = c[k]
  <2>1. 8 + k \in 1..14 /\ 8 + k \in 1..13
    OBVIOUS
  <2>2. abc[8 + k] = c[k]
    BY <1>40
  <2>. QED
    BY <1>60, <1>80, <2>1, <2>2
<1>12. s[14] = d[1]
  BY <1>60, <1>80
<1>13. IsFive(S, a, b, c, d, e, s)
  BY <1>8, <1>80, <1>9, <1>10, <1>11, <1>12 DEF IsFive
<1>. QED
  BY <1>13 DEF s, abcd, abc, ab

HeaderNames == {"sample_index", "cgroup_enabled", "cpu_some_total", "cpu_full_total",
                "memory_some_total", "memory_full_total", "io_some_total", "io_full_total",
                "cgroup_cpu_usage_usec", "cgroup_cpu_user_usec", "cgroup_memory_current",
                "cgroup_memory_events_high", "cgroup_memory_events_oom_kill",
                "oslab_monitor_available", "oslab_total_tasks", "oslab_mem_available_kb"}

LEMMA HeaderFields ==
    /\ Header \in Seq(HeaderNames) /\ Len(Header) = 16
    /\ Header[1] = "sample_index" /\ Header[2] = "cgroup_enabled"
    /\ \A k \in 1..6 : Header[2 + k] = Psi[k]
    /\ \A k \in 1..5 : Header[8 + k] = Cgroup[k]
    /\ Header[14] = "oslab_monitor_available"
    /\ \A k \in 1..2 : Header[14 + k] = Oslab[k]
<1>. DEFINE a == <<"sample_index", "cgroup_enabled">>
            d == <<"oslab_monitor_available">>
<1>1. /\ a \in Seq(HeaderNames) /\ Len(a) = 2 /\ d \in Seq(HeaderNames) /\ Len(d) = 1
  BY DEF HeaderNames
<1>2. a[1] = "sample_index" /\ a[2] = "cgroup_enabled" /\ d[1] = "oslab_monitor_available"
  OBVIOUS
<1>3. /\ Psi \in Seq(HeaderNames) /\ Len(Psi) = 6
  BY DEF Psi, HeaderNames
<1>4. /\ Cgroup \in Seq(HeaderNames) /\ Len(Cgroup) = 5
  BY DEF Cgroup, HeaderNames
<1>5. Oslab \in Seq(HeaderNames) /\ Len(Oslab) = 2
  BY DEF Oslab, HeaderNames
<1>6. Header = a \o Psi \o Cgroup \o d \o Oslab
  BY DEF Header
<1>. HIDE DEF a, d
<1>7. IsFive(HeaderNames, a, Psi, Cgroup, d, Oslab, Header)
  BY <1>1, <1>3, <1>4, <1>5, <1>6, FiveParts
<1>. QED
  BY <1>2, <1>7 DEF IsFive

LEMMA HeaderAt ==
    /\ Header[1] = "sample_index" /\ Header[2] = "cgroup_enabled"
    /\ Header[3] = "cpu_some_total" /\ Header[4] = "cpu_full_total"
    /\ Header[5] = "memory_some_total" /\ Header[6] = "memory_full_total"
    /\ Header[7] = "io_some_total" /\ Header[8] = "io_full_total"
    /\ Header[9] = "cgroup_cpu_usage_usec" /\ Header[10] = "cgroup_cpu_user_usec"
    /\ Header[11] = "cgroup_memory_current" /\ Header[12] = "cgroup_memory_events_high"
    /\ Header[13] = "cgroup_memory_events_oom_kill"
    /\ Header[14] = "oslab_monitor_available"
    /\ Header[15] = "oslab_total_tasks" /\ Header[16] = "oslab_mem_available_kb"
<1>1. /\ Header[2 + 1] = Psi[1] /\ Header[2 + 2] = Psi[2] /\ Header[2 + 3] = Psi[3]
      /\ Header[2 + 4] = Psi[4] /\ Header[2 + 5] = Psi[5] /\ Header[2 + 6] = Psi[6]
  BY HeaderFields
<1>2. /\ Header[8 + 1] = Cgroup[1] /\ Header[8 + 2] = Cgroup[2] /\ Header[8 + 3] = Cgroup[3]
      /\ Header[8 + 4] = Cgroup[4] /\ Header[8 + 5] = Cgroup[5]
  BY HeaderFields
<1>3. Header[14 + 1] = Oslab[1] /\ Header[14 + 2] = Oslab[2]
  BY HeaderFields
<1>4. /\ Header[1] = "sample_index" /\ Header[2] = "cgroup_enabled"
      /\ Header[14] = "oslab_monitor_available"
  BY HeaderFields
<1>5. /\ Psi[1] = "cpu_some_total" /\ Psi[2] = "cpu_full_total" /\ Psi[3] = "memory_some_total"
      /\ Psi[4] = "memory_full_total" /\ Psi[5] = "io_some_total" /\ Psi[6] = "io_full_total"
  BY DEF Psi
<1>6. /\ Cgroup[1] = "cgroup_cpu_usage_usec" /\ Cgroup[2] = "cgroup_cpu_user_usec"
      /\ Cgroup[3] = "cgroup_memory_current" /\ Cgroup[4] = "cgroup_memory_events_high"
      /\ Cgroup[5] = "cgroup_memory_events_oom_kill"
  BY DEF Cgroup
<1>7. Oslab[1] = "oslab_total_tasks" /\ Oslab[2] = "oslab_mem_available_kb"
  BY DEF Oslab
<1>. QED
  BY <1>1, <1>2, <1>3, <1>4, <1>5, <1>6, <1>7

(* No two columns have one name, so a name stands for its column.                    *)
LEMMA ColumnIs == \A k \in 1..16 : Column(Header, Header[k]) = k
<1>1. \A j, k \in 1..16 : Header[j] = Header[k] => j = k
  BY HeaderAt
<1>2. DOMAIN Header = 1..16 /\ Len(Header) = 16
  BY HeaderFields
<1>3. ASSUME NEW k \in 1..16 PROVE Column(Header, Header[k]) = k
  <2>1. Header[k] \in ToSet(Header)
    BY <1>2 DEF ToSet
  <2>2. \A x \in 1..16 :
           (Header[x] = Header[k] /\ \A j \in x + 1..16 : Header[j] # Header[k]) <=> x = k
    BY <1>1
  <2>. QED
    BY <1>2, <2>1, <2>2 DEF Column
<1>. QED
  BY <1>3

LEMMA RowFields ==
    ASSUME NEW r \in Readings, NEW i \in Nat
    PROVE  IsFive(Texts, <<Decimal[i], PrintedBool(enabled)>>, Fields(r, Psi), CgroupFields(r),
                  <<PrintedBool(Available(r))>>, OslabFields(r), Row(r, i))
<1>. DEFINE a == <<Decimal[i], PrintedBool(enabled)>>
            d == <<PrintedBool(Available(r))>>
<1>1. a \in Seq(Texts) /\ Len(a) = 2 /\ d \in Seq(Texts) /\ Len(d) = 1
  <2>1. PrintedBool(enabled) \in Texts /\ PrintedBool(Available(r)) \in Texts
    BY DEF PrintedBool, Texts
  <2>2. Decimal[i] \in Texts
    BY DEF Texts
  <2>. QED
    BY <2>1, <2>2
<1>2. DOMAIN Psi = 1..6 /\ DOMAIN Cgroup = 1..5 /\ DOMAIN Oslab = 1..2
  BY DEF Psi, Cgroup, Oslab
<1>3. \A n \in Names : Printed(r.found[n]) \in Texts
  BY DEF Texts
<1>4. /\ \A k \in 1..6 : Psi[k] \in Names
      /\ \A k \in 1..5 : Cgroup[k] \in Names
      /\ \A k \in 1..2 : Oslab[k] \in Names
  BY <1>2 DEF Names, ToSet
<1>5. Fields(r, Psi) \in Seq(Texts) /\ Len(Fields(r, Psi)) = 6
  BY <1>2, <1>3, <1>4 DEF Fields
<1>6. "NA" \in Texts
  BY DEF Texts
<1>7. CgroupFields(r) \in Seq(Texts) /\ Len(CgroupFields(r)) = 5
  <2>1. Fields(r, Cgroup) \in Seq(Texts) /\ Len(Fields(r, Cgroup)) = 5
    BY <1>2, <1>3, <1>4 DEF Fields
  <2>2. Missing(Cgroup) \in Seq(Texts) /\ Len(Missing(Cgroup)) = 5
    BY <1>2, <1>6 DEF Missing
  <2>. QED
    BY <2>1, <2>2 DEF CgroupFields
<1>8. OslabFields(r) \in Seq(Texts) /\ Len(OslabFields(r)) = 2
  <2>1. Fields(r, Oslab) \in Seq(Texts) /\ Len(Fields(r, Oslab)) = 2
    BY <1>2, <1>3, <1>4 DEF Fields
  <2>2. Missing(Oslab) \in Seq(Texts) /\ Len(Missing(Oslab)) = 2
    BY <1>2, <1>6 DEF Missing
  <2>. QED
    BY <2>1, <2>2 DEF OslabFields
<1>9. Row(r, i) = a \o Fields(r, Psi) \o CgroupFields(r) \o d \o OslabFields(r)
  BY DEF Row
<1>. HIDE DEF a, d
<1>10. IsFive(Texts, a, Fields(r, Psi), CgroupFields(r), d, OslabFields(r), Row(r, i))
  BY <1>1, <1>5, <1>7, <1>8, <1>9, FiveParts
<1>. QED
  BY <1>10 DEF a, d

(* The number that a row has in the column of a name.                              *)
FoundIn(on, r, m) ==
    IF (~on /\ m \in ToSet(Cgroup)) \/ (~r.oslab /\ m \in ToSet(Oslab))
    THEN NotFound ELSE r.found[m]
NumberColumns == 3..13 \cup {15, 16}

LEMMA FoundIsValue ==
    ASSUME NEW on, NEW r \in Readings, NEW m \in Names PROVE FoundIn(on, r, m) \in Values
<1>1. r.found[m] \in Values
  BY SampleAssumption DEF Reading, Values
<1>. QED
  BY <1>1 DEF FoundIn, Values

LEMMA Sections ==
    /\ \A k \in 1..6 : Psi[k] \notin ToSet(Cgroup) /\ Psi[k] \notin ToSet(Oslab)
    /\ \A k \in 1..5 : Cgroup[k] \in ToSet(Cgroup) /\ Cgroup[k] \notin ToSet(Oslab)
    /\ \A k \in 1..2 : Oslab[k] \in ToSet(Oslab) /\ Oslab[k] \notin ToSet(Cgroup)
  BY DEF Psi, Cgroup, Oslab, ToSet

LEMMA RowShows ==
    ASSUME NEW r \in Readings, NEW i \in Nat
    PROVE  /\ Row(r, i) \in Seq(Texts) /\ Len(Row(r, i)) = 16
           /\ Row(r, i)[2] = PrintedBool(enabled) /\ Row(r, i)[14] = PrintedBool(r.oslab)
           /\ \A k \in NumberColumns : Row(r, i)[k] = Printed(FoundIn(enabled, r, Header[k]))
<1>. DEFINE w == Row(r, i)
            V(m) == Printed(FoundIn(enabled, r, m))
<1>1. /\ w \in Seq(Texts) /\ Len(w) = 16
      /\ w[1] = Decimal[i] /\ w[2] = PrintedBool(enabled)
      /\ w[14] = PrintedBool(r.oslab)
      /\ \A k \in 1..6 : w[2 + k] = Fields(r, Psi)[k]
      /\ \A k \in 1..5 : w[8 + k] = CgroupFields(r)[k]
      /\ \A k \in 1..2 : w[14 + k] = OslabFields(r)[k]
  BY RowFields DEF IsFive, Available
<1>. HIDE DEF w
<1>2. DOMAIN Psi = 1..6 /\ DOMAIN Cgroup = 1..5 /\ DOMAIN Oslab = 1..2
  BY DEF Psi, Cgroup, Oslab
<1>3. ASSUME NEW k \in 1..6 PROVE w[2 + k] = V(Header[2 + k])
  <2>1. w[2 + k] = Printed(r.found[Psi[k]])
    BY <1>1, <1>2 DEF Fields
  <2>2. Header[2 + k] = Psi[k]
    BY HeaderFields
  <2>. QED
    BY <2>1, <2>2, Sections DEF FoundIn
<1>4. ASSUME NEW k \in 1..5 PROVE w[8 + k] = V(Header[8 + k])
  <2>1. w[8 + k] = IF enabled THEN Printed(r.found[Cgroup[k]]) ELSE "NA"
    BY <1>1, <1>2 DEF CgroupFields, Fields, Missing
  <2>2. Header[8 + k] = Cgroup[k]
    BY HeaderFields
  <2>. QED
    BY <2>1, <2>2, Sections DEF FoundIn, Printed
<1>5. ASSUME NEW k \in 1..2 PROVE w[14 + k] = V(Header[14 + k])
  <2>1. w[14 + k] = IF r.oslab THEN Printed(r.found[Oslab[k]]) ELSE "NA"
    BY <1>1, <1>2 DEF OslabFields, Available, Fields, Missing
  <2>2. Header[14 + k] = Oslab[k]
    BY HeaderFields
  <2>. QED
    BY <2>1, <2>2, Sections DEF FoundIn, Printed
<1>. HIDE DEF V
<1>6. ASSUME NEW k \in NumberColumns PROVE w[k] = V(Header[k])
  <2>1. CASE k \in 3..8
    <3>1. k - 2 \in 1..6 /\ 2 + (k - 2) = k
      BY <2>1
    <3>. QED
      BY <1>3, <3>1
  <2>2. CASE k \in 9..13
    <3>1. k - 8 \in 1..5 /\ 8 + (k - 8) = k
      BY <2>2
    <3>. QED
      BY <1>4, <3>1
  <2>3. CASE k \in {15, 16}
    <3>1. k - 14 \in 1..2 /\ 14 + (k - 14) = k
      BY <2>3
    <3>. QED
      BY <1>5, <3>1
  <2>. QED
    BY <2>1, <2>2, <2>3 DEF NumberColumns
<1>. QED
  BY <1>1, <1>6 DEF w, V

LEMMA MetricColumns ==
    ASSUME NEW m \in Metrics
    PROVE  /\ Column(Header, m) \in NumberColumns /\ Header[Column(Header, m)] = m
           /\ m # LastColumn => Column(Header, m) # 16
           /\ m \in Names
<1>1. \E k \in NumberColumns : Header[k] = m
  BY HeaderAt DEF Metrics, NumberColumns
<1>2. PICK k \in NumberColumns : Header[k] = m
  BY <1>1
<1>3. k \in 1..16 /\ Column(Header, m) = k
  BY <1>2, ColumnIs DEF NumberColumns
<1>4. m \in Names
  BY DEF Metrics, Names, ToSet, Psi, Cgroup, Oslab
<1>. QED
  BY <1>2, <1>3, <1>4, HeaderAt DEF LastColumn
--------------------------------------------------------------------------------
(* The fold over the printed values v[1], v[2], ... of a column.                     *)
Less == {pair \in Nat \X Nat : pair[1] < pair[2]}

LEMMA LeastElement ==
    ASSUME NEW S \in SUBSET Nat, S # {}
    PROVE  \E x \in S : \A y \in S : x <= y
<1>1. IsWellFoundedOn(Less, Nat)
  BY NatLessThanWellFounded DEF OpToRel, Less
<1>2. PICK x \in S : \A y \in S : <<y, x>> \notin Less
  BY <1>1, WFMin
<1>3. ASSUME NEW y \in S PROVE x <= y
  <2>1. ~(y < x)
    BY <1>2 DEF Less
  <2>. QED
    BY <2>1
<1>. QED
  BY <1>3

LEMMA MinIs ==
    ASSUME NEW S \in SUBSET Nat, NEW x \in S, \A y \in S : x <= y PROVE Min(S) = x
<1>. DEFINE Least(z) == \A y \in S : z =< y
<1>1. Min(S) = CHOOSE z \in S : Least(z)
  BY DEF Min
<1>2. Least(x)
  OBVIOUS
<1>3. \A z \in S : Least(z) => z = x
  OBVIOUS
<1>. HIDE DEF Least
<1>. QED
  BY <1>1, <1>2, <1>3

LEMMA MaxIs ==
    ASSUME NEW S \in SUBSET Nat, NEW x \in S, \A y \in S : y <= x PROVE Max(S) = x
<1>. DEFINE Greatest(z) == \A y \in S : z >= y
<1>1. Max(S) = CHOOSE z \in S : Greatest(z)
  BY DEF Max
<1>2. Greatest(x)
  OBVIOUS
<1>3. \A z \in S : Greatest(z) => z = x
  OBVIOUS
<1>. HIDE DEF Greatest
<1>. QED
  BY <1>1, <1>2, <1>3

LEMMA MinFacts ==
    ASSUME NEW S \in SUBSET Nat, S # {} PROVE Min(S) \in S /\ \A y \in S : Min(S) <= y
<1>1. PICK x \in S : \A y \in S : x <= y
  BY LeastElement
<1>. QED
  BY <1>1, MinIs

LEMMA MaxFacts ==
    ASSUME NEW b \in Nat, NEW S \in SUBSET 0..b, S # {}
    PROVE  Max(S) \in S /\ \A y \in S : y <= Max(S)
<1>. DEFINE D == {b - y : y \in S}
<1>1. D \in SUBSET Nat /\ D # {}
  <2>1. \A y \in S : b - y \in Nat
    OBVIOUS
  <2>. QED
    BY <2>1
<1>2. PICK d \in D : \A y \in D : d <= y
  BY <1>1, LeastElement
<1>3. PICK x \in S : d = b - x
  OBVIOUS
<1>4. ASSUME NEW y \in S PROVE y <= x
  <2>1. d <= b - y
    BY <1>2
  <2>. QED
    BY <1>3, <2>1
<1>. QED
  BY <1>4, MaxIs

Seen(v, k) == {j \in 1..k : v[j] # NotFound}
Amount(v, k) ==
    IF Seen(v, k) = {} THEN Unseen
    ELSE [seen |-> TRUE, first |-> v[Min(Seen(v, k))], last |-> v[Max(Seen(v, k))],
          max |-> Max({v[j] : j \in Seen(v, k)})]

LEMMA AmountStep ==
    ASSUME NEW n \in Nat, NEW v \in [1..n -> Values], NEW k \in 1..n
    PROVE  Amount(v, k) = Update(Amount(v, k - 1), Printed(v[k]))
<1>. DEFINE S == Seen(v, k - 1)
            T == Seen(v, k)
            new == v[k]
<1>0. k - 1 \in Nat /\ k \in Nat /\ k <= n
  OBVIOUS
<1>1. new \in Values
  OBVIOUS
<1>2. CASE new = NotFound
  <2>1. T = S
    BY <1>0, <1>2 DEF Seen
  <2>2. ~IsNumber(Printed(new))
    BY <1>1, <1>2, PrintedRead
  <2>. QED
    BY <2>1, <2>2 DEF Amount, Update
<1>3. CASE new # NotFound
  <2>1. T = S \cup {k}
    BY <1>0, <1>3 DEF Seen
  <2>2. IsNumber(Printed(new)) /\ Number(Printed(new)) = new
    BY <1>1, <1>3, PrintedRead
  <2>3. S \in SUBSET (1..k - 1) /\ S \in SUBSET Nat /\ T \in SUBSET Nat /\ k \in T
    BY <1>0, <2>1 DEF Seen
  <2>4. Max(T) = k
    <3>1. \A y \in T : y <= k
      BY <1>0, <2>1, <2>3
    <3>. HIDE DEF T
    <3>. QED
      BY <2>3, <3>1, MaxIs
  <2>5. \A j \in T : v[j] \in 0..MaxValue
    BY <1>0 DEF Seen, Values
  <2>6. CASE S = {}
    <3>1. T = {k}
      BY <2>1, <2>6
    <3>2. Min(T) = k
      BY <1>0, <3>1, MinIs
    <3>3. {v[j] : j \in T} = {new} /\ new \in Nat
      BY <2>5, <3>1, Assumed
    <3>4. Max({new}) = new
      BY <3>3, MaxIs
    <3>5. Amount(v, k - 1) = Unseen
      BY <2>6 DEF Amount
    <3>6. Amount(v, k) = [seen |-> TRUE, first |-> new, last |-> new, max |-> new]
      BY <2>4, <3>1, <3>2, <3>3, <3>4 DEF Amount
    <3>7. ~Amount(v, k - 1).seen
      BY <3>5 DEF Unseen
    <3>. HIDE DEF T, S
    <3>. QED
      BY <2>2, <3>6, <3>7 DEF Update
  <2>7. CASE S # {}
    <3>. DEFINE old == Max({v[j] : j \in S})
                top == IF new > old THEN new ELSE old
    <3>1. Min(S) \in S /\ \A y \in S : Min(S) <= y
      BY <2>3, <2>7, MinFacts
    <3>2. Min(T) = Min(S)
      <4>1. Min(S) \in T /\ \A y \in T : Min(S) <= y
        BY <1>0, <2>1, <2>3, <3>1
      <4>. HIDE DEF S, T
      <4>. QED
        BY <2>3, <4>1, MinIs
    <3>3. {v[j] : j \in S} \in SUBSET (0..MaxValue) /\ {v[j] : j \in S} # {}
      BY <2>1, <2>5, <2>7
    <3>4. old \in {v[j] : j \in S} /\ \A y \in {v[j] : j \in S} : y <= old
      BY <3>3, Assumed, MaxFacts
    <3>5. new \in 0..MaxValue /\ old \in 0..MaxValue
      BY <2>3, <2>5, <3>3, <3>4
    <3>6. Max({v[j] : j \in T}) = top
      <4>1. {v[j] : j \in T} = {v[j] : j \in S} \cup {new}
        BY <2>1
      <4>. DEFINE olds == {v[j] : j \in S}
                  all == {v[j] : j \in T}
      <4>2. all = olds \cup {new} /\ old \in olds /\ \A y \in olds : y <= old
        BY <3>4, <4>1
      <4>3. olds \in SUBSET (0..MaxValue) /\ new \in 0..MaxValue /\ old \in 0..MaxValue
        BY <3>3, <3>5
      <4>. HIDE DEF S, T, old, olds, all, new
      <4>4. all \in SUBSET Nat
        BY <4>2, <4>3, Assumed
      <4>5. top \in all
        BY <4>2
      <4>6. \A y \in all : y <= top
        BY <4>2, <4>3, Assumed
      <4>. HIDE DEF top
      <4>7. Max(all) = top
        BY <4>4, <4>5, <4>6, MaxIs
      <4>. QED
        BY <4>7 DEF all
    <3>7. Amount(v, k - 1) = [seen |-> TRUE, first |-> v[Min(S)], last |-> v[Max(S)],
                              max |-> old]
      BY <2>7 DEF Amount
    <3>8. Amount(v, k) = [seen |-> TRUE, first |-> v[Min(S)], last |-> new, max |-> top]
      BY <2>3, <2>4, <3>2, <3>6 DEF Amount
    <3>9. /\ Amount(v, k - 1).seen = TRUE /\ Amount(v, k - 1).first = v[Min(S)]
          /\ Amount(v, k - 1).max = old
      <4>. HIDE DEF old, S
      <4>. QED
        BY <3>7
    <3>. HIDE DEF old, S, T
    <3>10. Update(Amount(v, k - 1), Printed(new))
           = [seen |-> TRUE, last |-> new, first |-> v[Min(S)], max |-> top]
      BY <2>2, <3>9, Zenon DEF Update
    <3>. QED
      BY <3>8, <3>10
  <2>. QED
    BY <2>6, <2>7
<1>. QED
  BY <1>2, <1>3

LEMMA SummedIs ==
    ASSUME NEW n \in Nat, NEW v \in [1..n -> Values], NEW rows, Len(rows) = n,
           NEW column, column # 0, \A k \in 1..n : rows[k][column] = Printed(v[k])
    PROVE  Summed(rows, column) = Amount(v, n)
<1>. DEFINE Sums(f) == f = [k \in 0..n |-> IF k = 0 THEN Unseen
                                           ELSE Update(f[k - 1], rows[k][column])]
            sum == [k \in 0..n |-> Amount(v, k)]
<1>1. Summed(rows, column) = (CHOOSE f : Sums(f))[n]
  BY DEF Summed
<1>2. Amount(v, 0) = Unseen
  BY DEF Amount, Seen
<1>3. \A k \in 1..n : Amount(v, k) = Update(Amount(v, k - 1), rows[k][column])
  BY AmountStep
<1>4. Sums(sum)
  <2>1. ASSUME NEW k \in 0..n
        PROVE  Amount(v, k) = IF k = 0 THEN Unseen ELSE Update(sum[k - 1], rows[k][column])
    <3>1. CASE k = 0
      BY <1>2, <3>1
    <3>2. CASE k # 0
      <4>1. k \in 1..n /\ k - 1 \in 0..n
        BY <3>2
      <4>2. sum[k - 1] = Amount(v, k - 1)
        BY <4>1
      <4>. HIDE DEF sum
      <4>. QED
        BY <1>3, <3>2, <4>1, <4>2
    <3>. QED
      BY <3>1, <3>2
  <2>. QED
    BY <2>1
<1>5. ASSUME NEW f, Sums(f) PROVE f[n] = Amount(v, n)
  <2>. DEFINE Differs == {k \in 0..n : f[k] # Amount(v, k)}
  <2>1. ASSUME NEW k \in Differs, \A j \in Differs : k <= j PROVE FALSE
    <3>1. CASE k = 0
      BY <1>2, <1>5, <3>1
    <3>2. CASE k # 0
      <4>1. k \in 1..n /\ k - 1 \in 0..n /\ ~(k <= k - 1)
        BY <3>2
      <4>2. f[k - 1] = Amount(v, k - 1)
        BY <2>1, <4>1
      <4>3. f[k] = Update(f[k - 1], rows[k][column])
        BY <1>5, <3>2, <4>1
      <4>. QED
        BY <1>3, <4>1, <4>2, <4>3
    <3>. QED
      BY <3>1, <3>2
  <2>2. Differs \in SUBSET Nat
    OBVIOUS
  <2>. HIDE DEF Differs
  <2>3. Differs = {}
    BY <2>1, <2>2, LeastElement
  <2>. QED
    BY <2>3 DEF Differs
<1>. HIDE DEF Sums, sum
<1>. QED
  BY <1>1, <1>4, <1>5
--------------------------------------------------------------------------------
(* What a whole text says, and one whose last row lacks its last field.              *)
Wide == Texts \cup {""}
ShownBy(lines, n, columns) ==
    /\ lines \in Seq(Seq(Wide)) /\ Len(lines) = n + 1 /\ lines[1] = Header
    /\ \A k \in 1..n : /\ Len(lines[k + 1]) = 16
                       /\ \A c \in columns : lines[k + 1][c] = Row(samples[k], k - 1)[c]

LEMMA FoundIs == \A m, k : Found(m, k) = FoundIn(enabled, samples[k], m)
  BY DEF Found, FoundIn

LEMMA MetricSummed ==
    ASSUME samples \in Seq(Readings), NEW n \in 0..Len(samples), NEW m \in Metrics,
           NEW rows, Len(rows) = n,
           \A k \in 1..n : rows[k][Column(Header, m)] = Printed(Found(m, k))
    PROVE  Summed(rows, Column(Header, m)) = MetricOf(m, n)
<1>. DEFINE v == [k \in 1..n |-> Found(m, k)]
<1>1. n \in Nat /\ n <= Len(samples) /\ \A k \in 1..n : samples[k] \in Readings
  OBVIOUS
<1>2. v \in [1..n -> Values]
  BY <1>1, FoundIs, FoundIsValue, MetricColumns
<1>3. \A k \in 1..n : v[k] = Found(m, k)
  OBVIOUS
<1>. HIDE DEF v
<1>4. Column(Header, m) # 0
  BY MetricColumns DEF NumberColumns
<1>5. Summed(rows, Column(Header, m)) = Amount(v, n)
  BY <1>1, <1>2, <1>3, <1>4, SummedIs
<1>6. Seen(v, n) = {k \in 1..n : Found(m, k) # NotFound}
  BY <1>3 DEF Seen
<1>7. CASE Seen(v, n) = {}
  BY <1>5, <1>6, <1>7 DEF Amount, MetricOf
<1>8. CASE Seen(v, n) # {}
  <2>. DEFINE S == Seen(v, n)
  <2>1. S \subseteq 1..n /\ S \in SUBSET Nat /\ S \in SUBSET (0..n) /\ n \in Nat
    BY DEF Seen
  <2>2. Min(S) \in 1..n /\ Max(S) \in 1..n
    <3>. HIDE DEF S
    <3>1. S # {}
      BY <1>8 DEF S
    <3>. QED
      BY <2>1, <3>1, MinFacts, MaxFacts
  <2>3. {v[j] : j \in S} = {Found(m, j) : j \in S}
    BY <1>3, <2>1
  <2>4. v[Min(S)] = Found(m, Min(S)) /\ v[Max(S)] = Found(m, Max(S))
    BY <1>3, <2>2
  <2>5. Amount(v, n) = [seen |-> TRUE, first |-> v[Min(S)], last |-> v[Max(S)],
                        max |-> Max({v[j] : j \in S})]
    BY <1>8 DEF Amount
  <2>6. MetricOf(m, n) = [seen |-> TRUE, first |-> Found(m, Min(S)),
                          last |-> Found(m, Max(S)), max |-> Max({Found(m, j) : j \in S})]
    BY <1>6, <1>8 DEF MetricOf
  <2>. QED
    BY <1>5, <2>3, <2>4, <2>5, <2>6
<1>. QED
  BY <1>7, <1>8

(* The lines that a reader of the file is given.                                   *)
AllLines(file) == file.lines \o (IF file.tail = << >> THEN << >> ELSE <<file.tail>>)

(* read_csv_summary in terms of the lines alone.                                   *)
Says(lines, name, k) ==
    Column(lines[1], name) # 0 /\ lines[k + 1][Column(lines[1], name)] = "true"
StatsIn(lines) ==
    [sample_rows |-> Len(Tail(lines)), cgroup_enabled |-> Says(lines, "cgroup_enabled", 1),
     oslab_available |-> \E k \in 1..Len(Tail(lines)) : Says(lines, "oslab_monitor_available", k),
     metrics |-> [m \in Metrics |-> Summed(Tail(lines), Column(lines[1], m))]]

LEMMA StatsAre ==
    ASSUME NEW file, AllLines(file) \in Seq(Seq(Wide))
    PROVE  /\ Len(AllLines(file)) < 2 => Stats(file) = Failed
           /\ \A k \in 2..Len(AllLines(file)) :
                 Len(AllLines(file)[k]) # Len(AllLines(file)[1]) => Stats(file) = Failed
           /\ (/\ Len(AllLines(file)) >= 2
               /\ \A k \in 2..Len(AllLines(file)) :
                     Len(AllLines(file)[k]) = Len(AllLines(file)[1])) =>
              Stats(file) = StatsIn(AllLines(file))
<1>. DEFINE lines == AllLines(file)
            header == Head(lines)
            rows == Tail(lines)
            Told(name, k) == Column(header, name) # 0 /\ rows[k][Column(header, name)] = "true"
            Misfits == \E k \in DOMAIN rows : Len(rows[k]) # Len(header)
            Sum == [sample_rows |-> Len(rows), cgroup_enabled |-> Told("cgroup_enabled", 1),
                    oslab_available |-> \E k \in DOMAIN rows : Told("oslab_monitor_available", k),
                    metrics |-> [m \in Metrics |-> Summed(rows, Column(header, m))]]
<1>1. Stats(file) = IF Len(lines) < 2 \/ Misfits THEN Failed ELSE Sum
  BY Zenon DEF Stats, AllLines, Fits
<1>2. lines \in Seq(Seq(Wide)) /\ Len(lines) \in Nat
  OBVIOUS
<1>. HIDE DEF lines
<1>3. ASSUME Len(lines) >= 2
      PROVE  /\ header = lines[1] /\ Len(rows) = Len(lines) - 1 /\ DOMAIN rows = 1..Len(rows)
             /\ \A k \in 1..Len(lines) - 1 : rows[k] = lines[k + 1]
  BY <1>2, <1>3
<1>4. ASSUME Len(lines) >= 2 PROVE Sum = StatsIn(lines)
  <2>1. 1 \in 1..Len(lines) - 1
    BY <1>2, <1>4
  <2>2. \A name : \A k \in 1..Len(rows) : Told(name, k) <=> Says(lines, name, k)
    BY <1>3, <1>4 DEF Says
  <2>3. Told("cgroup_enabled", 1) = Says(lines, "cgroup_enabled", 1)
    BY <1>3, <1>4, <2>1 DEF Says
  <2>4. (\E k \in DOMAIN rows : Told("oslab_monitor_available", k))
        = \E k \in 1..Len(rows) : Says(lines, "oslab_monitor_available", k)
    BY <1>3, <1>4, <2>2
  <2>5. header = lines[1]
    BY <1>3, <1>4
  <2>. HIDE DEF rows, header, Told
  <2>. QED
    BY <2>3, <2>4, <2>5 DEF StatsIn, rows
<1>5. ASSUME Len(lines) >= 2, NEW k \in 2..Len(lines), Len(lines[k]) # Len(lines[1])
      PROVE  Misfits
  <2>1. k - 1 \in 1..Len(lines) - 1 /\ (k - 1) + 1 = k
    BY <1>2
  <2>. QED
    BY <1>3, <1>5, <2>1
<1>6. ASSUME Len(lines) >= 2, \A k \in 2..Len(lines) : Len(lines[k]) = Len(lines[1])
      PROVE  ~Misfits
  <2>1. \A k \in 1..Len(lines) - 1 : k + 1 \in 2..Len(lines)
    BY <1>2
  <2>. QED
    BY <1>3, <1>6, <2>1
<1>. HIDE DEF Misfits, Sum
<1>7. Len(lines) < 2 => Stats(file) = Failed
  BY <1>1
<1>8. \A k \in 2..Len(lines) : Len(lines[k]) # Len(lines[1]) => Stats(file) = Failed
  BY <1>1, <1>2, <1>5
<1>9. Len(lines) >= 2 /\ (\A k \in 2..Len(lines) : Len(lines[k]) = Len(lines[1]))
        => Stats(file) = StatsIn(lines)
  BY <1>1, <1>2, <1>4, <1>6
<1>. QED
  BY <1>7, <1>8, <1>9 DEF lines

LEMMA ColumnsOf ==
    /\ Column(Header, "cgroup_enabled") = 2 /\ Column(Header, "oslab_monitor_available") = 14
<1>1. Column(Header, Header[2]) = 2 /\ Column(Header, Header[14]) = 14
  BY ColumnIs
<1>. QED
  BY <1>1, HeaderAt

LEMMA LinesTell ==
    ASSUME samples \in Seq(Readings), enabled \in BOOLEAN, NEW n \in 1..Len(samples),
           NEW lines, NEW columns, 1..15 \subseteq columns, ShownBy(lines, n, columns)
    PROVE  /\ StatsIn(lines).sample_rows = n
           /\ StatsIn(lines).cgroup_enabled = enabled
           /\ StatsIn(lines).oslab_available = \E k \in 1..n : samples[k].oslab
           /\ \A m \in Metrics : Column(Header, m) \in columns =>
                 Summed(Tail(lines), Column(Header, m)) = MetricOf(m, n)
<1>1. /\ lines \in Seq(Seq(Wide)) /\ Len(lines) = n + 1 /\ lines[1] = Header
      /\ \A k \in 1..n : \A c \in columns : lines[k + 1][c] = Row(samples[k], k - 1)[c]
  BY DEF ShownBy
<1>2. n \in Nat /\ n >= 1 /\ \A k \in 1..n : samples[k] \in Readings /\ k - 1 \in Nat
  OBVIOUS
<1>. DEFINE rows == Tail(lines)
<1>3. Len(rows) = n /\ \A k \in 1..n : rows[k] = lines[k + 1]
  BY <1>1, <1>2
<1>. HIDE DEF rows
<1>4. ASSUME NEW k \in 1..n
      PROVE  lines[k + 1][2] = PrintedBool(enabled)
             /\ lines[k + 1][14] = PrintedBool(samples[k].oslab)
  <2>1. 2 \in columns /\ 14 \in columns
    OBVIOUS
  <2>2. samples[k] \in Readings /\ k - 1 \in Nat
    BY <1>2
  <2>3. Row(samples[k], k - 1)[2] = PrintedBool(enabled)
        /\ Row(samples[k], k - 1)[14] = PrintedBool(samples[k].oslab)
    BY <2>2, RowShows
  <2>. QED
    BY <1>1, <2>1, <2>3
<1>5. \A b \in BOOLEAN : PrintedBool(b) = "true" <=> b
  BY DEF PrintedBool
<1>6. Says(lines, "cgroup_enabled", 1) = enabled
  <2>1. lines[1 + 1][2] = PrintedBool(enabled)
    <3>1. 1 \in 1..n
      BY <1>2
    <3>. QED
      BY <1>4, <3>1
  <2>2. Says(lines, "cgroup_enabled", 1) <=> PrintedBool(enabled) = "true"
    <3>1. lines[1] = Header
      BY <1>1
    <3>. QED
      BY ONLY <2>1, <3>1, ColumnsOf DEF Says
  <2>3. PrintedBool(enabled) = "true" <=> enabled
    BY Zenon, <1>5
  <2>4. Says(lines, "cgroup_enabled", 1) \in BOOLEAN
    BY Zenon DEF Says
  <2>. QED
    BY Zenon, <2>2, <2>3, <2>4
<1>7. (\E k \in 1..n : Says(lines, "oslab_monitor_available", k)) = \E k \in 1..n : samples[k].oslab
  <2>1. ASSUME NEW k \in 1..n
        PROVE  Says(lines, "oslab_monitor_available", k) <=> samples[k].oslab
    <3>1. samples[k].oslab \in BOOLEAN
      BY <1>2, SampleAssumption DEF Reading
    <3>2. Says(lines, "oslab_monitor_available", k) <=> PrintedBool(samples[k].oslab) = "true"
      <4>1. lines[1] = Header /\ lines[k + 1][14] = PrintedBool(samples[k].oslab)
        BY <1>1, <1>4
      <4>. QED
        BY ONLY <4>1, ColumnsOf DEF Says
    <3>3. PrintedBool(samples[k].oslab) = "true" <=> samples[k].oslab
      BY Zenon, <1>5, <3>1
    <3>. QED
      BY <3>2, <3>3
  <2>. QED
    BY <2>1
<1>8. ASSUME NEW m \in Metrics, Column(Header, m) \in columns
      PROVE  Summed(rows, Column(Header, m)) = MetricOf(m, n)
  <2>. DEFINE c == Column(Header, m)
  <2>1. c \in NumberColumns /\ Header[c] = m
    BY MetricColumns
  <2>. HIDE DEF c
  <2>2. ASSUME NEW k \in 1..n PROVE rows[k][c] = Printed(Found(m, k))
    <3>1. rows[k][c] = Row(samples[k], k - 1)[c]
      BY <1>1, <1>3, <1>8 DEF c
    <3>2. Row(samples[k], k - 1)[c] = Printed(FoundIn(enabled, samples[k], m))
      BY <1>2, <2>1, RowShows
    <3>. QED
      BY <3>1, <3>2, FoundIs
  <2>3. n \in 0..Len(samples)
    OBVIOUS
  <2>. QED
    BY <1>3, <2>2, <2>3, MetricSummed DEF c
<1>. QED
  BY <1>3, <1>6, <1>7, <1>8 DEF StatsIn, rows

LEMMA WholeTell ==
    ASSUME samples \in Seq(Readings), enabled \in BOOLEAN, NEW n \in 1..Len(samples),
           NEW lines, ShownBy(lines, n, 1..16)
    PROVE  StatsIn(lines) = StatsOf(n)
<1>1. 1..15 \subseteq 1..16
  OBVIOUS
<1>2. \A m \in Metrics : Column(Header, m) \in 1..16
  BY MetricColumns DEF NumberColumns
<1>3. lines[1] = Header
  BY DEF ShownBy
<1>4. /\ StatsIn(lines).sample_rows = n
      /\ StatsIn(lines).cgroup_enabled = enabled
      /\ StatsIn(lines).oslab_available = \E k \in 1..n : samples[k].oslab
      /\ \A m \in Metrics : Summed(Tail(lines), Column(Header, m)) = MetricOf(m, n)
  BY <1>1, <1>2, LinesTell
<1>. QED
  BY <1>3, <1>4 DEF StatsIn, StatsOf

LEMMA ShortTell ==
    ASSUME samples \in Seq(Readings), enabled \in BOOLEAN, NEW n \in 1..Len(samples),
           NEW lines, ShownBy(lines, n, 1..15)
    PROVE  Alike(StatsIn(lines), StatsOf(n))
<1>2. \A m \in Metrics : m # LastColumn => Column(Header, m) \in 1..15
  BY MetricColumns DEF NumberColumns
<1>3. lines[1] = Header
  BY DEF ShownBy
<1>4. /\ StatsIn(lines).sample_rows = n
      /\ StatsIn(lines).cgroup_enabled = enabled
      /\ StatsIn(lines).oslab_available = \E k \in 1..n : samples[k].oslab
      /\ \A m \in Metrics : m # LastColumn =>
             Summed(Tail(lines), Column(Header, m)) = MetricOf(m, n)
  BY <1>2, LinesTell
<1>5. [StatsIn(lines).metrics EXCEPT ![LastColumn] = Unseen]
      = [StatsOf(n).metrics EXCEPT ![LastColumn] = Unseen]
  BY <1>3, <1>4 DEF StatsIn, StatsOf
<1>. DEFINE some == \E k \in 1..n : samples[k].oslab
            Told(f) == [sample_rows |-> n, cgroup_enabled |-> enabled, oslab_available |-> some,
                        metrics |-> f]
            WithoutLast(f) == [f EXCEPT ![LastColumn] = Unseen]
            f1 == StatsIn(lines).metrics
            f2 == StatsOf(n).metrics
<1>6. ASSUME NEW f PROVE [Told(f) EXCEPT !.metrics[LastColumn] = Unseen] = Told(WithoutLast(f))
  <2>. DEFINE h == WithoutLast(f)
  <2>1. [Told(f) EXCEPT !.metrics[LastColumn] = Unseen]
        = [Told(f) EXCEPT !.metrics = [Told(f).metrics EXCEPT ![LastColumn] = Unseen]]
    BY Zenon
  <2>2. Told(f).metrics = f
    OBVIOUS
  <2>3. [Told(f) EXCEPT !.metrics = [Told(f).metrics EXCEPT ![LastColumn] = Unseen]]
        = [Told(f) EXCEPT !.metrics = h]
    BY <2>2, Zenon
  <2>4. [Told(f) EXCEPT !.metrics = h] = Told(h)
    <3>. HIDE DEF h, some
    <3>. QED
      OBVIOUS
  <2>. HIDE DEF Told
  <2>. QED
    BY <2>1, <2>3, <2>4, Zenon
<1>7. StatsIn(lines) = Told(f1)
  BY <1>4 DEF StatsIn
<1>8. StatsOf(n) = Told(f2)
  BY DEF StatsOf
<1>9. WithoutLast(f1) = WithoutLast(f2)
  BY <1>5
<1>. HIDE DEF Told, WithoutLast, f1, f2
<1>10. [StatsIn(lines) EXCEPT !.metrics[LastColumn] = Unseen] = Told(WithoutLast(f1))
  BY <1>6, <1>7, Zenon
<1>11. [StatsOf(n) EXCEPT !.metrics[LastColumn] = Unseen] = Told(WithoutLast(f2))
  BY <1>6, <1>8, Zenon
<1>. QED
  BY <1>9, <1>10, <1>11, Zenon DEF Alike
--------------------------------------------------------------------------------
(* What a reader is told of a file that holds the header and n rows, and of one in    *)
(* which the last row is torn.                                                     *)
Told(n) == IF n = 0 THEN Failed ELSE StatsOf(n)
Tells(file) == \/ Stats(file) \in {Failed, Told(Len(samples) - 1)}
               \/ Alike(Stats(file), StatsOf(Len(samples)))

(* The lines are the first n + 1 of the header and the rows.                          *)
Holds(lines, n) ==
    /\ lines \in Seq(Lines) /\ Len(lines) = n + 1 /\ lines[1] = Header
    /\ \A k \in 1..n : lines[k + 1] = Row(samples[k], k - 1)

LEMMA LinesAreWide == /\ Seq(Texts) \subseteq Seq(Wide) /\ Seq(Lines) \subseteq Seq(Seq(Wide))
                      /\ << >> \in Seq(Seq(Wide))
<1>1. Texts \subseteq Wide
  BY DEF Wide
<1>2. Seq(Texts) \subseteq Seq(Wide)
  BY <1>1
<1>. QED
  BY <1>2 DEF Lines

LEMMA HoldsShown ==
    ASSUME samples \in Seq(Readings), NEW n \in 0..Len(samples), NEW lines, Holds(lines, n)
    PROVE  ShownBy(lines, n, 1..16)
<1>1. /\ lines \in Seq(Lines) /\ Len(lines) = n + 1 /\ lines[1] = Header
      /\ \A k \in 1..n : lines[k + 1] = Row(samples[k], k - 1)
  BY DEF Holds
<1>2. \A k \in 1..n : samples[k] \in Readings /\ k - 1 \in Nat
  OBVIOUS
<1>3. \A k \in 1..n : Len(Row(samples[k], k - 1)) = 16
  BY <1>2, RowShows
<1>4. lines \in Seq(Seq(Wide))
  BY <1>1, LinesAreWide
<1>. QED
  BY <1>1, <1>3, <1>4 DEF ShownBy

LEMMA ShownLengths ==
    ASSUME NEW n \in Nat, NEW lines, NEW columns, ShownBy(lines, n, columns)
    PROVE  /\ lines \in Seq(Seq(Wide)) /\ Len(lines) = n + 1
           /\ \A k \in 2..Len(lines) : Len(lines[k]) = Len(lines[1])
<1>1. /\ lines \in Seq(Seq(Wide)) /\ Len(lines) = n + 1 /\ lines[1] = Header
      /\ \A k \in 1..n : Len(lines[k + 1]) = 16
  BY DEF ShownBy
<1>2. ASSUME NEW k \in 2..n + 1 PROVE Len(lines[k]) = 16
  <2>. DEFINE j == k - 1
  <2>1. j \in 1..n /\ j + 1 = k
    OBVIOUS
  <2>. HIDE DEF j
  <2>. QED
    BY <1>1, <2>1
<1>. QED
  BY <1>1, <1>2, HeaderFields

LEMMA HeldTells ==
    ASSUME samples \in Seq(Readings), enabled \in BOOLEAN, NEW n \in 0..Len(samples),
           NEW file, Holds(file.lines, n), file.tail = << >>
    PROVE  Stats(file) = Told(n)
<1>. DEFINE lines == file.lines
<1>1. lines \in Seq(Lines) /\ Len(lines) = n + 1 /\ n \in Nat
  BY DEF Holds
<1>2. AllLines(file) = lines
  <2>1. lines \o << >> = lines
    BY <1>1, EmptyRight
  <2>. QED
    BY <2>1 DEF AllLines
<1>3. ShownBy(lines, n, 1..16)
  BY HoldsShown
<1>4. /\ lines \in Seq(Seq(Wide))
      /\ \A k \in 2..Len(lines) : Len(lines[k]) = Len(lines[1])
  BY <1>1, <1>3, ShownLengths
<1>5. AllLines(file) \in Seq(Seq(Wide))
  BY <1>2, <1>4
<1>. HIDE DEF lines
<1>6. CASE n = 0
  <2>1. Len(AllLines(file)) < 2
    BY ONLY <1>1, <1>2, <1>6
  <2>2. Stats(file) = Failed
    BY <1>5, <2>1, StatsAre
  <2>. QED
    BY <1>6, <2>2 DEF Told
<1>7. CASE n # 0
  <2>1. n \in 1..Len(samples) /\ Len(lines) >= 2
    BY <1>1, <1>7
  <2>2. Stats(file) = StatsIn(lines)
    BY <1>2, <1>4, <1>5, <2>1, StatsAre
  <2>. QED
    BY <1>3, <1>7, <2>1, <2>2, WholeTell DEF Told
<1>. QED
  BY <1>6, <1>7

(* What is left of a line of 16 fields.                                            *)
LEMMA CutOf ==
    ASSUME NEW line \in Lines, Len(line) = 16, NEW part \in Cuts(line)
    PROVE  /\ part \in Seq(Wide)
           /\ \/ part = << >>
              \/ Len(part) \in {1, 15}
              \/ Len(part) = 16 /\ \A c \in 1..15 : part[c] = line[c]
<1>. DEFINE front == Front(line)
            shorter == IF IsNumber(Last(line))
                       THEN {""} \cup {Decimal[n] : n \in 0..Number(Last(line))}
                       ELSE {Last(line)}
<1>0. Len(line) = 16
  OBVIOUS
<1>1. line \in Seq(Wide)
  BY LinesAreWide DEF Lines
<1>2. SubSeq(line, 1, 1) \in Seq(Wide) /\ Len(SubSeq(line, 1, 1)) = 1
  <2>1. \A c \in 1..Len(line) : line[c] \in Wide
    BY <1>1, ElementOfSeq
  <2>2. \A c \in 1..1 : line[c] \in Wide
    BY <1>0, <2>1
  <2>3. SubSeq(line, 1, 1) \in Seq(Wide) /\ Len(SubSeq(line, 1, 1)) = 1 - 1 + 1
    BY ONLY <2>2, SubSeqProperties
  <2>. QED
    BY <2>3
<1>3. front \in Seq(Wide) /\ Len(front) = 15 /\ \A c \in 1..15 : front[c] = line[c]
  <2>1. front = SubSeq(line, 1, 15)
    BY DEF Front
  <2>2. \A c \in 1..Len(line) : line[c] \in Wide
    BY <1>1, ElementOfSeq
  <2>4. \A c \in 1..15 : line[c] \in Wide
    BY <1>0, <2>2
  <2>3. /\ SubSeq(line, 1, 15) \in Seq(Wide) /\ Len(SubSeq(line, 1, 15)) = 15 - 1 + 1
        /\ \A c \in 1..15 - 1 + 1 : SubSeq(line, 1, 15)[c] = line[1 + c - 1]
    BY ONLY <2>4, SubSeqProperties
  <2>. QED
    BY <2>1, <2>3
<1>4. shorter \subseteq Wide
  <2>1. CASE IsNumber(Last(line))
    <3>1. Number(Last(line)) \in 0..MaxValue
      BY <2>1 DEF IsNumber, Number
    <3>2. 0..Number(Last(line)) \subseteq Nat
      BY <3>1, Assumed
    <3>3. \A n \in Nat : Decimal[n] \in Texts
      BY DEF Texts
    <3>4. \A n \in 0..Number(Last(line)) : Decimal[n] \in Wide
      BY <3>2, <3>3 DEF Wide
    <3>5. "" \in Wide
      BY DEF Wide
    <3>6. shorter = {""} \cup {Decimal[n] : n \in 0..Number(Last(line))}
      BY <2>1
    <3>. HIDE DEF shorter
    <3>. QED
      BY <3>4, <3>5, <3>6
  <2>2. CASE ~IsNumber(Last(line))
    <3>1. Last(line) \in Wide
      <4>1. Last(line) = line[16]
        BY DEF Last
      <4>2. 16 \in 1..Len(line)
        OBVIOUS
      <4>. QED
        BY ONLY <1>1, <4>1, <4>2
    <3>. QED
      BY <2>2, <3>1
  <2>. QED
    BY <2>1, <2>2
<1>. HIDE DEF front, shorter
<1>5. ASSUME NEW x \in shorter
      PROVE  /\ Append(front, x) \in Seq(Wide) /\ Len(Append(front, x)) = 16
             /\ \A c \in 1..15 : Append(front, x)[c] = line[c]
  <2>1. x \in Wide
    BY <1>4
  <2>2. /\ Append(front, x) \in Seq(Wide) /\ Len(Append(front, x)) = Len(front) + 1
        /\ \A c \in 1..Len(front) : Append(front, x)[c] = front[c]
    <3>1. front \in Seq(Wide)
      BY <1>3
    <3>. QED
      BY ONLY <2>1, <3>1, AppendProperties
  <2>. QED
    BY <1>3, <2>2
<1>6. part \in {<< >>, SubSeq(line, 1, 1), front} \cup {Append(front, v) : v \in shorter}
  BY DEF Cuts, front, shorter
<1>7. CASE part = << >>
  BY <1>7
<1>8. CASE part = SubSeq(line, 1, 1)
  BY <1>2, <1>8
<1>9. CASE part = front
  BY <1>3, <1>9
<1>10. CASE part \in {Append(front, v) : v \in shorter}
  BY <1>5, <1>10
<1>. QED
  BY <1>6, <1>7, <1>8, <1>9, <1>10

LEMMA TornTells ==
    ASSUME samples \in Seq(Readings), enabled \in BOOLEAN,
           NEW n \in 1..Len(samples), n = Len(samples), NEW file,
           Holds(file.lines, n - 1), file.tail \in Cuts(Row(samples[n], n - 1))
    PROVE  Tells(file)
<1>. DEFINE lines == file.lines
            part == file.tail
            row == Row(samples[n], n - 1)
            all == AllLines(file)
<1>1. n \in Nat /\ n >= 1 /\ n - 1 \in Nat /\ n - 1 \in 0..Len(samples) /\ samples[n] \in Readings
  OBVIOUS
<1>2. row \in Lines /\ Len(row) = 16
  BY <1>1, RowIsLine, RowShows
<1>3. part \in Cuts(row)
  OBVIOUS
<1>4. /\ lines \in Seq(Lines) /\ Len(lines) = n /\ lines[1] = Header
      /\ \A k \in 1..n - 1 : lines[k + 1] = Row(samples[k], k - 1)
  BY <1>1 DEF Holds
<1>. HIDE DEF row
<1>5. /\ part \in Seq(Wide)
      /\ \/ part = << >>
         \/ Len(part) \in {1, 15}
         \/ Len(part) = 16 /\ \A c \in 1..15 : part[c] = row[c]
  <2>. HIDE DEF part
  <2>. QED
    BY <1>2, <1>3, CutOf
<1>6. CASE part = << >>
  BY <1>1, <1>6, HeldTells DEF Tells
<1>7. ASSUME part # << >>
      PROVE  /\ all \in Seq(Seq(Wide)) /\ Len(all) = n + 1 /\ all[n + 1] = part
             /\ \A k \in 1..n : all[k] = lines[k]
  <2>1. lines \in Seq(Seq(Wide))
    BY <1>4, LinesAreWide
  <2>2. all = lines \o <<part>>
    BY <1>7 DEF AllLines
  <2>. HIDE DEF lines, part, all
  <2>3. Append(lines, part) = lines \o <<part>>
    BY <1>5, <2>1, AppendIsConcat
  <2>4. /\ Append(lines, part) \in Seq(Seq(Wide))
        /\ Len(Append(lines, part)) = Len(lines) + 1
        /\ \A i \in 1..Len(lines) : Append(lines, part)[i] = lines[i]
        /\ Append(lines, part)[Len(lines) + 1] = part
    BY <1>5, <2>1, AppendProperties
  <2>. QED
    BY <1>4, <2>2, <2>3, <2>4
<1>. HIDE DEF lines, part, all
<1>8. CASE part # << >> /\ Len(part) \in {1, 15}
  <2>1. all[1] = Header /\ n + 1 \in 2..Len(all)
    BY <1>1, <1>4, <1>7, <1>8
  <2>2. Len(all[n + 1]) # Len(all[1])
    <3>1. all[n + 1] = part
      BY <1>7, <1>8
    <3>2. Len(Header) = 16
      BY HeaderFields
    <3>3. Len(part) # 16
      <4>1. \A x \in {1, 15} : x # 16
        OBVIOUS
      <4>. QED
        BY <1>8, <4>1, Zenon
    <3>. QED
      BY <2>1, <3>1, <3>2, <3>3, Zenon
  <2>3. Stats(file) = Failed
    BY <1>7, <1>8, <2>1, <2>2, StatsAre DEF all
  <2>. QED
    BY <2>3 DEF Tells
<1>9. CASE part # << >> /\ Len(part) = 16 /\ \A c \in 1..15 : part[c] = row[c]
  <2>1. all[1] = Header
    <3>1. 1 \in 1..n
      BY <1>1
    <3>. QED
      BY <1>4, <1>7, <1>9, <3>1
  <2>2. ASSUME NEW k \in 1..n
        PROVE  /\ Len(all[k + 1]) = 16
               /\ \A c \in 1..15 : all[k + 1][c] = Row(samples[k], k - 1)[c]
    <3>1. CASE k = n
      BY <1>7, <1>9, <3>1 DEF row
    <3>2. CASE k # n
      <4>1. k \in 1..n - 1 /\ k + 1 \in 1..n /\ samples[k] \in Readings /\ k - 1 \in Nat
        BY <1>1, <3>2
      <4>2. all[k + 1] = Row(samples[k], k - 1)
        BY <1>4, <1>7, <1>9, <4>1
      <4>3. Len(Row(samples[k], k - 1)) = 16
        BY <4>1, RowShows
      <4>. QED
        BY <4>2, <4>3
    <3>. QED
      BY <3>1, <3>2
  <2>3. ShownBy(all, n, 1..15)
    BY <1>7, <1>9, <2>1, <2>2 DEF ShownBy
  <2>4. \A k \in 2..Len(all) : Len(all[k]) = Len(all[1])
    BY <1>1, <2>3, ShownLengths
  <2>5. Stats(file) = StatsIn(all)
    <3>1. all \in Seq(Seq(Wide)) /\ Len(all) >= 2 /\ all = AllLines(file)
      BY <1>1, <1>7, <1>9 DEF all
    <3>. QED
      BY ONLY <2>4, <3>1, StatsAre
  <2>6. Alike(StatsIn(all), StatsOf(n))
    BY <2>3, ShortTell
  <2>. QED
    BY <2>5, <2>6 DEF Tells
<1>. QED
  BY <1>5, <1>6, <1>8, <1>9
--------------------------------------------------------------------------------
(* The moment of a flush: header and first row are printed together, every later row    *)
(* alone; nothing of an earlier flush is pending.                                   *)
FileIsRecord == csv = [lines |-> csv.lines, tail |-> csv.tail]
Pending ==
    /\ pc = "sampling" /\ samples = << >> => csv.lines = << >> /\ ~error
    /\ pc = "flush" => /\ ~error /\ samples # << >>
                       /\ IF Len(samples) = 1 THEN csv.lines = << >> ELSE Len(buffer) = 1

LEMMA PendingInit == Init => FileIsRecord /\ Pending
  BY DEF Init, NoFile, FileIsRecord, Pending

LEMMA WrittenIsRecord == FileIsRecord =>
    Written(csv, buffer) = [lines |-> Written(csv, buffer).lines,
                            tail |-> Written(csv, buffer).tail]
  BY DEF FileIsRecord, Written

LEMMA PartlyIsRecord ==
    ASSUME FileIsRecord, NEW lines, NEW view \in PartlyWritten(csv, lines)
    PROVE  view = [lines |-> view.lines, tail |-> view.tail]
<1>1. PICK n \in 0..Len(lines) - 1 : \E part \in Cuts(lines[n + 1]) :
         view = [Written(csv, SubSeq(lines, 1, n)) EXCEPT
                     !.tail = Glue(Written(csv, SubSeq(lines, 1, n)).tail, part)]
  BY DEF PartlyWritten
<1>2. Written(csv, SubSeq(lines, 1, n))
      = [lines |-> Written(csv, SubSeq(lines, 1, n)).lines,
         tail |-> Written(csv, SubSeq(lines, 1, n)).tail]
  BY DEF FileIsRecord, Written
<1>. QED
  BY <1>1, <1>2

LEMMA PendingNext ==
    Inv /\ Flushed /\ FileIsRecord /\ Pending /\ [Next]_vars => FileIsRecord' /\ Pending'
<1>. SUFFICES ASSUME Inv, Flushed, FileIsRecord, Pending, [Next]_vars
              PROVE  FileIsRecord' /\ Pending'
  OBVIOUS
<1>1. CASE OpenCsv
  BY <1>1 DEF OpenCsv, NoFile, FileIsRecord, Pending
<1>2. ASSUME NEW r \in Readings, PrintRow(r) PROVE FileIsRecord' /\ Pending'
  <2>1. FileIsRecord'
    BY <1>2 DEF PrintRow, FileIsRecord
  <2>2. CASE pc' = "cleanup"
    BY <2>1, <2>2 DEF Pending
  <2>3. CASE pc' = "flush"
    <3>1. /\ pc = "sampling" /\ ~error /\ UNCHANGED <<csv, error>>
          /\ buffer' = Append(buffer, Row(r, Len(samples))) /\ samples' = Append(samples, r)
      BY <1>2, <2>3 DEF PrintRow
    <3>2. samples \in Seq(Readings)
      BY DEF Inv, TypeOK
    <3>3. samples' # << >> /\ Len(samples') = Len(samples) + 1 /\ Len(samples) \in Nat
      BY <3>1, <3>2
    <3>4. CASE samples = << >>
      BY <2>1, <2>3, <3>1, <3>3, <3>4 DEF Pending
    <3>5. CASE samples # << >>
      <4>1. buffer = << >> /\ Len(samples) # 0
        BY <3>1, <3>2, <3>5 DEF Flushed
      <4>2. buffer' = Append(<< >>, Row(r, Len(samples)))
        BY <3>1, <4>1
      <4>. HIDE DEF Row
      <4>3. Len(buffer') = 1
        BY <4>2
      <4>. QED
        BY <2>1, <2>3, <3>1, <3>3, <4>1, <4>3 DEF Pending
    <3>. QED
      BY <3>4, <3>5
  <2>. QED
    BY <1>2, <2>2, <2>3 DEF PrintRow
<1>3. CASE FlushRow
  <2>1. pc = "flush" /\ pc' = "sampling" /\ samples' = samples
    BY <1>3 DEF FlushRow
  <2>2. FileIsRecord'
    BY <1>3, WrittenIsRecord, PartlyIsRecord DEF FlushRow, Flush, FlushFails, FileIsRecord
  <2>. QED
    BY <2>1, <2>2 DEF Pending
<1>4. CASE Cleanup
  <2>1. pc' \in {"summary", "idle"}
    BY <1>4 DEF Cleanup
  <2>2. FileIsRecord'
    BY <1>4, WrittenIsRecord, PartlyIsRecord DEF Cleanup, FlushFails, FileIsRecord
  <2>. QED
    BY <2>1, <2>2 DEF Pending
<1>5. CASE Killed
  <2>1. pc' = "idle" /\ csv' \in {csv} \cup PartlyWritten(csv, buffer)
    BY <1>5 DEF Killed, Views
  <2>2. FileIsRecord'
    BY <2>1, PartlyIsRecord DEF FileIsRecord
  <2>. QED
    BY <2>1, <2>2 DEF Pending
<1>6. CASE EndSampling \/ Interrupted \/ WriteSummary
  <2>1. pc' \in {"cleanup", "idle"} /\ csv' = csv
    BY <1>6 DEF EndSampling, Interrupted, WriteSummary
  <2>. QED
    BY <2>1 DEF Pending, FileIsRecord
<1>7. CASE UNCHANGED vars
  BY <1>7 DEF vars, Pending, FileIsRecord
<1>. QED
  BY <1>1, <1>2, <1>3, <1>4, <1>5, <1>6, <1>7 DEF Next

(* The header and all rows, as the file and the buffer have them together.              *)
LEMMA WholeText ==
    ASSUME samples \in Seq(Readings)
    PROVE  /\ <<Header>> \o RowsOf \in Seq(Lines)
           /\ Holds(<<Header>> \o RowsOf, Len(samples))
<1>. DEFINE n == Len(samples)
            head == <<Header>>
            whole == head \o RowsOf
<1>1. \A k \in 1..n : Row(samples[k], k - 1) \in Lines
  <2>1. \A k \in 1..n : samples[k] \in Readings /\ k - 1 \in Nat
    OBVIOUS
  <2>. QED
    BY <2>1, RowIsLine
<1>2. n \in Nat /\ RowsOf = [k \in 1..n |-> Row(samples[k], k - 1)]
  BY DEF RowsOf
<1>. HIDE DEF n
<1>3. RowsOf \in Seq(Lines) /\ Len(RowsOf) = n
  BY <1>1, <1>2
<1>4. head \in Seq(Lines) /\ Len(head) = 1 /\ head[1] = Header
  BY HeaderIsLine
<1>. HIDE DEF head
<1>5. IsConcat(Lines, head, RowsOf, whole)
  BY <1>3, <1>4, Concat
<1>6. /\ whole \in Seq(Lines) /\ Len(whole) = 1 + n
      /\ \A k \in 1..1 : whole[k] = head[k]
      /\ \A k \in 1..n : whole[1 + k] = RowsOf[k]
  BY <1>3, <1>4, <1>5 DEF IsConcat
<1>. HIDE DEF whole
<1>7. whole[1] = Header
  <2>1. 1 \in 1..1
    OBVIOUS
  <2>. QED
    BY <1>4, <1>6, <2>1, Zenon
<1>8. \A k \in 1..n : whole[k + 1] = Row(samples[k], k - 1)
  BY <1>2, <1>6
<1>. QED
  BY <1>2, <1>6, <1>7, <1>8 DEF Holds, n, whole, head

LEMMA FlushHolds ==
    ASSUME Inv, FileHolds, Pending, pc = "flush", NEW n, n = Len(samples)
    PROVE  /\ n \in Nat /\ n >= 1 /\ csv.tail = << >> /\ buffer \in Seq(Lines)
           /\ n = 1 => /\ csv.lines = << >> /\ Len(buffer) = 2
                       /\ buffer[1] = Header /\ buffer[2] = Row(samples[n], n - 1)
           /\ n > 1 => /\ Holds(csv.lines, n - 1) /\ Len(buffer) = 1
                       /\ buffer[1] = Row(samples[n], n - 1)
<1>. DEFINE lines == csv.lines
            whole == lines \o buffer
<1>1. samples \in Seq(Readings) /\ samples # << >> /\ run # 0 /\ ~error
  BY DEF Inv, TypeOK, Underway, Pending
<1>2. n \in Nat /\ n >= 1
  BY <1>1
<1>3. /\ lines \in Seq(Lines) /\ buffer \in Seq(Lines) /\ csv.tail = << >>
      /\ whole = <<Header>> \o RowsOf
  BY <1>1 DEF FileHolds
<1>4. Holds(whole, n)
  BY <1>1, <1>3, WholeText
<1>5. IF n = 1 THEN lines = << >> ELSE Len(buffer) = 1
  BY DEF Pending
<1>6. IsConcat(Lines, lines, buffer, whole)
  BY <1>3, Concat
<1>. HIDE DEF lines, whole
<1>7. /\ Len(whole) = n + 1 /\ whole[1] = Header
      /\ \A k \in 1..n : whole[k + 1] = Row(samples[k], k - 1)
  BY <1>4 DEF Holds
<1>8. /\ Len(whole) = Len(lines) + Len(buffer)
      /\ \A k \in 1..Len(lines) : whole[k] = lines[k]
      /\ \A k \in 1..Len(buffer) : whole[Len(lines) + k] = buffer[k]
  BY <1>6 DEF IsConcat
<1>9. Len(lines) \in Nat /\ Len(buffer) \in Nat
  BY <1>3, LenProperties
<1>10. CASE n = 1
  <2>1. lines = << >> /\ Len(lines) = 0
    BY <1>5, <1>10
  <2>2. Len(buffer) = 2 /\ 1 \in 1..Len(buffer) /\ 2 \in 1..Len(buffer)
    BY <1>7, <1>8, <1>9, <1>10, <2>1
  <2>3. whole[0 + 1] = buffer[1] /\ whole[0 + 2] = buffer[2]
    BY <1>8, <2>1, <2>2
  <2>4. whole[1 + 1] = Row(samples[n], n - 1)
    BY <1>2, <1>7, <1>10
  <2>5. buffer[1] = Header /\ buffer[2] = Row(samples[n], n - 1)
    BY <1>7, <2>3, <2>4
  <2>. QED
    BY <1>2, <1>3, <1>10, <2>1, <2>2, <2>5 DEF lines
<1>11. CASE n > 1
  <2>1. Len(buffer) = 1 /\ Len(lines) = n
    <3>1. Len(buffer) = 1
      BY <1>2, <1>5, <1>11
    <3>2. n + 1 = Len(lines) + Len(buffer) /\ Len(lines) \in Nat
      BY <1>7, <1>8, <1>9
    <3>. QED
      BY ONLY <1>2, <3>1, <3>2
  <2>2. buffer[1] = Row(samples[n], n - 1)
    <3>1. 1 \in 1..Len(buffer) /\ n \in 1..n
      BY <1>2, <2>1
    <3>2. whole[n + 1] = buffer[1]
      BY <1>8, <2>1, <3>1
    <3>. QED
      BY <1>7, <3>1, <3>2
  <2>3. lines[1] = Header
    <3>1. 1 \in 1..Len(lines)
      BY <1>2, <2>1
    <3>. QED
      BY <1>7, <1>8, <3>1
  <2>4. ASSUME NEW k \in 1..n - 1 PROVE lines[k + 1] = Row(samples[k], k - 1)
    <3>1. k + 1 \in 1..Len(lines) /\ k \in 1..n
      BY <1>2, <2>1
    <3>. QED
      BY <1>7, <1>8, <3>1
  <2>5. Holds(lines, n - 1)
    BY <1>2, <1>3, <2>1, <2>3, <2>4 DEF Holds
  <2>. QED
    BY <1>2, <1>3, <1>11, <2>1, <2>2, <2>5 DEF lines
<1>. QED
  BY <1>2, <1>10, <1>11

LEMMA HeaderOnly ==
    ASSUME NEW file, file.lines = << >>, file.tail \in Seq(Wide)
    PROVE  Stats(file) = Failed
<1>. DEFINE all == AllLines(file)
<1>1. CASE file.tail = << >>
  <2>1. all = << >>
    BY <1>1 DEF AllLines
  <2>2. all \in Seq(Seq(Wide)) /\ Len(all) < 2
    BY <2>1
  <2>. QED
    BY <2>2, StatsAre
<1>2. CASE file.tail # << >>
  <2>1. all = << >> \o <<file.tail>>
    BY <1>2 DEF AllLines
  <2>2. all \in Seq(Seq(Wide)) /\ Len(all) < 2
    BY <2>1
  <2>. QED
    BY <2>2, StatsAre
<1>. QED
  BY <1>1, <1>2

LEMMA BeforeFlush ==
    ASSUME Inv, FileHolds, Pending, pc = "flush"
    PROVE  Stats(csv) = Told(Len(samples) - 1)
<1>. DEFINE n == Len(samples)
<1>1. samples \in Seq(Readings) /\ enabled \in BOOLEAN
  BY Zenon DEF Inv, TypeOK
<1>2. /\ n \in Nat /\ n >= 1 /\ csv.tail = << >>
      /\ n = 1 => csv.lines = << >>
      /\ n > 1 => Holds(csv.lines, n - 1)
  BY FlushHolds
<1>20. n = 1 \/ n > 1
  <2>1. n \in Nat /\ n >= 1
    BY <1>2
  <2>. HIDE DEF n
  <2>. QED
    BY ONLY <2>1
<1>3. CASE n = 1
  <2>1. Stats(csv) = Failed
    <3>1. csv.tail \in Seq(Wide)
      BY <1>2
    <3>. QED
      BY <1>2, <1>3, <3>1, HeaderOnly
  <2>. QED
    BY <1>3, <2>1 DEF Told
<1>4. CASE n > 1
  <2>1. n - 1 \in 0..Len(samples) /\ Holds(csv.lines, n - 1)
    BY <1>2, <1>4
  <2>. QED
    BY <1>1, <1>2, <2>1, HeldTells
<1>. QED
  BY <1>3, <1>4, <1>20

LEMMA AmidFlush ==
    ASSUME Inv, FileHolds, FileIsRecord, Pending, pc = "flush",
           NEW view \in PartlyWritten(csv, buffer)
    PROVE  Tells(view)
<1>. DEFINE n == Len(samples)
            row == Row(samples[n], n - 1)
<1>1. samples \in Seq(Readings) /\ enabled \in BOOLEAN
  BY Zenon DEF Inv, TypeOK
<1>2. /\ n \in Nat /\ n >= 1 /\ csv.tail = << >> /\ buffer \in Seq(Lines)
      /\ n = 1 => /\ csv.lines = << >> /\ Len(buffer) = 2
                  /\ buffer[1] = Header /\ buffer[2] = row
      /\ n > 1 => /\ Holds(csv.lines, n - 1) /\ Len(buffer) = 1 /\ buffer[1] = row
  BY FlushHolds
<1>3. samples[n] \in Readings /\ n - 1 \in Nat /\ n \in 1..Len(samples)
  BY <1>1, <1>2
<1>4. row \in Lines /\ Len(row) = 16
  BY <1>3, RowIsLine, RowShows
<1>5. PICK m \in 0..Len(buffer) - 1 : \E part \in Cuts(buffer[m + 1]) :
         view = [Written(csv, SubSeq(buffer, 1, m)) EXCEPT
                     !.tail = Glue(Written(csv, SubSeq(buffer, 1, m)).tail, part)]
  BY DEF PartlyWritten
<1>. DEFINE whole == Written(csv, SubSeq(buffer, 1, m))
<1>6. PICK part \in Cuts(buffer[m + 1]) : view = [whole EXCEPT !.tail = Glue(whole.tail, part)]
  BY <1>5
<1>7. whole = [lines |-> whole.lines, tail |-> whole.tail]
  BY DEF FileIsRecord, Written
<1>8. view.lines = whole.lines /\ view.tail = Glue(whole.tail, part)
  <2>. HIDE DEF whole
  <2>. QED
    BY <1>6, <1>7
<1>9. \A s \in Seq(Wide) : Glue(<< >>, s) = s
  BY DEF Glue
<1>10. ASSUME m = 0 PROVE view.lines = csv.lines /\ whole.tail = << >>
  <2>1. SubSeq(buffer, 1, 0) = << >>
    BY SubSeqEmpty
  <2>2. whole = csv
    BY <1>10, <2>1 DEF Written
  <2>. QED
    BY <1>2, <1>8, <2>2
<1>. HIDE DEF row
<1>20. n = 1 \/ n > 1
  <2>1. n \in Nat /\ n >= 1
    BY <1>2
  <2>. HIDE DEF n
  <2>. QED
    BY ONLY <2>1
<1>21. (n > 1 => m = 0) /\ (n = 1 => m = 0 \/ m = 1)
  <2>. DEFINE b == Len(buffer)
  <2>1. (n > 1 => b = 1) /\ (n = 1 => b = 2)
    BY <1>2
  <2>2. m \in 0..b - 1
    OBVIOUS
  <2>. HIDE DEF b, n
  <2>. QED
    BY ONLY <2>1, <2>2
<1>11. CASE n > 1
  <2>1. m = 0
    BY <1>11, <1>21
  <2>2. part \in Cuts(row)
    BY <1>2, <1>11, <2>1
  <2>3. part \in Seq(Wide)
    BY <1>4, <2>2, CutOf
  <2>4. view.tail = part /\ Holds(view.lines, n - 1)
    BY <1>2, <1>8, <1>9, <1>10, <1>11, <2>1, <2>3
  <2>. QED
    BY <1>1, <1>3, <2>2, <2>4, TornTells DEF row
<1>12. CASE n = 1 /\ m = 0
  <2>1. part \in Cuts(Header) /\ Header \in Lines /\ Len(Header) = 16
    BY <1>2, <1>12, HeaderIsLine, HeaderFields
  <2>2. part \in Seq(Wide)
    BY <2>1, CutOf
  <2>3. view.tail = part /\ view.lines = << >>
    BY <1>2, <1>8, <1>9, <1>10, <1>12, <2>2
  <2>. QED
    BY <2>2, <2>3, HeaderOnly DEF Tells
<1>13. CASE n = 1 /\ m = 1
  <2>1. part \in Cuts(row)
    BY <1>2, <1>13
  <2>2. part \in Seq(Wide)
    BY <1>4, <2>1, CutOf
  <2>3. SubSeq(buffer, 1, 1) = <<Header>>
    <3>. DEFINE s == SubSeq(buffer, 1, 1)
    <3>1. buffer \in Seq(Lines) /\ Len(buffer) = 2 /\ buffer[1] = Header
      BY <1>2, <1>13
    <3>2. s \in Seq(Lines) /\ Len(s) = 1 /\ s[1] = Header
      <4>1. \A i \in 1..1 : buffer[i] \in Lines
        BY <3>1, ElementOfSeq
      <4>2. /\ s \in Seq(Lines) /\ Len(s) = 1 - 1 + 1
            /\ \A i \in 1..1 - 1 + 1 : s[i] = buffer[1 + i - 1]
        BY ONLY <4>1, SubSeqProperties
      <4>. HIDE DEF s
      <4>3. Len(s) = 1
        BY <4>2
      <4>4. 1 \in 1..1 - 1 + 1 /\ 1 + 1 - 1 = 1
        OBVIOUS
      <4>5. s[1] = buffer[1 + 1 - 1]
        BY <4>2, <4>4, Zenon
      <4>. QED
        BY <3>1, <4>2, <4>3, <4>4, <4>5, Zenon
    <3>. HIDE DEF s
    <3>3. s = <<Header>>
      BY ONLY <3>2
    <3>. QED
      BY <3>3 DEF s
  <2>4. whole.lines = <<Header>> /\ whole.tail = << >>
    <3>1. Glue(<< >>, Header) = Header
      BY HeaderIsLine, LinesAreWide, <1>9 DEF Lines
    <3>2. whole = [lines |-> << >> \o <<Glue(<< >>, Header)>> \o Tail(<<Header>>), tail |-> << >>]
      BY <1>2, <1>13, <2>3 DEF Written
    <3>. HIDE DEF whole
    <3>3. << >> \o <<Header>> \o Tail(<<Header>>) = <<Header>>
      BY HeaderIsLine
    <3>. QED
      BY <3>1, <3>2, <3>3
  <2>5. view.tail = part /\ view.lines = <<Header>>
    BY <1>8, <1>9, <2>2, <2>4
  <2>6. Holds(<<Header>>, 0)
    BY HeaderIsLine DEF Holds
  <2>7. Holds(view.lines, n - 1)
    BY <1>13, <2>5, <2>6
  <2>. QED
    BY <1>1, <1>3, <2>1, <2>5, <2>7, TornTells DEF row
<1>. QED
  BY <1>11, <1>12, <1>13, <1>20, <1>21
--------------------------------------------------------------------------------
(* What has been told stays told: statistics depend on the readings alone.            *)
FoundFrom(on, list, m, k) == FoundIn(on, list[k], m)
MetricFrom(on, list, m, n) ==
    LET seen == {k \in 1..n : FoundFrom(on, list, m, k) # NotFound}
    IN  IF seen = {} THEN Unseen
        ELSE [seen |-> TRUE, first |-> FoundFrom(on, list, m, Min(seen)),
              last |-> FoundFrom(on, list, m, Max(seen)),
              max |-> Max({FoundFrom(on, list, m, k) : k \in seen})]
StatsFrom(on, list, n) ==
    [sample_rows |-> n, cgroup_enabled |-> on, oslab_available |-> \E k \in 1..n : list[k].oslab,
     metrics |-> [m \in Metrics |-> MetricFrom(on, list, m, n)]]
ToldFrom(on, list, n) == IF n = 0 THEN Failed ELSE StatsFrom(on, list, n)
TellsFrom(on, list, stats) ==
    stats \in {Failed, ToldFrom(on, list, Len(list) - 1)}
        \/ Alike(stats, StatsFrom(on, list, Len(list)))

LEMMA StatsDepend ==
    /\ \A n : StatsOf(n) = StatsFrom(enabled, samples, n)
    /\ \A n : Told(n) = ToldFrom(enabled, samples, n)
    /\ \A file : Tells(file) = TellsFrom(enabled, samples, Stats(file))
<1>1. \A m, n : MetricOf(m, n) = MetricFrom(enabled, samples, m, n)
  BY DEF MetricOf, MetricFrom, Found, FoundFrom, FoundIn
<1>2. \A n : StatsOf(n) = StatsFrom(enabled, samples, n)
  BY <1>1 DEF StatsOf, StatsFrom
<1>3. \A n : Told(n) = ToldFrom(enabled, samples, n)
  BY <1>2 DEF Told, ToldFrom
<1>4. \A file : Tells(file) = TellsFrom(enabled, samples, Stats(file))
  BY <1>2, <1>3, Zenon DEF Tells, TellsFrom
<1>. QED
  BY <1>2, <1>3, <1>4

(* The buffer is empty whenever the run looks; status 0 comes after samples.          *)
Clean ==
    /\ pc \in {"sampling", "flush"} => result = 1
    /\ pc = "sampling" /\ samples # << >> => buffer = << >>
    /\ pc \in {"cleanup", "summary"} /\ result = 0 => buffer = << >> /\ samples # << >>
    /\ pc = "summary" => result = 0

LEMMA CleanNext == Inv /\ Clean /\ [Next]_vars => Clean'
<1>. SUFFICES ASSUME Inv, Clean, [Next]_vars PROVE Clean'
  OBVIOUS
<1>. USE DEF Clean
<1>1. CASE OpenCsv
  BY <1>1 DEF OpenCsv
<1>2. ASSUME NEW r \in Readings, PrintRow(r) PROVE Clean'
  <2>1. pc' \in {"flush", "cleanup"} /\ result = 1 /\ result' = result
    BY <1>2 DEF PrintRow
  <2>. QED
    BY <2>1
<1>3. CASE FlushRow
  BY <1>3 DEF FlushRow, Flush, FlushFails
<1>4. CASE EndSampling
  BY <1>4 DEF EndSampling
<1>5. CASE Interrupted
  BY <1>5 DEF Interrupted
<1>6. CASE Cleanup
  <2>1. /\ pc = "cleanup" /\ samples' = samples
        /\ (result = 0 /\ pc' = "summary" /\ result' = result) \/ pc' = "idle"
        /\ buffer = << >> => buffer' = buffer
    BY <1>6 DEF Cleanup
  <2>. QED
    BY <2>1
<1>7. CASE WriteSummary
  BY <1>7 DEF WriteSummary
<1>8. CASE Killed
  BY <1>8 DEF Killed
<1>9. CASE UNCHANGED vars
  BY <1>9 DEF vars
<1>. QED
  BY <1>1, <1>2, <1>3, <1>4, <1>5, <1>6, <1>7, <1>8, <1>9 DEF Next

(* After a failed flush the file tells the rows before the last, or nearly all.          *)
Torn ==
    error /\ (pc = "sampling" \/ (pc \in {"cleanup", "summary"} /\ result = 0)) =>
        TellsFrom(enabled, samples, Stats(csv))

LEMMA TornNext ==
    Inv /\ FileHolds /\ FileIsRecord /\ Pending /\ Clean /\ Torn
        /\ [Next]_vars => Torn'
<1>. SUFFICES ASSUME Inv, FileHolds, FileIsRecord, Pending, Clean, Torn, [Next]_vars
              PROVE  Torn'
  OBVIOUS
<1>1. CASE OpenCsv
  BY <1>1 DEF OpenCsv, Torn
<1>2. ASSUME NEW r \in Readings, PrintRow(r) PROVE Torn'
  <2>1. pc' \in {"flush", "cleanup"} /\ result' = 1
    BY <1>2 DEF PrintRow, Clean
  <2>. QED
    BY <2>1 DEF Torn
<1>3. CASE FlushRow
  <2>1. /\ pc = "flush" /\ ~error
        /\ UNCHANGED <<enabled, samples>>
        /\ error' => csv' \in PartlyWritten(csv, buffer)
    BY <1>3 DEF FlushRow, Flush, FlushFails, Pending
  <2>2. ASSUME error' PROVE TellsFrom(enabled, samples, Stats(csv'))
    <3>1. ASSUME NEW view, view \in PartlyWritten(csv, buffer)
          PROVE  TellsFrom(enabled, samples, Stats(view))
      <4>1. Tells(view)
        BY <2>1, <3>1, AmidFlush
      <4>2. Tells(view) = TellsFrom(enabled, samples, Stats(view))
        BY StatsDepend
      <4>. QED
        BY <4>1, <4>2
    <3>. QED
      BY <2>1, <2>2, <3>1
  <2>. QED
    BY <2>1, <2>2 DEF Torn
<1>4. CASE EndSampling
  BY <1>4 DEF EndSampling, Torn
<1>5. CASE Interrupted
  <2>1. pc' = "cleanup" /\ result' = 1
    BY <1>5 DEF Interrupted, Clean
  <2>. QED
    BY <2>1 DEF Torn
<1>6. CASE Cleanup
  <2>1. CASE pc' = "idle"
    BY <2>1 DEF Torn
  <2>2. CASE pc' # "idle"
    <3>1. pc = "cleanup" /\ result = 0 /\ buffer = << >>
      BY <1>6, <2>2 DEF Cleanup, Clean
    <3>2. UNCHANGED <<enabled, samples, csv, error>>
      BY <1>6, <3>1 DEF Cleanup
    <3>. QED
      BY <3>1, <3>2 DEF Torn
  <2>. QED
    BY <2>1, <2>2
<1>7. CASE WriteSummary
  BY <1>7 DEF WriteSummary, Torn
<1>8. CASE Killed
  BY <1>8 DEF Killed, Torn
<1>9. CASE UNCHANGED vars
  BY <1>9 DEF vars, Torn
<1>. QED
  BY <1>1, <1>2, <1>3, <1>4, <1>5, <1>6, <1>7, <1>8, <1>9 DEF Next

LEMMA AfterFlush ==
    ASSUME Inv, FileHolds, Flushed, run # 0, ~error, pc # "flush"
    PROVE  Stats(csv) = Told(Len(samples))
<1>. DEFINE n == Len(samples)
            lines == csv.lines
<1>1. samples \in Seq(Readings) /\ enabled \in BOOLEAN
  BY Zenon DEF Inv, TypeOK
<1>2. /\ lines \in Seq(Lines) /\ buffer \in Seq(Lines) /\ csv.tail = << >>
      /\ lines \o buffer = <<Header>> \o RowsOf
  BY DEF FileHolds
<1>3. Holds(lines \o buffer, n)
  BY <1>1, <1>2, WholeText
<1>4. n \in Nat /\ n \in 0..Len(samples)
  BY <1>1
<1>5. CASE samples # << >>
  <2>1. buffer = << >>
    BY <1>5 DEF Flushed
  <2>2. lines \o << >> = lines
    BY <1>2, EmptyRight
  <2>3. Holds(lines, n)
    BY <1>3, <2>1, <2>2
  <2>. QED
    BY <1>1, <1>2, <1>4, <2>3, HeldTells
<1>6. CASE samples = << >>
  <2>1. n = 0
    BY <1>6
  <2>2. Len(lines \o buffer) = 1
    BY <1>3, <2>1 DEF Holds
  <2>3. Len(lines) < 2
    <3>. HIDE DEF lines
    <3>1. Len(lines \o buffer) = Len(lines) + Len(buffer)
      BY <1>2, ConcatProperties
    <3>2. Len(lines) \in Nat /\ Len(buffer) \in Nat
      BY <1>2, LenProperties
    <3>. QED
      BY <2>2, <3>1, <3>2
  <2>4. AllLines(csv) = lines
    <3>1. lines \o << >> = lines
      BY <1>2, EmptyRight
    <3>. QED
      BY <1>2, <3>1 DEF AllLines
  <2>5. AllLines(csv) \in Seq(Seq(Wide))
    BY <1>2, <2>4, LinesAreWide
  <2>6. Stats(csv) = Failed
    BY <2>3, <2>4, <2>5, StatsAre
  <2>. QED
    BY <2>1, <2>6 DEF Told
<1>. QED
  BY <1>5, <1>6

SummaryTold ==
    pc = "idle" /\ result = 0 =>
        IF ~error THEN summary.stats = StatsFrom(enabled, samples, Len(samples))
        ELSE \/ summary.stats = StatsFrom(enabled, samples, Len(samples) - 1)
             \/ Alike(summary.stats, StatsFrom(enabled, samples, Len(samples)))

LEMMA ToldNext ==
    Inv /\ FileHolds /\ Flushed /\ Clean /\ Torn /\ SummaryTold
        /\ [Next]_vars => SummaryTold'
<1>. SUFFICES ASSUME Inv, FileHolds, Flushed, Clean, Torn, SummaryTold, [Next]_vars,
                     pc' = "idle", result' = 0
              PROVE  IF ~error' THEN summary'.stats = StatsFrom(enabled', samples', Len(samples'))
                     ELSE \/ summary'.stats = StatsFrom(enabled', samples', Len(samples') - 1)
                          \/ Alike(summary'.stats,
                                   StatsFrom(enabled', samples', Len(samples')))
  BY DEF SummaryTold
<1>1. CASE WriteSummary
  <2>1. pc = "summary" /\ UNCHANGED <<run, enabled, samples, buffer, error, csv>>
    BY <1>1 DEF WriteSummary
  <2>2. Stats(csv) # Failed /\ summary'.stats = Stats(csv)
    BY <1>1 DEF WriteSummary, SummaryOf, AfterSummary
  <2>3. result = 0 /\ buffer = << >> /\ samples # << >> /\ run # 0 /\ samples \in Seq(Readings)
    BY <2>1 DEF Clean, Inv, TypeOK, Underway
  <2>4. ASSUME ~error PROVE summary'.stats = StatsFrom(enabled, samples, Len(samples))
    <3>1. Stats(csv) = Told(Len(samples))
      BY <2>1, <2>3, <2>4, AfterFlush
    <3>2. Len(samples) # 0
      BY <2>3
    <3>3. Stats(csv) = StatsOf(Len(samples))
      BY <3>1, <3>2 DEF Told
    <3>. QED
      BY <2>2, <3>3, StatsDepend
  <2>5. ASSUME error
        PROVE  \/ summary'.stats = StatsFrom(enabled, samples, Len(samples) - 1)
               \/ Alike(summary'.stats, StatsFrom(enabled, samples, Len(samples)))
    <3>1. TellsFrom(enabled, samples, Stats(csv))
      BY <2>1, <2>3, <2>5 DEF Torn
    <3>. QED
      BY <2>2, <3>1 DEF TellsFrom, ToldFrom
  <2>. QED
    BY <2>1, <2>4, <2>5
<1>2. CASE UNCHANGED vars
  BY <1>2 DEF vars, SummaryTold
<1>3. CASE ~WriteSummary /\ Next
  <2>1. CASE OpenCsv
    BY <2>1 DEF OpenCsv
  <2>2. ASSUME NEW r \in Readings, PrintRow(r) PROVE FALSE
    BY <2>2 DEF PrintRow
  <2>3. CASE FlushRow \/ EndSampling \/ Interrupted
    BY <2>3 DEF FlushRow, EndSampling, Interrupted
  <2>4. CASE Cleanup
    BY <2>4 DEF Cleanup
  <2>5. CASE Killed
    BY <2>5 DEF Killed
  <2>. QED
    BY <1>3, <2>1, <2>2, <2>3, <2>4, <2>5 DEF Next
<1>. QED
  BY <1>1, <1>2, <1>3

Telling == /\ Inv /\ FileHolds /\ Flushed /\ FileIsRecord /\ Pending
           /\ Clean /\ Torn /\ SummaryTold

LEMMA AlwaysTelling == Spec => []Telling
<1>1. Init => Clean /\ Torn /\ SummaryTold
  BY DEF Init, Clean, Torn, SummaryTold
<1>2. Init => Telling
  BY <1>1, InvInit, FileInit, PendingInit DEF Telling
<1>3. Telling /\ [Next]_vars => Telling'
  BY InvNext, FileNext, PendingNext, CleanNext, TornNext, ToldNext DEF Telling
<1>. QED
  BY <1>2, <1>3, PTL DEF Spec

(* A run that ends with status 0 leaves a summary of exactly what it sampled, for all     *)
(* readings and any number of rows; only after a failed write the last row, or its end,  *)
(* may be missing from it.                                                        *)
THEOREM SummaryAlwaysTells == Spec => []SummaryTellsSamples
<1>1. Telling => SummaryTellsSamples
  BY StatsDepend DEF Telling, Inv, Summarised, SummaryTold, SummaryTellsSamples
<1>. QED
  BY <1>1, AlwaysTelling, PTL

(* A report reads from samples.csv exactly what has been sampled when it comes; in the     *)
(* middle of a write it fails, or misses the row under way or the end of that row.      *)
THEOREM ReportAlwaysTells == Spec => []ReportTellsSamples
<1>1. Telling => ReportTellsSamples
  <2>. SUFFICES ASSUME Telling, run > 0, ~error
                PROVE  IF pc # "flush" THEN Stats(csv) = Told(Len(samples))
                       ELSE \A view \in Views : Tells(view)
    BY DEF ReportTellsSamples, Tells, Told
  <2>. USE DEF Telling
  <2>1. run # 0
    BY DEF Inv, TypeOK
  <2>2. CASE pc # "flush"
    BY <2>1, <2>2, AfterFlush
  <2>3. CASE pc = "flush"
    <3>1. ASSUME NEW view \in Views PROVE Tells(view)
      <4>1. CASE view = csv
        BY <2>3, <4>1, BeforeFlush DEF Tells
      <4>2. CASE view \in PartlyWritten(csv, buffer)
        BY <2>3, <4>2, AmidFlush
      <4>. QED
        BY <3>1, <4>1, <4>2 DEF Views
    <3>. QED
      BY <2>3, <3>1
  <2>. QED
    BY <2>2, <2>3
<1>. QED
  BY <1>1, AlwaysTelling, PTL
================================================================================
