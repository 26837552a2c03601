------------------------------ MODULE SampleFiles ------------------------------
(* One output directory of tracebench: runs, one after another, write samples.csv  *)
(* row by row and summarise it in summary.txt (sampler.c, report.c), and a report   *)
(* command may read samples.csv at any time. A line is the sequence of its fields. *)
(* Of the columns that are treated alike only some are modelled.                   *)
EXTENDS Integers, SequencesExt

CONSTANTS MaxValue,          \* of a counter
          Decimal,           \* how printf writes each number
          Readings,          \* what one round of reading /proc and the cgroup may find
          MaxRuns,
          MaxRows,           \* of the first run, one less of each later one
          Failed             \* instead of statistics

VARIABLES run,       \* number of the run that opened samples.csv last, 0 for none
          pc,        \* its place in tb_run_command, "idle" when it has ended
          result,    \* its exit status
          enabled,   \* its cgroup_enabled
          samples,   \* the readings it has printed as rows
          csv,       \* complete lines of samples.csv, and what follows the last newline
          buffer,    \* lines printed to csv and not flushed
          error,     \* ferror(csv), or killed before all of buffer was written
          summary    \* summary.txt: the run it is of, and what it tells

vars == <<run, pc, result, enabled, samples, csv, buffer, error, summary>>

Psi == <<"cpu_some_total", "cpu_full_total", "memory_some_total", "memory_full_total",
         "io_some_total", "io_full_total">>
Cgroup == <<"cgroup_cpu_usage_usec", "cgroup_cpu_user_usec", "cgroup_memory_current",
            "cgroup_memory_events_high", "cgroup_memory_events_oom_kill">>
Oslab == <<"oslab_total_tasks", "oslab_mem_available_kb">>
Header == <<"sample_index", "cgroup_enabled">> \o Psi \o Cgroup
          \o <<"oslab_monitor_available">> \o Oslab

(* summary_metric_names.                                                         *)
Metrics == {"cpu_some_total", "memory_some_total", "io_some_total", "cgroup_cpu_usage_usec",
            "cgroup_memory_current", "cgroup_memory_events_high", "oslab_total_tasks",
            "oslab_mem_available_kb"}

(* A reading has a number for every name that was found, and says whether overview   *)
(* was readable.                                                                 *)
Names == ToSet(Psi) \cup ToSet(Cgroup) \cup ToSet(Oslab)
NotFound == -1
Reading == [found : [Names -> {NotFound} \cup 0..MaxValue], oslab : BOOLEAN]

(* Different numbers are written differently, and none like a word of the file.      *)
ASSUME SampleAssumption ==
    /\ MaxValue \in Nat /\ MaxRuns \in Nat /\ MaxRows \in 0..MaxValue + 1
    /\ Readings \subseteq Reading
    /\ \A n \in 0..MaxValue : /\ Decimal[n] \notin {"NA", "true", "false"}
                              /\ \A m \in 0..MaxValue : Decimal[m] = Decimal[n] => m = n

(* Printing of a field, and parse_unsigned_field.                                 *)
Printed(n) == IF n = NotFound THEN "NA" ELSE Decimal[n]
PrintedBool(b) == IF b THEN "true" ELSE "false"
IsNumber(field) == \E n \in 0..MaxValue : Decimal[n] = field
Number(field) == CHOOSE n \in 0..MaxValue : Decimal[n] = field

NoFile == [lines |-> << >>, tail |-> << >>]
NoSummary == [run |-> 0, stats |-> Failed]

Init ==
    /\ run = 0 /\ pc = "idle" /\ result = 1 /\ enabled = FALSE
    /\ samples = << >> /\ buffer = << >> /\ error = FALSE
    /\ csv = NoFile /\ summary = NoSummary
--------------------------------------------------------------------------------
(* The text of samples.csv.                                                       *)

(* A line printed after text without a newline continues that line.              *)
Glue(tail, line) == IF tail = << >> \/ line = << >> THEN tail \o line ELSE tail \o Tail(line)

Written(file, lines) ==
    IF lines = << >> THEN file
    ELSE [lines |-> file.lines \o <<Glue(file.tail, Head(lines))>> \o Tail(lines), tail |-> << >>]

(* What may be left of a line: nothing, a part of its first field, less than all    *)
(* fields, or all of them with the last digits of the last one missing.           *)
Cuts(line) ==
    LET last == Last(line)
        shorter == IF IsNumber(last) THEN {""} \cup {Decimal[n] : n \in 0..Number(last)} ELSE {last}
    IN  {<< >>, SubSeq(line, 1, 1), Front(line)} \cup {Append(Front(line), v) : v \in shorter}

PartlyWritten(file, lines) ==
    UNION {LET whole == Written(file, SubSeq(lines, 1, n))
           IN  {[whole EXCEPT !.tail = Glue(@, part)] : part \in Cuts(lines[n + 1])}
           : n \in 0..Len(lines) - 1}
--------------------------------------------------------------------------------
(* One row: read_psi_resource needs its "some" line, tb_cgroup_read_stats the      *)
(* required keys, and overview is never an error.                                *)
Required == {"cpu_some_total", "memory_some_total", "io_some_total"}
            \cup IF enabled THEN {"cgroup_cpu_usage_usec", "cgroup_memory_current",
                                  "cgroup_memory_events_high"}
                 ELSE {}
Readable(r) == \A name \in Required : r.found[name] # NotFound

(* tb_write_csv_sample.                                                          *)
Fields(r, names) == [k \in DOMAIN names |-> Printed(r.found[names[k]])]
Missing(names) == [k \in DOMAIN names |-> "NA"]
CgroupFields_Short(r) == IF enabled THEN Fields(r, Cgroup) ELSE Missing(Tail(Cgroup))   \* mutant
CgroupFields(r) == IF enabled THEN Fields(r, Cgroup) ELSE Missing(Cgroup)
Available(r) == r.oslab
OslabFields(r) == IF Available(r) THEN Fields(r, Oslab) ELSE Missing(Oslab)

Row(r, index) == <<Decimal[index], PrintedBool(enabled)>> \o Fields(r, Psi)
                 \o CgroupFields(r) \o <<PrintedBool(Available(r))>> \o OslabFields(r)
--------------------------------------------------------------------------------
(* read_csv_summary.                                                             *)

(* map_summary_columns: the last column with that name, 0 when there is none.      *)
Column(header, name) ==
    IF name \in ToSet(header) THEN CHOOSE k \in DOMAIN header :
        header[k] = name /\ \A j \in k + 1..Len(header) : header[j] # name
    ELSE 0

(* update_metric_summary.                                                        *)
Unseen == [seen |-> FALSE, first |-> 0, last |-> 0, max |-> 0]
Update_FirstNotMax(metric, field) ==
    IF ~IsNumber(field) THEN metric
    ELSE LET value == Number(field)
         IN  [seen |-> TRUE, last |-> value,
              first |-> IF metric.seen THEN metric.first ELSE value,
              max |-> IF metric.seen /\ value > metric.max THEN value ELSE metric.max]  \* mutant
Update(metric, field) ==
    IF ~IsNumber(field) THEN metric
    ELSE LET value == Number(field)
         IN  [seen |-> TRUE, last |-> value,
              first |-> IF metric.seen THEN metric.first ELSE value,
              max |-> IF ~metric.seen \/ value > metric.max THEN value ELSE metric.max]

Summed(rows, column) ==
    LET metric[k \in 0..Len(rows)] ==
            IF k = 0 THEN Unseen ELSE Update(metric[k - 1], rows[k][column])
    IN  IF column = 0 THEN Unseen ELSE metric[Len(rows)]

Fits(row, header) == Len(row) = Len(header)

Stats(file) ==
    LET lines == file.lines \o (IF file.tail = << >> THEN << >> ELSE <<file.tail>>)
        header == Head(lines)
        rows == Tail(lines)
        Says(name, k) == Column(header, name) # 0 /\ rows[k][Column(header, name)] = "true"
    IN  IF Len(lines) < 2 \/ \E k \in DOMAIN rows : ~Fits(rows[k], header) THEN Failed
        ELSE [sample_rows |-> Len(rows),
              cgroup_enabled |-> Says("cgroup_enabled", 1),
              oslab_available |-> \E k \in DOMAIN rows : Says("oslab_monitor_available", k),
              metrics |-> [m \in Metrics |-> Summed(rows, Column(header, m))]]
--------------------------------------------------------------------------------
(* The run, from open_csv_file on.                                               *)
OpenCsv ==
    /\ pc = "idle" /\ run < MaxRuns
    /\ run' = run + 1 /\ pc' = "sampling" /\ result' = 1
    /\ enabled' \in BOOLEAN
    /\ samples' = << >> /\ buffer' = <<Header>> /\ error' = FALSE
    /\ csv' = NoFile /\ UNCHANGED summary

(* write_sample_row up to its fflush.                                            *)
PrintRow(r) ==
    /\ pc = "sampling" /\ Len(samples) <= MaxRows - run
    /\ IF Readable(r)
       THEN /\ buffer' = Append(buffer, Row(r, Len(samples)))
            /\ samples' = Append(samples, r)
            /\ pc' = IF error THEN "cleanup" ELSE "flush"
       ELSE pc' = "cleanup" /\ UNCHANGED <<buffer, samples>>
    /\ UNCHANGED <<run, result, enabled, error, csv, summary>>

(* fflush and fclose, whose results nobody looks at: the buffer is written, or a     *)
(* part of it and the library drops the rest.                                    *)
FlushFails ==
    /\ csv' \in PartlyWritten(csv, buffer)
    /\ error' = TRUE
    /\ buffer' = << >>

Flush_Later == UNCHANGED <<csv, buffer, error>>   \* mutant: left to fclose
Flush ==
    \/ csv' = Written(csv, buffer) /\ buffer' = << >> /\ UNCHANGED error
    \/ FlushFails

FlushRow ==
    /\ pc = "flush" /\ pc' = "sampling"
    /\ Flush
    /\ UNCHANGED <<run, result, enabled, samples, summary>>

(* The loop is over, the child has ended well.                                   *)
EndSampling ==
    /\ pc = "sampling" /\ samples # << >>
    /\ pc' = "cleanup" /\ result' = 0
    /\ UNCHANGED <<run, enabled, samples, buffer, error, csv, summary>>

(* samples.csv as it may look before and in the middle of a write.                 *)
Views == {csv} \cup IF pc \in {"flush", "cleanup"} THEN PartlyWritten(csv, buffer) ELSE {}

(* A signal, or a workload that could not be started or failed.                   *)
Interrupted ==
    /\ pc = "sampling" /\ pc' = "cleanup"
    /\ UNCHANGED <<run, result, enabled, samples, buffer, error, csv, summary>>

(* fclose and tb_cgroup_remove_run.                                               *)
Cleanup ==
    /\ pc = "cleanup"
    /\ IF buffer = << >> THEN UNCHANGED <<csv, buffer, error>>
       ELSE \/ csv' = Written(csv, buffer) /\ buffer' = << >> /\ UNCHANGED error
            \/ FlushFails
    /\ \/ result = 0 /\ pc' = "summary" /\ UNCHANGED result
       \/ pc' = "idle" /\ result' = 1
    /\ UNCHANGED <<run, enabled, samples, summary>>

(* tb_write_summary_file: it fails without touching summary.txt, or after fopen has  *)
(* truncated it, or it succeeds.                                                 *)
AfterSummary_Ignored(ok) == result   \* mutant: the result of the call is not used
AfterSummary(ok) == IF ok THEN result ELSE 1

SummaryOf == [run |-> run, stats |-> Stats(csv)]
WriteSummary ==
    /\ pc = "summary" /\ pc' = "idle"
    /\ \/ UNCHANGED summary /\ result' = AfterSummary(FALSE)
       \/ /\ Stats(csv) # Failed
          /\ \/ summary' = NoSummary /\ result' = AfterSummary(FALSE)
             \/ summary' = SummaryOf /\ result' = AfterSummary(TRUE)
    /\ UNCHANGED <<run, enabled, samples, buffer, error, csv>>

(* Killed, also in the middle of a write of samples.csv or of summary.txt.          *)
Killed ==
    /\ pc # "idle" /\ pc' = "idle" /\ result' = 1 /\ buffer' = << >>
    /\ error' = (error \/ buffer # << >>)
    /\ csv' \in Views
    /\ \/ UNCHANGED summary
       \/ pc = "summary" /\ Stats(csv) # Failed /\ summary' \in {NoSummary, SummaryOf}
    /\ UNCHANGED <<run, enabled, samples>>

Next == \/ OpenCsv \/ (\E r \in Readings : PrintRow(r)) \/ FlushRow \/ EndSampling
        \/ Interrupted \/ Cleanup \/ WriteSummary \/ Killed

Spec == Init /\ [][Next]_vars
--------------------------------------------------------------------------------
(* Types of all but the texts.                                                    *)
TypeOK ==
    /\ run \in 0..MaxRuns /\ result \in {0, 1} /\ enabled \in BOOLEAN /\ error \in BOOLEAN
    /\ pc \in {"idle", "sampling", "flush", "cleanup", "summary"}
    /\ samples \in Seq(Readings) /\ Len(samples) <= MaxRows
    /\ summary.run \in 0..run

(* What the first n readings of the run amount to, said without files.            *)
Found(m, k) == IF (~enabled /\ m \in ToSet(Cgroup)) \/ (~samples[k].oslab /\ m \in ToSet(Oslab))
               THEN NotFound ELSE samples[k].found[m]
MetricOf(m, n) ==
    LET seen == {k \in 1..n : Found(m, k) # NotFound}
    IN  IF seen = {} THEN Unseen
        ELSE [seen |-> TRUE, first |-> Found(m, Min(seen)), last |-> Found(m, Max(seen)),
              max |-> Max({Found(m, k) : k \in seen})]
StatsOf(n) == [sample_rows |-> n, cgroup_enabled |-> enabled,
               oslab_available |-> \E k \in 1..n : samples[k].oslab,
               metrics |-> [m \in Metrics |-> MetricOf(m, n)]]

(* What docs/TECHv2.md:248 says of every failure: a run that could not write its rows  *)
(* does not end with status 0. The code's does when the last write fails, because    *)
(* nobody looks at the results of fflush and fclose (report.c:355 and 544); an error  *)
(* of an earlier write is found by the ferror of the next row.                     *)
FailureReported == pc = "idle" /\ result = 0 => ~error

(* The status 0 of a run comes with a summary of exactly what it sampled, if no      *)
(* write failed. If the last one failed, which the code does not notice (see         *)
(* FailureReported), nothing but the last row or the end of it is missing, and if     *)
(* an earlier one did, the status is not 0.                                       *)
LastColumn == "oslab_mem_available_kb"
Alike(s, t) == [s EXCEPT !.metrics[LastColumn] = Unseen] = [t EXCEPT !.metrics[LastColumn] = Unseen]
SummaryTellsSamples ==
    pc = "idle" /\ result = 0 =>
        /\ summary.run = run
        /\ IF ~error THEN summary.stats = StatsOf(Len(samples))
           ELSE \/ summary.stats = StatsOf(Len(samples) - 1)
                \/ Alike(summary.stats, StatsOf(Len(samples)))

(* A summary that lies beside samples of a later run betrays that this run has not   *)
(* ended with status 0: it is under way, failed or was killed (report.c:324, 552).   *)
OldSummaryBetrayed == summary.stats # Failed /\ summary.run # run => pc # "idle" \/ result = 1

(* A report at any moment (tb_report_command reads samples.csv and nothing else)     *)
(* tells exactly what has been sampled so far. One that meets the middle of a write   *)
(* fails, or misses the row under way, or the end of that row.                     *)
ReportTellsSamples ==
    run > 0 /\ ~error =>
        LET n == Len(samples)
            Told(k) == IF k = 0 THEN Failed ELSE StatsOf(k)
        IN  IF pc # "flush" THEN Stats(csv) = Told(n)
            ELSE \A view \in Views :
                     \/ Stats(view) \in {Failed, Told(n - 1)}
                     \/ Alike(Stats(view), StatsOf(n))
================================================================================
