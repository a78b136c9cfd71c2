----------------------------- MODULE Retention -----------------------------
(***************************************************************************)
(* Retention (poller/retention.ts, runLogRetention in poller/logs.ts)      *)
(* against the workers that fill its tables: the loop, which fills and     *)
(* prunes one thing after the other, and --once workers, which only fill.  *)
(*                                                                         *)
(* No statement touches two tables, so a behaviour follows one of them: a  *)
(* kind of snapshots, a series of metrics, the heartbeats or the log       *)
(* lines.  What is written has a number that ascends with time, and a      *)
(* metric row is known by the samples it averages.                         *)
(***************************************************************************)
EXTENDS Integers, FiniteSets, FiniteSetsExt

CONSTANTS
  Keeper,        \* the loop
  OneTimers,     \* --once workers
  Hour, Day,     \* lengths of the two buckets
  RawToHour, HourToDay, MetricsTtl, StatusTtl, LogTtl,
  Keep,          \* SNAPSHOTS_KEEP_PER_KIND
  LogCap,        \* rows of log_lines that fill LOG_SIZE_CAP_BYTES
  RetentionEvery,
  MaxClock,      \* bound on the clock
  MaxWrites,     \* bound on the rows written
  MaxDeaths      \* bound on failing statements and deaths

Writers == {Keeper} \cup OneTimers
Tables == {"status", "metrics", "snapshots", "logs"}

ASSUME RetentionAssumption ==
  /\ Keeper \notin OneTimers
  /\ Hour \in Nat \ {0} /\ Day \in Nat \ {0} /\ Day % Hour = 0
  /\ RawToHour \in Nat /\ HourToDay \in Nat /\ RawToHour <= HourToDay
  /\ HourToDay <= MetricsTtl
  /\ {MetricsTtl, StatusTtl, LogTtl, MaxClock, MaxWrites, MaxDeaths} \subseteq Nat
  /\ {Keep, LogCap, RetentionEvery} \subseteq Nat \ {0}

VARIABLES
  table,      \* the table followed
  clock,
  rows,       \* its rows
  disk,       \* what pg_total_relation_size makes of it, in rows
  writing,    \* writing[w]: what worker w is about to insert
  pruning,    \* where retention is, its `now` and what it has read
  pruned,     \* lastRetention
  deaths,
  given,      \* numbers given out
  written,    \* what was inserted (a history)
  crowded     \* those inserted after the rows to keep were chosen (a history)

retentionHistory == <<given, written, crowded>>
retentionVars == <<table, clock, rows, disk, writing, pruning, pruned, deaths, retentionHistory>>

Resting == [at |-> "idle", now |-> 0, kept |-> {}, cut |-> 0]
NotWriting == [at |-> "idle", n |-> 0, now |-> 0]

RetentionInit ==
  /\ table \in Tables
  /\ clock = 0
  /\ rows = {} /\ disk = 0
  /\ writing = [w \in Writers |-> NotWriting]
  /\ pruning = Resting
  /\ pruned = -RetentionEvery
  /\ deaths = 0
  /\ given = 0 /\ written = {} /\ crowded = {}

ClockTicks ==
  /\ clock < MaxClock /\ clock' = clock + 1
  /\ UNCHANGED <<table, rows, disk, writing, pruning, pruned, deaths, retentionHistory>>

Ids == {r.n : r \in rows}

-----------------------------------------------------------------------------
(* persistOutcome and commitBatch. *)

Writes(w, step) == writing' = [writing EXCEPT ![w] = step]

\* `now` is taken before the first insert.  A log line has a time of its own.
PersistBegins(w) ==
  /\ writing[w].at = "idle" /\ given < MaxWrites
  /\ w = Keeper => pruning.at = "idle"
  /\ \E now \in IF table = "logs" THEN {clock - 1, clock} ELSE {clock} :
       Writes(w, [at |-> "insert", n |-> given + 1, now |-> now])
  /\ given' = given + 1
  /\ UNCHANGED <<table, clock, rows, disk, pruning, pruned, deaths, written, crowded>>

\* A deleted row leaves room for another one in the table's file, which never shrinks.
Grown(next) == Max({disk, Cardinality(next)})

InsertRow(w) ==
  LET sample == [n |-> writing[w].n, at |-> writing[w].now]
  IN
  /\ writing[w].at = "insert"
  /\ rows' = rows \cup
       {CASE table = "metrics" -> [at |-> sample.at, resolution |-> "raw", of |-> {sample}]
          [] table = "logs" -> [n |-> 1 + Max({0} \cup Ids), at |-> sample.at]
          [] OTHER -> sample}
  /\ disk' = Grown(rows')
  /\ written' = IF table \in {"metrics", "snapshots"} THEN written \cup {sample} ELSE written
  /\ crowded' = IF pruning.at = "delete" THEN crowded \cup {sample} ELSE crowded
  /\ Writes(w, NotWriting)
  /\ UNCHANGED <<table, clock, pruning, pruned, deaths, given>>

\* A failed poll has neither snapshots nor metrics.
NothingToInsert(w) ==
  /\ writing[w].at = "insert" /\ table \in {"metrics", "snapshots"}
  /\ Writes(w, NotWriting)
  /\ UNCHANGED <<table, clock, rows, disk, pruning, pruned, deaths, retentionHistory>>

-----------------------------------------------------------------------------
(* runRetention: the statements on the table, all with the same `now`. *)

FirstStep == [status |-> "expire", metrics |-> "hours", snapshots |-> "keep", logs |-> "age"]
Prunes(step) == pruning' = IF step = "idle" THEN Resting ELSE [pruning EXCEPT !.at = step]

RetentionBegins ==
  /\ pruning.at = "idle" /\ writing[Keeper].at = "idle"
  /\ clock - pruned >= RetentionEvery
  /\ pruned' = clock
  /\ pruning' = [Resting EXCEPT !.at = FirstStep[table], !.now = clock]
  /\ UNCHANGED <<table, clock, rows, disk, writing, deaths, retentionHistory>>

Younger(age) == {r \in rows : r.at >= pruning.now - age}

\* The flat deletes of heartbeats and metrics.
Expire ==
  /\ pruning.at = "expire"
  /\ rows' = Younger(IF table = "status" THEN StatusTtl ELSE MetricsTtl)
  /\ Prunes("idle")
  /\ UNCHANGED <<table, clock, disk, writing, pruned, deaths, retentionHistory>>

Aged(from, cutoff) == {r \in rows : r.resolution = from /\ r.at < cutoff}
Trunc(t, bucket) == t - (t % bucket)
Averages(old, to, bucket) ==
  {[at |-> b, resolution |-> to, of |-> UNION {r.of : r \in {q \in old : Trunc(q.at, bucket) = b}}]
     : b \in {Trunc(r.at, bucket) : r \in old}}

\* A slip: the averages are written and their sources stay, as after a crash
\* between the two outside a transaction.
CollapseKeeping(from, to, bucket, cutoff) == rows \cup Averages(Aged(from, cutoff), to, bucket)

\* One transaction.
CollapseTier(from, to, bucket, cutoff) ==
  LET old == Aged(from, cutoff)
  IN  (rows \ old) \cup Averages(old, to, bucket)

RawToHours ==
  /\ pruning.at = "hours"
  /\ rows' = CollapseTier("raw", "hour", Hour, pruning.now - RawToHour)
  /\ Prunes("days")
  /\ UNCHANGED <<table, clock, disk, writing, pruned, deaths, retentionHistory>>

HoursToDays ==
  /\ pruning.at = "days"
  /\ rows' = CollapseTier("hour", "day", Day, pruning.now - HourToDay)
  /\ Prunes("expire")
  /\ UNCHANGED <<table, clock, disk, writing, pruned, deaths, retentionHistory>>

NewestOf(n, ids) == {i \in ids : Cardinality({j \in ids : j > i}) < n}

\* The snapshots to keep are read; the rest is deleted by a later statement.
ReadNewest ==
  /\ pruning.at = "keep"
  /\ pruning' = IF Cardinality(rows) < Keep THEN Resting
                ELSE [pruning EXCEPT !.at = "delete", !.kept = NewestOf(Keep, Ids)]
  /\ UNCHANGED <<table, clock, rows, disk, writing, pruned, deaths, retentionHistory>>

DeleteRest ==
  /\ pruning.at = "delete"
  /\ rows' = {r \in rows : r.n \in pruning.kept}
  /\ Prunes("idle")
  /\ UNCHANGED <<table, clock, disk, writing, pruned, deaths, retentionHistory>>

-----------------------------------------------------------------------------
(* runLogRetention: by age, then, if the table is too large, all but the newest four fifths. *)

PruneLogsByAge ==
  /\ pruning.at = "age"
  /\ rows' = {r \in rows : r.at >= clock - LogTtl}
  /\ Prunes(IF disk > LogCap THEN "count" ELSE "idle")
  /\ UNCHANGED <<table, clock, disk, writing, pruned, deaths, retentionHistory>>

CountLogs ==
  /\ pruning.at = "count"
  /\ LET total == Cardinality(rows)
         keep == (4 * total) \div 5
     IN  pruning' = IF total > keep THEN [pruning EXCEPT !.at = "cutoff", !.cut = keep] ELSE Resting
  /\ UNCHANGED <<table, clock, rows, disk, writing, pruned, deaths, retentionHistory>>

\* OFFSET keep - 1: an error when nothing is to be kept.
FindCutoff ==
  /\ pruning.at = "cutoff"
  /\ pruning' = IF pruning.cut = 0 \/ Cardinality(rows) < pruning.cut THEN Resting
                ELSE [pruning EXCEPT !.at = "size", !.cut = Min(NewestOf(@, Ids))]
  /\ UNCHANGED <<table, clock, rows, disk, writing, pruned, deaths, retentionHistory>>

PruneLogsBySize ==
  /\ pruning.at = "size"
  /\ rows' = {r \in rows : r.n >= pruning.cut}
  /\ Prunes("idle")
  /\ UNCHANGED <<table, clock, disk, writing, pruned, deaths, retentionHistory>>

-----------------------------------------------------------------------------
(* Failures. *)

\* A failing statement of runLogRetention ends it.
LogPruningFails ==
  /\ table = "logs" /\ pruning.at # "idle"
  /\ deaths < MaxDeaths /\ deaths' = deaths + 1
  /\ Prunes("idle")
  /\ UNCHANGED <<table, clock, rows, disk, writing, pruned, retentionHistory>>

\* Any other failing statement kills the worker, like a crash: what it was
\* doing stays half done, and its next run prunes on its first pass.
WriterDies(w) ==
  /\ deaths < MaxDeaths /\ deaths' = deaths + 1
  /\ writing[w].at # "idle" \/ (w = Keeper /\ pruning.at # "idle")
  /\ Writes(w, NotWriting)
  /\ IF w = Keeper THEN pruning' = Resting /\ pruned' = -RetentionEvery
     ELSE UNCHANGED <<pruning, pruned>>
  /\ UNCHANGED <<table, clock, rows, disk, retentionHistory>>

RetentionNext ==
  \/ ClockTicks
  \/ \E w \in Writers : PersistBegins(w) \/ InsertRow(w) \/ NothingToInsert(w) \/ WriterDies(w)
  \/ RetentionBegins \/ Expire \/ RawToHours \/ HoursToDays \/ ReadNewest \/ DeleteRest
  \/ PruneLogsByAge \/ CountLogs \/ FindCutoff \/ PruneLogsBySize \/ LogPruningFails

RetentionSpec == RetentionInit /\ [][RetentionNext]_retentionVars

-----------------------------------------------------------------------------
(* Properties. *)

Steps == {"idle", "expire", "hours", "days", "keep", "delete", "age", "count", "cutoff", "size"}
Samples == [n : 1 .. MaxWrites, at : -1 .. MaxClock]
RowType ==
  IF table = "metrics" THEN [at : 0 .. MaxClock, resolution : {"raw", "hour", "day"}, of : SUBSET Samples]
  ELSE Samples

RetentionTypes ==
  /\ table \in Tables /\ clock \in 0 .. MaxClock /\ deaths \in 0 .. MaxDeaths
  /\ given \in 0 .. MaxWrites
  /\ disk \in 0 .. MaxWrites /\ rows \subseteq RowType /\ written \subseteq Samples /\ crowded \subseteq Samples
  /\ writing \in [Writers -> [at : {"idle", "insert"}, n : 0 .. MaxWrites, now : -1 .. MaxClock]]
  /\ pruning \in [at : Steps, now : 0 .. MaxClock, kept : SUBSET (1 .. MaxWrites), cut : 0 .. MaxWrites]
  /\ pruned \in -RetentionEvery .. MaxClock

\* Wherever retention or a worker stops, a sample is averaged into one row, never
\* two, and it is in one until a bucket before its time to live is over.
SampleCountedOnce ==
  table = "metrics" => \A s \in written :
    LET holding == Cardinality({r \in rows : s \in r.of})
    IN  holding <= 1 /\ (clock - s.at <= MetricsTtl - Day => holding = 1)

\* Retention deletes a snapshot only if it has seen Keep newer ones, except one
\* that was inserted while it was choosing.
NewestSnapshotsKept ==
  table = "snapshots" => \A s \in written \ rows :
    s \in crowded \/ Cardinality({t \in written : t.n > s.n}) >= Keep

\* Retention takes away only what it is to take away.
NothingKeptIsLost == SampleCountedOnce /\ NewestSnapshotsKept
=============================================================================
