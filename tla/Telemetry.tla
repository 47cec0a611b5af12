----------------------------- MODULE Telemetry -----------------------------
(* Query counts on their way to the disk.  queries_total is raised when a query starts.
   Two paths start at its end, if it gets there: the collector (analytics/collector.rs),
   whose channel, map and batch end in the table query_stats (analytics/storage.rs,
   analytics_flush_loop in main.rs), and the throughput counters, which timeseries_loop
   (main.rs) writes as minute rows, rolls up into hours and days and prunes
   (analytics/timeseries.rs).

   An event of the collector is a unit of the count: a query has none, one or several.
   Durations, fingerprints and percentiles are left out.  A table of buckets is a function from the buckets that have a row to their counts. *)
EXTENDS Naturals, FiniteSets, Functions, Sums

CONSTANTS
  Cap,            \* Collector::CHANNEL_CAP
  HourLen,        \* minutes of an hour
  DayLen,         \* minutes of a day, a multiple of HourLen
  Retention,      \* retention_days, in minutes
  LastMinute,     \* bound: the clock stops here
  MaxLate         \* bound: ticks timeseries_loop can be behind

VARIABLES
  analytics,      \* the stores that could be opened: "storage", "timeseries"
  chan,           \* events in the channel
  aggregator,     \* aggregation_loop: "up" or "dead"
  map,            \* Collector.stats
  batch,          \* what drain returned and flush has not finished with
  stored,         \* query_stats
  total,          \* metrics.queries_total
  counter,        \* ThroughputCounters.queries
  ts,             \* timeseries_loop: its step, snapshot, bucket, pending ticks, age of last_day
  rows,           \* the table timeseries, by resolution
  now,            \* the clock, in minutes
  recorded,       \* observation: events handed to try_record, ever
  counted,        \* observation: queries this process has counted
  kept,           \* observation: what record_minute wrote, by minute, ever
  seen,           \* observation: the rollups of this pass both succeeded
  cutoff,         \* observation: the latest cutoff of prune
  queries,        \* bound: queries, and further events of a query, that may still come
  faults          \* bound: statements and tasks that may still fail

telemetryVars == <<analytics, chan, aggregator, map, batch, stored, total, counter, ts, rows, now,
                   recorded, counted, kept, seen, cutoff, queries, faults>>
collectorVars == <<chan, aggregator, map, batch, stored>>
seriesVars == <<counter, ts, rows, kept, seen, cutoff>>

(* Where a statement may fail. *)
Works == UNCHANGED faults
Fails == faults > 0 /\ faults' = faults - 1

ASSUME TelemetryAssumption ==
  /\ Cap \in Nat \ {0} /\ HourLen \in Nat \ {0} /\ DayLen \in Nat \ {0}
  /\ DayLen % HourLen = 0 /\ Retention \in Nat /\ LastMinute \in Nat /\ MaxLate \in Nat

Minutes == 0..LastMinute
NoRows == [x \in {} |-> 0]
Idle == [pc |-> "idle", snap |-> 0, bucket |-> 0, ticks |-> 1, age |-> 0]
Bucket(x, len) == (x \div len) * len

(* The count a table has for bucket b. *)
Shown(table, b) == IF b \in DOMAIN table THEN table[b] ELSE 0

TelemetryInit ==
  /\ chan = 0 /\ aggregator = "up" /\ map = 0 /\ batch = 0 /\ stored = 0 /\ total = 0
  /\ counter = 0 /\ ts = Idle /\ rows = [minute |-> NoRows, hour |-> NoRows, day |-> NoRows]
  /\ recorded = 0 /\ counted = 0 /\ kept = [m \in Minutes |-> 0] /\ seen = FALSE /\ cutoff = 0

(* Collector::try_record drops the event when the channel is full or its receiver gone. *)
TryRecord == IF aggregator = "up" /\ chan < Cap THEN chan + 1 ELSE chan

(* The start of a query, a pipeline or a fast-forwarded statement. *)
CountQuery ==
  /\ queries > 0 /\ queries' = queries - 1
  /\ total' = total + 1 /\ counted' = counted + 1
  /\ UNCHANGED <<analytics, faults, collectorVars, seriesVars, now, recorded>>

(* A call of try_record at the end of a query. *)
RecordEvent ==
  /\ chan' = TryRecord /\ recorded' = recorded + 1
  /\ UNCHANGED <<analytics, faults, aggregator, map, batch, stored, total, seriesVars, now, counted>>

(* ThroughputCounters::record, once for a query with events.  The MySQL loop calls it
   before try_record, which is the same: the two share nothing. *)
RecordThroughput ==
  /\ counter' = counter + 1
  /\ UNCHANGED <<analytics, faults, collectorVars, total, ts, rows, now, recorded, counted, kept, seen,
                 cutoff, queries>>

-----------------------------------------------------------------------------
(* The collector. *)

Aggregate ==
  /\ aggregator = "up" /\ chan > 0
  /\ chan' = chan - 1 /\ map' = map + 1
  /\ UNCHANGED <<analytics, faults, aggregator, batch, stored, total, now, recorded, counted, queries, seriesVars>>

(* Logging a slow query cuts its fingerprint at byte 200; inside a character that
   panics, and the receiver goes with the task. *)
AggregatorDies ==
  /\ aggregator = "up" /\ chan > 0
  /\ aggregator' = "dead" /\ chan' = 0 /\ Fails
  /\ UNCHANGED <<analytics, map, batch, stored, total, now, recorded, counted, queries, seriesVars>>

Drain_Keeps ==
  /\ "storage" \in analytics /\ batch = 0 /\ map > 0
  /\ batch' = map /\ map' = map
  /\ UNCHANGED <<analytics, faults, chan, aggregator, stored, total, now, recorded, counted, queries, seriesVars>>

Drain ==
  /\ "storage" \in analytics /\ batch = 0 /\ map > 0
  /\ batch' = map /\ map' = 0
  /\ UNCHANGED <<analytics, faults, chan, aggregator, stored, total, now, recorded, counted, queries, seriesVars>>

(* AnalyticsStorage::flush adds the batch to the rows in one transaction.  When it fails
   the loop logs it, and the batch is gone. *)
Flush ==
  /\ batch > 0
  /\ batch' = 0
  /\ \/ Works /\ stored' = stored + batch
     \/ Fails /\ UNCHANGED stored
  /\ UNCHANGED <<analytics, chan, aggregator, map, total, now, recorded, counted, queries, seriesVars>>

(* POST /api/stats/flush *)
FlushStats ==
  /\ total > 0
  /\ total' = 0
  /\ UNCHANGED <<analytics, faults, now, recorded, counted, queries, collectorVars, seriesVars>>

-----------------------------------------------------------------------------
(* timeseries_loop.  Each of its statements can fail, and the loop goes on. *)

MinutePasses ==
  /\ now < LastMinute /\ ts.ticks <= MaxLate
  /\ now' = now + 1
  /\ ts' = [ts EXCEPT !.ticks = @ + 1, !.age = IF @ = DayLen THEN DayLen ELSE @ + 1]
  /\ UNCHANGED <<analytics, faults, total, recorded, counted, queries, collectorVars, counter, rows, kept, seen, cutoff>>

TakeSnapshot ==
  /\ "timeseries" \in analytics /\ ts.pc = "idle" /\ ts.ticks > 0
  /\ ts' = [ts EXCEPT !.pc = "minute", !.snap = counter, !.bucket = now, !.ticks = @ - 1]
  /\ counter' = 0 /\ seen' = FALSE
  /\ UNCHANGED <<analytics, faults, total, now, recorded, counted, queries, collectorVars, rows, kept, cutoff>>

RecordMinute ==
  /\ ts.pc = "minute"
  /\ ts' = [ts EXCEPT !.pc = "hour", !.snap = 0, !.bucket = 0]
  /\ \/ /\ Works
        /\ rows' = [rows EXCEPT !.minute =
                      [m \in DOMAIN @ \cup {ts.bucket} |->
                         IF m = ts.bucket THEN Shown(@, m) + ts.snap ELSE @[m]]]
        /\ kept' = [kept EXCEPT ![ts.bucket] = @ + ts.snap]
     \/ Fails /\ UNCHANGED <<rows, kept>>
  /\ UNCHANGED <<analytics, total, now, recorded, counted, queries, collectorVars, counter, seen, cutoff>>

(* INSERT OR REPLACE ... SELECT SUM(...) GROUP BY: a coarse bucket with a fine row gets
   the sum of its fine rows, the others stay. *)
RowsOf(fine, b, len) == {x \in DOMAIN fine : Bucket(x, len) = b}

Rollup(fine, coarse, len) ==
  [b \in {Bucket(x, len) : x \in DOMAIN fine} \cup DOMAIN coarse |->
     IF RowsOf(fine, b, len) # {} THEN Total(fine, RowsOf(fine, b, len)) ELSE coarse[b]]

Rollup_Adds(fine, coarse, len) ==
  [b \in {Bucket(x, len) : x \in DOMAIN fine} \cup DOMAIN coarse |->
     Total(fine, RowsOf(fine, b, len)) + Shown(coarse, b)]

RollupHourly_Adds ==
  /\ ts.pc = "hour"
  /\ ts' = [ts EXCEPT !.pc = "day"]
  /\ \/ rows' = [rows EXCEPT !.hour = Rollup_Adds(rows.minute, @, HourLen)] /\ seen' = TRUE /\ Works
     \/ UNCHANGED rows /\ seen' = FALSE /\ Fails
  /\ UNCHANGED <<analytics, total, now, recorded, counted, queries, collectorVars, counter, kept, cutoff>>

RollupHourly ==
  /\ ts.pc = "hour"
  /\ ts' = [ts EXCEPT !.pc = "day"]
  /\ \/ rows' = [rows EXCEPT !.hour = Rollup(rows.minute, @, HourLen)] /\ seen' = TRUE /\ Works
     \/ UNCHANGED rows /\ seen' = FALSE /\ Fails
  /\ UNCHANGED <<analytics, total, now, recorded, counted, queries, collectorVars, counter, kept, cutoff>>

RollupDaily ==
  /\ ts.pc = "day"
  /\ ts' = [ts EXCEPT !.pc = IF ts.age = DayLen THEN "prune" ELSE "idle"]
  /\ \/ rows' = [rows EXCEPT !.day = Rollup(rows.hour, @, DayLen)] /\ UNCHANGED seen /\ Works
     \/ UNCHANGED rows /\ seen' = FALSE /\ Fails
  /\ UNCHANGED <<analytics, total, now, recorded, counted, queries, collectorVars, counter, kept, cutoff>>

(* The cutoff is counted back from now: it falls inside an hour and a day. *)
Prune ==
  /\ ts.pc = "prune"
  /\ ts' = [ts EXCEPT !.pc = "idle", !.age = 0]
  /\ LET cut == IF now > Retention THEN now - Retention ELSE 0
         Keep(table) == Restrict(table, {b \in DOMAIN table : b >= cut})
     IN  \/ /\ rows' = [minute |-> Keep(rows.minute), hour |-> Keep(rows.hour), day |-> Keep(rows.day)]
            /\ cutoff' = cut /\ Works
         \/ UNCHANGED <<rows, cutoff>> /\ Fails
  /\ UNCHANGED <<analytics, total, now, recorded, counted, queries, collectorVars, counter, kept, seen>>

(* main: what was only in memory is gone, and queries_total starts from query_stats. *)
TelemetryRestart ==
  /\ chan' = 0 /\ aggregator' = "up" /\ map' = 0 /\ batch' = 0
  /\ total' = IF "storage" \in analytics THEN stored ELSE 0
  /\ counter' = 0 /\ counted' = 0 /\ ts' = Idle /\ seen' = FALSE
  /\ UNCHANGED <<analytics, faults, stored, rows, now, recorded, kept, cutoff, queries>>

TelemetryNext ==
  \/ Aggregate \/ AggregatorDies \/ Drain \/ Flush \/ FlushStats
  \/ TakeSnapshot \/ RecordMinute \/ RollupHourly \/ RollupDaily \/ Prune \/ MinutePasses

-----------------------------------------------------------------------------
(* An event is in one place at most on its way to query_stats, over failed flushes, a dead
   aggregator and restarts, so that the table never has more than was recorded; and the
   total, which a restart reads back from the table, is never more than the table has
   and this process has counted. *)
CountedOnce ==
  /\ stored + batch + map + chan <= recorded
  /\ total <= stored + counted

(* Stronger than the code: what a process counts is what it records.  A pipeline with two
   Parses is one query and two events; a statement that is fast-forwarded or that fails
   on a PostgreSQL backend is a query and no event. *)
RecordsWhatItCounts == recorded <= counted

MinutesOf(b, len) == {m \in Minutes : Bucket(m, len) = b}

(* Rolling up again and again, failing rollups, ticks that come late and restarts never
   make a day's row claim more than record_minute wrote; and after a pass whose rollups both
   succeeded, the row of every day that prune has not cut into is exactly its minutes. *)
RollupExact ==
  \A b \in {Bucket(m, DayLen) : m \in Minutes} :
    LET shown == Shown(rows.day, b)
        written == Total(kept, MinutesOf(b, DayLen))
    IN  /\ shown <= written
        /\ ts.pc = "idle" /\ seen /\ b >= cutoff => shown = written

(* Stronger than the code: what prune removed stays removed.  The rollups bring back the
   row of the hour and the day that the cutoff falls into, with the part that is left. *)
PrunedStaysPruned == \A b \in DOMAIN rows.day : b >= cutoff
=============================================================================
