----------------------------- MODULE Telemetry ------------------------------
(***************************************************************************)
(* A telemetry session (TelemetrySession: src/telemetry/session.cpp) with  *)
(* its metric registry (metrics.cpp) and the attribution of job time       *)
(* (SummaryBuilder: summary.cpp).  Observations arrive in time order; they *)
(* change metric series and the phases of jobs, are retained as records    *)
(* depending on the mode, and every sample boundary that is passed freezes *)
(* the counters and gauges in a frame.  Any of the limits can be hit.      *)
(***************************************************************************)
EXTENDS Attribution, FiniteSets, Sequences

CONSTANTS
  Kinds,       \* Kinds[metric]: "counter", "gauge" or "histogram"
  Bounds,      \* histogram_boundaries: the inclusive upper bounds, increasing
  Jobs,        \* job ids
  Modes,       \* the modes a session may have
  Observations, \* what may be observed
  Interval,    \* sample_interval_ns
  MaxSeries, MaxSamples, MaxDecisions, MaxRecords, MaxEdges,  \* TelemetryLimits
  MaxCount,    \* the largest value of a counter
  MaxTime,     \* the largest timestamp
  MaxObservations,  \* bound on the accepted observations
  None

TerminalMetrics == {"communication", "synchronization", "straggler"}

(* The sample boundaries: the multiples of the interval. *)
SampleTimes == {b \in 1..MaxTime : b % Interval = 0}

ASSUME TelemetryAssumption ==
  /\ MaxTime \in Nat /\ Interval \in 1..MaxTime
  /\ MaxSeries > 0 /\ MaxSamples \in Nat \ {0} /\ MaxDecisions > 0
  /\ MaxRecords > 0 /\ MaxEdges > 0
  /\ Modes \subseteq {"Off", "Summary", "Sampled", "Full"}
  /\ \A m \in DOMAIN Kinds : Kinds[m] \in {"counter", "gauge", "histogram"}
  /\ \A o \in Observations :
       /\ o.kind = "metric" => o.metric \in DOMAIN Kinds
       /\ o.kind = "job" =>
            o.job \in Jobs /\ o.transition \in Transitions /\ o.collective \in BOOLEAN
  /\ None \notin Nat

VARIABLES
  mode,        \* configuration.mode
  series,      \* the metric series: a value for each metric that has one
  jobs,        \* jobs_ of the summary
  samples,     \* samples
  nextSample,  \* next_sample_timestamp, or None
  last,        \* last_timestamp, or None
  log,         \* records, each with its timestamp; the id is its position
  decisions, records, edges,  \* retained_decisions, ..._domain_records, ..._edges
  finalized,   \* is_finalized
  now,         \* the clock of the callers: the simulation's now(), external
  accepted,    \* how many observations were accepted
  seriesAt,    \* seriesAt[b]: the series after the observations up to time b
  arrived      \* when the first observation of a job was accepted

vars == <<mode, series, jobs, samples, nextSample, last, log, decisions, records, edges,
          finalized, now, accepted, seriesAt, arrived>>

----------------------------------------------------------------------------
(* Metric series, by metric and labels; one exists once it is used. A counter *)
(* or gauge has its scalar, a histogram its buckets with their count and sum. *)

Kind(metric) == IF metric \in TerminalMetrics THEN "counter" ELSE Kinds[metric]

Has(s, metric) == metric \in DOMAIN s

With(s, metric, value) == [m \in DOMAIN s \cup {metric} |-> IF m = metric THEN value ELSE s[m]]

(* What require_series() creates. *)
NewSeries(metric) ==
  IF Kind(metric) = "histogram"
  THEN [buckets |-> [k \in 1..Len(Bounds) + 1 |-> 0], count |-> 0, sum |-> 0]
  ELSE 0

(* lower_bound() over the boundaries *)
Bucket(value) == Cardinality({k \in DOMAIN Bounds : Bounds[k] < value}) + 1

(* What validate_series() and checked_add() let through. *)
MayApply(s, metric, amount) ==
  IF ~Has(s, metric) THEN Cardinality(DOMAIN s) < MaxSeries
  ELSE CASE Kind(metric) = "counter" -> s[metric] + amount <= MaxCount
         [] Kind(metric) = "gauge" -> TRUE
         [] Kind(metric) = "histogram" -> /\ s[metric].count + 1 <= MaxCount
                                          /\ s[metric].sum + amount <= MaxCount

(* increment(), set_gauge() and observe() *)
Applied(s, metric, amount) ==
  LET old == IF Has(s, metric) THEN s[metric] ELSE NewSeries(metric)
  IN With(s, metric,
       CASE Kind(metric) = "counter" -> old + amount
         [] Kind(metric) = "gauge" -> amount
         [] Kind(metric) = "histogram" ->
              [buckets |-> [old.buckets EXCEPT ![Bucket(amount)] = @ + 1],
               count |-> old.count + 1, sum |-> old.sum + amount])

----------------------------------------------------------------------------
(* The summary.                                                              *)

(* The three counters a job adds to when it ends, in the order of            *)
(* apply_terminal_metrics().                                                 *)
TerminalIncrements(job) ==
  <<[metric |-> "communication", amount |-> job.spent["Communication"]],
    [metric |-> "synchronization", amount |-> job.spent["SynchronizationWait"]],
    [metric |-> "straggler", amount |-> job.spent["StragglerDelay"]]>>

(* Mutated form: each counter is checked alone. *)
MayTerminateEach(s, job) ==
  \A i \in 1..3 : LET x == TerminalIncrements(job)[i] IN MayApply(s, x.metric, x.amount)

(* validate_terminal_metrics() *)
MayTerminate(s, job) ==
  /\ \A i \in 1..3 : LET x == TerminalIncrements(job)[i] IN MayApply(s, x.metric, x.amount)
  /\ Cardinality(TerminalMetrics \ DOMAIN s) <= MaxSeries - Cardinality(DOMAIN s)

NextJob(o, t) == Transition(jobs[o.job], t, o.transition, o.collective)

(* SummaryBuilder::validate() *)
Valid(o, t) ==
  CASE o.kind = "metric" -> MayApply(series, o.metric, o.amount)
    [] o.kind = "job" ->
         /\ MayTransition(jobs[o.job].phase, o.transition)
         /\ NextJob(o, t).phase = "Terminal" => MayTerminate(series, NextJob(o, t))
    [] OTHER -> TRUE

(* One series changes, unless an earlier change has thrown or this one does. *)
Change(r, x) ==
  IF r.ok /\ MayApply(r.series, x.metric, x.amount)
  THEN [r EXCEPT !.series = Applied(@, x.metric, x.amount)]
  ELSE [r EXCEPT !.ok = FALSE]

(* consume() as far as the series go; a change that throws leaves those      *)
(* before it.                                                                *)
Consumed(o, t) ==
  LET before == [series |-> series, ok |-> TRUE]
      ends == TerminalIncrements(NextJob(o, t))
  IN CASE o.kind = "metric" -> Change(before, [metric |-> o.metric, amount |-> o.amount])
       [] o.kind = "job" /\ NextJob(o, t).phase = "Terminal" ->
            Change(Change(Change(before, ends[1]), ends[2]), ends[3])
       [] OTHER -> before

----------------------------------------------------------------------------
(* Sampling.                                                                *)

(* is_sampled_metric_kind() *)
Sampled == {m \in DOMAIN series : Kind(m) \in {"counter", "gauge"}}

Frame(at) == [at |-> at, values |-> [m \in Sampled |-> series[m]]]

(* A frame has a sample of every metric. *)
SampleCount == Cardinality(UNION {{i} \X DOMAIN samples[i].values : i \in DOMAIN samples})

(* Mutated form: a boundary is sampled before the observations at its time. *)
BoundariesEarly(t, inclusive) ==
  {b \in 0..MaxTime :
     nextSample # None /\ b >= nextSample /\ (b - nextSample) % Interval = 0 /\ b <= t}

(* The boundaries emit_samples_until() passes before time t. *)
Boundaries(t, inclusive) ==
  {b \in 0..MaxTime :
     /\ nextSample # None
     /\ b >= nextSample /\ (b - nextSample) % Interval = 0
     /\ b < t \/ (inclusive /\ b = t)}

(* How many of them fit under the limit before append_sample_frame() throws; *)
(* without a sampled series they are skipped and none is appended.           *)
Fitting(bs) ==
  IF Sampled = {} THEN Cardinality(bs)
  ELSE CHOOSE k \in 0..Cardinality(bs) :
         /\ k * Cardinality(Sampled) <= MaxSamples - SampleCount
         /\ k < Cardinality(bs) => (k + 1) * Cardinality(Sampled) > MaxSamples - SampleCount

(* advance_sample_timestamp(), skip_empty_sample_boundaries(): the boundary  *)
(* after k of them, unless it is beyond the largest time.                    *)
Advanced(k) ==
  IF k = 0 THEN nextSample
  ELSE LET b == nextSample + (k - 1) * Interval
       IN IF Interval > MaxTime - b THEN None ELSE b + Interval

RetainsSamples == mode \in {"Sampled", "Full"}

(* emit_samples_until(); it throws when not all boundaries fit. *)
EmitSamples(t, inclusive) ==
  LET bs == Boundaries(t, inclusive)
      k == Fitting(bs)
  IN IF ~RetainsSamples THEN UNCHANGED <<samples, nextSample>>
     ELSE /\ nextSample' = Advanced(k)
          /\ samples' = IF Sampled = {} THEN samples
                        ELSE samples \o [i \in 1..k |-> Frame(nextSample + (i - 1) * Interval)]

SamplesFit(t, inclusive) ==
  ~RetainsSamples \/ Fitting(Boundaries(t, inclusive)) = Cardinality(Boundaries(t, inclusive))

----------------------------------------------------------------------------
Init ==
  /\ mode \in Modes
  /\ series = [m \in {} |-> 0]
  /\ jobs = [j \in Jobs |-> UnseenJob]
  /\ samples = <<>>
  /\ nextSample = Interval
  /\ last = None
  /\ log = <<>>
  /\ decisions = 0 /\ records = 0 /\ edges = 0
  /\ finalized = FALSE
  /\ now = 0
  /\ accepted = 0
  /\ seriesAt = [b \in SampleTimes |-> series]
  /\ arrived = [j \in Jobs |-> 0]

Retained(o) == mode = "Full" \/ (mode = "Sampled" /\ o.kind = "decision")

(* The checks of record() before the summary sees the observation. *)
MayRecord(o, t) ==
  /\ ~finalized
  /\ last # None => t >= last
  /\ Retained(o) =>
       /\ IF o.kind = "decision" THEN decisions < MaxDecisions ELSE records < MaxRecords
       /\ edges + o.edges <= MaxEdges

(* The end of record() and of consume(), when nothing has thrown. *)
Accept(o, t) ==
  /\ jobs' = IF o.kind = "job" THEN [jobs EXCEPT ![o.job] = NextJob(o, t)] ELSE jobs
  /\ arrived' = IF o.kind = "job"
                THEN [arrived EXCEPT ![o.job] = IF jobs[o.job].phase = "Unseen" THEN t ELSE @]
                ELSE arrived
  /\ IF Retained(o)
     THEN /\ log' = Append(log, [observation |-> o, at |-> t])
          /\ edges' = edges + o.edges
          /\ IF o.kind = "decision" THEN decisions' = decisions + 1 /\ UNCHANGED records
                                    ELSE records' = records + 1 /\ UNCHANGED decisions
     ELSE UNCHANGED <<log, decisions, records, edges>>
  /\ last' = t
  /\ accepted' = accepted + 1

Rejected == UNCHANGED <<jobs, arrived, log, decisions, records, edges, last, accepted>>

(* record() of a valid observation.  consume() repeats validate(), and what  *)
(* it throws leaves the series it has changed.                               *)
Record(o, t) ==
  LET consumed == Consumed(o, t)
  IN /\ mode # "Off"
     /\ t >= now /\ now' = t
     /\ accepted < MaxObservations
     /\ MayRecord(o, t) /\ Valid(o, t)
     /\ SamplesFit(t, FALSE)
     /\ EmitSamples(t, FALSE)
     /\ series' = consumed.series
     /\ seriesAt' = [b \in SampleTimes |-> IF b >= t THEN series' ELSE seriesAt[b]]
     /\ IF consumed.ok THEN Accept(o, t) ELSE Rejected
     /\ UNCHANGED <<mode, finalized>>

(* record(), refused by the sample limit: the frames before it are kept. *)
RecordThrows(o, t) ==
  /\ mode # "Off"
  /\ t >= now /\ now' = t
  /\ MayRecord(o, t) /\ Valid(o, t)
  /\ ~SamplesFit(t, FALSE)
  /\ EmitSamples(t, FALSE)
  /\ Rejected
  /\ UNCHANGED <<mode, series, finalized, seriesAt>>

(* SummaryBuilder::finalize() for one job. *)
FinalJob(job, t) ==
  IF job.phase \in {"Unseen", "Terminal"} THEN job ELSE AddInterval(job, t, job.phase)

(* finalize() *)
Finalize(t) ==
  /\ t >= now /\ now' = t
  /\ ~finalized
  /\ mode # "Off" /\ last # None => t >= last
  /\ EmitSamples(t, TRUE)
  /\ IF SamplesFit(t, TRUE)
     THEN /\ jobs' = [j \in Jobs |-> FinalJob(jobs[j], t)]
          /\ last' = t
          /\ finalized' = TRUE
     ELSE UNCHANGED <<jobs, last, finalized>>
  /\ UNCHANGED <<mode, series, log, decisions, records, edges, accepted, seriesAt, arrived>>

Next ==
  \/ \E o \in Observations, t \in 0..MaxTime : Record(o, t)
  \/ \E o \in Observations, t \in 0..MaxTime : RecordThrows(o, t)
  \/ \E t \in 0..MaxTime : Finalize(t)

Spec == Init /\ [][Next]_vars

----------------------------------------------------------------------------
(* The counters and gauges at time b. *)
SampledAt(b) ==
  [m \in {x \in DOMAIN seriesAt[b] : Kind(x) # "histogram"} |-> seriesAt[b][m]]

(* Frames tell the truth and are complete: a frame at a boundary has the     *)
(* values after every observation up to and including that time, although it *)
(* is written later; frames are in order, one for each boundary that has     *)
(* been passed and had a series, also when sampling was cut by the limit.    *)
SamplesTrue ==
  RetainsSamples =>
    /\ \A i \in DOMAIN samples :
         /\ samples[i].at \in SampleTimes
         /\ samples[i].values = SampledAt(samples[i].at)
         /\ i > 1 => samples[i].at > samples[i - 1].at
    /\ \A b \in SampleTimes :
         (nextSample # None => b < nextSample)
         => ((\E i \in DOMAIN samples : samples[i].at = b) <=> DOMAIN SampledAt(b) # {})
    /\ nextSample # None => nextSample \in SampleTimes
    /\ last # None /\ nextSample # None =>
         nextSample >= last \/ SampleCount + Cardinality(Sampled) > MaxSamples
    /\ SampleCount <= MaxSamples

(* Every instant of a job belongs to one phase: the attributed times add up  *)
(* to the time from its arrival to its last transition, and once the session *)
(* is finalized to the final time for a job that has not ended.              *)
AttributionExact ==
  \A j \in Jobs :
    jobs[j].phase # "Unseen" =>
      /\ AccountedNs(jobs[j]) = jobs[j].since - arrived[j]
      /\ \A p \in Phases : jobs[j].spent[p] >= 0
      /\ finalized /\ jobs[j].phase # "Terminal" => jobs[j].since = last

=============================================================================
