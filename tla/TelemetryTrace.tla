--------------------------- MODULE TelemetryTrace ---------------------------
(***************************************************************************)
(* The summary of a telemetry session against its trace: what the retained *)
(* records say the metric series must be (the registry of metrics.cpp and  *)
(* the builder of summary.cpp against the records of session.cpp).         *)
(***************************************************************************)
EXTENDS Telemetry, SequencesExt

(* The amounts observed for a metric in a complete trace. *)
Observed(metric) ==
  LET mine == SelectSeq(log, LAMBDA r : r.observation.kind = "metric"
                                          /\ r.observation.metric = metric)
  IN [i \in DOMAIN mine |-> mine[i].observation.amount]

Total(amounts) == FoldLeft(LAMBDA n, x : n + x, 0, amounts)

(* The value of a series by the definition of its kind: a value belongs to   *)
(* the first bucket whose inclusive bound is at least it, or to the last.    *)
Told(metric) ==
  LET amounts == Observed(metric)
      upTo(k) == {i \in DOMAIN amounts : k <= Len(Bounds) => amounts[i] <= Bounds[k]}
  IN CASE Kind(metric) = "counter" -> Total(amounts)
       [] Kind(metric) = "gauge" -> Last(amounts)
       [] Kind(metric) = "histogram" ->
            [buckets |-> [k \in 1..Len(Bounds) + 1 |->
                            Cardinality(IF k = 1 THEN upTo(1) ELSE upTo(k) \ upTo(k - 1))],
             count |-> Len(amounts), sum |-> Total(amounts)]

(* The summary of a full session is that of its trace: exactly the series of *)
(* the retained records and, once a job has ended, the three counters of the *)
(* ended jobs exist, with the values the records give.  An observation so    *)
(* counts as a whole or not at all, at whatever limit it is refused, and the *)
(* trace suffices to build the summary again.                                *)
SummaryTellsTrace ==
  LET ended == {j \in Jobs : jobs[j].phase = "Terminal"}
      spent(p) == FoldSet(LAMBDA j, n : n + jobs[j].spent[p], 0, ended)
      told == {r.observation : r \in ToSet(log)}
      named == {o.metric : o \in {x \in told : x.kind = "metric"}}
  IN mode = "Full" =>
       /\ DOMAIN series = named \cup (IF ended = {} THEN {} ELSE TerminalMetrics)
       /\ \A m \in named : series[m] = Told(m)
       /\ ended # {} => /\ series["communication"] = spent("Communication")
                        /\ series["synchronization"] = spent("SynchronizationWait")
                        /\ series["straggler"] = spent("StragglerDelay")
       /\ \A j \in Jobs : j \in ended <=>
            \E o \in told : o.kind = "job" /\ o.job = j /\ o.transition \in TerminalTransitions
       /\ Len(log) = decisions + records /\ edges <= MaxEdges
       /\ \A i \in 2..Len(log) : log[i].at >= log[i - 1].at

=============================================================================
