---------------------------- MODULE MCTelemetry -----------------------------
(* A counter, a gauge and a histogram of three buckets, a job that computes,  *)
(* communicates and ends, and decisions; a sample every second instant.       *)
EXTENDS TelemetryTrace

MCKinds == [m \in {"bytes", "depth", "wait"} |->
              IF m = "bytes" THEN "counter" ELSE IF m = "depth" THEN "gauge" ELSE "histogram"]
Job(transition, collective) ==
  [kind |-> "job", job |-> 1, transition |-> transition, collective |-> collective, edges |-> 1]
MCBounds == <<1, 2>>
MCObservations ==
  {[kind |-> "metric", metric |-> m, amount |-> 2, edges |-> 1] : m \in {"bytes", "depth", "wait"}}
  \cup {[kind |-> "metric", metric |-> "wait", amount |-> n, edges |-> 1] : n \in {1, 3}}
  \cup {[kind |-> "decision", edges |-> 2]}
  \cup {Job(t, FALSE) : t \in {"Arrived", "ComputeStarted", "StragglerStarted",
                               "ComputeCompleted", "Cancelled"}}
  \cup {Job(t, TRUE) : t \in {"ComputeCompleted", "CollectiveStarted"}}

=============================================================================
