---------------------------- MODULE Attribution -----------------------------
(***************************************************************************)
(* The attribution of a job's time to phases: the state machine of         *)
(* SummaryBuilder (src/telemetry/summary.cpp).  A job is Unseen until its  *)
(* first transition; every later one closes an interval, which is added to *)
(* the phase the job was in.                                               *)
(***************************************************************************)
EXTENDS Integers

Phases == {"SchedulingWait", "Compute", "Communication", "SynchronizationWait",
           "StragglerDelay", "TerminalOther"}

AllPhases == Phases \cup {"Unseen", "Terminal"}

TerminalTransitions == {"Succeeded", "Failed", "Cancelled"}

Transitions ==
  TerminalTransitions \cup
  {"Arrived", "Waiting", "Admitted", "ComputeStarted", "ComputeCompleted", "CollectiveStarted",
   "CollectiveCompleted", "StepCompleted", "SynchronizationStarted", "StragglerStarted"}

(* What transition() does not throw on. *)
MayTransition(phase, transition) ==
  IF phase = "Unseen" THEN transition = "Arrived" \/ transition \in TerminalTransitions
  ELSE phase # "Terminal" /\ transition # "Arrived"

(* Mutated form: a collective that starts takes the job over. *)
NextPhaseCollective(phase, transition, collective) ==
  LET busy == phase \in {"Compute", "StragglerDelay"}
  IN CASE transition \in TerminalTransitions -> "Terminal"
       [] transition \in {"Arrived", "Waiting"} -> "SchedulingWait"
       [] transition \in {"Admitted", "CollectiveCompleted", "StepCompleted"} ->
            IF busy THEN phase ELSE "TerminalOther"
       [] transition = "ComputeStarted" -> "Compute"
       [] transition = "StragglerStarted" -> "StragglerDelay"
       [] transition = "SynchronizationStarted" -> "SynchronizationWait"
       [] transition = "ComputeCompleted" ->
            IF collective THEN "Communication" ELSE "SynchronizationWait"
       [] transition = "CollectiveStarted" -> "Communication"
       [] OTHER -> "TerminalOther"

(* next_phase(): computing workers hide what a collective does. *)
NextPhase(phase, transition, collective) ==
  LET busy == phase \in {"Compute", "StragglerDelay"}
  IN CASE transition \in TerminalTransitions -> "Terminal"
       [] transition \in {"Arrived", "Waiting"} -> "SchedulingWait"
       [] transition \in {"Admitted", "CollectiveCompleted", "StepCompleted"} ->
            IF busy THEN phase ELSE "TerminalOther"
       [] transition = "ComputeStarted" -> "Compute"
       [] transition = "StragglerStarted" -> "StragglerDelay"
       [] transition = "SynchronizationStarted" -> "SynchronizationWait"
       [] transition = "ComputeCompleted" ->
            IF collective THEN "Communication" ELSE "SynchronizationWait"
       [] transition = "CollectiveStarted" -> IF busy THEN phase ELSE "Communication"
       [] OTHER -> "TerminalOther"

(* A job without attribution. *)
UnseenJob == [phase |-> "Unseen", since |-> 0, spent |-> [p \in Phases |-> 0]]

(* Mutated form: a transition that keeps the phase restarts it. *)
AddIntervalOnChange(job, t, phase) ==
  [phase |-> phase, since |-> t,
   spent |-> [p \in Phases |->
                IF p = job.phase /\ p # phase THEN job.spent[p] + (t - job.since)
                                              ELSE job.spent[p]]]

(* add_interval(), and the phase that follows at time t. *)
AddInterval(job, t, phase) ==
  [phase |-> phase, since |-> t,
   spent |-> [p \in Phases |->
                IF p = job.phase THEN job.spent[p] + (t - job.since) ELSE job.spent[p]]]

(* transition() *)
Transition(job, t, transition, collective) ==
  AddInterval(job, t, NextPhase(job.phase, transition, collective))

(* accounted_ns() *)
AccountedNs(job) ==
  job.spent["SchedulingWait"] + job.spent["Compute"] + job.spent["Communication"]
    + job.spent["SynchronizationWait"] + job.spent["StragglerDelay"]
    + job.spent["TerminalOther"]

=============================================================================
