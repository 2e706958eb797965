-------------------------- MODULE TelemetryProofs ---------------------------
(***************************************************************************)
(* The attribution of job time is exact and the sample frames are true and *)
(* complete, for every set of jobs, modes, observations and limits.        *)
(***************************************************************************)
EXTENDS Telemetry, InductionLemmas

(* A job of the summary. *)
JobType == [phase : AllPhases, since : Nat, spent : [Phases -> Nat]]

(* Mutually consistent clocks: no transition lies after the callers' clock,  *)
(* and an unseen job has nothing attributed.                                 *)
TimesOrdered ==
  /\ jobs \in [Jobs -> JobType]
  /\ arrived \in [Jobs -> Nat]
  /\ now \in Nat
  /\ finalized \in BOOLEAN
  /\ \A j \in Jobs :
       /\ jobs[j].since <= now
       /\ jobs[j].phase = "Unseen" => \A p \in Phases : jobs[j].spent[p] = 0
       /\ jobs[j].phase # "Unseen" => AccountedNs(jobs[j]) = jobs[j].since - arrived[j]
       /\ finalized /\ jobs[j].phase \in Phases => jobs[j].since = last

----------------------------------------------------------------------------
(* next_phase() always returns a phase, and never the absence of one. *)
LEMMA NextPhaseType ==
  ASSUME NEW phase \in AllPhases, NEW transition \in Transitions, NEW collective \in BOOLEAN
  PROVE  NextPhase(phase, transition, collective) \in Phases \cup {"Terminal"}
<1>1. CASE transition \in TerminalTransitions
  BY <1>1 DEF NextPhase, TerminalTransitions
<1>2. CASE transition \in {"Arrived", "Waiting"}
  BY <1>2 DEF NextPhase, TerminalTransitions, Phases
<1>3. CASE transition \in {"Admitted", "CollectiveCompleted", "StepCompleted"}
  BY <1>3 DEF NextPhase, TerminalTransitions, Phases
<1>4. CASE transition \in {"ComputeStarted", "StragglerStarted", "SynchronizationStarted"}
  BY <1>4 DEF NextPhase, TerminalTransitions, Phases
<1>5. CASE transition = "ComputeCompleted"
  BY <1>5 DEF NextPhase, TerminalTransitions, Phases
<1>6. CASE transition = "CollectiveStarted"
  BY <1>6 DEF NextPhase, TerminalTransitions, Phases
<1> QED BY <1>1, <1>2, <1>3, <1>4, <1>5, <1>6 DEF Transitions

(* add_interval() for a job that has a phase adds the interval to exactly    *)
(* one of the six durations, so to their sum.                                *)
LEMMA IntervalAdds ==
  ASSUME NEW job \in JobType, NEW t \in Nat, t >= job.since,
         NEW phase \in Phases \cup {"Terminal"}
  PROVE  /\ AddInterval(job, t, phase) \in JobType
         /\ AddInterval(job, t, phase).since = t
         /\ AddInterval(job, t, phase).phase = phase
         /\ job.phase \in Phases =>
              AccountedNs(AddInterval(job, t, phase)) = AccountedNs(job) + (t - job.since)
         /\ job.phase \notin Phases =>
              AddInterval(job, t, phase).spent = job.spent
<1> DEFINE new == AddInterval(job, t, phase)
<1>1. /\ job.phase \in AllPhases /\ job.since \in Nat /\ job.spent \in [Phases -> Nat]
      /\ t - job.since \in Nat
  BY DEF JobType
<1>2. /\ new.since = t /\ new.phase = phase
      /\ new.spent = [p \in Phases |->
            IF p = job.phase THEN job.spent[p] + (t - job.since) ELSE job.spent[p]]
  BY DEF AddInterval
<1>3. new.spent \in [Phases -> Nat]
  BY <1>1, <1>2
<1>4. new \in JobType
  BY <1>3 DEF AddInterval, JobType, AllPhases
<1>5. ASSUME job.phase \notin Phases PROVE new.spent = job.spent
  BY <1>1, <1>2, <1>5
<1>6. ASSUME job.phase \in Phases
      PROVE  AccountedNs(new) = AccountedNs(job) + (t - job.since)
  <2> DEFINE s == job.spent
             d == t - job.since
  <2>1. \A p \in Phases : s[p] \in Nat /\ new.spent[p] = IF p = job.phase THEN s[p] + d ELSE s[p]
    BY <1>1, <1>2
  <2> HIDE DEF new, s, d
  <2>2. d \in Nat BY <1>1 DEF d
  <2>3. AccountedNs(job) = s["SchedulingWait"] + s["Compute"] + s["Communication"]
          + s["SynchronizationWait"] + s["StragglerDelay"] + s["TerminalOther"]
    BY DEF AccountedNs, s
  <2>4. AccountedNs(new) = AccountedNs(job) + d
    BY <1>6, <2>1, <2>2, <2>3 DEF AccountedNs, Phases
  <2> QED BY <2>4 DEF d
<1> QED BY <1>2, <1>4, <1>5, <1>6

----------------------------------------------------------------------------
(* The initial session has no job. *)
LEMMA InitOrdered == Init => TimesOrdered
<1> SUFFICES ASSUME Init PROVE TimesOrdered
  OBVIOUS
<1>1. /\ UnseenJob \in JobType
      /\ UnseenJob.phase = "Unseen" /\ UnseenJob.since = 0
      /\ \A p \in Phases : UnseenJob.spent[p] = 0
      /\ "Unseen" \notin Phases
  BY DEF UnseenJob, JobType, AllPhases, Phases
<1>2. /\ jobs = [j \in Jobs |-> UnseenJob] /\ arrived = [j \in Jobs |-> 0]
      /\ now = 0 /\ finalized = FALSE
  BY DEF Init
<1>3. jobs \in [Jobs -> JobType] /\ arrived \in [Jobs -> Nat] /\ now \in Nat
  BY <1>1, <1>2
<1>4. ASSUME NEW j \in Jobs
      PROVE  /\ jobs[j].since <= now
             /\ jobs[j].phase = "Unseen"
             /\ \A p \in Phases : jobs[j].spent[p] = 0
  BY <1>1, <1>2
<1>5. finalized \in BOOLEAN /\ ~finalized
  BY <1>2, Zenon
<1> QED BY <1>3, <1>4, <1>5 DEF TimesOrdered

(* What record() does to jobs when it accepts an observation. *)
LEMMA RecordOrdered ==
  ASSUME TimesOrdered, NEW o \in Observations, NEW t \in 0..MaxTime, Record(o, t)
  PROVE  TimesOrdered'
<1>1. /\ t \in Nat /\ now \in Nat /\ t >= now /\ now' = t
      /\ ~finalized /\ finalized' = finalized
  BY TelemetryAssumption DEF Record, MayRecord, TimesOrdered
<1>2. CASE jobs' = jobs /\ arrived' = arrived
  <2>1. \A j \in Jobs : jobs[j].since \in Nat /\ jobs[j].since <= now'
    BY <1>1 DEF TimesOrdered, JobType
  <2> QED BY <1>1, <1>2, <2>1 DEF TimesOrdered
<1>3. CASE o.kind = "job" /\ Accept(o, t)
  <2> DEFINE k == o.job
             old == jobs[k]
             next == NextPhase(old.phase, o.transition, o.collective)
  <2>1. /\ k \in Jobs /\ o.transition \in Transitions /\ o.collective \in BOOLEAN
        /\ old \in JobType /\ old.since <= now
    BY <1>3, TelemetryAssumption DEF TimesOrdered
  <2>2. /\ old.phase \in AllPhases /\ old.since \in Nat /\ old.spent \in [Phases -> Nat]
        /\ t >= old.since
    BY <1>1, <2>1 DEF JobType
  <2>3. old.phase # "Terminal"
    BY <1>3 DEF Record, Valid, MayTransition
  <2>4. next \in Phases \cup {"Terminal"}
    BY <2>1, <2>2, NextPhaseType
  <2>5. /\ jobs' = [jobs EXCEPT ![k] = AddInterval(old, t, next)]
        /\ arrived' = [arrived EXCEPT ![k] = IF old.phase = "Unseen" THEN t ELSE arrived[k]]
    BY <1>3 DEF Accept, NextJob, Transition
  <2> DEFINE new == AddInterval(old, t, next)
  <2>6. /\ new \in JobType /\ new.since = t /\ new.phase = next
        /\ old.phase \in Phases => AccountedNs(new) = AccountedNs(old) + (t - old.since)
        /\ old.phase \notin Phases => new.spent = old.spent
    BY <1>1, <2>1, <2>2, <2>4, IntervalAdds
  <2> HIDE DEF next, new
  <2>7. /\ jobs' \in [Jobs -> JobType] /\ arrived' \in [Jobs -> Nat]
        /\ jobs'[k] = new
        /\ arrived'[k] = IF old.phase = "Unseen" THEN t ELSE arrived[k]
        /\ \A j \in Jobs \ {k} : jobs'[j] = jobs[j] /\ arrived'[j] = arrived[j]
    BY <1>1, <2>1, <2>5, <2>6 DEF TimesOrdered, new
  <2>8. new.phase # "Unseen"
    BY <2>4, <2>6 DEF Phases
  <2>9. AccountedNs(new) = t - arrived'[k]
    <3>1. CASE old.phase = "Unseen"
      <4>1. new.spent = old.spent /\ \A p \in Phases : old.spent[p] = 0
        BY <2>1, <2>6, <3>1 DEF TimesOrdered, Phases
      <4>2. AccountedNs(new) = 0
        BY <4>1 DEF AccountedNs, Phases
      <4> QED BY <1>1, <2>7, <3>1, <4>2
    <3>2. CASE old.phase # "Unseen"
      <4>1. old.phase \in Phases
        BY <2>2, <2>3, <3>2 DEF AllPhases
      <4>2. AccountedNs(old) = old.since - arrived[k] /\ arrived[k] \in Nat
        BY <2>1, <3>2 DEF TimesOrdered
      <4> QED BY <1>1, <2>2, <2>6, <2>7, <3>2, <4>1, <4>2
    <3> QED BY <3>1, <3>2
  <2>10. ASSUME NEW j \in Jobs
         PROVE  /\ jobs'[j].since <= now'
                /\ jobs'[j].phase = "Unseen" => \A p \in Phases : jobs'[j].spent[p] = 0
                /\ jobs'[j].phase # "Unseen" =>
                     AccountedNs(jobs'[j]) = jobs'[j].since - arrived'[j]
    <3>1. CASE j = k
      BY <1>1, <2>6, <2>7, <2>8, <2>9, <3>1
    <3>2. CASE j # k
      <4>1. jobs'[j] = jobs[j] /\ arrived'[j] = arrived[j] /\ jobs[j].since \in Nat
        BY <2>7, <3>2 DEF TimesOrdered, JobType
      <4> QED BY <1>1, <4>1 DEF TimesOrdered
    <3> QED BY <3>1, <3>2
  <2> QED BY <1>1, <2>7, <2>10 DEF TimesOrdered
<1> QED BY <1>2, <1>3 DEF Record, Accept, Rejected

(* A step that leaves the jobs alone and does not turn the clock back. *)
LEMMA StillOrdered ==
  ASSUME TimesOrdered, now' \in Nat, now' >= now, finalized' = finalized,
         jobs' = jobs, arrived' = arrived, finalized => last' = last
  PROVE  TimesOrdered'
<1>1. \A j \in Jobs : jobs[j].since \in Nat /\ jobs[j].since <= now'
  BY DEF TimesOrdered, JobType
<1> QED BY <1>1 DEF TimesOrdered

(* finalize() closes the interval of every job that has not ended. *)
LEMMA FinalizeOrdered ==
  ASSUME TimesOrdered, NEW t \in 0..MaxTime, Finalize(t)
  PROVE  TimesOrdered'
<1>1. /\ t \in Nat /\ now \in Nat /\ t >= now /\ now' = t
      /\ ~finalized /\ arrived' = arrived
  BY TelemetryAssumption DEF Finalize, TimesOrdered
<1>2. CASE UNCHANGED <<jobs, last, finalized>>
  BY <1>1, <1>2, StillOrdered
<1>3. CASE /\ jobs' = [j \in Jobs |-> FinalJob(jobs[j], t)]
           /\ last' = t
           /\ finalized' = TRUE
  <2>1. ASSUME NEW j \in Jobs
        PROVE  /\ jobs'[j] \in JobType
               /\ jobs'[j].since <= now'
               /\ jobs'[j].phase = "Unseen" => \A p \in Phases : jobs'[j].spent[p] = 0
               /\ jobs'[j].phase # "Unseen" =>
                    AccountedNs(jobs'[j]) = jobs'[j].since - arrived'[j]
               /\ jobs'[j].phase \in Phases => jobs'[j].since = last'
    <3> DEFINE old == jobs[j]
               new == AddInterval(old, t, old.phase)
    <3>1. /\ old \in JobType /\ old.since \in Nat /\ old.since <= now
          /\ old.phase \in AllPhases /\ arrived[j] \in Nat
          /\ jobs'[j] = FinalJob(old, t)
      BY <1>3 DEF TimesOrdered, JobType
    <3>2. CASE old.phase \in {"Unseen", "Terminal"}
      <4>1. jobs'[j] = old /\ old.phase \notin Phases
        BY <3>1, <3>2 DEF FinalJob, Phases
      <4> QED BY <1>1, <3>1, <4>1 DEF TimesOrdered
    <3>3. CASE old.phase \notin {"Unseen", "Terminal"}
      <4>1. old.phase \in Phases /\ jobs'[j] = new
        BY <3>1, <3>3 DEF FinalJob, AllPhases
      <4>2. /\ new \in JobType /\ new.since = t /\ new.phase = old.phase
            /\ AccountedNs(new) = AccountedNs(old) + (t - old.since)
        BY <1>1, <3>1, <4>1, IntervalAdds
      <4>3. AccountedNs(old) = old.since - arrived[j]
        BY <3>3 DEF TimesOrdered
      <4> HIDE DEF new
      <4> QED BY <1>1, <1>3, <3>1, <3>3, <4>1, <4>2, <4>3
    <3> QED BY <3>2, <3>3
  <2>2. jobs' \in [Jobs -> JobType]
    BY <1>3, <2>1
  <2> QED BY <1>1, <1>3, <2>1, <2>2 DEF TimesOrdered
<1> QED BY <1>2, <1>3, Zenon DEF Finalize

(* The invariant is inductive. *)
LEMMA NextOrdered == TimesOrdered /\ [Next]_vars => TimesOrdered'
<1> SUFFICES ASSUME TimesOrdered, [Next]_vars PROVE TimesOrdered'
  OBVIOUS
<1>1. ASSUME NEW o \in Observations, NEW t \in 0..MaxTime, Record(o, t)
      PROVE  TimesOrdered'
  BY <1>1, RecordOrdered
<1>2. ASSUME NEW o \in Observations, NEW t \in 0..MaxTime, RecordThrows(o, t)
      PROVE  TimesOrdered'
  <2>1. /\ now' = t /\ t \in Nat /\ t >= now /\ now \in Nat
        /\ UNCHANGED <<jobs, arrived, last, finalized>>
    BY <1>2, TelemetryAssumption DEF RecordThrows, Rejected, TimesOrdered
  <2> QED BY <2>1, StillOrdered
<1>3. ASSUME NEW t \in 0..MaxTime, Finalize(t)
      PROVE  TimesOrdered'
  BY <1>3, FinalizeOrdered
<1>4. CASE UNCHANGED vars
  BY <1>4 DEF vars, TimesOrdered
<1> QED BY <1>1, <1>2, <1>3, <1>4 DEF Next

(* In every session each instant of a job's life is attributed to exactly    *)
(* one phase: accounted_ns() is the time since its arrival, for any number   *)
(* of jobs, any observations and any limits.                                 *)
THEOREM AttributionIsExact == Spec => []AttributionExact
<1>1. TimesOrdered => AttributionExact
  <2> SUFFICES ASSUME TimesOrdered, NEW j \in Jobs, jobs[j].phase # "Unseen"
               PROVE  /\ AccountedNs(jobs[j]) = jobs[j].since - arrived[j]
                      /\ \A p \in Phases : jobs[j].spent[p] >= 0
                      /\ finalized /\ jobs[j].phase # "Terminal" => jobs[j].since = last
    BY DEF AttributionExact
  <2>1. jobs[j].phase \in AllPhases /\ jobs[j].spent \in [Phases -> Nat]
    BY DEF TimesOrdered, JobType
  <2> QED BY <2>1 DEF TimesOrdered, AllPhases
<1> QED BY <1>1, InitOrdered, NextOrdered, PTL DEF Spec

(* The attribution of an ended job is final: no later observation, and not   *)
(* the finalization of the session, changes it.                              *)
EndedJobsFinal ==
  [][\A j \in Jobs : jobs[j].phase = "Terminal" => jobs'[j] = jobs[j]]_vars

(* transition() refuses an ended job and finalize() skips it, so what has    *)
(* been added to the terminal counters stays true.                           *)
THEOREM EndedJobsAreFinal == Spec => EndedJobsFinal
<1> DEFINE Final == \A j \in Jobs : jobs[j].phase = "Terminal" => jobs'[j] = jobs[j]
<1>1. ASSUME TimesOrdered, [Next]_vars PROVE [Final]_vars
  <2> SUFFICES ASSUME Next, NEW j \in Jobs, jobs[j].phase = "Terminal"
               PROVE  jobs'[j] = jobs[j]
    BY <1>1
  <2>1. ASSUME NEW o \in Observations, NEW t \in 0..MaxTime, Record(o, t)
        PROVE  jobs'[j] = jobs[j]
    <3>1. CASE o.kind = "job" /\ Accept(o, t)
      <4>1. jobs[o.job].phase # "Terminal"
        BY <2>1, <3>1 DEF Record, Valid, MayTransition
      <4> QED BY <1>1, <3>1, <4>1 DEF Accept, TimesOrdered
    <3>2. CASE jobs' = jobs
      BY <3>2
    <3> QED BY <2>1, <3>1, <3>2 DEF Record, Accept, Rejected
  <2>2. ASSUME NEW o \in Observations, NEW t \in 0..MaxTime, RecordThrows(o, t)
        PROVE  jobs'[j] = jobs[j]
    BY <2>2 DEF RecordThrows, Rejected
  <2>3. ASSUME NEW t \in 0..MaxTime, Finalize(t)
        PROVE  jobs'[j] = jobs[j]
    BY <2>3, Zenon DEF Finalize, FinalJob
  <2> QED BY <2>1, <2>2, <2>3 DEF Next
<1> QED BY <1>1, InitOrdered, NextOrdered, PTL DEF Spec, EndedJobsFinal


----------------------------------------------------------------------------
(* Arithmetic progressions: the sample boundaries.                           *)

(* The numbers without a remainder are the multiples. *)
LEMMA Multiple ==
  ASSUME NEW step \in Nat \ {0}, NEW n \in Nat
  PROVE  n % step = 0 <=> \E q \in Nat : n = q * step
<1>1. n \div step \in Nat /\ n = (n \div step) * step + (n % step)
  BY SMT
<1>2. ASSUME NEW q \in Nat PROVE (q * step) % step = 0
  BY SMT
<1>3. ASSUME n % step = 0 PROVE n = (n \div step) * step
  <2> DEFINE m == (n \div step) * step
  <2>1. m \in Nat /\ n = m + 0
    BY <1>1, <1>3, SMT
  <2> HIDE DEF m
  <2>2. n = m
    BY <2>1
  <2> QED BY <2>2 DEF m
<1> QED BY <1>1, <1>2, <1>3, Zenon

(* Products of naturals grow with a factor. *)
LEMMA Product ==
  ASSUME NEW a \in Nat, NEW b \in Nat, NEW c \in Nat
  PROVE  /\ a * c \in Nat
         /\ (a + b) * c = a * c + b * c
         /\ a <= b => a * c <= b * c
         /\ (a + 1) * c = a * c + c
         /\ c > 0 => a <= a * c
         /\ c > 0 /\ a < b => a * c < b * c
<1>1. a * c \in Nat /\ b * c \in Nat /\ (a + b) * c = a * c + b * c /\ (a + 1) * c = a * c + c
  BY SMT
<1>2. ASSUME a <= b PROVE a * c <= b * c
  <2> DEFINE d == b - a
  <2>1. d \in Nat /\ b = a + d
    BY <1>2
  <2> HIDE DEF d
  <2>2. b * c = a * c + d * c /\ d * c \in Nat
    BY <2>1, SMT
  <2> QED BY <1>1, <2>2
<1>3. ASSUME c > 0 PROVE a <= a * c
  BY <1>3, SMT
<1>4. ASSUME c > 0, a < b PROVE a * c < b * c
  <2> DEFINE d == b - a - 1
  <2>1. d \in Nat /\ b = (a + 1) + d
    BY <1>4
  <2> HIDE DEF d
  <2>2. b * c = (a + 1) * c + d * c /\ d * c \in Nat
    BY <2>1, SMT
  <2> QED BY <1>1, <1>4, <2>2
<1> QED BY <1>1, <1>2, <1>3, <1>4

(* Counting from a multiple, the multiples are the terms. *)
LEMMA Terms ==
  ASSUME NEW step \in Nat \ {0}, NEW p \in Nat, p % step = 0
  PROVE  /\ \A j \in Nat : p + j * step \in Nat /\ (p + j * step) % step = 0
         /\ \A b \in Nat : b >= p /\ b % step = 0 => \E j \in Nat : b = p + j * step
         /\ \A b \in Nat : b >= p =>
              ((b - p) % step = 0 <=> \E j \in Nat : b = p + j * step)
<1>1. PICK q \in Nat : p = q * step
  BY Multiple
<1>2. ASSUME NEW j \in Nat PROVE p + j * step \in Nat /\ (p + j * step) % step = 0
  <2>1. p + j * step = (q + j) * step /\ q + j \in Nat
    BY <1>1, Product
  <2>2. (q + j) * step \in Nat
    BY <2>1, Product
  <2>3. ((q + j) * step) % step = 0
    BY <2>1, <2>2, Multiple
  <2> QED BY <2>1, <2>2, <2>3
<1>3. ASSUME NEW b \in Nat, b >= p, b % step = 0 PROVE \E j \in Nat : b = p + j * step
  <2>1. PICK r \in Nat : b = r * step
    BY <1>3, Multiple
  <2>2. ~(r < q)
    BY <1>1, <1>3, <2>1, Product
  <2> DEFINE j == r - q
  <2>3. j \in Nat /\ r = q + j
    BY <2>2
  <2> HIDE DEF j
  <2>4. b = p + j * step
    BY <1>1, <2>1, <2>3, Product
  <2> QED BY <2>3, <2>4
<1>4. ASSUME NEW b \in Nat, b >= p
      PROVE  (b - p) % step = 0 <=> \E j \in Nat : b = p + j * step
  <2> DEFINE d == b - p
  <2>1. d \in Nat /\ b = p + d
    BY <1>4
  <2> HIDE DEF d
  <2>2. d % step = 0 <=> \E j \in Nat : d = j * step
    BY <2>1, Multiple, Zenon
  <2>3. \A j \in Nat : j * step \in Nat /\ (d = j * step <=> b = p + j * step)
    <3> SUFFICES ASSUME NEW j \in Nat
                 PROVE  j * step \in Nat /\ (d = j * step <=> b = p + j * step)
      OBVIOUS
    <3> DEFINE m == j * step
    <3>1. m \in Nat
      BY Product
    <3> HIDE DEF m
    <3>2. d = m <=> b = p + m
      BY <2>1, <3>1
    <3> QED BY <3>1, <3>2 DEF m
  <2> QED BY <2>2, <2>3 DEF d
<1> QED BY <1>2, <1>3, <1>4

(* A bounded set of terms without gaps holds the first ones. *)
LEMMA FirstTerms ==
  ASSUME NEW step \in Nat \ {0}, NEW p \in Nat, NEW B, NEW bound \in Nat,
         \A b \in B : b <= bound /\ \E j \in Nat : b = p + j * step,
         \A j \in Nat : p + (j + 1) * step \in B => p + j * step \in B
  PROVE  /\ IsFiniteSet(B) /\ Cardinality(B) \in Nat
         /\ \A j \in Nat : p + j * step \in B <=> j < Cardinality(B)
<1> DEFINE J == {j \in Nat : p + j * step \notin B}
<1>1. J \subseteq Nat /\ J # {}
  <2>1. bound + 1 <= (bound + 1) * step /\ (bound + 1) * step \in Nat
    BY Product
  <2>2. ~(p + (bound + 1) * step <= bound)
    BY <2>1
  <2>3. bound + 1 \in J
    BY <2>2
  <2> QED BY <2>3
<1>2. PICK c \in J : \A y \in J : c <= y
  <2> HIDE DEF J
  <2> QED BY <1>1, LeastNatural, Zenon
<1>3. c \in Nat /\ \A j \in Nat : j < c => p + j * step \in B
  BY <1>2
<1>4. \A j \in Nat : j >= c => p + j * step \notin B
  <2> DEFINE T == {d \in Nat : p + (c + d) * step \notin B}
  <2>1. 0 \in T
    BY <1>2
  <2>2. ASSUME NEW d \in Nat, d \in T PROVE d + 1 \in T
    <3>1. c + d \in Nat /\ (c + d) + 1 = c + (d + 1)
      BY <1>3
    <3>2. p + ((c + d) + 1) * step \notin B
      BY <2>2, <3>1
    <3> QED BY <3>1, <3>2
  <2>3. \A d \in Nat : d \in T
    <3> HIDE DEF T
    <3> QED BY <2>1, <2>2, Induction
  <2> SUFFICES ASSUME NEW j \in Nat, j >= c PROVE p + j * step \notin B
    OBVIOUS
  <2> DEFINE d == j - c
  <2>4. d \in Nat /\ j = c + d
    BY <1>3
  <2> HIDE DEF d
  <2> QED BY <2>3, <2>4
<1>5. \A j \in Nat : p + j * step \in B <=> j < c
  BY <1>3, <1>4
<1>6. IsFiniteSet(B) /\ Cardinality(B) = c
  <2> DEFINE f == [j \in 0..c - 1 |-> p + j * step]
  <2>1. f \in [0..c - 1 -> B]
    <3>1. \A j \in 0..c - 1 : j \in Nat /\ j < c
      BY <1>3
    <3>2. \A j \in 0..c - 1 : p + j * step \in B
      BY <1>3, <3>1
    <3> QED BY <3>2, Zenon
  <2>2. \A i, j \in 0..c - 1 : f[i] = f[j] => i = j
    <3> SUFFICES ASSUME NEW i \in 0..c - 1, NEW j \in 0..c - 1, f[i] = f[j] PROVE i = j
      OBVIOUS
    <3>1. i \in Nat /\ j \in Nat /\ i * step \in Nat /\ j * step \in Nat
      BY <1>3, Product
    <3>2. i * step = j * step
      BY <3>1
    <3>3. ~(i < j) /\ ~(j < i)
      BY <3>1, <3>2, Product
    <3> QED BY <3>1, <3>3
  <2>3. \A b \in B : \E j \in 0..c - 1 : f[j] = b
    <3> SUFFICES ASSUME NEW b \in B PROVE \E j \in 0..c - 1 : f[j] = b
      BY Zenon
    <3>1. PICK j \in Nat : b = p + j * step
      OBVIOUS
    <3>2. j < c
      BY <1>5, <3>1
    <3> QED BY <1>3, <3>1, <3>2
  <2>4. IsFiniteSet(0..c - 1) /\ Cardinality(0..c - 1) = c
    <3>1. Cardinality(0..c - 1) = IF 0 > c - 1 THEN 0 ELSE (c - 1) - 0 + 1
      BY <1>3, FS_Interval
    <3> QED BY <1>3, <3>1, FS_Interval
  <2> HIDE DEF f
  <2>5. f \in Bijection(0..c - 1, B)
    <3> DEFINE D == 0..c - 1
    <3>1. f \in [D -> B] /\ DOMAIN f = D
      BY <2>1
    <3> HIDE DEF D
    <3>2. IsInjective(f)
      BY <2>2, <3>1 DEF IsInjective, D
    <3>3. \A b \in B : \E j \in D : f[j] = b
      BY <2>3 DEF D
    <3>4. f \in Bijection(D, B)
      BY <3>1, <3>2, <3>3, Zenon DEF Bijection, Injection, Surjection
    <3> QED BY <3>4 DEF D
  <2> DEFINE D == 0..c - 1
  <2>6. IsFiniteSet(D) /\ Cardinality(D) = c /\ f \in Bijection(D, B)
    BY <2>4, <2>5
  <2> HIDE DEF D
  <2>7. IsFiniteSet(B) /\ Cardinality(D) = Cardinality(B)
    <3>1. ExistsBijection(D, B)
      BY <2>6 DEF ExistsBijection
    <3> QED BY <2>6, <3>1, FS_Bijection
  <2> QED BY <2>6, <2>7
<1> QED BY <1>3, <1>5, <1>6

----------------------------------------------------------------------------
(* Frames.                                                                  *)

(* What a frame at b must hold, by the series known for each boundary. *)
ValuesAt(at, b) == [m \in {x \in DOMAIN at[b] : Kind(x) # "histogram"} |-> at[b][m]]

Passed(next, b) == next # None => b < next

(* f is a sequence of length k. *)
Indexed(f, k) == f = [i \in 1..k |-> f[i]]

IsTuple(s) == Len(s) \in Nat /\ s = [i \in 1..Len(s) |-> s[i]]

(* Each frame is true, and each passed boundary that has values has a frame. *)
Frames(frames, next, at) ==
  /\ IsTuple(frames)
  /\ next = None \/ next \in SampleTimes
  /\ \A i \in 1..Len(frames) :
       /\ frames[i].at \in SampleTimes /\ Passed(next, frames[i].at)
       /\ frames[i].values = ValuesAt(at, frames[i].at)
       /\ i > 1 => frames[i].at > frames[i - 1].at
  /\ \A b \in SampleTimes : Passed(next, b) =>
       ((\E i \in 1..Len(frames) : frames[i].at = b) <=> DOMAIN ValuesAt(at, b) # {})

(* The samples of the frames. *)
Kept(frames) == UNION {{i} \X DOMAIN frames[i].values : i \in DOMAIN frames}

(* A sequence that another is appended to: its length and its elements. *)
LEMMA Joined ==
  ASSUME NEW s, NEW f, NEW k \in Nat, IsTuple(s), Indexed(f, k)
  PROVE  /\ IsTuple(s \o f) /\ Len(s \o f) = Len(s) + k
         /\ DOMAIN (s \o f) = 1..Len(s) + k /\ DOMAIN s = 1..Len(s)
         /\ \A i \in 1..Len(s) : (s \o f)[i] = s[i]
         /\ \A i \in 1..k : (s \o f)[Len(s) + i] = f[i]
<1> DEFINE n == Len(s)
           S == {s[i] : i \in 1..n} \cup {f[i] : i \in 1..k}
<1>1. n \in Nat /\ s = [i \in 1..n |-> s[i]] /\ DOMAIN s = 1..n
  BY DEF IsTuple
<1>2. s \in Seq(S)
  <2>1. s \in [1..n -> S]
    BY <1>1
  <2> HIDE DEF S
  <2> QED BY <1>1, <2>1
<1>3. f \in Seq(S) /\ Len(f) = k
  <2>1. f \in [1..k -> S]
    BY DEF Indexed
  <2> HIDE DEF S
  <2> QED BY <2>1
<1> HIDE DEF S
<1>4. s \o f \in Seq(S) /\ Len(s \o f) = n + k
  BY <1>2, <1>3
<1>5. \A i \in 1..n + k : (s \o f)[i] = IF i <= n THEN s[i] ELSE f[i - n]
  BY <1>1, <1>2, <1>3
<1>6. IsTuple(s \o f) /\ DOMAIN (s \o f) = 1..n + k
  <2> DEFINE u == s \o f
             l == n + k
  <2>1. u \in Seq(S) /\ Len(u) = l /\ l \in Nat
    BY <1>1, <1>4
  <2> HIDE DEF u, l
  <2>2. DOMAIN u = 1..l /\ u = [i \in 1..l |-> u[i]]
    BY <2>1
  <2>3. IsTuple(u) /\ DOMAIN u = 1..l
    BY <2>1, <2>2 DEF IsTuple
  <2> QED BY <2>3 DEF u, l
<1>7. \A i \in 1..n : (s \o f)[i] = s[i]
  BY <1>1, <1>5
<1>8. \A i \in 1..k : (s \o f)[n + i] = f[i]
  <2> SUFFICES ASSUME NEW i \in 1..k PROVE (s \o f)[n + i] = f[i]
    BY Zenon
  <2>1. n + i \in 1..n + k /\ ~(n + i <= n) /\ (n + i) - n = i
    BY <1>1
  <2> QED BY <1>5, <2>1, Zenon
<1> QED BY <1>1, <1>4, <1>6, <1>7, <1>8

(* append_sample_frame(): every frame adds a sample of each metric in D. *)
LEMMA KeptGrows ==
  ASSUME NEW s, NEW f, NEW k \in Nat, IsTuple(s), Indexed(f, k),
         NEW D, IsFiniteSet(D), \A i \in 1..k : DOMAIN f[i].values = D,
         IsFiniteSet(Kept(s))
  PROVE  /\ IsFiniteSet(Kept(s \o f))
         /\ Cardinality(Kept(s)) \in Nat /\ Cardinality(D) \in Nat
         /\ Cardinality(Kept(s \o f)) = Cardinality(Kept(s)) + k * Cardinality(D)
<1> DEFINE n == Len(s)
           added == (n + 1..n + k) \X D
           t == s \o f
<1>1. /\ n \in Nat /\ DOMAIN s = 1..n /\ DOMAIN t = 1..n + k
      /\ \A i \in 1..n : t[i] = s[i]
      /\ \A i \in 1..k : t[n + i] = f[i]
  BY Joined DEF IsTuple, Indexed
<1> HIDE DEF t
<1>2. \A i \in n + 1..n + k : DOMAIN t[i].values = D
  <2> SUFFICES ASSUME NEW i \in n + 1..n + k PROVE DOMAIN t[i].values = D
    OBVIOUS
  <2> DEFINE j == i - n
  <2>1. j \in 1..k /\ i = n + j
    BY <1>1
  <2> HIDE DEF j
  <2> QED BY <1>1, <2>1, Zenon
<1>3. 1..n + k = (1..n) \cup (n + 1..n + k) /\ (1..n) \cap (n + 1..n + k) = {}
  BY <1>1
<1>4. Kept(t) = Kept(s) \cup added
  <2>1. Kept(t) = UNION {{i} \X DOMAIN t[i].values : i \in (1..n) \cup (n + 1..n + k)}
    BY <1>1, <1>3 DEF Kept
  <2>2. Kept(s) = UNION {{i} \X DOMAIN t[i].values : i \in 1..n}
    BY <1>1 DEF Kept
  <2>3. added = UNION {{i} \X DOMAIN t[i].values : i \in n + 1..n + k}
    BY <1>2
  <2> QED BY <2>1, <2>2, <2>3
<1>5. Kept(s) \cap added = {}
  <2>1. \A x \in Kept(s) : x[1] \in 1..n
    BY <1>1 DEF Kept
  <2>2. \A x \in added : x[1] \in n + 1..n + k
    OBVIOUS
  <2> QED BY <1>3, <2>1, <2>2
<1>6. IsFiniteSet(n + 1..n + k) /\ Cardinality(n + 1..n + k) = k
  <2> DEFINE lo == n + 1
             hi == n + k
  <2>1. lo \in Int /\ hi \in Int /\ hi - lo + 1 = k /\ (lo > hi <=> k = 0)
    BY <1>1
  <2> HIDE DEF lo, hi
  <2>2. IsFiniteSet(lo..hi) /\ Cardinality(lo..hi) = IF lo > hi THEN 0 ELSE hi - lo + 1
    BY <2>1, FS_Interval
  <2>3. IsFiniteSet(lo..hi) /\ Cardinality(lo..hi) = k
    BY <2>1, <2>2
  <2> QED BY <2>3 DEF lo, hi
<1>7. IsFiniteSet(added) /\ Cardinality(added) = k * Cardinality(D)
  BY <1>6, FS_Product, Zenon
<1> HIDE DEF added
<1>8. /\ IsFiniteSet(Kept(s) \cup added)
      /\ Cardinality(Kept(s) \cup added)
           = Cardinality(Kept(s)) + Cardinality(added) - Cardinality(Kept(s) \cap added)
  BY <1>7, FS_Union
<1>9. Cardinality(Kept(s)) \in Nat /\ Cardinality(D) \in Nat /\ Cardinality(added) \in Nat
  BY <1>7, FS_CardinalityType
<1>10. Cardinality(Kept(s) \cup added) = Cardinality(Kept(s)) + Cardinality(added)
  <2>1. Cardinality(Kept(s) \cap added) = 0
    BY <1>5, FS_EmptySet
  <2> QED BY <1>8, <1>9, <2>1
<1> QED BY <1>4, <1>7, <1>8, <1>9, <1>10 DEF t

----------------------------------------------------------------------------
(* emit_samples_until() *)

(* The boundaries are the positive multiples of the interval. *)
LEMMA SampleTimeFacts ==
  /\ Interval \in Nat \ {0} /\ MaxTime \in Nat /\ MaxSamples \in Nat /\ None \notin Nat
  /\ \A b : b \in SampleTimes <=> b \in Nat /\ b > 0 /\ b <= MaxTime /\ b % Interval = 0
  /\ Interval \in SampleTimes
<1>1. Interval \in Nat \ {0} /\ MaxTime \in Nat /\ MaxSamples \in Nat /\ None \notin Nat
      /\ Interval <= MaxTime
  BY TelemetryAssumption
<1>2. \A b : b \in SampleTimes <=> b \in Nat /\ b > 0 /\ b <= MaxTime /\ b % Interval = 0
  BY <1>1 DEF SampleTimes
<1>3. Interval % Interval = 0
  <2>1. Interval = 1 * Interval
    BY <1>1
  <2> QED BY <1>1, <2>1, Multiple
<1> QED BY <1>1, <1>2, <1>3

(* The boundaries to pass are the first ones, without a gap. *)
LEMMA BoundaryTerms ==
  ASSUME nextSample \in SampleTimes, NEW t \in 0..MaxTime, NEW inclusive \in BOOLEAN
  PROVE  LET bs == Boundaries(t, inclusive)
         IN /\ IsFiniteSet(bs) /\ Cardinality(bs) \in Nat
            /\ \A j \in Nat : nextSample + j * Interval \in bs <=> j < Cardinality(bs)
            /\ \A j \in Nat : nextSample + j * Interval \in bs <=>
                 \/ nextSample + j * Interval < t
                 \/ inclusive /\ nextSample + j * Interval = t
            /\ bs \subseteq SampleTimes
<1> DEFINE p == nextSample
           bs == Boundaries(t, inclusive)
<1>1. /\ Interval \in Nat \ {0} /\ MaxTime \in Nat /\ t \in Nat /\ t <= MaxTime
      /\ p \in Nat /\ p > 0 /\ p % Interval = 0 /\ p # None
  BY SampleTimeFacts
<1>2. \A b : b \in bs <=> /\ b \in Nat /\ b <= MaxTime /\ b >= p /\ (b - p) % Interval = 0
                          /\ b < t \/ (inclusive /\ b = t)
  BY <1>1 DEF Boundaries
<1> HIDE DEF p, bs
<1>3. /\ \A j \in Nat : p + j * Interval \in Nat /\ (p + j * Interval) % Interval = 0
      /\ \A b \in Nat : b >= p =>
           ((b - p) % Interval = 0 <=> \E j \in Nat : b = p + j * Interval)
  BY <1>1, Terms, Zenon
<1>4. \A j \in Nat : j * Interval \in Nat /\ p + j * Interval >= p
  <2> SUFFICES ASSUME NEW j \in Nat PROVE j * Interval \in Nat /\ p + j * Interval >= p
    OBVIOUS
  <2>1. j * Interval \in Nat
    BY <1>1, Product
  <2> QED BY <1>1, <2>1
<1>5. ASSUME NEW j \in Nat
      PROVE  p + j * Interval \in bs <=>
               p + j * Interval < t \/ (inclusive /\ p + j * Interval = t)
  <2> DEFINE b == p + j * Interval
  <2>1. b \in Nat /\ b >= p
    BY <1>3, <1>4
  <2>2. (b - p) % Interval = 0
    BY <1>3, <2>1
  <2> HIDE DEF b
  <2>3. b \in bs <=> b < t \/ (inclusive /\ b = t)
    BY <1>1, <1>2, <2>1, <2>2
  <2> QED BY <2>3 DEF b
<1>6. \A b \in bs : b <= MaxTime /\ \E j \in Nat : b = p + j * Interval
  BY <1>2, <1>3
<1>7. \A j \in Nat : p + (j + 1) * Interval \in bs => p + j * Interval \in bs
  <2> SUFFICES ASSUME NEW j \in Nat, p + (j + 1) * Interval \in bs
               PROVE  p + j * Interval \in bs
    OBVIOUS
  <2> DEFINE m == j * Interval
  <2>1. m \in Nat /\ (j + 1) * Interval = m + Interval
    BY <1>1, Product
  <2>2. p + (m + Interval) \in bs
    BY <2>1
  <2> HIDE DEF m
  <2>3. p + (m + Interval) <= t
    BY <1>1, <1>2, <2>1, <2>2
  <2>4. p + m < t
    BY <1>1, <2>1, <2>3
  <2> QED BY <1>5, <2>4 DEF m
<1>8. /\ IsFiniteSet(bs) /\ Cardinality(bs) \in Nat
      /\ \A j \in Nat : p + j * Interval \in bs <=> j < Cardinality(bs)
  BY <1>1, <1>6, <1>7, FirstTerms, Zenon
<1>9. bs \subseteq SampleTimes
  <2> SUFFICES ASSUME NEW b \in bs PROVE b \in SampleTimes
    OBVIOUS
  <2>1. PICK j \in Nat : b = p + j * Interval
    BY <1>6
  <2>2. b % Interval = 0 /\ b \in Nat /\ b >= p /\ b <= MaxTime
    BY <1>2, <1>3, <2>1
  <2> QED BY <1>1, <2>2, SampleTimeFacts
<1> QED BY <1>5, <1>8, <1>9 DEF p, bs

(* append_sample_frame(): as many frames as the limit lets through. *)
LEMMA FittingFacts ==
  ASSUME NEW bs, Cardinality(bs) \in Nat, IsFiniteSet(Sampled),
         SampleCount \in Nat, SampleCount <= MaxSamples
  PROVE  LET k == Fitting(bs)
             each == Cardinality(Sampled)
         IN /\ k \in 0..Cardinality(bs) /\ each \in Nat
            /\ Sampled = {} => k = Cardinality(bs)
            /\ Sampled # {} =>
                 /\ SampleCount + k * each <= MaxSamples
                 /\ k < Cardinality(bs) => SampleCount + k * each + each > MaxSamples
<1> DEFINE c == Cardinality(bs)
           each == Cardinality(Sampled)
           room == MaxSamples - SampleCount
           Fits(k) == /\ k * each <= room
                      /\ k < c => (k + 1) * each > room
<1>1. each \in Nat /\ room \in Nat /\ c \in Nat
  BY SampleTimeFacts, FS_CardinalityType
<1>2. CASE Sampled = {}
  BY <1>1, <1>2 DEF Fitting
<1>3. CASE Sampled # {}
  <2>1. Fitting(bs) = CHOOSE k \in 0..c : Fits(k)
    BY <1>3 DEF Fitting
  <2> HIDE DEF c, each, room
  <2>2. \E k \in 0..c : Fits(k)
    <3> DEFINE J == {j \in 0..c : j < c => (j + 1) * each > room}
    <3>1. J \subseteq Nat /\ c \in J
      BY <1>1
    <3>2. PICK k \in J : \A y \in J : k <= y
      <4> HIDE DEF J
      <4> QED BY <3>1, LeastNatural, Zenon
    <3>3. k \in 0..c /\ k \in Nat
      BY <1>1
    <3>4. k * each <= room
      <4>1. CASE k = 0
        BY <1>1, <4>1
      <4>2. CASE k # 0
        <5> DEFINE j == k - 1
        <5>1. j \in Nat /\ j \in 0..c /\ j < c /\ k = j + 1 /\ j < k
          BY <1>1, <3>3, <4>2
        <5> HIDE DEF j
        <5>2. j \notin J
          BY <3>2, <3>3, <5>1
        <5>3. ~((j + 1) * each > room) /\ (j + 1) * each \in Nat
          BY <1>1, <5>1, <5>2, Product
        <5> QED BY <1>1, <5>1, <5>3
      <4> QED BY <4>1, <4>2
    <3> QED BY <3>3, <3>4
  <2> DEFINE k == Fitting(bs)
  <2>3. k \in 0..c /\ Fits(k)
    BY <2>1, <2>2, Zenon
  <2> HIDE DEF k
  <2>4. k \in Nat /\ k * each \in Nat /\ (k + 1) * each = k * each + each
    BY <1>1, <2>3, Product
  <2>5. SampleCount + k * each <= MaxSamples
    <3> DEFINE m == k * each
    <3>1. m \in Nat /\ m <= room
      BY <2>3, <2>4
    <3> HIDE DEF m
    <3>2. SampleCount + m <= MaxSamples
      BY <3>1, SampleTimeFacts DEF room
    <3> QED BY <3>2 DEF m
  <2>6. k < c => SampleCount + k * each + each > MaxSamples
    <3> SUFFICES ASSUME k < c PROVE SampleCount + k * each + each > MaxSamples
      OBVIOUS
    <3> DEFINE m == k * each
    <3>1. m \in Nat /\ m + each > room
      BY <2>3, <2>4
    <3> HIDE DEF m
    <3>2. SampleCount + m + each > MaxSamples
      BY <1>1, <3>1, SampleTimeFacts DEF room
    <3> QED BY <3>2 DEF m
  <2> QED BY <1>1, <1>3, <2>3, <2>5, <2>6 DEF c, each, k
<1> QED BY <1>2, <1>3

TypedSeries(s) ==
  /\ IsFiniteSet(DOMAIN s)
  /\ \A m \in DOMAIN s : Kind(m) \in {"counter", "gauge", "histogram"}

(* The frames are true, a boundary that has not been passed would get the    *)
(* current values, and in an open session no boundary has been passed too    *)
(* early.  The sampling has reached the last observation unless the limit    *)
(* has cut it.                                                               *)
Sampling ==
  /\ Frames(samples, nextSample, seriesAt)
  /\ IsFiniteSet(Kept(samples)) /\ Cardinality(Kept(samples)) <= MaxSamples
  /\ \A b \in SampleTimes : ~Passed(nextSample, b) => seriesAt[b] = series
  /\ \A b \in SampleTimes : Passed(nextSample, b) => b < now \/ finalized
  /\ last # None /\ nextSample # None =>
       \/ nextSample >= last
       \/ Cardinality(Kept(samples)) + Cardinality(Sampled) > MaxSamples

SamplingInv ==
  /\ now \in Nat /\ finalized \in BOOLEAN
  /\ last = None \/ (last \in Nat /\ last <= now)
  /\ TypedSeries(series)
  /\ RetainsSamples => Sampling

(* The sampled metrics are finitely many, and a boundary with the current    *)
(* series has their values.                                                  *)
LEMMA SampledFacts ==
  ASSUME TypedSeries(series)
  PROVE  /\ IsFiniteSet(Sampled) /\ Cardinality(Sampled) \in Nat
         /\ \A at, b : at[b] = series => ValuesAt(at, b) = [m \in Sampled |-> series[m]]
<1>1. Sampled \in SUBSET DOMAIN series /\ Sampled = {x \in DOMAIN series : Kind(x) # "histogram"}
  BY DEF Sampled, TypedSeries
<1>2. IsFiniteSet(Sampled)
  BY <1>1, FS_Subset DEF TypedSeries
<1> QED BY <1>1, <1>2, FS_CardinalityType DEF ValuesAt

(* The next boundary after the first k from p. *)
LEMMA AdvancedFacts ==
  ASSUME nextSample \in SampleTimes, NEW k \in Nat,
         \A j \in Nat : j < k => nextSample + j * Interval <= MaxTime
  PROVE  LET next == Advanced(k)
         IN /\ next = None \/ next \in SampleTimes
            /\ next # None => next = nextSample + k * Interval
            /\ \A b \in SampleTimes : Passed(next, b) <=>
                 Passed(nextSample, b) \/ \E j \in Nat : j < k /\ b = nextSample + j * Interval
<1> DEFINE p == nextSample
           next == Advanced(k)
<1>1. /\ Interval \in Nat \ {0} /\ MaxTime \in Nat /\ None \notin Nat
      /\ p \in Nat /\ p > 0 /\ p <= MaxTime /\ p % Interval = 0 /\ p # None
  BY SampleTimeFacts
<1>2. /\ \A j \in Nat : p + j * Interval \in Nat /\ (p + j * Interval) % Interval = 0
      /\ \A b \in Nat : b >= p /\ b % Interval = 0 => \E j \in Nat : b = p + j * Interval
  BY <1>1, Terms, Zenon
<1>3. \A j \in Nat : j * Interval \in Nat
  BY <1>1, Product
<1>4. \A i, j \in Nat : i < j => i * Interval < j * Interval
  BY <1>1, Product
<1>5. CASE k = 0
  <2>1. next = p
    BY <1>5 DEF Advanced
  <2>2. p = p + k * Interval
    BY <1>1, <1>5
  <2>3. \A b \in SampleTimes : ~\E j \in Nat : j < k /\ b = p + j * Interval
    BY <1>5
  <2> QED BY <2>1, <2>2, <2>3
<1>6. CASE k # 0
  <2> DEFINE last0 == p + (k - 1) * Interval
             end == p + k * Interval
  <2>1. next = IF Interval > MaxTime - last0 THEN None ELSE last0 + Interval
    BY <1>6 DEF Advanced
  <2>2. k - 1 \in Nat /\ k - 1 < k
    BY <1>6
  <2>3. last0 \in Nat /\ last0 <= MaxTime /\ end \in Nat /\ end % Interval = 0 /\ end > 0
    BY <1>1, <1>2, <1>3, <2>2
  <2>4. end = last0 + Interval
    <3> DEFINE j == k - 1
               m == j * Interval
    <3>1. j \in Nat /\ k = j + 1
      BY <1>6
    <3>2. k * Interval = m + Interval /\ m \in Nat
      <4> HIDE DEF j
      <4> QED BY <1>1, <3>1, Product
    <3>3. last0 = p + m
      OBVIOUS
    <3> HIDE DEF m, last0
    <3> QED BY <1>1, <3>2, <3>3
  <2> HIDE DEF last0
  <2>5. /\ next = None <=> end > MaxTime
        /\ next # None => next = end
    <3> HIDE DEF end, next
    <3> QED BY <1>1, <2>1, <2>3, <2>4
  <2> HIDE DEF next
  <2>6. next # None => next \in SampleTimes
    BY <2>3, <2>5, SampleTimeFacts
  <2>7. ASSUME NEW b \in SampleTimes
        PROVE  Passed(next, b) <=>
                 Passed(p, b) \/ \E j \in Nat : j < k /\ b = p + j * Interval
    <3>1. b \in Nat /\ b <= MaxTime /\ b % Interval = 0
      BY SampleTimeFacts
    <3>2. Passed(next, b) <=> b < end
      <4>1. Passed(next, b) <=> next = None \/ b < next
        BY DEF Passed
      <4> HIDE DEF end
      <4>2. CASE next = None
        BY <1>1, <2>3, <2>5, <3>1, <4>1, <4>2
      <4>3. CASE next # None
        BY <2>5, <4>1, <4>3
      <4> QED BY <4>2, <4>3
    <3>3. Passed(p, b) <=> b < p
      BY <1>1 DEF Passed
    <3>4. CASE b < p
      <4>1. p <= end
        BY <1>1, <1>3
      <4> QED BY <1>1, <2>3, <3>1, <3>2, <3>3, <3>4, <4>1
    <3>5. CASE b >= p
      <4>1. PICK j \in Nat : b = p + j * Interval
        BY <1>2, <3>1, <3>5
      <4>2. \A i \in Nat : b = p + i * Interval => i = j
        <5> SUFFICES ASSUME NEW i \in Nat, b = p + i * Interval PROVE i = j
          OBVIOUS
        <5>1. i * Interval \in Nat /\ j * Interval \in Nat
          BY <1>3
        <5>2. i * Interval = j * Interval
          BY <1>1, <4>1, <5>1
        <5>3. ~(i < j) /\ ~(j < i)
          BY <1>4, <5>1, <5>2
        <5> QED BY <5>3
      <4>3. b < end <=> j < k
        <5>1. j * Interval \in Nat /\ k * Interval \in Nat
          BY <1>3
        <5>2. j < k => j * Interval < k * Interval
          BY <1>4
        <5>3. k < j => k * Interval < j * Interval
          BY <1>4
        <5>4. j = k \/ j < k \/ k < j
          OBVIOUS
        <5>5. b < end <=> j * Interval < k * Interval
          BY <1>1, <4>1, <5>1
        <5> QED BY <5>1, <5>2, <5>3, <5>4, <5>5
      <4>4. (\E i \in Nat : i < k /\ b = p + i * Interval) <=> j < k
        BY <4>1, <4>2
      <4>5. ~(b < p)
        BY <1>1, <3>1, <3>5
      <4> QED BY <3>2, <3>3, <4>3, <4>4, <4>5
    <3> QED BY <1>1, <3>1, <3>4, <3>5
  <2> QED BY <2>5, <2>6, <2>7 DEF next
<1> QED BY <1>5, <1>6

(* Frames f for the first k boundaries from next, all of which have values. *)
NewFrames(f, k, next, at) ==
  /\ Indexed(f, k)
  /\ \A i \in 1..k : /\ f[i].at = next + (i - 1) * Interval /\ f[i].at \in SampleTimes
                     /\ f[i].values = ValuesAt(at, f[i].at)
                     /\ DOMAIN f[i].values # {}

(* From next to next2 are the first k boundaries. *)
Passes(next, next2, k) ==
  /\ next2 = None \/ next2 \in SampleTimes
  /\ \A b \in SampleTimes : Passed(next2, b) <=>
       Passed(next, b) \/ \E j \in Nat : j < k /\ b = next + j * Interval

(* append_sample_frame(): new frames keep the frames true and complete. *)
LEMMA FramesGrow ==
  ASSUME NEW s, NEW f, NEW k \in Nat, NEW at, NEW next \in SampleTimes, NEW next2,
         Frames(s, next, at), Passes(next, next2, k), NewFrames(f, k, next, at)
  PROVE  Frames(s \o f, next2, at)
<1> USE DEF NewFrames, Passes
<1> DEFINE n == Len(s)
           t == s \o f
<1>1. /\ n \in Nat /\ IsTuple(t) /\ Len(t) = n + k
      /\ \A i \in 1..n : t[i] = s[i]
      /\ \A i \in 1..k : t[n + i] = f[i]
  BY Joined DEF IsTuple, Frames, Indexed
<1> HIDE DEF t
<1>2. /\ next \in Nat /\ next # None /\ Interval \in Nat \ {0}
      /\ \A b \in SampleTimes : b \in Nat
  BY SampleTimeFacts
<1>3. \A i \in n + 1..n + k : i - n \in 1..k /\ i = n + (i - n) /\ t[i] = f[i - n]
  <2> SUFFICES ASSUME NEW i \in n + 1..n + k
               PROVE  i - n \in 1..k /\ i = n + (i - n) /\ t[i] = f[i - n]
    OBVIOUS
  <2> DEFINE j == i - n
  <2>1. j \in 1..k /\ i = n + j
    BY <1>1
  <2> HIDE DEF j
  <2>2. t[i] = f[j]
    BY <1>1, <2>1
  <2> QED BY <2>1, <2>2 DEF j
<1>4. \A i \in 1..n : /\ s[i].at \in SampleTimes /\ s[i].at < next
                      /\ s[i].values = ValuesAt(at, s[i].at)
                      /\ i > 1 => s[i].at > s[i - 1].at
  BY <1>2 DEF Frames, Passed
<1>5. ASSUME NEW i \in 1..k
      PROVE  /\ Passed(next2, f[i].at)
             /\ f[i].at >= next
             /\ i > 1 => f[i].at > f[i - 1].at
  <2> DEFINE j == i - 1
             m == j * Interval
  <2>1. j \in Nat /\ j < k /\ m \in Nat
    <3>1. j \in Nat /\ j < k
      OBVIOUS
    <3> HIDE DEF j
    <3> QED BY <1>2, <3>1, Product
  <2>2. f[i].at = next + m /\ f[i].at \in SampleTimes
    OBVIOUS
  <2>3. Passed(next2, f[i].at)
    <3>1. f[i].at = next + j * Interval
      OBVIOUS
    <3> HIDE DEF j
    <3> QED BY <2>1, <2>2, <3>1
  <2>4. f[i].at >= next
    <3> HIDE DEF m
    <3> QED BY <1>2, <2>1, <2>2
  <2>5. ASSUME i > 1 PROVE f[i].at > f[i - 1].at
    <3> DEFINE h == i - 2
               l == h * Interval
    <3>1. h \in Nat /\ j = h + 1 /\ i - 1 \in 1..k /\ (i - 1) - 1 = h
      BY <2>5
    <3>2. m = l + Interval /\ l \in Nat
      <4> HIDE DEF h, j
      <4> QED BY <1>2, <3>1, Product
    <3>3. f[i - 1].at = next + l
      BY <3>1
    <3> HIDE DEF l, m
    <3> QED BY <1>2, <2>2, <3>2, <3>3
  <2> QED BY <2>3, <2>4, <2>5
<1>6. ASSUME NEW i \in 1..n + k
      PROVE  /\ t[i].at \in SampleTimes /\ Passed(next2, t[i].at)
             /\ t[i].values = ValuesAt(at, t[i].at)
             /\ i > 1 => t[i].at > t[i - 1].at
  <2>1. CASE i \in 1..n
    <3>1. t[i] = s[i] /\ (i > 1 => t[i - 1] = s[i - 1])
      BY <1>1, <2>1
    <3>2. Passed(next, s[i].at)
      BY <2>1 DEF Frames
    <3> QED BY <1>4, <2>1, <3>1, <3>2
  <2>2. CASE i \notin 1..n
    <3> DEFINE j == i - n
    <3>1. i \in n + 1..n + k
      BY <1>1, <2>2
    <3>2. j \in 1..k /\ i = n + j /\ t[i] = f[j]
      BY <1>3, <3>1
    <3> HIDE DEF j
    <3>3. ASSUME i > 1 PROVE t[i].at > t[i - 1].at
      <4>1. CASE j = 1
        <5>1. i - 1 = n /\ n \in 1..n
          BY <1>1, <3>2, <3>3, <4>1
        <5>2. t[i - 1] = s[n] /\ s[n].at \in Nat /\ s[n].at < next
          BY <1>1, <1>2, <1>4, <5>1, Zenon
        <5>3. f[j].at \in Nat /\ f[j].at >= next
          BY <1>2, <1>5, <3>2
        <5> QED BY <1>2, <3>2, <5>2, <5>3
      <4>2. CASE j # 1
        <5>1. j - 1 \in 1..k /\ i - 1 = n + (j - 1) /\ j > 1
          BY <1>1, <3>2, <4>2
        <5>2. t[i - 1] = f[j - 1]
          BY <1>1, <5>1
        <5> QED BY <1>5, <3>2, <5>1, <5>2
      <4> QED BY <4>1, <4>2
    <3> QED BY <1>5, <3>2, <3>3
  <2> QED BY <2>1, <2>2
<1>7. ASSUME NEW b \in SampleTimes, Passed(next2, b)
      PROVE  (\E i \in 1..n + k : t[i].at = b) <=> DOMAIN ValuesAt(at, b) # {}
  <2>1. CASE Passed(next, b)
    <3>1. b \in Nat /\ b < next
      BY <1>2, <2>1 DEF Passed
    <3>2. (\E i \in 1..n : s[i].at = b) <=> DOMAIN ValuesAt(at, b) # {}
      BY <2>1 DEF Frames
    <3>3. ASSUME NEW i \in 1..n + k, t[i].at = b PROVE i \in 1..n /\ s[i].at = b
      <4>1. ASSUME i \notin 1..n PROVE FALSE
        <5>1. i \in n + 1..n + k
          BY <1>1, <4>1
        <5>2. i - n \in 1..k /\ t[i] = f[i - n]
          BY <1>3, <5>1
        <5>3. b >= next
          BY <1>5, <3>3, <5>2
        <5> QED BY <1>2, <3>1, <5>3
      <4>2. i \in 1..n
        BY <4>1
      <4> QED BY <1>1, <3>3, <4>2
    <3>4. ASSUME NEW i \in 1..n, s[i].at = b PROVE i \in 1..n + k /\ t[i].at = b
      BY <1>1, <3>4
    <3> QED BY <3>2, <3>3, <3>4
  <2>2. CASE ~Passed(next, b)
    <3>1. PICK j \in Nat : j < k /\ b = next + j * Interval
      BY <1>7, <2>2
    <3> DEFINE i == j + 1
    <3>2. i \in 1..k /\ i - 1 = j
      BY <3>1
    <3> HIDE DEF i
    <3>3. f[i].at = b
      BY <3>1, <3>2
    <3>4. n + i \in 1..n + k /\ t[n + i] = f[i]
      BY <1>1, <3>2
    <3>5. DOMAIN ValuesAt(at, b) # {}
      BY <3>2, <3>3
    <3> QED BY <3>3, <3>4, <3>5
  <2> QED BY <2>1, <2>2
<1> QED BY <1>1, <1>6, <1>7, Zenon DEF Frames, t

(* emit_samples_until() keeps the frames true, whether or not it throws. *)
LEMMA EmitKeeps ==
  ASSUME RetainsSamples, TypedSeries(series), NEW t \in 0..MaxTime, NEW inclusive \in BOOLEAN,
         Frames(samples, nextSample, seriesAt),
         IsFiniteSet(Kept(samples)), Cardinality(Kept(samples)) <= MaxSamples,
         \A b \in SampleTimes : ~Passed(nextSample, b) => seriesAt[b] = series,
         EmitSamples(t, inclusive)
  PROVE  /\ Frames(samples', nextSample', seriesAt)
         /\ IsFiniteSet(Kept(samples')) /\ Cardinality(Kept(samples')) <= MaxSamples
         /\ \A b \in SampleTimes : Passed(nextSample, b) => Passed(nextSample', b)
         /\ \A b \in SampleTimes : Passed(nextSample', b) =>
              \/ Passed(nextSample, b)
              \/ b < t
              \/ inclusive /\ b = t /\ SamplesFit(t, inclusive)
         /\ SamplesFit(t, inclusive) /\ nextSample' # None => nextSample' >= t
         /\ ~SamplesFit(t, inclusive) =>
              Cardinality(Kept(samples')) + Cardinality(Sampled) > MaxSamples
<1> DEFINE bs == Boundaries(t, inclusive)
           c == Cardinality(bs)
           k == Fitting(bs)
           f == [i \in 1..k |-> Frame(nextSample + (i - 1) * Interval)]
           each == Cardinality(Sampled)
<1>1. /\ nextSample' = Advanced(k)
      /\ samples' = IF Sampled = {} THEN samples ELSE samples \o f
      /\ SamplesFit(t, inclusive) <=> k = c
  BY Zenon DEF EmitSamples, SamplesFit
<1>2. /\ IsFiniteSet(Sampled) /\ each \in Nat
      /\ \A b : seriesAt[b] = series => ValuesAt(seriesAt, b) = [m \in Sampled |-> series[m]]
  BY SampledFacts
<1>3. SampleCount = Cardinality(Kept(samples)) /\ SampleCount \in Nat
  BY FS_CardinalityType DEF SampleCount, Kept
<1>4. MaxSamples \in Nat /\ t \in Nat /\ t <= MaxTime /\ None \notin Nat
  BY SampleTimeFacts
<1>5. IsTuple(samples) /\ (nextSample = None \/ nextSample \in SampleTimes)
  BY DEF Frames
<1>6. CASE nextSample = None
  <2>1. bs = {}
    BY <1>6 DEF Boundaries
  <2>2. c = 0
    BY <2>1, FS_EmptySet
  <2>3. k \in 0..c
    <3> HIDE DEF bs
    <3> QED BY <1>2, <1>3, <2>2, FittingFacts
  <2>4. k = 0 /\ k = c
    BY <2>2, <2>3
  <2>5. nextSample' = nextSample
    BY <1>1, <2>4 DEF Advanced
  <2>6. samples' = samples
    <3>1. CASE Sampled = {}
      BY <1>1, <3>1
    <3>2. CASE Sampled # {}
      <4>1. Indexed(f, k)
        BY DEF Indexed
      <4>2. k \in Nat
        BY <2>4
      <4> HIDE DEF f, k
      <4>3. /\ IsTuple(samples \o f) /\ Len(samples \o f) = Len(samples) + k
            /\ \A i \in 1..Len(samples) : (samples \o f)[i] = samples[i]
        BY <1>5, <4>1, <4>2, Joined
      <4>4. Len(samples \o f) = Len(samples)
        BY <1>5, <2>4, <4>3 DEF IsTuple
      <4> DEFINE u == samples \o f
      <4>5. u = samples
        <5>1. /\ u = [i \in 1..Len(samples) |-> u[i]]
              /\ samples = [i \in 1..Len(samples) |-> samples[i]]
              /\ \A i \in 1..Len(samples) : u[i] = samples[i]
          BY <1>5, <4>3, <4>4, Zenon DEF IsTuple
        <5> HIDE DEF u
        <5>2. [i \in 1..Len(samples) |-> u[i]] = [i \in 1..Len(samples) |-> samples[i]]
          BY <5>1
        <5> QED BY <5>1, <5>2
      <4> QED BY <1>1, <3>2, <4>5
    <3> QED BY <3>1, <3>2
  <2> QED BY <1>1, <1>6, <2>4, <2>5, <2>6
<1>7. CASE nextSample \in SampleTimes
  <2> DEFINE p == nextSample
  <2>1. /\ IsFiniteSet(bs) /\ c \in Nat
        /\ \A j \in Nat : p + j * Interval \in bs <=> j < c
        /\ \A j \in Nat : p + j * Interval \in bs <=>
             p + j * Interval < t \/ (inclusive /\ p + j * Interval = t)
        /\ bs \subseteq SampleTimes
    BY <1>7, BoundaryTerms
  <2> HIDE DEF bs
  <2>2. /\ k \in 0..c
        /\ Sampled = {} => k = c
        /\ Sampled # {} =>
             /\ SampleCount + k * each <= MaxSamples
             /\ k < c => SampleCount + k * each + each > MaxSamples
    BY <1>2, <1>3, <2>1, FittingFacts
  <2>3. k \in Nat /\ k <= c
    BY <2>1, <2>2
  <2> HIDE DEF c, k
  <2>4. /\ p \in Nat /\ p # None /\ Interval \in Nat \ {0} /\ MaxTime \in Nat
        /\ \A b \in SampleTimes : b \in Nat /\ b <= MaxTime
    BY <1>7, SampleTimeFacts
  <2>5. \A j \in Nat : j < k =>
          p + j * Interval \in bs /\ p + j * Interval \in SampleTimes
    <3> SUFFICES ASSUME NEW j \in Nat, j < k
                 PROVE  p + j * Interval \in bs /\ p + j * Interval \in SampleTimes
      OBVIOUS
    <3>1. j < c
      BY <2>1, <2>3
    <3> QED BY <2>1, <3>1
  <2>6. \A j \in Nat : j < k => p + j * Interval <= MaxTime
    BY <2>4, <2>5
  <2>7. /\ nextSample' = None \/ nextSample' \in SampleTimes
        /\ nextSample' # None => nextSample' = p + k * Interval
        /\ \A b \in SampleTimes : Passed(nextSample', b) <=>
             Passed(p, b) \/ \E j \in Nat : j < k /\ b = p + j * Interval
    BY <1>1, <1>7, <2>3, <2>6, AdvancedFacts
  <2>8. \A b \in SampleTimes : b >= p => seriesAt[b] = series
    BY <2>4 DEF Passed
  <2>9. Frames(samples', nextSample', seriesAt)
    <3>1. CASE Sampled = {}
      <4>1. samples' = samples
        BY <1>1, <3>1
      <4>2. ASSUME NEW b \in SampleTimes, Passed(nextSample', b)
            PROVE  (\E i \in 1..Len(samples) : samples[i].at = b)
                     <=> DOMAIN ValuesAt(seriesAt, b) # {}
        <5>1. CASE Passed(p, b)
          BY <5>1 DEF Frames
        <5>2. CASE ~Passed(p, b)
          <6>1. DOMAIN ValuesAt(seriesAt, b) = {}
            BY <1>2, <3>1, <5>2
          <6>2. \A i \in 1..Len(samples) : Passed(p, samples[i].at)
            BY DEF Frames
          <6> QED BY <5>2, <6>1, <6>2
        <5> QED BY <5>1, <5>2
      <4>3. \A i \in 1..Len(samples) :
              /\ samples[i].at \in SampleTimes /\ Passed(nextSample', samples[i].at)
              /\ samples[i].values = ValuesAt(seriesAt, samples[i].at)
              /\ i > 1 => samples[i].at > samples[i - 1].at
        BY <2>7 DEF Frames
      <4> QED BY <1>5, <2>7, <4>1, <4>2, <4>3 DEF Frames
    <3>2. CASE Sampled # {}
      <4>1. samples' = samples \o f /\ Indexed(f, k)
        BY <1>1, <3>2, Zenon DEF Indexed
      <4>2. ASSUME NEW i \in 1..k
            PROVE  /\ f[i].at = p + (i - 1) * Interval /\ f[i].at \in SampleTimes
                   /\ f[i].values = ValuesAt(seriesAt, f[i].at)
                   /\ DOMAIN f[i].values # {}
        <5> DEFINE j == i - 1
                   b == p + j * Interval
        <5>1. j \in Nat /\ j < k
          BY <2>3
        <5>2. f[i] = Frame(b)
          OBVIOUS
        <5>3. b \in SampleTimes /\ b >= p
          <6> HIDE DEF j
          <6>1. b \in SampleTimes /\ j * Interval \in Nat
            BY <2>4, <2>5, <5>1, Product
          <6> QED BY <2>4, <6>1
        <5> HIDE DEF b
        <5>4. f[i].at = b /\ f[i].values = [m \in Sampled |-> series[m]]
          BY <5>2 DEF Frame
        <5>5. ValuesAt(seriesAt, b) = [m \in Sampled |-> series[m]]
          BY <1>2, <2>8, <5>3
        <5>6. DOMAIN f[i].values = Sampled
          BY <5>4
        <5> QED BY <3>2, <5>3, <5>4, <5>5, <5>6 DEF b
      <4> HIDE DEF f
      <4>3. NewFrames(f, k, p, seriesAt) /\ Passes(p, nextSample', k)
        BY <2>7, <4>1, <4>2, Zenon DEF NewFrames, Passes
      <4> QED BY <1>7, <2>3, <4>1, <4>3, FramesGrow
    <3> QED BY <3>1, <3>2
  <2>10. /\ IsFiniteSet(Kept(samples')) /\ Cardinality(Kept(samples')) \in Nat
         /\ Cardinality(Kept(samples')) <= MaxSamples
         /\ k < c => Cardinality(Kept(samples')) + each > MaxSamples
    <3>1. CASE Sampled = {}
      <4>1. samples' = samples /\ k = c
        BY <1>1, <2>2, <3>1
      <4> QED BY <1>3, <2>1, <4>1
    <3>2. CASE Sampled # {}
      <4>1. /\ samples' = samples \o f /\ Indexed(f, k)
            /\ \A i \in 1..k : DOMAIN f[i].values = Sampled
        BY <1>1, <3>2, Zenon DEF Frame, Indexed
      <4> HIDE DEF f
      <4>2. /\ IsFiniteSet(Kept(samples \o f))
            /\ Cardinality(Kept(samples \o f)) = Cardinality(Kept(samples)) + k * each
        BY <1>2, <1>5, <2>3, <4>1, KeptGrows
      <4>3. Cardinality(Kept(samples \o f)) \in Nat
        BY <4>2, FS_CardinalityType
      <4> QED BY <1>3, <2>2, <3>2, <4>1, <4>2, <4>3
    <3> QED BY <3>1, <3>2
  <2>11. SamplesFit(t, inclusive) /\ nextSample' # None => nextSample' >= t
    <3> SUFFICES ASSUME SamplesFit(t, inclusive), nextSample' # None PROVE nextSample' >= t
      OBVIOUS
    <3>1. k = c /\ nextSample' = p + k * Interval
      BY <1>1, <2>7
    <3>2. p + k * Interval \notin bs
      BY <2>1, <2>3, <3>1
    <3>3. ~(p + k * Interval < t) /\ k * Interval \in Nat
      BY <2>1, <2>3, <2>4, <3>2, Product
    <3> QED BY <1>4, <2>4, <3>1, <3>3
  <2>12. ~SamplesFit(t, inclusive) <=> k < c
    BY <1>1, <2>1, <2>3
  <2>13. ASSUME NEW b \in SampleTimes, Passed(nextSample', b), ~Passed(p, b)
         PROVE  b < t \/ (inclusive /\ b = t /\ SamplesFit(t, inclusive))
    <3>1. PICK j \in Nat : j < k /\ b = p + j * Interval
      BY <2>7, <2>13
    <3>2. b \in bs
      BY <2>5, <3>1
    <3>3. b < t \/ (inclusive /\ b = t)
      BY <2>1, <3>1, <3>2
    <3>4. CASE SamplesFit(t, inclusive)
      BY <3>3, <3>4
    <3>5. CASE ~SamplesFit(t, inclusive)
      <4>1. k < c
        BY <2>12, <3>5
      <4>2. p + k * Interval \in bs
        BY <2>1, <2>3, <4>1
      <4>3. p + k * Interval < t \/ p + k * Interval = t
        BY <2>1, <2>3, <4>2
      <4> DEFINE x == j * Interval
                 y == k * Interval
      <4>4. x \in Nat /\ y \in Nat /\ x < y
        BY <2>3, <2>4, <3>1, Product
      <4>5. b = p + x /\ (p + y < t \/ p + y = t)
        BY <3>1, <4>3
      <4> HIDE DEF x, y
      <4> QED BY <1>4, <2>4, <4>4, <4>5
    <3> QED BY <3>4, <3>5
  <2> QED BY <2>7, <2>9, <2>10, <2>11, <2>12, <2>13
<1> QED BY <1>5, <1>6, <1>7

(* A change of a series keeps the registry finite and its kinds known. *)
KnownKind(metric) == Kind(metric) \in {"counter", "gauge", "histogram"}

TypedChange(r) == \E s, ok : r = [series |-> s, ok |-> ok] /\ TypedSeries(s)

(* A change, applied or refused, leaves a registry of known kinds. *)
LEMMA ChangeTyped ==
  ASSUME NEW r, NEW x, TypedChange(r), KnownKind(x.metric)
  PROVE  TypedChange(Change(r, x))
<1>1. PICK s, ok : r = [series |-> s, ok |-> ok] /\ TypedSeries(s)
  BY Zenon DEF TypedChange
<1> DEFINE s1 == Applied(s, x.metric, x.amount)
<1>2. CASE r.ok /\ MayApply(r.series, x.metric, x.amount)
  <2>1. Change(r, x) = [r EXCEPT !.series = Applied(@, x.metric, x.amount)]
    BY <1>2 DEF Change
  <2>2. Change(r, x) = [series |-> s1, ok |-> ok]
    BY <1>1, <2>1
  <2>3. DOMAIN s1 = DOMAIN s \cup {x.metric}
    BY DEF Applied, With
  <2>4. IsFiniteSet(DOMAIN s \cup {x.metric})
    BY <1>1, FS_AddElement DEF TypedSeries
  <2> HIDE DEF s1
  <2>5. TypedSeries(s1)
    BY <1>1, <2>3, <2>4 DEF TypedSeries, KnownKind
  <2> QED BY <2>2, <2>5, Zenon DEF TypedChange
<1>3. CASE ~(r.ok /\ MayApply(r.series, x.metric, x.amount))
  <2>1. Change(r, x) = [r EXCEPT !.ok = FALSE]
    BY <1>3 DEF Change
  <2>2. Change(r, x) = [series |-> s, ok |-> FALSE]
    BY <1>1, <2>1, Zenon
  <2> QED BY <1>1, <2>2, Zenon DEF TypedChange
<1> QED BY <1>2, <1>3

(* consume() changes series by such changes only, also when it throws. *)
LEMMA ConsumedTyped ==
  ASSUME TypedSeries(series), NEW o \in Observations, NEW t
  PROVE  TypedSeries(Consumed(o, t).series)
<1> DEFINE before == [series |-> series, ok |-> TRUE]
           ends == TerminalIncrements(NextJob(o, t))
<1>1. TypedChange(before)
  BY Zenon DEF TypedChange
<1> HIDE DEF before
<1>2. TypedChange(Consumed(o, t))
  <2>1. CASE o.kind = "metric"
    <3> DEFINE x == [metric |-> o.metric, amount |-> o.amount]
    <3>1. Consumed(o, t) = Change(before, x)
      BY <2>1 DEF Consumed, before
    <3>2. KnownKind(x.metric)
      BY <2>1, TelemetryAssumption DEF Kind, KnownKind
    <3> HIDE DEF x
    <3> QED BY <1>1, <3>1, <3>2, ChangeTyped
  <2>2. CASE o.kind = "job" /\ NextJob(o, t).phase = "Terminal"
    <3>1. Consumed(o, t) = Change(Change(Change(before, ends[1]), ends[2]), ends[3])
      BY <2>2 DEF Consumed, before
    <3>2. /\ KnownKind(ends[1].metric) /\ KnownKind(ends[2].metric)
          /\ KnownKind(ends[3].metric)
      BY DEF TerminalIncrements, Kind, TerminalMetrics, KnownKind
    <3> HIDE DEF ends
    <3> QED BY <1>1, <3>1, <3>2, ChangeTyped
  <2>3. CASE o.kind # "metric" /\ ~(o.kind = "job" /\ NextJob(o, t).phase = "Terminal")
    <3>1. Consumed(o, t) = before
      BY <2>3 DEF Consumed, before
    <3> QED BY <1>1, <3>1
  <2> QED BY <2>1, <2>2, <2>3
<1> QED BY <1>2 DEF TypedChange

(* The values of a boundary depend on its series only. *)
LEMMA FramesStay ==
  ASSUME NEW frames, NEW next, NEW at, NEW at2, Frames(frames, next, at),
         \A b \in SampleTimes : Passed(next, b) => at2[b] = at[b]
  PROVE  Frames(frames, next, at2)
<1>1. \A b \in SampleTimes : Passed(next, b) => ValuesAt(at2, b) = ValuesAt(at, b)
  BY DEF ValuesAt
<1>2. \A i \in 1..Len(frames) : frames[i].at \in SampleTimes /\ Passed(next, frames[i].at)
  BY DEF Frames
<1> QED BY <1>1, <1>2 DEF Frames

----------------------------------------------------------------------------
(* A new session has passed no boundary. *)
LEMMA InitSampling == Init => SamplingInv
<1> SUFFICES ASSUME Init PROVE SamplingInv
  OBVIOUS
<1>1. /\ series = [m \in {} |-> 0] /\ samples = <<>> /\ nextSample = Interval
      /\ last = None /\ finalized = FALSE /\ now = 0
      /\ seriesAt = [b \in SampleTimes |-> series]
  BY DEF Init
<1>2. TypedSeries(series)
  <2>1. DOMAIN series = {}
    BY <1>1
  <2> QED BY <2>1, FS_EmptySet DEF TypedSeries
<1>3. Kept(samples) = {} /\ IsTuple(samples) /\ Len(samples) = 0
  BY <1>1 DEF Kept, IsTuple
<1>4. IsFiniteSet(Kept(samples)) /\ Cardinality(Kept(samples)) = 0
  BY <1>3, FS_EmptySet
<1>5. Interval \in SampleTimes /\ Interval \in Nat /\ MaxSamples \in Nat /\ None \notin Nat
  BY SampleTimeFacts
<1>6. \A b \in SampleTimes : ~Passed(nextSample, b)
  <2> SUFFICES ASSUME NEW b \in SampleTimes, b < Interval PROVE FALSE
    BY <1>1, <1>5 DEF Passed
  <2>1. b \in Nat /\ b > 0 /\ b % Interval = 0
    BY SampleTimeFacts
  <2>2. b % Interval = b
    BY <1>5, <2>1
  <2> QED BY <2>1, <2>2
<1>7. Frames(samples, nextSample, seriesAt)
  BY <1>1, <1>3, <1>5, <1>6 DEF Frames
<1>8. Sampling
  BY <1>1, <1>4, <1>5, <1>6, <1>7 DEF Sampling
<1> QED BY <1>1, <1>2, <1>8, Zenon DEF SamplingInv

(* record() *)
LEMMA RecordSampling ==
  ASSUME SamplingInv, NEW o \in Observations, NEW t \in 0..MaxTime, Record(o, t)
  PROVE  SamplingInv'
<1>0. t \in Nat /\ now \in Nat /\ None \notin Nat
  BY SampleTimeFacts DEF SamplingInv
<1>1. /\ t \in Nat /\ now \in Nat /\ t >= now /\ now' = t /\ None \notin Nat
      /\ ~finalized /\ finalized' = finalized /\ mode' = mode
      /\ series' = Consumed(o, t).series
      /\ seriesAt' = [b \in SampleTimes |-> IF b >= t THEN series' ELSE seriesAt[b]]
      /\ EmitSamples(t, FALSE) /\ SamplesFit(t, FALSE)
  BY <1>0, Zenon DEF Record, MayRecord
<1>2. last' = t \/ last' = last
  BY DEF Record, Accept, Rejected
<1>3. last' = None \/ (last' \in Nat /\ last' <= t)
  BY <1>1, <1>2 DEF SamplingInv
<1>4. TypedSeries(series)'
  <2>1. TypedSeries(series')
    BY <1>1, ConsumedTyped DEF SamplingInv
  <2> QED BY <2>1
<1>5. ASSUME RetainsSamples PROVE Sampling'
  <2>1. /\ Frames(samples, nextSample, seriesAt)
        /\ IsFiniteSet(Kept(samples)) /\ Cardinality(Kept(samples)) <= MaxSamples
        /\ \A b \in SampleTimes : ~Passed(nextSample, b) => seriesAt[b] = series
        /\ \A b \in SampleTimes : Passed(nextSample, b) => b < now
    BY <1>1, <1>5, Zenon DEF SamplingInv, Sampling
  <2>2. /\ Frames(samples', nextSample', seriesAt)
        /\ IsFiniteSet(Kept(samples')) /\ Cardinality(Kept(samples')) <= MaxSamples
        /\ \A b \in SampleTimes : Passed(nextSample', b) => Passed(nextSample, b) \/ b < t
        /\ nextSample' # None => nextSample' >= t
    BY <1>1, <1>5, <2>1, EmitKeeps, Zenon DEF SamplingInv
  <2>3. nextSample' = None \/ nextSample' \in Nat
    BY <2>2, SampleTimeFacts DEF Frames
  <2>4. ASSUME NEW b \in SampleTimes
        PROVE  /\ Passed(nextSample', b) => b < t /\ seriesAt'[b] = seriesAt[b]
               /\ ~Passed(nextSample', b) => seriesAt'[b] = series'
    <3>1. b \in Nat
      BY SampleTimeFacts
    <3>2. ASSUME Passed(nextSample', b) PROVE b < t
      <4>1. Passed(nextSample, b) \/ b < t
        BY <2>2, <3>2
      <4>2. b < now \/ b < t
        BY <2>1, <4>1
      <4> QED BY <1>1, <3>1, <4>2
    <3>3. ASSUME ~Passed(nextSample', b) PROVE b >= t
      <4>1. nextSample' # None /\ ~(b < nextSample')
        BY <3>3 DEF Passed
      <4>2. nextSample' \in Nat /\ nextSample' >= t
        BY <2>2, <2>3, <4>1
      <4> QED BY <1>1, <3>1, <4>1, <4>2
    <3> QED BY <1>1, <3>1, <3>2, <3>3
  <2>5. Frames(samples', nextSample', seriesAt')
    BY <2>2, <2>4, FramesStay
  <2>6. last' # None /\ nextSample' # None => nextSample' >= last'
    BY <1>1, <1>3, <2>2, <2>3
  <2> QED BY <1>1, <2>2, <2>4, <2>5, <2>6 DEF Sampling
<1>6. RetainsSamples' <=> RetainsSamples
  BY <1>1 DEF RetainsSamples
<1>7. now' \in Nat /\ finalized' \in BOOLEAN
  BY <1>1 DEF SamplingInv
<1> QED BY <1>1, <1>3, <1>4, <1>5, <1>6, <1>7 DEF SamplingInv

(* A call of emit_samples_until() that leaves the series alone: record()     *)
(* refused by the limit, and finalize().                                     *)
LEMMA EmitSampling ==
  ASSUME SamplingInv, NEW t \in 0..MaxTime, NEW inclusive \in BOOLEAN,
         t >= now, now' = t, ~finalized, EmitSamples(t, inclusive),
         UNCHANGED <<mode, series, seriesAt>>,
         \/ ~SamplesFit(t, inclusive) /\ UNCHANGED <<last, finalized>>
         \/ SamplesFit(t, inclusive) /\ last' = t /\ finalized' = TRUE
  PROVE  SamplingInv'
<1>0. t \in Nat /\ now \in Nat /\ None \notin Nat /\ MaxSamples \in Nat
  BY SampleTimeFacts DEF SamplingInv
<1>1. /\ t \in Nat /\ now \in Nat /\ None \notin Nat /\ MaxSamples \in Nat
      /\ finalized' \in BOOLEAN
  BY <1>0, Zenon DEF SamplingInv
<1>2. last' = None \/ (last' \in Nat /\ last' <= t)
  BY <1>1 DEF SamplingInv
<1>3. TypedSeries(series)' /\ (RetainsSamples' <=> RetainsSamples) /\ Sampled' = Sampled
  BY DEF SamplingInv, TypedSeries, RetainsSamples, Sampled
<1>4. ASSUME RetainsSamples PROVE Sampling'
  <2>1. /\ Frames(samples, nextSample, seriesAt)
        /\ IsFiniteSet(Kept(samples)) /\ Cardinality(Kept(samples)) <= MaxSamples
        /\ \A b \in SampleTimes : ~Passed(nextSample, b) => seriesAt[b] = series
        /\ \A b \in SampleTimes : Passed(nextSample, b) => b < now
        /\ TypedSeries(series)
    BY <1>4 DEF SamplingInv, Sampling
  <2>2. /\ Frames(samples', nextSample', seriesAt)
        /\ IsFiniteSet(Kept(samples')) /\ Cardinality(Kept(samples')) <= MaxSamples
        /\ \A b \in SampleTimes : Passed(nextSample, b) => Passed(nextSample', b)
        /\ \A b \in SampleTimes : Passed(nextSample', b) =>
             \/ Passed(nextSample, b)
             \/ b < t
             \/ inclusive /\ b = t /\ SamplesFit(t, inclusive)
        /\ SamplesFit(t, inclusive) /\ nextSample' # None => nextSample' >= t
        /\ ~SamplesFit(t, inclusive) =>
             Cardinality(Kept(samples')) + Cardinality(Sampled) > MaxSamples
    BY <1>4, <2>1, EmitKeeps
  <2>3. \A b \in SampleTimes : Passed(nextSample', b) => b < t \/ finalized'
    <3> SUFFICES ASSUME NEW b \in SampleTimes, Passed(nextSample', b)
                 PROVE  b < t \/ finalized'
      OBVIOUS
    <3>1. b \in Nat
      BY SampleTimeFacts
    <3> QED BY <1>1, <2>1, <2>2, <3>1
  <2>4. \A b \in SampleTimes : ~Passed(nextSample', b) => seriesAt'[b] = series'
    BY <2>1, <2>2
  <2>5. last' # None /\ nextSample' # None =>
          \/ nextSample' >= last'
          \/ Cardinality(Kept(samples')) + Cardinality(Sampled') > MaxSamples
    BY <1>3, <2>2
  <2>6. Frames(samples', nextSample', seriesAt')
    BY <2>2
  <2> QED BY <2>2, <2>3, <2>4, <2>5, <2>6 DEF Sampling
<1> QED BY <1>1, <1>2, <1>3, <1>4 DEF SamplingInv

(* The invariant is inductive. *)
LEMMA NextSampling == SamplingInv /\ [Next]_vars => SamplingInv'
<1> SUFFICES ASSUME SamplingInv, [Next]_vars PROVE SamplingInv'
  OBVIOUS
<1>1. ASSUME NEW o \in Observations, NEW t \in 0..MaxTime, Record(o, t)
      PROVE  SamplingInv'
  BY <1>1, RecordSampling
<1>2. ASSUME NEW o \in Observations, NEW t \in 0..MaxTime, RecordThrows(o, t)
      PROVE  SamplingInv'
  <2>1. /\ t >= now /\ now' = t /\ ~finalized /\ EmitSamples(t, FALSE)
        /\ ~SamplesFit(t, FALSE)
        /\ UNCHANGED <<mode, series, seriesAt>> /\ UNCHANGED <<last, finalized>>
    BY <1>2, Zenon DEF RecordThrows, MayRecord, Rejected
  <2> QED BY <2>1, EmitSampling, Zenon
<1>3. ASSUME NEW t \in 0..MaxTime, Finalize(t)
      PROVE  SamplingInv'
  <2>1. /\ t >= now /\ now' = t /\ ~finalized /\ EmitSamples(t, TRUE)
        /\ UNCHANGED <<mode, series, seriesAt>>
        /\ \/ ~SamplesFit(t, TRUE) /\ UNCHANGED <<last, finalized>>
           \/ SamplesFit(t, TRUE) /\ last' = t /\ finalized' = TRUE
    BY <1>3, Zenon DEF Finalize
  <2> QED BY <2>1, EmitSampling, Zenon
<1>4. CASE UNCHANGED vars
  BY <1>4 DEF vars, SamplingInv, Sampling, RetainsSamples, Sampled
<1> QED BY <1>1, <1>2, <1>3, <1>4 DEF Next

(* emit_samples_until() writes true and complete frames in every session:    *)
(* whatever the interval, the observations, the metrics and the limits, and  *)
(* also when the limit on samples cuts the sampling short.                   *)
THEOREM SamplesAreTrue == Spec => []SamplesTrue
<1>1. SamplingInv => SamplesTrue
  <2> SUFFICES ASSUME SamplingInv, RetainsSamples
               PROVE  /\ \A i \in DOMAIN samples :
                           /\ samples[i].at \in SampleTimes
                           /\ samples[i].values = SampledAt(samples[i].at)
                           /\ i > 1 => samples[i].at > samples[i - 1].at
                      /\ \A b \in SampleTimes : (nextSample # None => b < nextSample)
                           => ((\E i \in DOMAIN samples : samples[i].at = b)
                                 <=> DOMAIN SampledAt(b) # {})
                      /\ nextSample # None => nextSample \in SampleTimes
                      /\ last # None /\ nextSample # None =>
                           nextSample >= last \/ SampleCount + Cardinality(Sampled) > MaxSamples
                      /\ SampleCount <= MaxSamples
    BY DEF SamplesTrue
  <2>1. Sampling
    BY DEF SamplingInv
  <2>2. DOMAIN samples = 1..Len(samples)
    BY <2>1 DEF Sampling, Frames, IsTuple
  <2>3. \A b : SampledAt(b) = ValuesAt(seriesAt, b)
    BY DEF SampledAt, ValuesAt
  <2>4. SampleCount = Cardinality(Kept(samples))
    BY DEF SampleCount, Kept
  <2>5. \A i \in DOMAIN samples : /\ samples[i].at \in SampleTimes
                                  /\ samples[i].values = SampledAt(samples[i].at)
                                  /\ i > 1 => samples[i].at > samples[i - 1].at
    BY <2>1, <2>2, <2>3 DEF Sampling, Frames
  <2>6. \A b \in SampleTimes : (nextSample # None => b < nextSample)
          => ((\E i \in DOMAIN samples : samples[i].at = b) <=> DOMAIN SampledAt(b) # {})
    BY <2>1, <2>2, <2>3 DEF Sampling, Frames, Passed
  <2> QED BY <2>1, <2>4, <2>5, <2>6 DEF Sampling, Frames
<1> QED BY <1>1, InitSampling, NextSampling, PTL DEF Spec

=============================================================================
