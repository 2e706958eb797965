------------------------------ MODULE Workload ------------------------------
(***************************************************************************)
(* Training jobs (WorkloadEngine: src/workload/engine.cpp, metrics.cpp,    *)
(* scheduling.cpp) under the dispatcher of the training run                *)
(* (workload/dispatcher.hpp).  A job waits for GPUs or is given its pinned *)
(* ones, and repeats steps: every worker computes, and the gradient is     *)
(* reduced in buckets, one collective after the other, overlapping the     *)
(* computation or after it.  Jobs are cancelled, workers and GPUs fail.    *)
(* The kernel is used through what EventScheduler promises, the            *)
(* collectives through what CollectiveService promises: each one ends      *)
(* once, perhaps within submit(), and cancel() only marks it.              *)
(* Every transition of a job is reported to telemetry, which keeps the     *)
(* phase its time is attributed to (Attribution).                          *)
(***************************************************************************)
EXTENDS Placement, EventOrder, Attribution, SequencesExt

CONSTANTS
  Specs,        \* the jobs that may be scheduled
  Policy,       \* the scheduling policy
  MaxJobs,      \* limits.jobs
  MaxWorkers, MaxSlots,  \* limits.worker_entries, limits.compute_event_entries
  MaxControls,  \* bound on the control events
  ControlTimes, \* when they happen
  ControlGpus,  \* the GPUs whose health changes
  MaxDelay      \* bound on the time between two events while only collectives run

ASSUME WorkloadAssumption ==
  /\ \A s \in Specs :
    /\ Len(s.compute) > 0 /\ \A i \in DOMAIN s.compute : s.compute[i] > 0
    /\ s.steps > 0 /\ s.gradient > 0 /\ s.bucket > 0
    /\ s.pinned = <<>> \/ Len(s.pinned) = Len(s.compute)
  /\ ControlGpus \subseteq Gpus

Critical == 0
Normal   == 128

VARIABLES
  managed,    \* whether a scheduling configuration, so an inventory, exists
  pc,         \* "setup", "idle" between events, "admit" and "results" in pump()
  now,        \* simulated time
  nextId,     \* the id of the next event
  events,     \* live events of the kernel
  jobs,       \* jobs_, by job id
  gpus,       \* the inventory
  assignments,\* assignments_: the job of a GPU, or None
  pending,    \* admission_pending_
  running,    \* collectives under way: the job of collectives_ and the cancelled mark
  done,       \* results the executor has not handed over
  reports,    \* completed_
  controls    \* number of control events scheduled

vars == <<managed, pc, now, nextId, events, jobs, gpus, assignments, pending,
          running, done, reports, controls>>

(* The engine and what it drives, as a record that the handlers transform. *)
Engine ==
  [nextId |-> nextId, events |-> events, jobs |-> jobs, gpus |-> gpus,
   assignments |-> assignments, pending |-> pending, running |-> running,
   done |-> done, reports |-> reports]

Becomes(w) ==
  /\ nextId' = w.nextId /\ events' = w.events /\ jobs' = w.jobs /\ gpus' = w.gpus
  /\ assignments' = w.assignments /\ pending' = w.pending /\ running' = w.running
  /\ done' = w.done /\ reports' = w.reports

Terminal(job) == job.state \in {"Succeeded", "Failed", "Cancelled"}

Buckets(spec) == (spec.gradient + spec.bucket - 1) \div spec.bucket

(* Compute events of a worker in a step. *)
Slots(spec) == IF spec.overlap THEN Buckets(spec) ELSE 1

SumSeq(s) == FoldLeft(+, 0, s)

Least(a, b) == IF a <= b THEN a ELSE b

NewJob(spec, arrival) ==
  [spec |-> spec, workers |-> spec.pinned, state |-> "Scheduled", step |-> 0,
   completed |-> 0, computed |-> 0, stepStarted |-> 0, computeNs |-> 0,
   finished |-> None, arrivalEvent |-> arrival, active |-> None,
   ready |-> <<>>, slots |-> <<>>, assigned |-> FALSE, allocatedAt |-> None,
   reduced |-> 0, phase |-> "Unseen"]

(* emit_job(): a job whose transition the summary refuses, which throws out  *)
(* of the handler, is marked.                                                *)
Emit(job, transition) ==
  [job EXCEPT !.phase = IF @ \in AllPhases /\ MayTransition(@, transition)
                        THEN NextPhase(@, transition, job.active # None) ELSE "Refused"]

----------------------------------------------------------------------------
(* inspect(): the GPU time a job has computed and has held at time t. *)

(* Mutated form: the whole step is billed. *)
ComputedWholeStep(job, t) ==
  job.computeNs +
    (IF job.assigned /\ ~Terminal(job) THEN SumSeq(job.spec.compute) ELSE 0)

Computed(job, t) ==
  job.computeNs +
    (IF job.assigned /\ ~Terminal(job)
     THEN SumSeq([i \in DOMAIN job.spec.compute |->
                    Least(job.spec.compute[i], t - job.stepStarted)])
     ELSE 0)

Held(job, t) ==
  IF job.allocatedAt = None THEN 0
  ELSE ((IF job.finished = None THEN t ELSE job.finished) - job.allocatedAt) * Len(job.workers)

----------------------------------------------------------------------------
(* Mutated form: released GPUs do not wake the waiting jobs. *)
WakesNobody(w) == w.pending

(* finish() asks for another admission pass. *)
WakesWaiting(w) == managed \/ w.pending

(* Mutated form: the events of the job stay in the queue. *)
CancelledLate(job) == {job.arrivalEvent}

(* The events finish() cancels. *)
CancelledEvents(job) == {job.arrivalEvent} \cup ToSet(job.slots)

(* finish(); a terminal job is left alone. *)
Finish(w, id, state, t) ==
  LET job == w.jobs[id]
  IN IF Terminal(job) THEN w
     ELSE [w EXCEPT
        !.events = {e \in @ : e.id \notin CancelledEvents(job)},
        !.running = [c \in DOMAIN @ |-> IF c = job.active THEN [@[c] EXCEPT !.cancelled = TRUE]
                                                         ELSE @[c]],
        !.assignments = [gpu \in Gpus |-> IF job.assigned /\ gpu \in ToSet(job.workers)
                                          THEN None ELSE @[gpu]],
        !.gpus = IF managed THEN Released(@, id) ELSE @,
        !.pending = WakesWaiting(w),
        !.jobs[id] = Emit([job EXCEPT
            !.state = state, !.finished = t, !.arrivalEvent = None,
            !.computeNs = IF state # "Succeeded" /\ job.assigned THEN Computed(job, t) ELSE @],
          state),
        !.reports = Append(@, id)]

(* When slot k of n of a computation of the given duration is ready. *)
SlotOffset(duration, k, n) ==
  (duration \div n) * k + ((duration % n) * k + n - 1) \div n

(* start_step(): schedules the compute events of every worker. *)
StartStep(w, id, t) ==
  LET job == w.jobs[id]
      per == Slots(job.spec)
      count == Len(job.workers) * per
      worker(i) == (i - 1) \div per
      index(i) == (i - 1) % per
  IN [w EXCEPT
        !.nextId = @ + count,
        !.events = @ \cup
          {[kind |-> "ComputeReady", timestamp |-> t + SlotOffset(job.spec.compute[worker(i) + 1],
                                                                  index(i) + 1, per),
            priority |-> Normal, id |-> w.nextId + i - 1, job |-> id, worker |-> worker(i),
            step |-> job.step,
            bucket |-> IF job.spec.overlap THEN index(i) ELSE Buckets(job.spec) - 1] :
             i \in 1..count},
        !.jobs[id] = Emit([job EXCEPT
            !.state = "Computing", !.stepStarted = t, !.completed = 0, !.computed = 0,
            !.ready = [b \in 1..Buckets(job.spec) |-> 0],
            !.slots = [i \in 1..count |-> w.nextId + i - 1]], "ComputeStarted")]

(* Mutated form: one worker suffices. *)
BucketReadyEarly(job) == job.ready[job.completed + 1] > 0

(* start_collective() submits the next bucket when all workers have it. *)
BucketReady(job) == job.ready[job.completed + 1] = Len(job.workers)

BucketBytes(job) == Least(job.spec.bucket, job.spec.gradient - job.completed * job.spec.bucket)

(* Collectives in the order of their ids: those under way and those whose    *)
(* result waits are numbered after all earlier ones.                         *)
NextCollective(w) ==
  LET ids == DOMAIN w.running \cup {r.collective : r \in ToSet(w.done)}
  IN IF ids = {} THEN 1 ELSE Max(ids) + 1

StartCollective(w, id) ==
  LET job == w.jobs[id]
      c == NextCollective(w)
      single == Len(job.workers) = 1
  IN IF job.active # None \/ ~BucketReady(job) THEN w
     ELSE [w EXCEPT
        !.running = [x \in DOMAIN @ \cup {c} |-> IF x = c THEN [job |-> id, cancelled |-> FALSE]
                                                          ELSE @[x]],
        !.done = IF single THEN Append(@, [collective |-> c, outcome |-> "Succeeded"]) ELSE @,
        !.jobs[id] = Emit([job EXCEPT
            !.active = c,
            !.state = IF job.computed = Len(job.workers) THEN "Communicating"
                                                         ELSE "Overlapping"],
          "CollectiveStarted")]

(* The check at the top of compute_ready(); it throws when it fails. *)
ExpectedCompute(job, e) ==
  /\ job.state \notin {"Scheduled", "Waiting"}
  /\ e.step = job.step
  /\ job.slots[e.worker * Slots(job.spec) + (IF job.spec.overlap THEN e.bucket ELSE 0) + 1] = e.id

(* compute_ready() *)
ComputeReady(w, e) ==
  LET job == w.jobs[e.job]
      slot == e.worker * Slots(job.spec) + (IF job.spec.overlap THEN e.bucket ELSE 0) + 1
      computed == job.computed + (IF e.bucket = Buckets(job.spec) - 1 THEN 1 ELSE 0)
      ready == [job EXCEPT
        !.slots[slot] = None,
        !.ready = [b \in DOMAIN @ |-> IF ~job.spec.overlap \/ b = e.bucket + 1 THEN @[b] + 1
                                                                               ELSE @[b]],
        !.computed = computed,
        !.state = IF computed = Len(job.workers) /\ job.active # None THEN "Communicating" ELSE @]
      first == computed = 1 /\ job.computed = 0 /\ Len(job.workers) > 1
      straggling == IF first THEN Emit(ready, "StragglerStarted") ELSE ready
      told == IF computed = Len(job.workers) THEN Emit(straggling, "ComputeCompleted")
                                             ELSE straggling
  IN StartCollective([w EXCEPT !.jobs[e.job] = told], e.job)

(* Gives job `id` its workers and starts its first step. *)
Assign(w, id, workers, t) ==
  StartStep([w EXCEPT
      !.assignments = [gpu \in Gpus |-> IF gpu \in ToSet(workers) THEN id ELSE @[gpu]],
      !.jobs[id] = Emit([@ EXCEPT !.workers = workers, !.assigned = TRUE, !.allocatedAt = t],
                        "Admitted")],
    id, t)

(* arrive(), with the reset of the arrival event before it. *)
Arrive(w, id, t) ==
  LET arrived == [w EXCEPT !.jobs[id] = Emit([@ EXCEPT !.arrivalEvent = None], "Arrived")]
      workers == w.jobs[id].workers
  IN IF managed
     THEN [arrived EXCEPT !.jobs[id] = Emit([@ EXCEPT !.state = "Waiting"], "Waiting"),
                          !.pending = TRUE]
     ELSE IF \E gpu \in ToSet(workers) : w.assignments[gpu] # None
     THEN Finish(arrived, id, "Failed", t)
     ELSE Assign(arrived, id, workers, t)

(* gpu_state() *)
GpuState(w, e, t) ==
  LET changed == [w EXCEPT !.gpus = WithHealth(@, e.worker, e.kind = "GpuUp")]
      owner == w.gpus[e.worker].owner
      reacted == IF owner # None /\ e.kind = "GpuDown" THEN Finish(changed, owner, "Failed", t)
                                                       ELSE changed
  IN [reacted EXCEPT !.pending = TRUE]

(* admit(): one decision of the policy. *)
Admit(w, id, t) ==
  LET job == w.jobs[id]
      decision == Place(Policy, [job |-> id, workers |-> Len(job.spec.compute),
                                 pinned |-> job.workers], w.gpus)
  IN CASE decision.outcome = "Waiting" -> w
       [] decision.outcome = "Rejected" -> Finish(w, id, "Failed", t)
       [] decision.outcome = "Placed" ->
            Assign([w EXCEPT !.gpus = Allocated(@, id, decision.workers)],
                   id, decision.workers, t)

(* The order in which dispatch_waiting() tries the waiting jobs. *)
Before(i, j) ==
  LET a == jobs[i].spec
      b == jobs[j].spec
  IN \/ a.priority > b.priority
     \/ a.priority = b.priority /\ a.arrival < b.arrival
     \/ a.priority = b.priority /\ a.arrival = b.arrival /\ i < j

(* Mutated form: the next bucket is left to the next compute event. *)
NextBucketLater(w, id) == w

(* handle(CollectiveResult) starts the next bucket if it is ready. *)
NextBucket(w, id) == StartCollective(w, id)

(* handle(CollectiveResult) *)
HandleResult(w, result, t) ==
  LET id == w.running[result.collective].job
      told == IF Terminal(w.jobs[id]) THEN w.jobs[id] ELSE Emit(w.jobs[id], "CollectiveCompleted")
      forgotten == [w EXCEPT
        !.running = [c \in DOMAIN @ \ {result.collective} |-> @[c]],
        !.jobs[id] = [told EXCEPT !.active = None]]
      job == forgotten.jobs[id]
      completed == job.completed + 1
      counted == [forgotten EXCEPT !.jobs[id].completed = completed,
                                   !.jobs[id].reduced = @ + BucketBytes(job)]
      stepped == [counted EXCEPT
        !.jobs[id] = [Emit(@, "StepCompleted") EXCEPT !.step = @ + 1,
                                                      !.computeNs = @ + SumSeq(job.spec.compute)]]
  IN IF Terminal(job) THEN forgotten
     ELSE IF result.outcome # "Succeeded" THEN Finish(forgotten, id, "Failed", t)
     ELSE IF completed < Buckets(job.spec)
     THEN NextBucket([counted EXCEPT
            !.jobs[id].state = IF job.computed = Len(job.workers) THEN "Communicating"
                                                                  ELSE "Computing"], id)
     ELSE IF job.step + 1 = job.spec.steps THEN Finish(stepped, id, "Succeeded", t)
     ELSE StartStep(stepped, id, t)

----------------------------------------------------------------------------
Init ==
  /\ managed \in BOOLEAN
  /\ pc = "setup"
  /\ now = 0 /\ nextId = 0 /\ events = {}
  /\ jobs = <<>>
  /\ gpus = FullInventory
  /\ assignments = [gpu \in Gpus |-> None]
  /\ pending = FALSE
  /\ running = <<>> /\ done = <<>> /\ reports = <<>>
  /\ controls = 0

WorkersUsed == FoldLeft(LAMBDA n, j : n + Len(j.spec.compute), 0, jobs)

SlotsUsed == FoldLeft(LAMBDA n, j : n + Len(j.spec.compute) * Slots(j.spec), 0, jobs)

(* schedule(), with what validate() lets through. *)
ScheduleJob(spec) ==
  /\ pc = "setup"
  /\ managed \/ spec.pinned # <<>>
  /\ ToSet(spec.pinned) \subseteq Gpus /\ IsInjective(spec.pinned)
  /\ Len(jobs) < MaxJobs
  /\ Len(spec.compute) <= MaxWorkers - WorkersUsed
  /\ Len(spec.compute) * Slots(spec) <= MaxSlots - SlotsUsed
  /\ jobs' = Append(jobs, NewJob(spec, nextId))
  /\ events' = events \cup {[kind |-> "Arrival", timestamp |-> spec.arrival, priority |-> Normal,
                             id |-> nextId, job |-> Len(jobs) + 1]}
  /\ nextId' = nextId + 1
  /\ UNCHANGED <<managed, pc, now, gpus, assignments, pending, running, done, reports, controls>>

Control(e, at) ==
  /\ pc = "setup"
  /\ controls < MaxControls
  /\ controls' = controls + 1
  /\ events' = events \cup {[kind |-> e.kind, timestamp |-> at, priority |-> Critical,
                             id |-> nextId, job |-> e.job, worker |-> e.worker]}
  /\ nextId' = nextId + 1
  /\ UNCHANGED <<managed, pc, now, jobs, gpus, assignments, pending, running, done, reports>>

(* schedule_control() *)
ScheduleControl(id, kind, worker, at) ==
  /\ worker < Len(jobs[id].spec.compute)
  /\ Control([kind |-> kind, job |-> id, worker |-> worker], at)

(* schedule_gpu_state() *)
ScheduleGpuState(gpu, healthy, at) ==
  /\ managed
  /\ Control([kind |-> IF healthy THEN "GpuUp" ELSE "GpuDown", job |-> 0, worker |-> gpu], at)

BeginRun ==
  /\ pc = "setup"
  /\ pc' = "idle"
  /\ UNCHANGED <<managed, now, nextId, events, jobs, gpus, assignments, pending,
                 running, done, reports, controls>>

(* handle(WorkloadEvent) for the least event e, removed from the queue of w. *)
HandleEvent(w, e) ==
  IF e.kind \in {"GpuUp", "GpuDown"} THEN GpuState(w, e, e.timestamp)
  ELSE IF Terminal(w.jobs[e.job]) THEN w
  ELSE CASE e.kind = "Arrival" -> Arrive(w, e.job, e.timestamp)
         [] e.kind = "ComputeReady" -> ComputeReady(w, e)
         [] e.kind = "Cancel" -> Finish(w, e.job, "Cancelled", e.timestamp)
         [] e.kind = "WorkerFailure" -> Finish(w, e.job, "Failed", e.timestamp)

(* The checks that make handle() throw, which ends the run. *)
Throws(e) ==
  /\ e.kind \in {"Arrival", "ComputeReady"}
  /\ ~Terminal(jobs[e.job])
  /\ IF e.kind = "Arrival" THEN jobs[e.job].arrivalEvent # e.id
                           ELSE ~ExpectedCompute(jobs[e.job], e)

DispatchEvent ==
  /\ pc = "idle"
  /\ events # {}
  /\ LET e == First(events)
     IN /\ ~Throws(e)
        /\ now' = e.timestamp
        /\ Becomes(HandleEvent([Engine EXCEPT !.events = @ \ {e}], e))
  /\ pc' = "admit"
  /\ UNCHANGED <<managed, controls>>

(* An event of the fabric or of the local transfers ends collectives, several *)
(* when a failure takes the transfers of all of them; pump() then sees their  *)
(* results together.  The event is not after the next one of the jobs.  A     *)
(* collective that was cancelled ends as cancelled.                           *)
CollectivesEnd(order, outcome, at) ==
  /\ pc = "idle"
  /\ events # {} => LET e == First(events)
                    IN at < e.timestamp \/ (at = e.timestamp /\ e.priority # Critical)
  /\ \A c \in ToSet(order) : outcome[c] = "Cancelled" <=> running[c].cancelled
  /\ now' = at
  /\ done' = done \o [i \in DOMAIN order |->
                       [collective |-> order[i], outcome |-> outcome[order[i]]]]
  /\ pc' = "admit"
  /\ UNCHANGED <<managed, nextId, events, jobs, gpus, assignments, pending,
                 running, reports, controls>>

(* dispatch_waiting(), called by pump(). *)
DispatchWaiting ==
  /\ pc = "admit"
  /\ IF pending /\ managed
     THEN LET waiting == {i \in 1..Len(jobs) : jobs[i].state = "Waiting"}
              order == SetToSortSeq(waiting, Before)
          IN Becomes([FoldLeft(LAMBDA w, i : Admit(w, i, now), Engine, order)
                      EXCEPT !.pending = FALSE])
     ELSE Becomes(Engine)
  /\ pc' = "results"
  /\ UNCHANGED <<managed, now, controls>>

(* pump() hands the results of the collectives to the jobs, then looks again. *)
HandleResults ==
  /\ pc = "results"
  /\ Becomes(FoldLeft(LAMBDA w, r : HandleResult(w, r, now), [Engine EXCEPT !.done = <<>>], done))
  /\ pc' = IF done = <<>> THEN "idle" ELSE "admit"
  /\ UNCHANGED <<managed, now, controls>>

(* The queue is exhausted: run_training reports. *)
Over == pc = "idle" /\ events = {} /\ running = <<>> /\ UNCHANGED vars

Run ==
  \/ BeginRun
  \/ DispatchEvent
  \/ \E ended \in SUBSET DOMAIN running \ {{}} :
       \E order \in SetToSeqs(ended), outcome \in [ended -> {"Succeeded", "Failed", "Cancelled"}],
          at \in now..now + MaxDelay : CollectivesEnd(order, outcome, at)
  \/ DispatchWaiting
  \/ HandleResults

(* run_training() schedules the jobs, then their controls, then those of GPUs. *)
Setup ==
  \/ controls = 0 /\ \E spec \in Specs : ScheduleJob(spec)
  \/ /\ \A e \in events : e.kind \notin {"GpuUp", "GpuDown"}
     /\ \E id \in 1..Len(jobs), kind \in {"Cancel", "WorkerFailure"}, at \in ControlTimes :
          ScheduleControl(id, kind, Len(jobs[id].spec.compute) - 1, at)
  \/ \E gpu \in ControlGpus, healthy \in BOOLEAN, at \in ControlTimes :
        ScheduleGpuState(gpu, healthy, at)

Next == Setup \/ Run \/ Over

(* run() handles events as long as there are any, and each collective ends   *)
(* (shown for module RingCollective): weak fairness of Run, whose    *)
(* steps are those that change pc.                                           *)
Busy == ~(pc = "idle" /\ events = {} /\ running = <<>>)

Spec == Init /\ [][Next]_vars /\ (<>[]Busy => []<><<pc' # pc>>_vars)

----------------------------------------------------------------------------
Idle == pc = "idle"

Active(job) == job.state \in {"Computing", "Overlapping", "Communicating"}

(* GPUs are exclusive: between events the assignments and the owners in the  *)
(* inventory are exactly the workers of the active jobs, no two of which     *)
(* share one, and no job computes on a GPU that is down; in particular every *)
(* way out of a job has released all its GPUs.                               *)
GpusExclusive ==
  Idle =>
    /\ \A gpu \in Gpus :
         LET users == {i \in 1..Len(jobs) : Active(jobs[i]) /\ gpu \in ToSet(jobs[i].workers)}
         IN /\ Cardinality(users) <= 1
            /\ assignments[gpu] = IF users = {} THEN None ELSE CHOOSE i \in users : TRUE
            /\ managed => /\ gpus[gpu].owner = assignments[gpu]
                          /\ users # {} => gpus[gpu].healthy

(* No wakeup is lost: between events no waiting job could be placed on the   *)
(* GPUs that are free, whatever released or recovered them.                  *)
NoJobLeftWaiting ==
  Idle =>
    \A i \in 1..Len(jobs) :
      jobs[i].state = "Waiting" =>
        Place(Policy, [job |-> i, workers |-> Len(jobs[i].spec.compute),
                       pinned |-> jobs[i].workers], gpus).outcome = "Waiting"

(* What a job waits for exists: its open compute slots are its events in the *)
(* queue, its collective is under way, and an active job always has one of   *)
(* the two, so that run_training never meets an unfinished active job.  A    *)
(* terminal job leaves no event but controls.  No handler throws.            *)
JobsHaveWork ==
  /\ Idle /\ events # {} => ~Throws(First(events))
  /\ Idle =>
       \A i \in 1..Len(jobs) :
         LET job == jobs[i]
             mine == {e \in events : e.kind = "ComputeReady" /\ e.job = i}
             open == {e.id : e \in mine}
         IN /\ Active(job) => /\ open = ToSet(job.slots) \ {None}
                              /\ open # {} \/ job.active # None
            /\ ~Active(job) => open = {}
            /\ ~Terminal(job) /\ job.active # None =>
                 /\ job.active \in DOMAIN running
                 /\ running[job.active] = [job |-> i, cancelled |-> FALSE]
            /\ Terminal(job) => \A c \in DOMAIN running : running[c].job = i => running[c].cancelled
            /\ (\E e \in events : e.kind = "Arrival" /\ e.job = i) <=> job.state = "Scheduled"

(* Telemetry knows what a job is doing: between events the phase its time is *)
(* attributed to is the one its state stands for, that is waiting, computing *)
(* while no worker has finished the step, straggling until the last one has, *)
(* and then communicating, also when buckets are reduced meanwhile.  No      *)
(* transition is refused, and no time is attributed to phases in which a job *)
(* never is between events.                                                  *)
AttributionFollowsJobs ==
  Idle =>
    \A i \in 1..Len(jobs) :
      LET job == jobs[i]
      IN job.phase = CASE job.state = "Scheduled" -> "Unseen"
                       [] job.state = "Waiting" -> "SchedulingWait"
                       [] Terminal(job) -> "Terminal"
                       [] Active(job) -> IF job.computed = Len(job.workers) THEN "Communication"
                                         ELSE IF job.computed = 0 THEN "Compute"
                                         ELSE "StragglerDelay"

(* Every step reduces the gradient once, bucket by bucket: what a job has    *)
(* reduced is what its completed steps and buckets stand for, never more     *)
(* than all workers have computed, and a job that succeeds has reduced all.  *)
GradientsReduced ==
  \A i \in 1..Len(jobs) :
    LET job == jobs[i]
    IN /\ Active(job) =>
            /\ job.reduced = job.step * job.spec.gradient +
                               Least(job.completed * job.spec.bucket, job.spec.gradient)
            /\ \A b \in 1..job.completed : job.ready[b] = Len(job.workers)
            /\ job.active # None => job.ready[job.completed + 1] = Len(job.workers)
       /\ job.state = "Succeeded" => job.reduced = job.spec.steps * job.spec.gradient

(* The GPU time reported as computed never exceeds the time the GPUs were    *)
(* held, which inspect() throws on, when it is called after any event; a job *)
(* that succeeds has computed all its steps and no job computes twice.       *)
ComputeWithinAllocation ==
  Idle =>
    \A i \in 1..Len(jobs) :
      LET job == jobs[i]
          whole == SumSeq(job.spec.compute)
      IN /\ Computed(job, now) <= Held(job, now)
         /\ Computed(job, now) <= whole * Least(job.step + 1, job.spec.steps)
         /\ job.state = "Succeeded" => job.computeNs = whole * job.spec.steps

(* The run ends with every job reported once as terminal, or still waiting   *)
(* for GPUs, and no collective left behind.                                  *)
RunEnds ==
  pc = "idle" ~>
    /\ pc = "idle" /\ events = {} /\ running = <<>>
    /\ \A i \in 1..Len(jobs) :
         /\ Terminal(jobs[i]) \/ jobs[i].state = "Waiting"
         /\ Cardinality({k \in DOMAIN reports : reports[k] = i}) =
              IF Terminal(jobs[i]) THEN 1 ELSE 0

=============================================================================
