----------------------------- MODULE SimKernel -----------------------------
(***************************************************************************)
(* The simulation kernel: sim::Simulation with its EventQueue, its         *)
(* EventIdGenerator and its TraceLog (src/sim/simulation.cpp,              *)
(* include/nexuslab/sim/simulation.hpp).                                   *)
(*                                                                         *)
(* run() is a loop that pops the least event in (timestamp, priority, id)  *)
(* order, skips it when it was cancelled, and otherwise calls a handler.   *)
(* The handler may schedule and cancel events, ask for a stop, return or   *)
(* throw.  Cancellation is lazy: the event stays in the queue and its id   *)
(* is remembered in cancelled_ids_.  Every telemetry record call may throw *)
(* (the session enforces limits), and each such call sits between two      *)
(* updates of the kernel's own state.                                      *)
(***************************************************************************)
EXTENDS Integers, FiniteSets, Sequences, EventOrder

CONSTANTS MaxTime,      \* largest SimTimeNs
          MaxEventId,   \* largest value of the event id counter
          Priorities,   \* EventPriority values; the lower one runs first
          StopReasons,  \* the StopReason enumeration
          None          \* an empty std::optional

ASSUME KernelAssumption ==
  /\ MaxTime \in Nat
  /\ MaxEventId \in Nat
  /\ Priorities \subseteq Nat
  /\ None \notin Nat
  /\ None \notin StopReasons
  /\ None \notin [status : {"Completed", "Stopped", "Failed"}, pendingEvents : Int]

Time     == 0..MaxTime
EventIds == 0..MaxEventId
Event    == [timestamp : Time, priority : Priorities, id : EventIds,
             cause : EventIds \cup {None}]

VARIABLES
  traceOn,          \* trace_.enabled()
  telemetryOn,      \* telemetry_.enabled()
  now,              \* now_
  nextId,           \* event_ids_.next_value_
  exhausted,        \* event_ids_.exhausted_
  queue,            \* event_queue_: the events in the heap
  pending,          \* pending_ids_
  cancelled,        \* cancelled_ids_
  metadata,         \* the keys of trace_metadata_
  current,          \* current_event_
  stopReason,       \* stop_reason_
  lifecycle,        \* lifecycle_
  dispatched,       \* dispatched_events_
  cancelledCount,   \* cancelled_events_
  telemetryFailed,  \* telemetry_failed_
  unwinding,        \* an exception is on its way to the catch blocks of run()
  trace,            \* trace_.records()
  terminalObs,      \* Run{Succeeded,Stopped,Failed} observations recorded
  result            \* the SimulationResult returned by run()

vars == <<traceOn, telemetryOn, now, nextId, exhausted, queue, pending,
          cancelled, metadata, current, stopReason, lifecycle, dispatched,
          cancelledCount, telemetryFailed, unwinding, trace, terminalObs, result>>

config == <<traceOn, telemetryOn>>

----------------------------------------------------------------------------
Ids(q) == {e.id : e \in q}

(* Entries of the heap that cancel() has not marked. *)
Live == {e \in queue : e.id \notin cancelled}

InHandler == lifecycle = "Running" /\ current # None /\ ~unwinding
LoopTop   == lifecycle = "Running" /\ current = None /\ ~unwinding

(* Code outside run() owns the simulation before it starts; afterwards only *)
(* the handler of the current event can reach it.                           *)
MayCall == lifecycle = "Created" \/ InHandler

CurrentId == IF current = None THEN None ELSE current.id

----------------------------------------------------------------------------
(* Trace and telemetry.                                                     *)

Record(action, id, at) == [action |-> action, id |-> id, at |-> at]

Append1(on, r) == IF on THEN Append(trace, r) ELSE trace

(* A telemetry call returns (ok) or throws; with no sink it always returns.  *)
EmitOutcomes == IF telemetryOn THEN BOOLEAN ELSE {TRUE}

(* emit_simulation_observation and emit_metric: a throw latches              *)
(* telemetry_failed_ and propagates out of the kernel call that emitted.     *)
Emitted(ok) ==
  /\ telemetryFailed' = (telemetryFailed \/ ~ok)
  /\ unwinding' = (~ok /\ lifecycle = "Running")

(* emit_terminal_telemetry: one observation and three metrics, skipped after *)
(* a failure; any of the four may throw, after the observation or before it. *)
TerminalEmissions(transition) ==
  IF ~telemetryOn \/ telemetryFailed
  THEN {[obs |-> <<>>, ok |-> TRUE]}
  ELSE {[obs |-> <<transition>>, ok |-> TRUE],
        [obs |-> <<>>, ok |-> FALSE],
        [obs |-> <<transition>>, ok |-> FALSE]}

----------------------------------------------------------------------------
Init ==
  /\ traceOn \in BOOLEAN
  /\ telemetryOn \in BOOLEAN
  /\ now = 0
  /\ nextId = 0
  /\ exhausted = FALSE
  /\ queue = {}
  /\ pending = {}
  /\ cancelled = {}
  /\ metadata = {}
  /\ current = None
  /\ stopReason = None
  /\ lifecycle = "Created"
  /\ dispatched = 0
  /\ cancelledCount = 0
  /\ telemetryFailed = FALSE
  /\ unwinding = FALSE
  /\ trace = <<>>
  /\ terminalObs = <<>>
  /\ result = None

(* EventIdGenerator::next, when it does not throw. *)
NextEventId ==
  /\ ~exhausted
  /\ IF nextId = MaxEventId
     THEN exhausted' = TRUE /\ UNCHANGED nextId
     ELSE nextId' = nextId + 1 /\ UNCHANGED exhausted

(* Simulation::schedule, accepted.  A throwing telemetry sink leaves the     *)
(* event queued although the caller never learns its id.                     *)
Schedule(timestamp, priority) ==
  LET e == [timestamp |-> timestamp, priority |-> priority, id |-> nextId,
            cause |-> CurrentId]
  IN /\ MayCall
     /\ timestamp >= now
     /\ NextEventId
     /\ pending' = pending \cup {e.id}
     /\ metadata' = IF traceOn \/ telemetryOn THEN metadata \cup {e.id}
                                              ELSE metadata
     /\ queue' = queue \cup {e}
     /\ UNCHANGED <<config, now, cancelled, current, stopReason, lifecycle,
                    dispatched, cancelledCount, terminalObs, result>>
     /\ trace' = Append1(traceOn, Record("Scheduled", e.id, now))
     /\ \E ok \in EmitOutcomes : Emitted(ok)

(* Simulation::schedule, refused inside a handler: the timestamp lies in the *)
(* past or the ids are used up.  The exception leaves the handler.           *)
ScheduleRefused(timestamp) ==
  /\ InHandler
  /\ timestamp < now \/ exhausted
  /\ unwinding' = TRUE
  /\ UNCHANGED <<config, now, nextId, exhausted, queue, pending, cancelled,
                 metadata, current, stopReason, lifecycle, dispatched,
                 cancelledCount, telemetryFailed, trace, terminalObs, result>>

(* Mutated form: only ids that were never issued are refused. *)
CancellableIssued(id) == id < nextId /\ id \notin cancelled

(* The membership tests of cancel(). *)
Cancellable(id) == id \in pending /\ id \notin cancelled

(* Simulation::cancel, when it marks the event.  Unknown, dispatched and     *)
(* already cancelled ids return false and change nothing.                    *)
Cancel(id) ==
  /\ MayCall
  /\ Cancellable(id)
  /\ cancelled' = cancelled \cup {id}
  /\ cancelledCount' = cancelledCount + 1
  /\ UNCHANGED <<config, now, nextId, exhausted, queue, pending, metadata,
                 current, stopReason, lifecycle, dispatched, terminalObs, result>>
  /\ \E ok \in EmitOutcomes :
       /\ Emitted(ok)
       /\ trace' = Append1(traceOn /\ ok, Record("Cancelled", id, now))

(* Simulation::stop.  Only the first reason is kept; a later call returns.   *)
Stop(reason) ==
  /\ InHandler
  /\ stopReason = None
  /\ stopReason' = reason
  /\ UNCHANGED <<config, now, nextId, exhausted, queue, pending, cancelled,
                 metadata, current, lifecycle, dispatched, cancelledCount,
                 terminalObs, result>>
  /\ trace' = Append1(traceOn, Record("StopRequested", current.id, now))
  /\ \E ok \in EmitOutcomes : Emitted(ok)

----------------------------------------------------------------------------
(* run().                                                                   *)

(* begin_run and the RunStarted observation. *)
BeginRun ==
  /\ lifecycle = "Created"
  /\ lifecycle' = "Running"
  /\ UNCHANGED <<config, now, nextId, exhausted, queue, pending, cancelled,
                 metadata, current, stopReason, dispatched, cancelledCount,
                 trace, terminalObs, result>>
  /\ \E ok \in EmitOutcomes :
       /\ telemetryFailed' = (telemetryFailed \/ ~ok)
       /\ unwinding' = ~ok

(* The popped event goes to its handler unless its id was cancelled. *)
IsDispatchable(e) == e.id \notin cancelled

(* One turn of the loop of next_dispatchable_event over a cancelled event:   *)
(* it leaves without a dispatch and without advancing the clock.             *)
DiscardCancelled ==
  /\ LoopTop
  /\ stopReason = None
  /\ queue # {}
  /\ LET e == First(queue)
     IN /\ ~IsDispatchable(e)
        /\ queue' = queue \ {e}
        /\ pending' = pending \ {e.id}
        /\ metadata' = metadata \ {e.id}
        /\ cancelled' = cancelled \ {e.id}
  /\ UNCHANGED <<config, now, nextId, exhausted, current, stopReason, lifecycle,
                 dispatched, cancelledCount, telemetryFailed, unwinding, trace,
                 terminalObs, result>>

(* The pop of a live event and the start of its dispatch. *)
Dispatch ==
  /\ LoopTop
  /\ stopReason = None
  /\ queue # {}
  /\ LET e == First(queue)
     IN /\ IsDispatchable(e)
        /\ queue' = queue \ {e}
        /\ pending' = pending \ {e.id}
        /\ metadata' = metadata \ {e.id}
        /\ current' = e
        /\ now' = e.timestamp
        /\ dispatched' = dispatched + 1
        /\ UNCHANGED <<config, nextId, exhausted, cancelled, stopReason,
                       lifecycle, cancelledCount, terminalObs, result>>
        /\ \E ok \in EmitOutcomes :
             /\ Emitted(ok)
             /\ trace' = Append1(traceOn /\ ok, Record("Dispatched", e.id, e.timestamp))

(* The handler returns. *)
HandlerReturn ==
  /\ InHandler
  /\ current' = None
  /\ UNCHANGED <<config, now, nextId, exhausted, queue, pending, cancelled,
                 metadata, stopReason, lifecycle, dispatched, cancelledCount,
                 telemetryFailed, unwinding, trace, terminalObs, result>>

(* The handler throws on its own account. *)
HandlerThrow ==
  /\ InHandler
  /\ unwinding' = TRUE
  /\ UNCHANGED <<config, now, nextId, exhausted, queue, pending, cancelled,
                 metadata, current, stopReason, lifecycle, dispatched,
                 cancelledCount, telemetryFailed, trace, terminalObs, result>>

(* Mutated form: cancelled entries still in the heap count as pending. *)
ResultIgnoringCancelled(status) ==
  [status |-> status, pendingEvents |-> Cardinality(pending)]

(* The SimulationResult that finish() builds. *)
Result(status) ==
  [status |-> status, pendingEvents |-> Cardinality(pending) - Cardinality(cancelled)]

(* finish() with a status other than Failed.  When its telemetry throws the  *)
(* run is not over: the exception reaches fail().                            *)
Finish(status, transition) ==
  \E emission \in TerminalEmissions(transition) :
    /\ terminalObs' = terminalObs \o emission.obs
    /\ Emitted(emission.ok)
    /\ lifecycle' = IF emission.ok THEN "Finished" ELSE lifecycle
    /\ result' = IF emission.ok THEN Result(status) ELSE result
    /\ trace' = Append1(traceOn /\ emission.ok /\ status = "Completed",
                        Record("Completed", None, now))
    /\ UNCHANGED <<config, now, nextId, exhausted, queue, pending, cancelled,
                   metadata, current, stopReason, dispatched, cancelledCount>>

(* The queue is empty: run() completes. *)
FinishCompleted ==
  LoopTop /\ stopReason = None /\ queue = {} /\ Finish("Completed", "RunSucceeded")

(* Mutated form: a stop request waits for a queue that nobody empties. *)
FinishStoppedSpinning ==
  /\ LoopTop /\ stopReason # None
  /\ IF queue = {} THEN Finish("Stopped", "RunStopped") ELSE UNCHANGED vars

(* A stop was requested: run() leaves the loop with the queue as it is. *)
FinishStopped ==
  LoopTop /\ stopReason # None /\ Finish("Stopped", "RunStopped")

(* Mutated form: both attempts of fail() write the terminal record. *)
FailedRecordsTwice(ok) ==
  IF ok THEN <<Record("Failed", CurrentId, now)>>
  ELSE <<Record("Failed", CurrentId, now), Record("Failed", CurrentId, now)>>

(* finish() emits telemetry before it records: an attempt that threw wrote   *)
(* no terminal record.                                                       *)
FailedRecords(ok) == <<Record("Failed", CurrentId, now)>>

(* fail(): finish(Failed); when that throws in its telemetry, it latches     *)
(* telemetry_failed_ and finishes again, now without telemetry.              *)
Fail ==
  /\ unwinding
  /\ \E emission \in TerminalEmissions("RunFailed") :
       /\ terminalObs' = terminalObs \o emission.obs
       /\ telemetryFailed' = (telemetryFailed \/ ~emission.ok)
       /\ trace' = IF traceOn THEN trace \o FailedRecords(emission.ok) ELSE trace
  /\ lifecycle' = "Finished"
  /\ current' = None
  /\ unwinding' = FALSE
  /\ result' = Result("Failed")
  /\ UNCHANGED <<config, now, nextId, exhausted, queue, pending, cancelled,
                 metadata, stopReason, dispatched, cancelledCount>>

(* After run(): schedule, stop and run throw and cancel returns false.       *)
RefusedAfterFinish ==
  lifecycle = "Finished" /\ UNCHANGED vars

Next ==
  \/ \E timestamp \in Time, priority \in Priorities : Schedule(timestamp, priority)
  \/ \E timestamp \in Time : ScheduleRefused(timestamp)
  \/ \E id \in EventIds : Cancel(id)
  \/ \E reason \in StopReasons : Stop(reason)
  \/ BeginRun
  \/ DiscardCancelled
  \/ Dispatch
  \/ HandlerReturn
  \/ HandlerThrow
  \/ FinishCompleted
  \/ FinishStopped
  \/ Fail
  \/ RefusedAfterFinish

(* run() is one thread: once called it takes its next step, and a handler,   *)
(* whatever it does first, returns or throws.                                *)
RunStep ==
  \/ DiscardCancelled \/ Dispatch \/ HandlerReturn \/ HandlerThrow
  \/ FinishCompleted \/ FinishStopped \/ Fail

Spec == Init /\ [][Next]_vars /\ WF_vars(RunStep)

----------------------------------------------------------------------------
(* Type invariant: every member has the type of its C++ declaration. *)
TypeOK ==
  /\ traceOn \in BOOLEAN /\ telemetryOn \in BOOLEAN
  /\ now \in Time
  /\ nextId \in EventIds /\ exhausted \in BOOLEAN
  /\ queue \subseteq Event
  /\ pending \subseteq EventIds
  /\ cancelled \subseteq EventIds
  /\ metadata \subseteq EventIds
  /\ current \in Event \cup {None}
  /\ stopReason \in StopReasons \cup {None}
  /\ lifecycle \in {"Created", "Running", "Finished"}
  /\ dispatched \in Nat /\ cancelledCount \in Nat
  /\ telemetryFailed \in BOOLEAN /\ unwinding \in BOOLEAN

(* The ids handed out so far: next_value_, and the last one once exhausted_. *)
Issued == IF exhausted THEN nextId + 1 ELSE nextId

(* The heap and the three id containers describe the same events, although   *)
(* schedule, cancel and next_dispatchable_event update them one by one and   *)
(* telemetry may throw in between: no heap entry lost its pending id or its  *)
(* metadata, a cancelled id is always one that is still in the heap, and no  *)
(* queued event lies in the past.  With it cancel() never meets "missing     *)
(* event trace metadata" and the subtraction in finish() never wraps.        *)
BookkeepingAgrees ==
  /\ Ids(queue) = pending
  /\ \A e, f \in queue : e.id = f.id => e = f
  /\ cancelled \subseteq pending
  /\ metadata = IF traceOn \/ telemetryOn THEN pending ELSE {}
  /\ \A e \in queue : e.timestamp >= now

(* Every id issued by schedule() is dispatched, cancelled or still live,     *)
(* exactly one of them, and the counts that run() returns say so whatever    *)
(* way the run ended (completed, stopped with events left, failed).          *)
EveryEventAccountedFor ==
  /\ dispatched + cancelledCount + Cardinality(Live) = Issued
  /\ result # None => dispatched + cancelledCount + result.pendingEvents = Issued

Traced(action) == {i \in 1..Len(trace) : trace[i].action = action}
TracedIds(action) == {trace[i].id : i \in Traced(action)}

(* The observation emit_terminal_telemetry sends for a status. *)
Reported(status) ==
  CASE status = "Completed" -> "RunSucceeded"
    [] status = "Stopped"   -> "RunStopped"
    [] status = "Failed"    -> "RunFailed"

(* The trace is a faithful log of the run: times never decrease; an event is *)
(* recorded at most once per action, dispatched or cancelled but not both,   *)
(* and only after it was scheduled; the cause of an event was dispatched;    *)
(* a completed or failed run ends with its one terminal record and a stopped *)
(* run with none; and unless telemetry threw, no dispatch or cancellation is *)
(* missing.  Telemetry never reports two outcomes, and reports the outcome   *)
(* run() returns unless a telemetry call threw; a sink that throws while the *)
(* outcome is being emitted turns the run into a failed one.                 *)
TraceTellsTheRun ==
  /\ Len(terminalObs) <= 1
  /\ result # None /\ telemetryOn /\ ~telemetryFailed =>
       terminalObs = <<Reported(result.status)>>
  /\ result # None /\ terminalObs # <<>> /\ result.status # "Failed" =>
       terminalObs = <<Reported(result.status)>>
  /\ traceOn =>
       /\ \A i, j \in 1..Len(trace) : i < j => trace[i].at <= trace[j].at
       /\ \A i, j \in 1..Len(trace) : trace[i] = trace[j] => i = j
       /\ TracedIds("Dispatched") \cap TracedIds("Cancelled") = {}
       /\ \A i \in Traced("Dispatched") \cup Traced("Cancelled") :
            \E j \in Traced("Scheduled") : j < i /\ trace[j].id = trace[i].id
       /\ \A e \in queue : e.cause # None => e.cause \in TracedIds("Dispatched")
       /\ Traced("Completed") \cup Traced("Failed") =
            IF result # None /\ result.status # "Stopped" THEN {Len(trace)} ELSE {}
       /\ ~telemetryFailed => /\ Cardinality(Traced("Dispatched")) = dispatched
                              /\ Cardinality(Traced("Cancelled")) = cancelledCount

(* Every call of run() returns: handlers can schedule only finitely many     *)
(* events before the ids are used up, and each exception ends in fail().     *)
RunTerminates == lifecycle = "Running" ~> lifecycle = "Finished"

(* The kernel implements a scheduler that removes a cancelled event at once. *)
phase ==
  IF lifecycle = "Finished" THEN "ended"
  ELSE IF lifecycle = "Created" THEN "open"
  ELSE IF stopReason # None THEN "stopping" ELSE "running"

Scheduler == INSTANCE EventScheduler
  WITH clock <- now, live <- Live, serving <- current, issued <- Issued,
       phase <- phase

(* Lazy cancellation cannot be observed: seen through its live events, run() *)
(* always dispatches the least live event, never one that was cancelled,     *)
(* never one twice, never after a stop request, and the clock is the         *)
(* dispatched event's time.                                                  *)
ImplementsEagerScheduler == Scheduler!Spec

=============================================================================
