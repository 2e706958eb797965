-------------------------- MODULE SimKernelProofs --------------------------
(***************************************************************************)
(* Theorems about the simulation kernel, for every range of times, ids and *)
(* priorities: its type invariant, the agreement of its containers, the    *)
(* accounting of its events, the faithfulness of its trace, and that it    *)
(* implements EventScheduler.                                              *)
(***************************************************************************)
EXTENDS SimKernel, FunctionTheorems, InductionLemmas

(* What pop() relies on: a nonempty set of events with distinct ids has one  *)
(* that precedes all the others, so First is one of its elements.            *)
LEMMA FirstIsLeast ==
  ASSUME NEW q, q # {},
         \A e \in q : e.timestamp \in Nat /\ e.priority \in Nat /\ e.id \in Nat,
         \A e, f \in q : e.id = f.id => e = f
  PROVE  First(q) \in q /\ \A f \in q \ {First(q)} : Precedes(First(q), f)
<1>1. PICK t \in {e.timestamp : e \in q} : \A e \in q : t <= e.timestamp
  <2> DEFINE T == {e.timestamp : e \in q}
  <2>1. T \subseteq Nat /\ T # {}
    OBVIOUS
  <2>2. \E x \in T : \A y \in T : x <= y
    <3> HIDE DEF T
    <3> QED BY <2>1, LeastNatural, Zenon
  <2> QED BY <2>2
<1>2. PICK p \in {e.priority : e \in {f \in q : f.timestamp = t}} :
        \A e \in q : e.timestamp = t => p <= e.priority
  <2> DEFINE T == {e.priority : e \in {f \in q : f.timestamp = t}}
  <2>1. T \subseteq Nat /\ T # {}
    BY <1>1
  <2>2. \E x \in T : \A y \in T : x <= y
    <3> HIDE DEF T
    <3> QED BY <2>1, LeastNatural, Zenon
  <2> QED BY <2>2
<1>3. PICK i \in {e.id : e \in {f \in q : f.timestamp = t /\ f.priority = p}} :
        \A e \in q : e.timestamp = t /\ e.priority = p => i <= e.id
  <2> DEFINE T == {e.id : e \in {f \in q : f.timestamp = t /\ f.priority = p}}
  <2>1. T \subseteq Nat /\ T # {}
    BY <1>2
  <2>2. \E x \in T : \A y \in T : x <= y
    <3> HIDE DEF T
    <3> QED BY <2>1, LeastNatural, Zenon
  <2> QED BY <2>2
<1>4. PICK e \in q : e.timestamp = t /\ e.priority = p /\ e.id = i
  BY <1>3
<1>5. ASSUME NEW f \in q \ {e} PROVE Precedes(e, f)
  <2>1. f \in q /\ f.id # e.id
    BY <1>5, <1>4
  <2>2. t <= f.timestamp
    BY <1>1, <2>1
  <2>3. f.timestamp = t => p <= f.priority
    BY <1>2, <2>1
  <2>4. f.timestamp = t /\ f.priority = p => i <= f.id
    BY <1>3, <2>1
  <2> QED
    BY <2>1, <2>2, <2>3, <2>4, <1>4 DEF Precedes
<1> QED
  BY <1>4, <1>5 DEF First

----------------------------------------------------------------------------
(* The strengthening: ids in use were issued, so that schedule() always      *)
(* hands out a fresh one; the exception flag belongs to a run in progress;   *)
(* and the result exists only once the run is over.                          *)
Fresh == \A id \in pending : id < Issued

LifecycleOK ==
  /\ unwinding => lifecycle = "Running"
  /\ result # None => lifecycle = "Finished"
  /\ lifecycle = "Created" => stopReason = None

IInv == TypeOK /\ BookkeepingAgrees /\ Fresh /\ LifecycleOK

(* The variables that the containers' agreement speaks of. *)
store == <<config, now, nextId, exhausted, queue, pending, cancelled, metadata>>

(* Steps that leave the containers alone preserve what is said of them. *)
LEMMA StoreUnchanged ==
  ASSUME IInv, UNCHANGED store
  PROVE  /\ BookkeepingAgrees' /\ Fresh'
         /\ now' \in Time /\ nextId' \in EventIds /\ exhausted' \in BOOLEAN
         /\ queue' \subseteq Event /\ pending' \subseteq EventIds
         /\ cancelled' \subseteq EventIds /\ metadata' \subseteq EventIds
         /\ traceOn' \in BOOLEAN /\ telemetryOn' \in BOOLEAN
BY DEF IInv, TypeOK, BookkeepingAgrees, Fresh, Issued, store, config, Ids

(* The popped event is one of the queue. *)
LEMMA PopTakesAnEvent ==
  ASSUME IInv, queue # {}
  PROVE  /\ First(queue) \in queue
         /\ \A f \in queue \ {First(queue)} : Precedes(First(queue), f)
<1>1. \A e \in queue : e.timestamp \in Nat /\ e.priority \in Nat /\ e.id \in Nat
  <2> TAKE e \in queue
  <2>1. e \in Event
    BY DEF IInv, TypeOK
  <2>2. e.timestamp \in Time /\ e.priority \in Priorities /\ e.id \in EventIds
    BY <2>1 DEF Event
  <2>3. Time \subseteq Nat /\ EventIds \subseteq Nat /\ Priorities \subseteq Nat
    BY KernelAssumption DEF Time, EventIds
  <2> QED
    BY <2>2, <2>3, Zenon
<1>2. \A e, f \in queue : e.id = f.id => e = f
  BY DEF IInv, BookkeepingAgrees
<1> QED
  BY <1>1, <1>2, FirstIsLeast

(* A new kernel satisfies the invariant. *)
LEMMA InitInvariant == Init => IInv
<1> SUFFICES ASSUME Init PROVE IInv
  OBVIOUS
<1>1. TypeOK
  <2>1. 0 \in Time /\ 0 \in EventIds
    BY KernelAssumption DEF Time, EventIds
  <2> QED
    BY <2>1, Zenon DEF Init, TypeOK
<1>2. BookkeepingAgrees
  BY DEF Init, BookkeepingAgrees, Ids
<1>3. Fresh /\ LifecycleOK
  BY DEF Init, Fresh, LifecycleOK
<1> QED
  BY <1>1, <1>2, <1>3 DEF IInv

(* What schedule() does to the containers: the id it hands out is new. *)
LEMMA ScheduleFacts ==
  ASSUME IInv, NEW timestamp \in Time, NEW priority \in Priorities,
         Schedule(timestamp, priority)
  PROVE  LET e == [timestamp |-> timestamp, priority |-> priority, id |-> nextId,
                   cause |-> CurrentId]
         IN /\ e \in Event
            /\ queue' = queue \cup {e} /\ pending' = pending \cup {nextId}
            /\ cancelled' = cancelled /\ nextId \notin pending
            /\ nextId' \in EventIds /\ exhausted' \in BOOLEAN
            /\ Issued = nextId /\ Issued' = nextId + 1 /\ nextId \in Nat
<1> DEFINE e == [timestamp |-> timestamp, priority |-> priority, id |-> nextId,
                 cause |-> CurrentId]
<1>1. e \in Event /\ e.id = nextId /\ e.timestamp = timestamp /\ nextId \in EventIds
  BY DEF IInv, TypeOK, Event, CurrentId
<1>2. /\ queue' = queue \cup {e} /\ pending' = pending \cup {nextId}
      /\ cancelled' = cancelled /\ NextEventId
  BY DEF Schedule
<1>3. nextId \notin pending
  BY <1>2, KernelAssumption DEF IInv, TypeOK, Fresh, Issued, NextEventId, EventIds
<1>4. nextId' \in EventIds /\ exhausted' \in BOOLEAN /\ Issued' = nextId + 1
      /\ Issued <= Issued'
  <2>1. nextId \in Nat /\ nextId <= MaxEventId /\ MaxEventId \in Nat /\ ~exhausted
    BY <1>2, KernelAssumption DEF IInv, TypeOK, NextEventId, EventIds
  <2>2. CASE nextId = MaxEventId
    <3>1. exhausted' = TRUE /\ nextId' = nextId
      BY <1>2, <2>2 DEF NextEventId
    <3> QED
      BY <2>1, <3>1 DEF Issued, EventIds
  <2>3. CASE nextId # MaxEventId
    <3>1. exhausted' = exhausted /\ nextId' = nextId + 1
      BY <1>2, <2>3 DEF NextEventId
    <3>2. exhausted' = FALSE
      BY <2>1, <3>1 DEF IInv, TypeOK
    <3>3. Issued = nextId /\ Issued' = nextId'
      BY <2>1, <3>2 DEF Issued
    <3>4. nextId + 1 \in EventIds
      BY <2>1, <2>3 DEF EventIds
    <3>5. exhausted' \in BOOLEAN
      BY <3>2, Zenon
    <3>6. nextId' = nextId + 1
      BY <3>1
    <3> QED
      BY <2>1, <3>3, <3>4, <3>5, <3>6
  <2> QED
    BY <2>2, <2>3
<1>5. Issued = nextId /\ nextId \in Nat
  BY <1>2, KernelAssumption DEF IInv, TypeOK, NextEventId, EventIds, Issued
<1> QED
  BY <1>1, <1>2, <1>3, <1>4, <1>5

(* schedule() keeps the invariant: the new id is fresh. *)
LEMMA ScheduleInvariant ==
  ASSUME IInv, NEW timestamp \in Time, NEW priority \in Priorities,
         Schedule(timestamp, priority)
  PROVE  IInv'
<1> DEFINE e == [timestamp |-> timestamp, priority |-> priority, id |-> nextId,
                 cause |-> CurrentId]
<1>1. e \in Event /\ e.id = nextId /\ e.timestamp = timestamp /\ nextId \in EventIds
  BY DEF IInv, TypeOK, Event, CurrentId
<1>2. /\ queue' = queue \cup {e} /\ pending' = pending \cup {nextId}
      /\ cancelled' = cancelled /\ now' = now /\ timestamp >= now
      /\ traceOn' = traceOn /\ telemetryOn' = telemetryOn
      /\ metadata' = IF traceOn \/ telemetryOn THEN metadata \cup {nextId} ELSE metadata
      /\ NextEventId
  BY DEF Schedule, config
<1>3. nextId \notin pending
  BY ScheduleFacts, Zenon
<1>4. nextId' \in EventIds /\ exhausted' \in BOOLEAN /\ Issued' = nextId + 1
      /\ Issued <= Issued'
  <2>1. Issued = nextId /\ Issued' = nextId + 1 /\ nextId \in Nat
        /\ nextId' \in EventIds /\ exhausted' \in BOOLEAN
    BY ScheduleFacts, Zenon
  <2> QED
    BY <2>1
<1>5. TypeOK'
  <2>1. telemetryFailed' \in BOOLEAN /\ unwinding' \in BOOLEAN
    BY DEF Schedule, Emitted, IInv, TypeOK, EmitOutcomes
  <2> QED
    BY <1>1, <1>2, <1>4, <2>1 DEF IInv, TypeOK, Schedule
<1>6. BookkeepingAgrees'
  <2>1. Ids(queue)' = pending'
    BY <1>1, <1>2 DEF IInv, BookkeepingAgrees, Ids
  <2>2. (\A x, y \in queue : x.id = y.id => x = y)'
    <3>1. \A x \in queue : x.id # nextId
      BY <1>3 DEF IInv, BookkeepingAgrees, Ids
    <3> QED
      BY <1>1, <1>2, <3>1 DEF IInv, BookkeepingAgrees
  <2>3. (cancelled \subseteq pending)'
    BY <1>2 DEF IInv, BookkeepingAgrees
  <2>4. (metadata = IF traceOn \/ telemetryOn THEN pending ELSE {})'
    BY <1>2 DEF IInv, BookkeepingAgrees
  <2>5. (\A x \in queue : x.timestamp >= now)'
    BY <1>1, <1>2 DEF IInv, BookkeepingAgrees
  <2> QED
    BY <2>1, <2>2, <2>3, <2>4, <2>5 DEF BookkeepingAgrees
<1>7. Fresh'
  <2>1. \A id \in pending : id \in Nat /\ id < Issued
    BY KernelAssumption DEF IInv, Fresh, TypeOK, EventIds
  <2>2. Issued \in Nat /\ nextId \in Nat
    BY KernelAssumption DEF IInv, TypeOK, EventIds, Issued
  <2> QED
    BY <1>2, <1>4, <2>1, <2>2 DEF Fresh
<1>8. LifecycleOK'
  BY Zenon DEF IInv, LifecycleOK, Schedule, Emitted
<1> QED
  BY <1>5, <1>6, <1>7, <1>8 DEF IInv

(* cancel() keeps the invariant: the id is pending and not yet cancelled. *)
LEMMA CancelInvariant ==
  ASSUME IInv, NEW id \in EventIds, Cancel(id)
  PROVE  IInv'
<1>1. TypeOK'
  BY DEF IInv, TypeOK, Cancel, Cancellable, Emitted, EmitOutcomes, config
<1>2. BookkeepingAgrees' /\ Fresh'
  BY DEF IInv, BookkeepingAgrees, Fresh, Issued, Cancel, Cancellable, config, Ids
<1>3. LifecycleOK'
  BY Zenon DEF IInv, LifecycleOK, Cancel, Emitted
<1> QED
  BY <1>1, <1>2, <1>3 DEF IInv

(* Discarding a cancelled event that surfaced keeps the invariant. *)
LEMMA DiscardInvariant ==
  ASSUME IInv, DiscardCancelled
  PROVE  IInv'
<1> DEFINE e == First(queue)
<1>1. e \in queue
  BY PopTakesAnEvent DEF DiscardCancelled
<1>2. /\ queue' = queue \ {e} /\ pending' = pending \ {e.id}
      /\ metadata' = metadata \ {e.id} /\ cancelled' = cancelled \ {e.id}
      /\ traceOn' = traceOn /\ telemetryOn' = telemetryOn /\ now' = now
      /\ nextId' = nextId /\ exhausted' = exhausted
  BY DEF DiscardCancelled, config
<1> HIDE DEF e
<1>3. TypeOK'
  BY <1>2 DEF IInv, TypeOK, DiscardCancelled
<1>4. BookkeepingAgrees'
  <2>1. Ids(queue)' = pending'
    BY <1>1, <1>2 DEF IInv, BookkeepingAgrees, Ids
  <2> QED
    BY <1>2, <2>1 DEF IInv, BookkeepingAgrees
<1>5. Fresh'
  BY <1>2 DEF IInv, Fresh, Issued
<1>6. LifecycleOK'
  BY DEF IInv, LifecycleOK, DiscardCancelled
<1> QED
  BY <1>3, <1>4, <1>5, <1>6 DEF IInv

(* Dispatching the first event keeps the invariant. *)
LEMMA DispatchInvariant ==
  ASSUME IInv, Dispatch
  PROVE  IInv'
<1> DEFINE e == First(queue)
<1>1. e \in queue /\ \A f \in queue \ {e} : Precedes(e, f)
  BY PopTakesAnEvent DEF Dispatch
<1>2. /\ queue' = queue \ {e} /\ pending' = pending \ {e.id}
      /\ metadata' = metadata \ {e.id} /\ cancelled' = cancelled
      /\ traceOn' = traceOn /\ telemetryOn' = telemetryOn /\ now' = e.timestamp
      /\ nextId' = nextId /\ exhausted' = exhausted /\ current' = e
      /\ e.id \notin cancelled
  BY DEF Dispatch, IsDispatchable, config
<1> HIDE DEF e
<1>3. TypeOK'
  <2>1. e \in Event
    BY <1>1 DEF IInv, TypeOK
  <2>2. e.timestamp \in Time
    BY <2>1 DEF Event
  <2>3. telemetryFailed' \in BOOLEAN /\ unwinding' \in BOOLEAN
    BY DEF Dispatch, Emitted, IInv, TypeOK, EmitOutcomes
  <2> QED
    BY <1>2, <2>1, <2>2, <2>3 DEF IInv, TypeOK, Dispatch
<1>4. BookkeepingAgrees'
  <2>1. Ids(queue)' = pending'
    BY <1>1, <1>2 DEF IInv, BookkeepingAgrees, Ids
  <2>2. (\A f \in queue : f.timestamp >= now)'
    <3> SUFFICES ASSUME NEW f \in queue, f # e PROVE f.timestamp >= e.timestamp
      BY <1>2
    <3>1. Precedes(e, f)
      BY <1>1
    <3>2. f.timestamp \in Nat /\ e.timestamp \in Nat
      <4>1. f \in Event /\ e \in Event
        BY <1>1 DEF IInv, TypeOK
      <4>2. f.timestamp \in Time /\ e.timestamp \in Time
        BY <4>1 DEF Event
      <4> QED
        BY <4>2, KernelAssumption DEF Time
    <3> QED
      BY <3>1, <3>2 DEF Precedes
  <2> QED
    BY <1>2, <2>1, <2>2 DEF IInv, BookkeepingAgrees
<1>5. Fresh'
  BY <1>2 DEF IInv, Fresh, Issued
<1>6. LifecycleOK'
  BY DEF IInv, LifecycleOK, Dispatch, LoopTop, Emitted
<1> QED
  BY <1>3, <1>4, <1>5, <1>6 DEF IInv

(* One step of the kernel preserves the strengthened invariant. *)
LEMMA StepInvariant == IInv /\ [Next]_vars => IInv'
<1> SUFFICES ASSUME IInv, [Next]_vars PROVE IInv'
  OBVIOUS
<1>1. ASSUME NEW timestamp \in Time, NEW priority \in Priorities,
             Schedule(timestamp, priority)
      PROVE  IInv'
  BY <1>1, ScheduleInvariant
<1>2. ASSUME NEW id \in EventIds, Cancel(id) PROVE IInv'
  BY <1>2, CancelInvariant
<1>3. CASE DiscardCancelled
  BY <1>3, DiscardInvariant
<1>4. CASE Dispatch
  BY <1>4, DispatchInvariant
<1>5. ASSUME NEW timestamp \in Time, ScheduleRefused(timestamp) PROVE IInv'
  <2>1. UNCHANGED store
    BY <1>5 DEF ScheduleRefused, store, config
  <2>2. TypeOK' /\ LifecycleOK'
    BY <1>5, <2>1, StoreUnchanged
    DEF ScheduleRefused, InHandler, IInv, TypeOK, LifecycleOK
  <2> QED
    BY <2>1, <2>2, StoreUnchanged DEF IInv
<1>6. ASSUME NEW reason \in StopReasons, Stop(reason) PROVE IInv'
  <2>1. UNCHANGED store
    BY <1>6 DEF Stop, store, config
  <2>2. TypeOK' /\ LifecycleOK'
    BY <1>6, <2>1, StoreUnchanged
    DEF Stop, Emitted, EmitOutcomes, InHandler, IInv, TypeOK, LifecycleOK
  <2> QED
    BY <2>1, <2>2, StoreUnchanged DEF IInv
<1>7. CASE BeginRun
  <2>1. UNCHANGED store
    BY <1>7 DEF BeginRun, store, config
  <2>2. TypeOK' /\ LifecycleOK'
    BY <1>7, <2>1, StoreUnchanged DEF BeginRun, EmitOutcomes, IInv, TypeOK, LifecycleOK
  <2> QED
    BY <2>1, <2>2, StoreUnchanged DEF IInv
<1>8. CASE HandlerReturn
  <2>1. UNCHANGED store
    BY <1>8 DEF HandlerReturn, store, config
  <2>2. TypeOK' /\ LifecycleOK'
    BY <1>8, <2>1, StoreUnchanged DEF HandlerReturn, IInv, TypeOK, LifecycleOK
  <2> QED
    BY <2>1, <2>2, StoreUnchanged DEF IInv
<1>9. CASE HandlerThrow
  <2>1. UNCHANGED store
    BY <1>9 DEF HandlerThrow, store, config
  <2>2. TypeOK' /\ LifecycleOK'
    BY <1>9, <2>1, StoreUnchanged DEF HandlerThrow, InHandler, IInv, TypeOK, LifecycleOK
  <2> QED
    BY <2>1, <2>2, StoreUnchanged DEF IInv
<1>10. ASSUME NEW status, NEW transition, LoopTop, Finish(status, transition) PROVE IInv'
  <2>1. UNCHANGED store
    BY <1>10 DEF Finish, store, config
  <2>2. PICK emission \in TerminalEmissions(transition) :
          /\ Emitted(emission.ok)
          /\ lifecycle' = IF emission.ok THEN "Finished" ELSE lifecycle
          /\ result' = IF emission.ok THEN Result(status) ELSE result
    BY <1>10 DEF Finish
  <2>3. emission.ok \in BOOLEAN
    <3>1. emission.ok = TRUE \/ emission.ok = FALSE
      <4>1. \/ emission = [obs |-> <<>>, ok |-> TRUE]
            \/ emission = [obs |-> <<transition>>, ok |-> TRUE]
            \/ emission = [obs |-> <<>>, ok |-> FALSE]
            \/ emission = [obs |-> <<transition>>, ok |-> FALSE]
        BY <2>2, Zenon DEF TerminalEmissions
      <4> QED
        BY <4>1
    <3> QED
      BY <3>1, Zenon
  <2>4. TypeOK'
    BY <1>10, <2>1, <2>2, <2>3, StoreUnchanged DEF Finish, Emitted, LoopTop, IInv, TypeOK
  <2>5. LifecycleOK'
    BY <1>10, <2>2, <2>3, Zenon DEF Emitted, LoopTop, IInv, LifecycleOK
  <2> QED
    BY <2>1, <2>4, <2>5, StoreUnchanged DEF IInv
<1>11. CASE Fail
  <2>1. UNCHANGED store
    BY <1>11 DEF Fail, store, config
  <2>2. TypeOK' /\ LifecycleOK'
    BY <1>11, <2>1, StoreUnchanged, Zenon DEF Fail, TerminalEmissions, IInv, TypeOK, LifecycleOK
  <2> QED
    BY <2>1, <2>2, StoreUnchanged DEF IInv
<1>12. CASE UNCHANGED vars
  <2>1. UNCHANGED store
    BY <1>12 DEF vars, store, config
  <2>2. TypeOK' /\ LifecycleOK'
    BY <1>12, <2>1, StoreUnchanged DEF vars, IInv, TypeOK, LifecycleOK
  <2> QED
    BY <2>1, <2>2, StoreUnchanged DEF IInv
<1> QED
  BY <1>1, <1>2, <1>3, <1>4, <1>5, <1>6, <1>7, <1>8, <1>9, <1>10, <1>11, <1>12
  DEF Next, FinishCompleted, FinishStopped, RefusedAfterFinish

(* The invariant holds in every reachable state. *)
LEMMA KernelInvariant == Spec => []IInv
BY InitInvariant, StepInvariant, PTL DEF Spec

(* Every variable of the kernel keeps its type in every run, for every range *)
(* of times, ids and priorities.                                             *)
THEOREM KernelTypeCorrect == Spec => []TypeOK
<1>1. IInv => TypeOK
  BY DEF IInv
<1> QED
  BY KernelInvariant, <1>1, PTL

(* The heap, pending_ids_, cancelled_ids_ and trace_metadata_ describe the   *)
(* same events in every reachable state, whatever telemetry calls throw.     *)
THEOREM KernelBookkeeping == Spec => []BookkeepingAgrees
<1>1. IInv => BookkeepingAgrees
  BY DEF IInv
<1> QED
  BY KernelInvariant, <1>1, PTL

----------------------------------------------------------------------------
(* Accounting.  The strengthening counts ids, which are easier to follow     *)
(* than events; an id and its event correspond one to one.                   *)
Outstanding == pending \ cancelled

Counted ==
  /\ dispatched + cancelledCount + Cardinality(Outstanding) = Issued
  /\ result # None => dispatched + cancelledCount + result.pendingEvents = Issued

(* Ids are finitely many, so pending events can be counted. *)
LEMMA IdsAreFinite ==
  ASSUME IInv
  PROVE  /\ IsFiniteSet(pending) /\ IsFiniteSet(Outstanding)
         /\ Cardinality(Outstanding) \in Nat
         /\ Cardinality(pending) - Cardinality(cancelled) = Cardinality(Outstanding)
<1>1. IsFiniteSet(EventIds)
  BY FS_Interval, KernelAssumption DEF EventIds
<1>2. IsFiniteSet(pending)
  <2>1. pending \in SUBSET EventIds
    BY DEF IInv, TypeOK
  <2> QED
    BY <1>1, <2>1, FS_Subset
<1>3. /\ IsFiniteSet(Outstanding)
      /\ Cardinality(Outstanding) = Cardinality(pending) - Cardinality(pending \cap cancelled)
  BY <1>2, FS_Difference, Zenon DEF Outstanding
<1>4. pending \cap cancelled = cancelled
  BY DEF IInv, BookkeepingAgrees
<1> QED
  BY <1>2, <1>3, <1>4, FS_CardinalityType, Zenon

(* Live events and outstanding ids are equally many. *)
LEMMA LiveMatchesOutstanding ==
  ASSUME IInv
  PROVE  Cardinality(Live) = Cardinality(Outstanding)
<1> DEFINE f == [e \in Live |-> e.id]
<1>1. f \in [Live -> Outstanding]
  BY DEF IInv, BookkeepingAgrees, Live, Outstanding, Ids
<1>2. \A d, e \in Live : f[d] = f[e] => d = e
  BY DEF IInv, BookkeepingAgrees, Live
<1>3. \A id \in Outstanding : \E e \in Live : f[e] = id
  <2> TAKE id \in Outstanding
  <2>1. PICK e \in queue : e.id = id
    BY DEF IInv, BookkeepingAgrees, Outstanding, Ids
  <2>2. e \in Live
    BY <2>1 DEF Live, Outstanding
  <2> QED
    BY <2>1, <2>2
<1>4. f \in Bijection(Live, Outstanding)
  <2> HIDE DEF f
  <2> QED BY <1>1, <1>2, <1>3, Fun_IsBij
<1>5. ExistsBijection(Outstanding, Live)
  <2>1. ExistsBijection(Live, Outstanding)
    BY <1>4 DEF ExistsBijection
  <2> QED
    BY <2>1, Fun_ExistsBijSymmetric
<1> QED
  BY <1>5, IdsAreFinite, FS_Bijection

(* Every step keeps the accounts. *)
LEMMA StepCounted == IInv /\ IInv' /\ Counted /\ [Next]_vars => Counted'
<1> SUFFICES ASSUME IInv, IInv', Counted, [Next]_vars PROVE Counted'
  OBVIOUS
<1> USE DEF Counted
<1>0. /\ dispatched \in Nat /\ cancelledCount \in Nat
      /\ Cardinality(Outstanding) \in Nat /\ IsFiniteSet(Outstanding)
  BY IdsAreFinite DEF IInv, TypeOK
<1>1. ASSUME NEW timestamp \in Time, NEW priority \in Priorities,
             Schedule(timestamp, priority)
      PROVE  Counted'
  <2>1. /\ pending' = pending \cup {nextId} /\ cancelled' = cancelled
        /\ nextId \notin pending /\ Issued = nextId /\ Issued' = nextId + 1
    BY <1>1, ScheduleFacts, Zenon
  <2>2. Outstanding' = Outstanding \cup {nextId} /\ nextId \notin Outstanding
    BY <2>1 DEF Outstanding, IInv, BookkeepingAgrees
  <2>3. Cardinality(Outstanding') = Cardinality(Outstanding) + 1
    BY <1>0, <2>2, FS_AddElement
  <2>4. /\ result' = result /\ dispatched' = dispatched /\ cancelledCount' = cancelledCount
        /\ result = None
    BY <1>1 DEF Schedule, MayCall, InHandler, IInv, LifecycleOK
  <2> QED
    BY <1>0, <2>1, <2>3, <2>4
<1>2. ASSUME NEW id \in EventIds, Cancel(id) PROVE Counted'
  <2>1. Outstanding' = Outstanding \ {id} /\ id \in Outstanding
    BY <1>2 DEF Cancel, Cancellable, Outstanding
  <2>2. Cardinality(Outstanding') = Cardinality(Outstanding) - 1
    BY <1>0, <2>1, FS_RemoveElement, Zenon
  <2>3. /\ result' = result /\ dispatched' = dispatched
        /\ cancelledCount' = cancelledCount + 1 /\ result = None /\ Issued' = Issued
    BY <1>2 DEF Cancel, MayCall, InHandler, IInv, LifecycleOK, Issued
  <2> QED
    BY <1>0, <2>2, <2>3
<1>3. CASE DiscardCancelled
  <2>1. Outstanding' = Outstanding
    BY <1>3 DEF DiscardCancelled, IsDispatchable, Outstanding
  <2>2. /\ result' = result /\ dispatched' = dispatched
        /\ cancelledCount' = cancelledCount /\ Issued' = Issued
    BY <1>3 DEF DiscardCancelled, Issued
  <2> QED
    BY <2>1, <2>2
<1>4. CASE Dispatch
  <2> DEFINE e == First(queue)
  <2>1. e \in queue
    BY <1>4, PopTakesAnEvent DEF Dispatch
  <2>2. Outstanding' = Outstanding \ {e.id} /\ e.id \in Outstanding
    BY <1>4, <2>1 DEF Dispatch, IsDispatchable, Outstanding, IInv, BookkeepingAgrees, Ids
  <2>3. Cardinality(Outstanding') = Cardinality(Outstanding) - 1
    BY <1>0, <2>2, FS_RemoveElement
  <2>4. /\ result' = result /\ dispatched' = dispatched + 1
        /\ cancelledCount' = cancelledCount /\ result = None /\ Issued' = Issued
    BY <1>4 DEF Dispatch, LoopTop, IInv, LifecycleOK, Issued
  <2> QED
    BY <1>0, <2>3, <2>4
<1>5. ASSUME UNCHANGED <<pending, cancelled, nextId, exhausted, dispatched, cancelledCount>>,
             result' = result \/ \E status : result' = Result(status)
      PROVE  Counted'
  <2>1. Outstanding' = Outstanding /\ Issued' = Issued
    BY <1>5 DEF Outstanding, Issued
  <2>2. CASE result' = result
    BY <1>5, <2>1, <2>2
  <2>3. CASE \E status : result' = Result(status)
    <3>1. result'.pendingEvents = Cardinality(Outstanding)
      BY <2>3, IdsAreFinite DEF Result
    <3> QED
      BY <1>5, <2>1, <3>1
  <2> QED
    BY <1>5, <2>2, <2>3
<1>6. ASSUME NEW timestamp \in Time, ScheduleRefused(timestamp) PROVE Counted'
  BY <1>5, <1>6 DEF ScheduleRefused
<1>7. ASSUME NEW reason \in StopReasons, Stop(reason) PROVE Counted'
  BY <1>5, <1>7 DEF Stop
<1>8. CASE BeginRun
  BY <1>5, <1>8 DEF BeginRun
<1>9. CASE HandlerReturn
  BY <1>5, <1>9 DEF HandlerReturn
<1>10. CASE HandlerThrow
  BY <1>5, <1>10 DEF HandlerThrow
<1>11. ASSUME NEW status, NEW transition, Finish(status, transition) PROVE Counted'
  <2>1. result' = result \/ result' = Result(status)
    BY <1>11 DEF Finish
  <2>2. UNCHANGED <<pending, cancelled, nextId, exhausted, dispatched, cancelledCount>>
    BY <1>11 DEF Finish
  <2> QED
    BY <1>5, <2>1, <2>2
<1>12. CASE Fail
  BY <1>5, <1>12 DEF Fail
<1>13. CASE UNCHANGED vars
  BY <1>5, <1>13 DEF vars
<1> QED
  BY <1>1, <1>2, <1>3, <1>4, <1>6, <1>7, <1>8, <1>9, <1>10, <1>11, <1>12, <1>13
  DEF Next, FinishCompleted, FinishStopped, RefusedAfterFinish

(* Every id that schedule() ever issued is dispatched, cancelled or still    *)
(* live, and the result of run() says so, however the run ended.             *)
THEOREM KernelAccounting == Spec => []EveryEventAccountedFor
<1>1. Init => Counted
  <2> SUFFICES ASSUME Init PROVE Counted
    OBVIOUS
  <2>1. Outstanding = {} /\ Issued = 0 /\ result = None /\ dispatched = 0 /\ cancelledCount = 0
    BY DEF Init, Outstanding, Issued
  <2>2. Cardinality(Outstanding) = 0
    BY <2>1, FS_EmptySet
  <2> QED
    BY <2>1, <2>2 DEF Counted
<1>2. IInv /\ Counted => EveryEventAccountedFor
  BY LiveMatchesOutstanding DEF Counted, EveryEventAccountedFor
<1> QED
  BY KernelInvariant, StepCounted, <1>1, <1>2, PTL DEF Spec

----------------------------------------------------------------------------
(* The trace.  Ids move from the containers to the log: an id that schedule() *)
(* handed out has its record, one that was dispatched is no longer pending,   *)
(* one that was cancelled is no longer outstanding, and the handler that may  *)
(* schedule has been recorded as dispatched.                                  *)
Actions == {"Scheduled", "Cancelled", "Dispatched", "StopRequested", "Completed", "Failed"}

LogRecord == [action : Actions, id : EventIds \cup {None}, at : Time]

(* The positions and the ids of an action in a log. *)
On(log, action) == {i \in 1..Len(log) : log[i].action = action}
IdsOn(log, action) == {log[i].id : i \in On(log, action)}

(* A log in time order that says nothing twice. *)
Ordered(log) ==
  /\ \A i, j \in 1..Len(log) : i < j => log[i].at <= log[j].at
  /\ \A i, j \in 1..Len(log) : log[i] = log[j] => i = j

(* What the log says of the events. *)
EventsLogged ==
  /\ \A i \in 1..Len(trace) : trace[i].at <= now
  /\ \A id \in IdsOn(trace, "Scheduled") : id \in Nat /\ id < Issued
  /\ pending \subseteq IdsOn(trace, "Scheduled")
  /\ IdsOn(trace, "Dispatched") \cap pending = {}
  /\ IdsOn(trace, "Cancelled") \cap Outstanding = {}
  /\ IdsOn(trace, "Dispatched") \cap IdsOn(trace, "Cancelled") = {}
  /\ \A i \in On(trace, "Dispatched") \cup On(trace, "Cancelled") :
       \E j \in On(trace, "Scheduled") : j < i /\ trace[j].id = trace[i].id
  /\ InHandler => current.id \in IdsOn(trace, "Dispatched")
  /\ \A e \in queue : e.cause # None => e.cause \in IdsOn(trace, "Dispatched")

(* What the log says of the run. *)
RunLogged ==
  /\ On(trace, "StopRequested") # {} => stopReason # None
  /\ On(trace, "Completed") \cup On(trace, "Failed") =
       IF result # None /\ result.status # "Stopped" THEN {Len(trace)} ELSE {}
  /\ ~telemetryFailed => /\ Cardinality(On(trace, "Dispatched")) = dispatched
                         /\ Cardinality(On(trace, "Cancelled")) = cancelledCount

(* The outcome reported to telemetry: nothing before the run is over, unless *)
(* the report itself threw.                                                  *)
OutcomeReported ==
  /\ terminalObs = <<>> \/ \E transition : terminalObs = <<transition>>
  /\ terminalObs # <<>> /\ lifecycle # "Finished" => unwinding /\ telemetryFailed
  /\ result # None /\ telemetryOn /\ ~telemetryFailed =>
       terminalObs = <<Reported(result.status)>>
  /\ result # None /\ terminalObs # <<>> /\ result.status # "Failed" =>
       terminalObs = <<Reported(result.status)>>

LogInv ==
  /\ lifecycle = "Created" => current = None
  /\ lifecycle = "Finished" <=> result # None
  /\ OutcomeReported
  /\ traceOn => /\ trace \in Seq(LogRecord)
                /\ Ordered(trace)
                /\ EventsLogged
                /\ RunLogged

Logged ==
  /\ trace \in Seq(LogRecord)
  /\ Ordered(trace)
  /\ EventsLogged
  /\ RunLogged

(* A log with one more record. *)
Grows(log, new, r) ==
  /\ new \in Seq(LogRecord) /\ Len(log) \in Nat /\ Len(new) = Len(log) + 1
  /\ \A i \in 1..Len(log) : new[i] = log[i]
  /\ new[Len(log) + 1] = r
  /\ On(new, r.action) = On(log, r.action) \cup {Len(log) + 1}
  /\ IdsOn(new, r.action) = IdsOn(log, r.action) \cup {r.id}
  /\ \A a : r.action # a => On(new, a) = On(log, a) /\ IdsOn(new, a) = IdsOn(log, a)

(* What one more record changes. *)
LEMMA LogGrows ==
  ASSUME NEW log \in Seq(LogRecord), NEW r \in LogRecord
  PROVE  Grows(log, Append(log, r), r)
<1> DEFINE new == Append(log, r)
<1>1. /\ new \in Seq(LogRecord) /\ Len(log) \in Nat /\ Len(new) = Len(log) + 1
      /\ \A i \in 1..Len(log) : new[i] = log[i]
      /\ new[Len(log) + 1] = r
  OBVIOUS
<1> HIDE DEF new
<1>2. \A a : On(log, a) \subseteq 1..Len(log)
  BY DEF On
<1>3. /\ On(new, r.action) = On(log, r.action) \cup {Len(log) + 1}
      /\ IdsOn(new, r.action) = IdsOn(log, r.action) \cup {r.id}
  <2>1. On(new, r.action) = On(log, r.action) \cup {Len(log) + 1}
    BY <1>1 DEF On
  <2> QED BY <1>1, <1>2, <2>1 DEF IdsOn
<1>4. ASSUME NEW a, r.action # a
      PROVE  On(new, a) = On(log, a) /\ IdsOn(new, a) = IdsOn(log, a)
  <2>1. On(new, a) = On(log, a)
    BY <1>1, <1>4 DEF On
  <2> QED BY <1>1, <1>2, <2>1 DEF IdsOn
<1>5. Grows(log, new, r)
  BY <1>1, <1>3, <1>4, Zenon DEF Grows
<1> QED BY <1>5 DEF new

(* A record that is new and not in the past keeps a log in order. *)
LEMMA StaysOrdered ==
  ASSUME NEW log \in Seq(LogRecord), NEW r \in LogRecord, Ordered(log),
         \A i \in 1..Len(log) : log[i].at <= r.at, \A i \in 1..Len(log) : log[i] # r
  PROVE  Ordered(Append(log, r))
<1> DEFINE new == Append(log, r)
<1>1. /\ Len(log) \in Nat /\ Len(new) = Len(log) + 1
      /\ \A i \in 1..Len(log) : new[i] = log[i]
      /\ new[Len(log) + 1] = r
  BY LogGrows DEF Grows
<1>2. r.at <= r.at
  BY KernelAssumption DEF LogRecord, Time
<1> HIDE DEF new
<1>3. ASSUME NEW i \in 1..Len(new), NEW j \in 1..Len(new), i < j
      PROVE  new[i].at <= new[j].at
  BY <1>1, <1>3 DEF Ordered
<1>4. ASSUME NEW i \in 1..Len(new), NEW j \in 1..Len(new), new[i] = new[j]
      PROVE  i = j
  BY <1>1, <1>4 DEF Ordered
<1> QED BY <1>3, <1>4 DEF Ordered, new

(* Positions are finitely many, and appending adds one. *)
LEMMA PositionsCount ==
  ASSUME NEW log \in Seq(LogRecord), NEW a
  PROVE  /\ Cardinality(On(log, a)) \in Nat
         /\ Cardinality(On(log, a) \cup {Len(log) + 1}) = Cardinality(On(log, a)) + 1
<1>1. Len(log) \in Nat /\ On(log, a) \in SUBSET (1..Len(log)) /\ Len(log) + 1 \notin On(log, a)
  BY DEF On
<1>2. IsFiniteSet(On(log, a))
  <2>1. IsFiniteSet(1..Len(log))
    BY <1>1, FS_Interval
  <2> QED BY <1>1, <2>1, FS_Subset
<1> QED BY <1>1, <1>2, FS_CardinalityType, FS_AddElement, Zenon

(* A record of an id that its action does not name yet is new. *)
LEMMA NewRecord ==
  ASSUME NEW log \in Seq(LogRecord), NEW r, r.id \notin IdsOn(log, r.action)
  PROVE  \A i \in 1..Len(log) : log[i] # r
BY DEF IdsOn, On

(* Every id that was dispatched or cancelled was issued. *)
LEMMA LoggedIdsIssued ==
  ASSUME IInv, Logged
  PROVE  /\ Issued \in Nat /\ Issued \notin IdsOn(trace, "Scheduled")
         /\ Issued \notin IdsOn(trace, "Dispatched") /\ Issued \notin IdsOn(trace, "Cancelled")
<1>1. Issued \in Nat
  BY KernelAssumption DEF IInv, TypeOK, EventIds, Issued
<1>2. Issued \notin IdsOn(trace, "Scheduled")
  BY <1>1 DEF Logged, EventsLogged
<1> QED BY <1>1, <1>2 DEF Logged, EventsLogged, IdsOn

----------------------------------------------------------------------------
(* schedule() logs the new event. *)
LEMMA ScheduleLogged ==
  ASSUME IInv, LogInv, traceOn, NEW timestamp \in Time, NEW priority \in Priorities,
         Schedule(timestamp, priority)
  PROVE  Logged'
<1> DEFINE r == Record("Scheduled", nextId, now)
           e == [timestamp |-> timestamp, priority |-> priority, id |-> nextId,
                 cause |-> CurrentId]
           S == "Scheduled"  D == "Dispatched"  C == "Cancelled"
<1>1. Logged
  BY DEF LogInv, Logged
<1>2. /\ queue' = queue \cup {e} /\ pending' = pending \cup {nextId}
      /\ cancelled' = cancelled /\ nextId \notin pending
      /\ Issued = nextId /\ Issued' = nextId + 1 /\ nextId \in Nat
  BY ScheduleFacts, Zenon
<1>3. r \in LogRecord /\ r.action = S /\ r.id = nextId /\ r.at = now /\ now \in Nat
  BY KernelAssumption DEF Record, LogRecord, Actions, IInv, TypeOK, Time
<1>4. /\ trace' = Append(trace, r) /\ now' = now /\ stopReason' = stopReason
      /\ dispatched' = dispatched /\ cancelledCount' = cancelledCount
      /\ result' = result /\ current' = current /\ lifecycle' = lifecycle
      /\ MayCall /\ (telemetryFailed => telemetryFailed')
  BY Zenon DEF Schedule, Append1, Emitted
<1>5. result = None /\ (current # None => current.id \in IdsOn(trace, D))
  BY <1>1, <1>4 DEF LogInv, Logged, EventsLogged, IInv, LifecycleOK, MayCall, InHandler
<1> HIDE DEF r
<1>6. trace \in Seq(LogRecord)
  BY <1>1 DEF Logged
<1>7. /\ trace' \in Seq(LogRecord) /\ Len(trace) \in Nat /\ Len(trace') = Len(trace) + 1
      /\ \A i \in 1..Len(trace) : trace'[i] = trace[i]
      /\ trace'[Len(trace) + 1] = r
      /\ On(trace', S) = On(trace, S) \cup {Len(trace) + 1}
      /\ IdsOn(trace', S) = IdsOn(trace, S) \cup {nextId}
      /\ \A a : S # a => On(trace', a) = On(trace, a) /\ IdsOn(trace', a) = IdsOn(trace, a)
  <2>1. Grows(trace, Append(trace, r), r)
    BY <1>3, <1>6, LogGrows
  <2>2. Grows(trace, trace', r)
    BY <1>4, <2>1
  <2> QED BY <1>3, <2>2 DEF Grows
<1>8. Ordered(trace')
  <2>1. \A i \in 1..Len(trace) : trace[i] # r
    BY <1>1, <1>2, <1>3, <1>6, LoggedIdsIssued, NewRecord
  <2> QED BY <1>1, <1>3, <1>4, <1>6, <2>1, StaysOrdered DEF Logged, EventsLogged
<1>9. EventsLogged'
  <2>1. \A i \in 1..Len(trace') : trace'[i].at <= now
    BY <1>1, <1>3, <1>7 DEF Logged, EventsLogged
  <2>2. \A id \in IdsOn(trace', S) : id \in Nat /\ id < Issued'
    BY <1>1, <1>2, <1>7 DEF Logged, EventsLogged
  <2>3. pending' \subseteq IdsOn(trace', S)
    BY <1>1, <1>2, <1>7 DEF Logged, EventsLogged
  <2>4. /\ IdsOn(trace', D) = IdsOn(trace, D) /\ IdsOn(trace', C) = IdsOn(trace, C)
        /\ On(trace', D) = On(trace, D) /\ On(trace', C) = On(trace, C)
    BY <1>7
  <2>5. /\ IdsOn(trace', D) \cap pending' = {}
        /\ IdsOn(trace', C) \cap (pending' \ cancelled') = {}
        /\ IdsOn(trace', D) \cap IdsOn(trace', C) = {}
    BY <1>1, <1>2, <2>4, LoggedIdsIssued DEF Logged, EventsLogged, Outstanding
  <2>6. \A i \in On(trace', D) \cup On(trace', C) :
          \E j \in On(trace', S) : j < i /\ trace'[j].id = trace'[i].id
    <3> SUFFICES ASSUME NEW i \in On(trace, D) \cup On(trace, C)
                 PROVE  \E j \in On(trace', S) : j < i /\ trace'[j].id = trace'[i].id
      BY <2>4
    <3>1. PICK j \in On(trace, S) : j < i /\ trace[j].id = trace[i].id
      BY <1>1 DEF Logged, EventsLogged
    <3>2. i \in 1..Len(trace) /\ j \in 1..Len(trace)
      BY DEF On
    <3> QED BY <1>7, <3>1, <3>2
  <2>7. InHandler' => current'.id \in IdsOn(trace', D)
    BY <1>4, <1>5, <2>4 DEF InHandler
  <2>8. \A f \in queue' : f.cause # None => f.cause \in IdsOn(trace', D)
    <3>1. e.cause # None => e.cause \in IdsOn(trace, D)
      BY <1>5 DEF CurrentId
    <3> HIDE DEF e
    <3> QED BY <1>1, <1>2, <2>4, <3>1 DEF Logged, EventsLogged
  <2> QED BY <1>4, <2>1, <2>2, <2>3, <2>5, <2>6, <2>7, <2>8, Zenon DEF EventsLogged, Outstanding
<1>10. RunLogged'
  BY <1>1, <1>4, <1>5, <1>7 DEF Logged, RunLogged
<1> QED BY <1>7, <1>8, <1>9, <1>10 DEF Logged

(* TraceLog::append(). *)
LEMMA Appended ==
  ASSUME trace \in Seq(LogRecord), NEW r \in LogRecord, trace' = Append(trace, r)
  PROVE  Grows(trace, trace', r)
<1>1. Grows(trace, Append(trace, r), r)
  BY LogGrows
<1> QED BY <1>1

(* Times in the log are numbers. *)
LEMMA LogTimes ==
  ASSUME NEW log \in Seq(LogRecord)
  PROVE  \A i \in 1..Len(log) : log[i].at \in Nat
<1>1. \A i \in 1..Len(log) : log[i] \in LogRecord
  OBVIOUS
<1>2. \A r \in LogRecord : r.at \in Time
  BY DEF LogRecord
<1> QED BY <1>1, <1>2, KernelAssumption DEF Time

(* A step that records nothing, and only removes events. *)
LEMMA Unrecorded ==
  ASSUME IInv, Logged, IInv', trace' = trace, now <= now', pending' \subseteq pending,
         Outstanding' \subseteq Outstanding, queue' \subseteq queue, Issued' = Issued,
         InHandler' => current'.id \in IdsOn(trace, "Dispatched")
  PROVE  trace' \in Seq(LogRecord) /\ Ordered(trace') /\ EventsLogged'
<1>1. now \in Nat /\ now' \in Nat
  BY KernelAssumption DEF IInv, TypeOK, Time
<1>2. \A i \in 1..Len(trace) : trace[i].at <= now'
  <2>1. \A i \in 1..Len(trace) : trace[i].at \in Nat /\ trace[i].at <= now
    BY LogTimes DEF Logged, EventsLogged
  <2> QED BY <1>1, <2>1
<1>3. /\ IdsOn(trace, "Cancelled") \cap Outstanding' = {}
      /\ IdsOn(trace, "Dispatched") \cap pending' = {}
      /\ pending' \subseteq IdsOn(trace, "Scheduled")
      /\ \A e \in queue' : e.cause # None => e.cause \in IdsOn(trace, "Dispatched")
  BY DEF Logged, EventsLogged
<1>4. EventsLogged'
  BY <1>2, <1>3, SMTT(40) DEF Logged, EventsLogged
<1> QED BY <1>4 DEF Logged

(* A step that records the dispatch or the cancellation of an outstanding id. *)
LEMMA Settles ==
  ASSUME IInv, Logged, NEW r \in LogRecord, r.action \in {"Dispatched", "Cancelled"},
         r.id \in Outstanding, trace' = Append(trace, r), now <= r.at, now' = r.at,
         pending' \subseteq pending, Outstanding' = Outstanding \ {r.id},
         r.action = "Dispatched" => r.id \notin pending',
         queue' \subseteq queue, Issued' = Issued,
         InHandler' => \/ current'.id \in IdsOn(trace, "Dispatched")
                       \/ r.action = "Dispatched" /\ current'.id = r.id
  PROVE  Grows(trace, trace', r) /\ Ordered(trace') /\ EventsLogged'
<1> DEFINE S == "Scheduled"  D == "Dispatched"  C == "Cancelled"
<1>1. trace \in Seq(LogRecord) /\ Grows(trace, trace', r)
  BY Appended DEF Logged
<1>2. now \in Nat /\ r.at \in Nat /\ \A i \in 1..Len(trace) : trace[i].at \in Nat
  <2>1. r.at \in Time /\ now \in Time
    BY DEF LogRecord, IInv, TypeOK
  <2>2. \A i \in 1..Len(trace) : trace[i].at \in Nat
    BY <1>1, LogTimes
  <2> QED BY <2>1, <2>2, KernelAssumption DEF Time
<1>3. \A i \in 1..Len(trace) : trace[i].at <= r.at
  BY <1>2 DEF Logged, EventsLogged
<1>4. r.id \in pending /\ r.id \notin IdsOn(trace, D) /\ r.id \notin IdsOn(trace, C)
  BY DEF Logged, EventsLogged, Outstanding
<1>5. Ordered(trace')
  <2>1. \A i \in 1..Len(trace) : trace[i] # r
    BY <1>1, <1>4, NewRecord
  <2> QED BY <1>1, <1>3, <2>1, StaysOrdered DEF Logged
<1>6. /\ Len(trace) \in Nat /\ Len(trace') = Len(trace) + 1
      /\ \A i \in 1..Len(trace) : trace'[i] = trace[i]
      /\ trace'[Len(trace) + 1] = r
      /\ On(trace', S) = On(trace, S) /\ IdsOn(trace', S) = IdsOn(trace, S)
      /\ On(trace', D) \cup On(trace', C) = On(trace, D) \cup On(trace, C) \cup {Len(trace) + 1}
      /\ \/ IdsOn(trace', D) = IdsOn(trace, D) \cup {r.id} /\ IdsOn(trace', C) = IdsOn(trace, C)
         \/ IdsOn(trace', C) = IdsOn(trace, C) \cup {r.id} /\ IdsOn(trace', D) = IdsOn(trace, D)
            /\ r.action = C
      /\ IdsOn(trace, D) \subseteq IdsOn(trace', D)
      /\ r.action = D => r.id \in IdsOn(trace', D)
  <2>1. CASE r.action = D
    BY <1>1, <2>1 DEF Grows
  <2>2. CASE r.action = C
    BY <1>1, <2>2 DEF Grows
  <2> QED BY <2>1, <2>2
<1>7. \A i \in 1..Len(trace') : trace'[i].at <= now'
  BY <1>2, <1>3, <1>6
<1>8. pending' \subseteq IdsOn(trace', S)
  BY <1>6 DEF Logged, EventsLogged
<1>9. /\ IdsOn(trace', D) \cap pending' = {}
      /\ IdsOn(trace', C) \cap Outstanding' = {}
      /\ IdsOn(trace', D) \cap IdsOn(trace', C) = {}
  <2>1. CASE r.action = D
    <3>1. IdsOn(trace', D) = IdsOn(trace, D) \cup {r.id} /\ IdsOn(trace', C) = IdsOn(trace, C)
      BY <1>6, <2>1
    <3> QED BY <1>4, <2>1, <3>1 DEF Logged, EventsLogged
  <2>2. CASE r.action = C
    <3>1. IdsOn(trace', C) = IdsOn(trace, C) \cup {r.id} /\ IdsOn(trace', D) = IdsOn(trace, D)
      BY <1>1, <2>2 DEF Grows
    <3> QED BY <1>4, <3>1 DEF Logged, EventsLogged
  <2> QED BY <2>1, <2>2
<1>10. ASSUME NEW i \in On(trace', D) \cup On(trace', C)
       PROVE  \E j \in On(trace', S) : j < i /\ trace'[j].id = trace'[i].id
  <2>1. CASE i = Len(trace) + 1
    <3>1. PICK j \in On(trace, S) : trace[j].id = r.id
      BY <1>4 DEF Logged, EventsLogged, IdsOn
    <3>2. j \in 1..Len(trace)
      BY DEF On
    <3> QED BY <1>6, <2>1, <3>1, <3>2
  <2>2. CASE i \in On(trace, D) \cup On(trace, C)
    <3>1. PICK j \in On(trace, S) : j < i /\ trace[j].id = trace[i].id
      BY <2>2, SMTT(40) DEF Logged, EventsLogged
    <3>2. i \in 1..Len(trace) /\ j \in 1..Len(trace)
      BY <2>2 DEF On
    <3> QED BY <1>6, <3>1, <3>2, SMTT(40)
  <2> QED BY <1>6, <2>1, <2>2, Zenon
<1>11. \A e \in queue' : e.cause # None => e.cause \in IdsOn(trace', D)
  BY <1>6 DEF Logged, EventsLogged
<1>12. InHandler' => current'.id \in IdsOn(trace', D)
  BY <1>6
<1>13. \A id \in IdsOn(trace', S) : id \in Nat /\ id < Issued'
  BY <1>6 DEF Logged, EventsLogged
<1>14. EventsLogged'
  BY <1>7, <1>8, <1>9, <1>10, <1>11, <1>12, <1>13, Zenon DEF EventsLogged
<1> QED BY <1>1, <1>5, <1>14

(* A step that records something about the run and leaves the events alone. *)
LEMMA Notes ==
  ASSUME IInv, Logged, NEW r \in LogRecord,
         r.action \notin {"Scheduled", "Dispatched", "Cancelled"}, On(trace, r.action) = {},
         trace' = Append(trace, r), r.at = now,
         UNCHANGED <<now, pending, cancelled, queue, nextId, exhausted>>,
         InHandler' => current'.id \in IdsOn(trace, "Dispatched")
  PROVE  Grows(trace, trace', r) /\ Ordered(trace') /\ EventsLogged'
<1> DEFINE S == "Scheduled"  D == "Dispatched"  C == "Cancelled"
<1>1. trace \in Seq(LogRecord) /\ Grows(trace, trace', r)
  BY Appended DEF Logged
<1>2. \A i \in 1..Len(trace) : trace[i].at <= r.at
  BY DEF Logged, EventsLogged
<1>3. Ordered(trace')
  <2>1. \A i \in 1..Len(trace) : trace[i] # r
    BY DEF On
  <2> QED BY <1>1, <1>2, <2>1, StaysOrdered DEF Logged
<1>4. /\ Len(trace) \in Nat /\ Len(trace') = Len(trace) + 1
      /\ \A i \in 1..Len(trace) : trace'[i] = trace[i]
      /\ trace'[Len(trace) + 1] = r
      /\ On(trace', S) = On(trace, S) /\ IdsOn(trace', S) = IdsOn(trace, S)
      /\ On(trace', D) = On(trace, D) /\ IdsOn(trace', D) = IdsOn(trace, D)
      /\ On(trace', C) = On(trace, C) /\ IdsOn(trace', C) = IdsOn(trace, C)
  BY <1>1 DEF Grows
<1>5. \A i \in 1..Len(trace') : trace'[i].at <= now
  <2>1. now \in Nat
    BY KernelAssumption DEF IInv, TypeOK, Time
  <2> QED BY <1>2, <1>4, <2>1
<1>6. ASSUME NEW i \in On(trace', D) \cup On(trace', C)
      PROVE  \E j \in On(trace', S) : j < i /\ trace'[j].id = trace'[i].id
  <2>1. PICK j \in On(trace, S) : j < i /\ trace[j].id = trace[i].id
    BY <1>4 DEF Logged, EventsLogged
  <2>2. i \in 1..Len(trace) /\ j \in 1..Len(trace)
    BY <1>4, SMTT(40) DEF On
  <2> QED BY <1>4, <2>1, <2>2
<1>7. Issued' = Issued /\ Outstanding' = Outstanding
  BY DEF Issued, Outstanding
<1>8. EventsLogged'
  <2>1. /\ \A id \in IdsOn(trace', S) : id \in Nat /\ id < Issued'
        /\ pending' \subseteq IdsOn(trace', S)
        /\ IdsOn(trace', D) \cap pending' = {}
        /\ IdsOn(trace', C) \cap Outstanding' = {}
        /\ IdsOn(trace', D) \cap IdsOn(trace', C) = {}
        /\ \A e \in queue' : e.cause # None => e.cause \in IdsOn(trace', D)
    BY <1>4, <1>7 DEF Logged, EventsLogged
  <2> QED BY <1>4, <1>5, <1>6, <2>1, Zenon DEF EventsLogged
<1> QED BY <1>1, <1>3, <1>8

----------------------------------------------------------------------------
(* cancel() logs an event that was neither cancelled nor dispatched. *)
LEMMA CancelLogged ==
  ASSUME IInv, IInv', LogInv, traceOn, NEW id \in EventIds, Cancel(id)
  PROVE  Logged'
<1> DEFINE r == Record("Cancelled", id, now)
<1>1. Logged /\ result = None /\ now \in Nat
  BY KernelAssumption
  DEF LogInv, Logged, Cancel, MayCall, InHandler, IInv, LifecycleOK, TypeOK, Time
<1>2. /\ pending' = pending /\ Outstanding' = Outstanding \ {id} /\ id \in Outstanding
      /\ queue' = queue /\ now' = now /\ stopReason' = stopReason /\ result' = result
      /\ dispatched' = dispatched /\ cancelledCount' = cancelledCount + 1
      /\ Issued' = Issued /\ current' = current /\ lifecycle' = lifecycle
      /\ cancelledCount \in Nat
  BY DEF Cancel, Cancellable, Outstanding, Issued, IInv, TypeOK
<1>3. InHandler' => current'.id \in IdsOn(trace, "Dispatched")
  BY <1>1, <1>2 DEF Cancel, MayCall, InHandler, Logged, EventsLogged
<1>4. PICK ok \in BOOLEAN : /\ telemetryFailed' = (telemetryFailed \/ ~ok)
                            /\ trace' = Append1(traceOn /\ ok, r)
  BY Zenon DEF Cancel, EmitOutcomes, Emitted
<1>5. r \in LogRecord /\ r.action = "Cancelled" /\ r.id = id /\ r.at = now
  BY DEF Record, LogRecord, Actions, IInv, TypeOK
<1> HIDE DEF r
<1>6. CASE ok
  <2>1. trace' = Append(trace, r)
    BY <1>4, <1>6 DEF Append1
  <2>2. Grows(trace, trace', r) /\ Ordered(trace') /\ EventsLogged'
    BY <1>1, <1>2, <1>3, <1>5, <2>1, Settles
  <2>3. /\ trace' \in Seq(LogRecord)
        /\ On(trace', "Cancelled") = On(trace, "Cancelled") \cup {Len(trace) + 1}
        /\ On(trace', "StopRequested") = On(trace, "StopRequested")
        /\ On(trace', "Completed") = On(trace, "Completed")
        /\ On(trace', "Failed") = On(trace, "Failed")
        /\ On(trace', "Dispatched") = On(trace, "Dispatched")
    BY <1>5, <2>2 DEF Grows
  <2>4. Cardinality(On(trace', "Cancelled")) = Cardinality(On(trace, "Cancelled")) + 1
    BY <1>1, <2>3, PositionsCount DEF Logged
  <2>5. RunLogged'
    BY <1>1, <1>2, <1>4, <2>3, <2>4, Zenon DEF Logged, RunLogged
  <2> QED BY <2>2, <2>3, <2>5 DEF Logged
<1>7. CASE ~ok
  <2>1. trace' = trace /\ telemetryFailed'
    BY <1>4, <1>7, Zenon DEF Append1
  <2>2. trace' \in Seq(LogRecord) /\ Ordered(trace') /\ EventsLogged'
    BY <1>1, <1>2, <1>3, <2>1, Unrecorded
  <2>3. RunLogged'
    BY <1>1, <1>2, <2>1 DEF Logged, RunLogged
  <2> QED BY <2>2, <2>3 DEF Logged
<1> QED BY <1>6, <1>7

(* A dispatch logs an event that was neither cancelled nor dispatched. *)
LEMMA DispatchLogged ==
  ASSUME IInv, IInv', LogInv, traceOn, Dispatch
  PROVE  Logged'
<1> DEFINE e == First(queue)
           r == Record("Dispatched", e.id, e.timestamp)
<1>1. Logged /\ result = None
  BY DEF LogInv, Logged, Dispatch, LoopTop, IInv, LifecycleOK
<1>2. e \in queue /\ e \in Event
  BY PopTakesAnEvent DEF Dispatch, IInv, TypeOK
<1>3. /\ pending' = pending \ {e.id} /\ cancelled' = cancelled /\ e.id \notin cancelled
      /\ queue' = queue \ {e} /\ now' = e.timestamp /\ stopReason' = stopReason
      /\ result' = result /\ dispatched' = dispatched + 1 /\ cancelledCount' = cancelledCount
      /\ Issued' = Issued /\ current' = e /\ dispatched \in Nat
  BY DEF Dispatch, IsDispatchable, Issued, IInv, TypeOK
<1>4. PICK ok \in BOOLEAN : /\ telemetryFailed' = (telemetryFailed \/ ~ok)
                            /\ unwinding' = (~ok /\ lifecycle = "Running")
                            /\ trace' = Append1(traceOn /\ ok, r)
  BY Zenon DEF Dispatch, EmitOutcomes, Emitted
<1>5. lifecycle = "Running" /\ lifecycle' = lifecycle
  BY DEF Dispatch, LoopTop
<1> HIDE DEF e
<1>6. r \in LogRecord /\ r.action = "Dispatched" /\ r.id = e.id /\ r.at = e.timestamp
  <2>1. e.id \in EventIds /\ e.timestamp \in Time
    BY <1>2 DEF Event
  <2> QED BY <2>1 DEF Record, LogRecord, Actions
<1>7. now <= e.timestamp
  <2>1. e.timestamp >= now /\ e.timestamp \in Time /\ now \in Time
    BY <1>2 DEF IInv, BookkeepingAgrees, Event, TypeOK
  <2> QED BY <2>1, KernelAssumption DEF Time
<1>8. e.id \in Outstanding /\ Outstanding' = Outstanding \ {e.id}
  BY <1>2, <1>3 DEF Outstanding, IInv, BookkeepingAgrees, Ids
<1> HIDE DEF r
<1>9. CASE ok
  <2>1. trace' = Append(trace, r)
    BY <1>4, <1>9 DEF Append1
  <2>2. Grows(trace, trace', r) /\ Ordered(trace') /\ EventsLogged'
    BY <1>1, <1>3, <1>6, <1>7, <1>8, <2>1, Settles
  <2>3. /\ trace' \in Seq(LogRecord)
        /\ On(trace', "Dispatched") = On(trace, "Dispatched") \cup {Len(trace) + 1}
        /\ On(trace', "StopRequested") = On(trace, "StopRequested")
        /\ On(trace', "Completed") = On(trace, "Completed")
        /\ On(trace', "Failed") = On(trace, "Failed")
        /\ On(trace', "Cancelled") = On(trace, "Cancelled")
    BY <1>6, <2>2 DEF Grows
  <2>4. Cardinality(On(trace', "Dispatched")) = Cardinality(On(trace, "Dispatched")) + 1
    BY <1>1, <2>3, PositionsCount DEF Logged
  <2>5. RunLogged'
    BY <1>1, <1>3, <1>4, <2>3, <2>4, Zenon DEF Logged, RunLogged
  <2> QED BY <2>2, <2>3, <2>5 DEF Logged
<1>10. CASE ~ok
  <2>1. trace' = trace /\ telemetryFailed' /\ ~InHandler'
    BY <1>4, <1>5, <1>10, Zenon DEF Append1, InHandler
  <2>2. trace' \in Seq(LogRecord) /\ Ordered(trace') /\ EventsLogged'
    BY <1>1, <1>3, <1>7, <1>8, <2>1, Unrecorded
  <2>3. RunLogged'
    BY <1>1, <1>3, <2>1 DEF Logged, RunLogged
  <2> QED BY <2>2, <2>3 DEF Logged
<1> QED BY <1>9, <1>10

(* A discarded event has been logged when it was cancelled. *)
LEMMA DiscardLogged ==
  ASSUME IInv, IInv', LogInv, traceOn, DiscardCancelled
  PROVE  Logged'
<1>1. Logged /\ now \in Nat
  BY KernelAssumption DEF LogInv, Logged, IInv, TypeOK, Time
<1>2. /\ pending' \subseteq pending /\ Outstanding' = Outstanding /\ queue' \subseteq queue
      /\ trace' = trace /\ now' = now /\ Issued' = Issued /\ ~InHandler'
      /\ UNCHANGED <<stopReason, result, telemetryFailed, dispatched, cancelledCount>>
  BY DEF DiscardCancelled, IsDispatchable, Outstanding, Issued, InHandler, LoopTop
<1>3. trace' \in Seq(LogRecord) /\ Ordered(trace') /\ EventsLogged'
  BY <1>1, <1>2, Unrecorded
<1>4. RunLogged'
  BY <1>1, <1>2 DEF Logged, RunLogged
<1> QED BY <1>3, <1>4 DEF Logged

(* A stop request is logged once. *)
LEMMA StopLogged ==
  ASSUME IInv, IInv', LogInv, traceOn, NEW reason \in StopReasons, Stop(reason)
  PROVE  Logged'
<1> DEFINE r == Record("StopRequested", current.id, now)
<1>1. Logged /\ result = None /\ reason # None
  BY KernelAssumption DEF LogInv, Logged, Stop, InHandler, IInv, LifecycleOK
<1>2. /\ trace' = Append(trace, r) /\ stopReason = None /\ stopReason' = reason
      /\ UNCHANGED <<now, pending, cancelled, queue, nextId, exhausted, result, dispatched,
                     cancelledCount, current>>
      /\ InHandler /\ (telemetryFailed => telemetryFailed')
  BY Zenon DEF Stop, Append1, Emitted
<1>3. r \in LogRecord /\ r.action = "StopRequested" /\ r.at = now
  <2>1. current \in Event
    BY <1>2 DEF InHandler, IInv, TypeOK
  <2>2. current.id \in EventIds
    BY <2>1 DEF Event
  <2> QED BY <2>2 DEF Record, LogRecord, Actions, IInv, TypeOK
<1>4. current'.id \in IdsOn(trace, "Dispatched") /\ On(trace, r.action) = {}
  BY <1>1, <1>2, <1>3 DEF Logged, EventsLogged, RunLogged
<1> HIDE DEF r
<1>5. Grows(trace, trace', r) /\ Ordered(trace') /\ EventsLogged'
  BY <1>1, <1>2, <1>3, <1>4, Notes
<1>6. /\ trace' \in Seq(LogRecord)
      /\ On(trace', "Dispatched") = On(trace, "Dispatched")
      /\ On(trace', "Completed") = On(trace, "Completed")
      /\ On(trace', "Failed") = On(trace, "Failed")
      /\ On(trace', "Cancelled") = On(trace, "Cancelled")
  BY <1>3, <1>5 DEF Grows
<1>7. RunLogged'
  BY <1>1, <1>2, <1>6 DEF Logged, RunLogged
<1> QED BY <1>5, <1>6, <1>7 DEF Logged

(* A step that records nothing and leaves the events and the counts alone. *)
LEMMA QuietLogged ==
  ASSUME IInv, IInv', LogInv, traceOn,
         UNCHANGED <<trace, now, pending, cancelled, queue, nextId, exhausted, stopReason,
                     result, dispatched, cancelledCount>>,
         telemetryFailed => telemetryFailed',
         InHandler' => InHandler /\ current' = current
  PROVE  Logged'
<1>1. Logged /\ now \in Nat
  BY KernelAssumption DEF LogInv, Logged, IInv, TypeOK, Time
<1>2. Outstanding' = Outstanding /\ Issued' = Issued
  BY DEF Outstanding, Issued
<1>3. InHandler' => current'.id \in IdsOn(trace, "Dispatched")
  BY <1>1 DEF Logged, EventsLogged
<1>4. trace' \in Seq(LogRecord) /\ Ordered(trace') /\ EventsLogged'
  BY <1>1, <1>2, <1>3, Unrecorded
<1>5. RunLogged'
  BY <1>1 DEF Logged, RunLogged
<1> QED BY <1>4, <1>5 DEF Logged

(* The end of a run: its result is not empty, and it is the last record. *)
Statuses == {"Completed", "Stopped", "Failed"}

(* A result is not the absence of one. *)
LEMMA ResultIsSome ==
  ASSUME IInv, NEW status \in Statuses
  PROVE  Result(status) # None /\ Result(status).status = status
<1>1. Cardinality(pending) - Cardinality(cancelled) \in Int
  BY IdsAreFinite
<1> DEFINE n == Cardinality(pending) - Cardinality(cancelled)
<1> HIDE DEF n
<1>2. [status |-> status, pendingEvents |-> n] \in [status : Statuses, pendingEvents : Int]
  BY <1>1 DEF n
<1> QED BY <1>2, KernelAssumption DEF Result, n, Statuses

(* A terminal record is the last one of the log. *)
LEMMA EndLogged ==
  ASSUME IInv, IInv', LogInv, traceOn, lifecycle = "Running", ~InHandler',
         NEW status \in {"Completed", "Failed"}, result' = Result(status),
         NEW id \in EventIds \cup {None}, trace' = Append(trace, Record(status, id, now)),
         UNCHANGED <<now, pending, cancelled, queue, nextId, exhausted, stopReason,
                     dispatched, cancelledCount>>,
         telemetryFailed => telemetryFailed'
  PROVE  Logged'
<1> DEFINE r == Record(status, id, now)
<1>1. Logged /\ result = None
  BY DEF LogInv, Logged, IInv, LifecycleOK
<1>2. On(trace, "Completed") = {} /\ On(trace, "Failed") = {}
  BY <1>1 DEF Logged, RunLogged
<1>3. r \in LogRecord /\ r.action = status /\ r.at = now
  BY DEF Record, LogRecord, Actions, IInv, TypeOK
<1>4. result' # None /\ result'.status = status
  BY ResultIsSome DEF Statuses
<1>5. trace' = Append(trace, r)
  OBVIOUS
<1> HIDE DEF r
<1>6. Grows(trace, trace', r) /\ Ordered(trace') /\ EventsLogged'
  BY <1>1, <1>2, <1>3, <1>5, Notes
<1>7. /\ trace' \in Seq(LogRecord) /\ Len(trace') = Len(trace) + 1
      /\ On(trace', "Dispatched") = On(trace, "Dispatched")
      /\ On(trace', "StopRequested") = On(trace, "StopRequested")
      /\ On(trace', "Cancelled") = On(trace, "Cancelled")
      /\ On(trace', "Completed") \cup On(trace', "Failed") = {Len(trace) + 1}
  <2>1. CASE status = "Completed"
    BY <1>2, <1>3, <1>6, <2>1 DEF Grows
  <2>2. CASE status = "Failed"
    BY <1>2, <1>3, <1>6, <2>2 DEF Grows
  <2> QED BY <2>1, <2>2
<1>8. RunLogged'
  <2>1. On(trace', "Completed") \cup On(trace', "Failed") =
          IF result' # None /\ result'.status # "Stopped" THEN {Len(trace')} ELSE {}
    BY <1>4, <1>7
  <2> QED BY <1>1, <1>7, <2>1 DEF Logged, RunLogged
<1> QED BY <1>6, <1>7, <1>8 DEF Logged

(* What the terminal telemetry of a run may do. *)
LEMMA EmissionFacts ==
  ASSUME NEW transition, NEW emission \in TerminalEmissions(transition)
  PROVE  /\ emission.ok \in BOOLEAN
         /\ emission.obs = <<>> \/ emission.obs = <<transition>>
         /\ telemetryFailed => emission.obs = <<>>
         /\ emission.ok /\ telemetryOn /\ ~telemetryFailed => emission.obs = <<transition>>
<1>1. CASE ~telemetryOn \/ telemetryFailed
  <2>1. emission = [obs |-> <<>>, ok |-> TRUE]
    BY <1>1, Zenon DEF TerminalEmissions
  <2>2. emission.obs = <<>> /\ emission.ok = TRUE
    BY <2>1, Zenon
  <2> QED BY <1>1, <2>2, Zenon
<1>2. CASE ~(~telemetryOn \/ telemetryFailed)
  <2>1. \/ emission = [obs |-> <<transition>>, ok |-> TRUE]
        \/ emission = [obs |-> <<>>, ok |-> FALSE]
        \/ emission = [obs |-> <<transition>>, ok |-> FALSE]
    BY <1>2, Zenon DEF TerminalEmissions
  <2>2. \/ emission.obs = <<transition>> /\ emission.ok = TRUE
        \/ emission.obs = <<>> /\ emission.ok = FALSE
        \/ emission.obs = <<transition>> /\ emission.ok = FALSE
    <3> DEFINE o == <<transition>>
               y == TRUE
               n == FALSE
    <3>1. \/ emission = [obs |-> o, ok |-> y]
          \/ emission = [obs |-> <<>>, ok |-> n]
          \/ emission = [obs |-> o, ok |-> n]
      BY <2>1, Zenon
    <3> HIDE DEF o, y, n
    <3>2. \/ emission.obs = o /\ emission.ok = y
          \/ emission.obs = <<>> /\ emission.ok = n
          \/ emission.obs = o /\ emission.ok = n
      BY <3>1
    <3> QED BY <3>2, Zenon DEF o, y, n
  <2> QED BY <1>2, <2>2, Zenon
<1> QED BY <1>1, <1>2

(* run() reports an outcome once. *)
LEMMA ReportsOnce ==
  ASSUME NEW transition, NEW obs, obs = <<>> \/ obs = <<transition>>,
         NEW before, before = <<>> \/ obs = <<>>,
         before = <<>> \/ \E t : before = <<t>>
  PROVE  /\ before \o obs = <<>> \/ \E t : before \o obs = <<t>>
         /\ before = <<>> => before \o obs = obs
<1>1. CASE before = <<>> /\ obs = <<>>
  <2>1. <<>> \o <<>> = <<>>
    OBVIOUS
  <2> QED BY <1>1, <2>1, Zenon
<1>2. CASE before = <<>> /\ obs = <<transition>>
  <2>1. <<>> \o <<transition>> = <<transition>>
    OBVIOUS
  <2> QED BY <1>2, <2>1, Zenon
<1>3. CASE before # <<>> /\ obs = <<>>
  <2>1. PICK t : before = <<t>>
    BY <1>3
  <2>2. <<t>> \o <<>> = <<t>>
    OBVIOUS
  <2> QED BY <1>3, <2>1, <2>2, Zenon
<1> QED BY <1>1, <1>2, <1>3, Zenon

(* Until the run is over nothing has been reported. *)
LEMMA NothingReported ==
  ASSUME IInv, LogInv, ~unwinding, lifecycle # "Finished"
  PROVE  terminalObs = <<>> /\ result = None
BY DEF LogInv, OutcomeReported

(* A step of a run that goes on reports no outcome. *)
LEMMA OngoingKeepsLog ==
  ASSUME IInv, LogInv, ~unwinding, lifecycle # "Finished", lifecycle' # "Finished",
         UNCHANGED <<terminalObs, result, traceOn>>, traceOn => Logged',
         lifecycle' = "Created" => lifecycle = "Created" /\ current' = current
  PROVE  LogInv'
<1>1. terminalObs = <<>> /\ result = None
  BY NothingReported
<1>2. OutcomeReported'
  BY <1>1 DEF OutcomeReported
<1> QED BY <1>1, <1>2 DEF LogInv, Logged

(* finish() logs and reports the outcome once. *)
LEMMA FinishKeepsLog ==
  ASSUME IInv, IInv', LogInv, LoopTop, NEW status \in {"Completed", "Stopped"},
         Finish(status, Reported(status))
  PROVE  LogInv'
<1> DEFINE transition == Reported(status)
<1>2. PICK emission \in TerminalEmissions(transition) :
        /\ terminalObs' = terminalObs \o emission.obs
        /\ telemetryFailed' = (telemetryFailed \/ ~emission.ok)
        /\ unwinding' = (~emission.ok /\ lifecycle = "Running")
        /\ lifecycle' = IF emission.ok THEN "Finished" ELSE lifecycle
        /\ result' = IF emission.ok THEN Result(status) ELSE result
        /\ trace' = Append1(traceOn /\ emission.ok /\ status = "Completed",
                            Record("Completed", None, now))
  BY DEF Finish, Emitted
<1>3. UNCHANGED <<traceOn, telemetryOn, now, nextId, exhausted, queue, pending, cancelled,
                  current, stopReason, dispatched, cancelledCount>>
  BY DEF Finish, config
<1>4. /\ lifecycle = "Running" /\ ~unwinding /\ current = None /\ ~InHandler'
      /\ terminalObs = <<>> /\ result = None
  BY <1>3, NothingReported DEF LoopTop, InHandler
<1> HIDE DEF transition
<1>5. /\ emission.ok \in BOOLEAN
      /\ emission.obs = <<>> \/ emission.obs = <<transition>>
      /\ emission.ok /\ telemetryOn /\ ~telemetryFailed => emission.obs = <<transition>>
  BY <1>2, EmissionFacts
<1>6. /\ terminalObs' = emission.obs
      /\ terminalObs' = <<>> \/ \E t : terminalObs' = <<t>>
  BY <1>2, <1>4, <1>5, ReportsOnce
<1>7. CASE emission.ok
  <2>1. /\ lifecycle' = "Finished" /\ result' = Result(status)
        /\ telemetryFailed' = telemetryFailed
    <3>1. telemetryFailed \in BOOLEAN
      BY DEF IInv, TypeOK
    <3> QED BY <1>2, <1>7, <3>1
  <2>2. result' # None /\ result'.status = status
    BY <2>1, ResultIsSome DEF Statuses
  <2>3. OutcomeReported'
    BY <1>3, <1>5, <1>6, <1>7, <2>1, <2>2 DEF OutcomeReported, transition
  <2>4. ASSUME traceOn PROVE Logged'
    <3>1. CASE status = "Completed"
      <4>1. trace' = Append(trace, Record(status, None, now))
        BY <1>2, <1>7, <2>4, <3>1 DEF Append1
      <4> QED BY <1>3, <1>4, <2>1, <2>4, <3>1, <4>1, EndLogged
    <3>2. CASE status = "Stopped"
      <4>1. trace' = trace
        BY <1>2, <3>2 DEF Append1
      <4>2. Logged /\ Outstanding' = Outstanding /\ Issued' = Issued /\ now \in Nat
        BY <1>3, <2>4, KernelAssumption
        DEF LogInv, Logged, Outstanding, Issued, IInv, TypeOK, Time
      <4>3. trace' \in Seq(LogRecord) /\ Ordered(trace') /\ EventsLogged'
        BY <1>3, <1>4, <4>1, <4>2, Unrecorded
      <4>4. RunLogged'
        BY <1>3, <1>4, <2>1, <2>2, <3>2, <4>1, <4>2 DEF Logged, RunLogged
      <4> QED BY <4>3, <4>4 DEF Logged
    <3> QED BY <3>1, <3>2
  <2> QED BY <1>3, <2>1, <2>2, <2>3, <2>4 DEF LogInv, Logged
<1>8. CASE ~emission.ok
  <2>1. lifecycle' = lifecycle /\ result' = result /\ telemetryFailed' /\ unwinding'
    BY <1>2, <1>4, <1>8, Zenon
  <2>2. trace' = trace
    BY <1>2, <1>8 DEF Append1
  <2>3. OutcomeReported'
    BY <1>4, <1>6, <2>1 DEF OutcomeReported
  <2>4. ASSUME traceOn PROVE Logged'
    BY <1>3, <1>4, <2>1, <2>2, <2>4, QuietLogged
  <2> QED BY <1>3, <1>4, <2>1, <2>3, <2>4 DEF LogInv, Logged
<1> QED BY <1>5, <1>7, <1>8

(* fail() logs and reports the failure once, also after telemetry threw. *)
LEMMA FailKeepsLog ==
  ASSUME IInv, IInv', LogInv, Fail
  PROVE  LogInv'
<1> DEFINE transition == "RunFailed"
           r == Record("Failed", CurrentId, now)
<1>2. PICK emission \in TerminalEmissions(transition) :
        /\ terminalObs' = terminalObs \o emission.obs
        /\ telemetryFailed' = (telemetryFailed \/ ~emission.ok)
        /\ trace' = IF traceOn THEN trace \o <<r>> ELSE trace
  BY DEF Fail, FailedRecords
<1>3. UNCHANGED <<traceOn, telemetryOn, now, nextId, exhausted, queue, pending, cancelled,
                  stopReason, dispatched, cancelledCount>>
  BY DEF Fail, config
<1>4. /\ lifecycle = "Running" /\ unwinding /\ result = None /\ ~InHandler'
      /\ lifecycle' = "Finished" /\ result' = Result("Failed")
  BY DEF Fail, IInv, LifecycleOK, InHandler
<1> HIDE DEF transition
<1>5. /\ emission.ok \in BOOLEAN
      /\ emission.obs = <<>> \/ emission.obs = <<transition>>
      /\ telemetryFailed => emission.obs = <<>>
      /\ emission.ok /\ telemetryOn /\ ~telemetryFailed => emission.obs = <<transition>>
  BY <1>2, EmissionFacts
<1>6. /\ terminalObs = <<>> \/ \E t : terminalObs = <<t>>
      /\ terminalObs = <<>> \/ telemetryFailed
  BY <1>4 DEF LogInv, OutcomeReported
<1>7. terminalObs = <<>> \/ emission.obs = <<>>
  BY <1>5, <1>6
<1>8. /\ terminalObs' = <<>> \/ \E t : terminalObs' = <<t>>
      /\ terminalObs = <<>> => terminalObs' = emission.obs
  BY <1>2, <1>5, <1>6, <1>7, ReportsOnce
<1>9. result' # None /\ result'.status = "Failed"
  BY <1>4, ResultIsSome DEF Statuses
<1>10. OutcomeReported'
  <2>1. Reported("Failed") = transition
    BY DEF Reported, transition
  <2>2. telemetryOn' /\ ~telemetryFailed' => terminalObs' = <<transition>>
    BY <1>2, <1>3, <1>5, <1>6, <1>8, Zenon
  <2> QED BY <1>4, <1>8, <1>9, <2>1, <2>2 DEF OutcomeReported
<1>11. ASSUME traceOn PROVE Logged'
  <2>1. CurrentId \in EventIds \cup {None}
    <3>1. current \in Event => current.id \in EventIds
      BY DEF Event
    <3> QED BY <3>1 DEF CurrentId, IInv, TypeOK
  <2>2. trace \o <<r>> = Append(trace, r)
    <3>1. trace \in Seq(LogRecord)
      BY <1>11 DEF LogInv
    <3>2. r \in LogRecord
      BY <2>1 DEF Record, LogRecord, Actions, IInv, TypeOK
    <3> HIDE DEF r
    <3> QED BY <3>1, <3>2
  <2>3. trace' = Append(trace, Record("Failed", CurrentId, now))
    BY <1>2, <1>11, <2>2
  <2>4. telemetryFailed => telemetryFailed'
    BY <1>2, Zenon
  <2> QED BY <1>3, <1>4, <1>11, <2>1, <2>3, <2>4, EndLogged, Zenon
<1> QED BY <1>3, <1>4, <1>9, <1>10, <1>11 DEF LogInv, Logged

(* Every step keeps the log faithful. *)
LEMMA StepKeepsLog == IInv /\ IInv' /\ LogInv /\ [Next]_vars => LogInv'
<1> SUFFICES ASSUME IInv, IInv', LogInv, [Next]_vars PROVE LogInv'
  OBVIOUS
<1>1. ASSUME NEW timestamp \in Time, NEW priority \in Priorities,
             Schedule(timestamp, priority)
      PROVE  LogInv'
  <2>1. /\ ~unwinding /\ lifecycle # "Finished" /\ lifecycle' = lifecycle
        /\ UNCHANGED <<terminalObs, result, traceOn, current>>
    BY <1>1 DEF Schedule, MayCall, InHandler, IInv, LifecycleOK, config
  <2>2. traceOn => Logged'
    BY <1>1, ScheduleLogged
  <2> QED BY <2>1, <2>2, OngoingKeepsLog
<1>2. ASSUME NEW id \in EventIds, Cancel(id) PROVE LogInv'
  <2>1. /\ ~unwinding /\ lifecycle # "Finished" /\ lifecycle' = lifecycle
        /\ UNCHANGED <<terminalObs, result, traceOn, current>>
    BY <1>2 DEF Cancel, MayCall, InHandler, IInv, LifecycleOK, config
  <2>2. traceOn => Logged'
    BY <1>2, CancelLogged
  <2> QED BY <2>1, <2>2, OngoingKeepsLog
<1>3. CASE DiscardCancelled
  <2>1. /\ ~unwinding /\ lifecycle = "Running" /\ lifecycle' = lifecycle
        /\ UNCHANGED <<terminalObs, result, traceOn>>
    BY <1>3 DEF DiscardCancelled, LoopTop, config
  <2>2. traceOn => Logged'
    BY <1>3, DiscardLogged
  <2> QED BY <2>1, <2>2, OngoingKeepsLog
<1>4. CASE Dispatch
  <2>1. /\ ~unwinding /\ lifecycle = "Running" /\ lifecycle' = lifecycle
        /\ UNCHANGED <<terminalObs, result, traceOn>>
    BY <1>4 DEF Dispatch, LoopTop, config
  <2>2. traceOn => Logged'
    BY <1>4, DispatchLogged
  <2> QED BY <2>1, <2>2, OngoingKeepsLog
<1>5. ASSUME NEW reason \in StopReasons, Stop(reason) PROVE LogInv'
  <2>1. /\ ~unwinding /\ lifecycle = "Running" /\ lifecycle' = lifecycle
        /\ UNCHANGED <<terminalObs, result, traceOn>>
    BY <1>5 DEF Stop, InHandler, config
  <2>2. traceOn => Logged'
    BY <1>5, StopLogged
  <2> QED BY <2>1, <2>2, OngoingKeepsLog
<1>6. ASSUME NEW timestamp \in Time, ScheduleRefused(timestamp) PROVE LogInv'
  <2>1. /\ ~unwinding /\ lifecycle = "Running" /\ lifecycle' = lifecycle /\ ~InHandler'
        /\ UNCHANGED <<terminalObs, result, traceOn, trace, now, pending, cancelled, queue,
                       nextId, exhausted, stopReason, dispatched, cancelledCount,
                       telemetryFailed>>
    BY <1>6 DEF ScheduleRefused, InHandler, config
  <2>2. traceOn => Logged'
    BY <2>1, QuietLogged
  <2> QED BY <2>1, <2>2, OngoingKeepsLog
<1>7. CASE BeginRun
  <2>1. /\ ~unwinding /\ lifecycle = "Created" /\ lifecycle' = "Running" /\ ~InHandler'
        /\ UNCHANGED <<terminalObs, result, traceOn, trace, now, pending, cancelled, queue,
                       nextId, exhausted, stopReason, dispatched, cancelledCount>>
        /\ telemetryFailed => telemetryFailed'
    BY <1>7, Zenon DEF BeginRun, InHandler, IInv, LifecycleOK, LogInv, config
  <2>2. traceOn => Logged'
    BY <2>1, QuietLogged
  <2> QED BY <2>1, <2>2, OngoingKeepsLog
<1>8. CASE HandlerReturn
  <2>1. /\ ~unwinding /\ lifecycle = "Running" /\ lifecycle' = lifecycle /\ ~InHandler'
        /\ UNCHANGED <<terminalObs, result, traceOn, trace, now, pending, cancelled, queue,
                       nextId, exhausted, stopReason, dispatched, cancelledCount,
                       telemetryFailed>>
    BY <1>8 DEF HandlerReturn, InHandler, config
  <2>2. traceOn => Logged'
    BY <2>1, QuietLogged
  <2> QED BY <2>1, <2>2, OngoingKeepsLog
<1>9. CASE HandlerThrow
  <2>1. /\ ~unwinding /\ lifecycle = "Running" /\ lifecycle' = lifecycle /\ ~InHandler'
        /\ UNCHANGED <<terminalObs, result, traceOn, trace, now, pending, cancelled, queue,
                       nextId, exhausted, stopReason, dispatched, cancelledCount,
                       telemetryFailed>>
    BY <1>9 DEF HandlerThrow, InHandler, config
  <2>2. traceOn => Logged'
    BY <2>1, QuietLogged
  <2> QED BY <2>1, <2>2, OngoingKeepsLog
<1>10. CASE FinishCompleted
  <2>1. LoopTop /\ Finish("Completed", Reported("Completed"))
    BY <1>10 DEF FinishCompleted, Reported
  <2> QED BY <2>1, FinishKeepsLog
<1>11. CASE FinishStopped
  <2>1. LoopTop /\ Finish("Stopped", Reported("Stopped"))
    BY <1>11 DEF FinishStopped, Reported
  <2> QED BY <2>1, FinishKeepsLog
<1>12. CASE Fail
  BY <1>12, FailKeepsLog
<1>13. CASE UNCHANGED vars
  <2>1. Logged => Logged'
    BY <1>13 DEF vars, Logged, EventsLogged, RunLogged, InHandler, Issued, Outstanding
  <2> QED BY <1>13, <2>1, SMTT(40) DEF vars, LogInv, Logged, OutcomeReported
<1> QED
  BY <1>1, <1>2, <1>3, <1>4, <1>5, <1>6, <1>7, <1>8, <1>9, <1>10, <1>11, <1>12, <1>13
  DEF Next, RefusedAfterFinish

(* The trace is a faithful log of every run: in time order, without repeats, *)
(* each dispatch or cancellation after its schedule, each cause dispatched,  *)
(* one terminal record, nothing missing unless telemetry threw; and the      *)
(* outcome reported to telemetry is the one run() returns.                   *)
THEOREM KernelTraceFaithful == Spec => []TraceTellsTheRun
<1>1. Init => LogInv
  <2> SUFFICES ASSUME Init PROVE LogInv
    OBVIOUS
  <2>1. /\ trace = <<>> /\ terminalObs = <<>> /\ result = None /\ lifecycle = "Created"
        /\ current = None /\ pending = {} /\ queue = {} /\ dispatched = 0 /\ cancelledCount = 0
    BY DEF Init
  <2>2. <<>> \in Seq(LogRecord) /\ 1..Len(<<>>) = {}
    OBVIOUS
  <2>3. \A a : On(trace, a) = {} /\ IdsOn(trace, a) = {}
    BY <2>1, <2>2 DEF On, IdsOn
  <2>4. Ordered(trace)
    BY <2>1, <2>2, SMTT(40) DEF Ordered
  <2>5. EventsLogged
    BY <2>1, <2>2, <2>3 DEF EventsLogged, InHandler
  <2>6. RunLogged
    BY <2>1, <2>3, FS_EmptySet DEF RunLogged
  <2>7. OutcomeReported
    BY <2>1 DEF OutcomeReported
  <2> QED BY <2>1, <2>2, <2>4, <2>5, <2>6, <2>7 DEF LogInv
<1>2. LogInv => TraceTellsTheRun
  <2> SUFFICES ASSUME LogInv PROVE TraceTellsTheRun
    OBVIOUS
  <2>1. \A a : Traced(a) = On(trace, a) /\ TracedIds(a) = IdsOn(trace, a)
    BY DEF Traced, TracedIds, On, IdsOn
  <2>2. Len(terminalObs) <= 1
    <3>1. CASE terminalObs = <<>>
      BY <3>1
    <3>2. ASSUME NEW t, terminalObs = <<t>> PROVE Len(terminalObs) <= 1
      <4>1. Len(<<t>>) = 1
        OBVIOUS
      <4> QED BY <3>2, <4>1
    <3>3. terminalObs = <<>> \/ \E t : terminalObs = <<t>>
      BY DEF LogInv, OutcomeReported
    <3> QED BY <3>1, <3>2, <3>3
  <2>3. traceOn =>
          /\ \A i, j \in 1..Len(trace) : i < j => trace[i].at <= trace[j].at
          /\ \A i, j \in 1..Len(trace) : trace[i] = trace[j] => i = j
          /\ TracedIds("Dispatched") \cap TracedIds("Cancelled") = {}
          /\ \A i \in Traced("Dispatched") \cup Traced("Cancelled") :
               \E j \in Traced("Scheduled") : j < i /\ trace[j].id = trace[i].id
          /\ \A e \in queue : e.cause # None => e.cause \in TracedIds("Dispatched")
    BY <2>1 DEF LogInv, Ordered, EventsLogged
  <2>4. traceOn =>
          /\ Traced("Completed") \cup Traced("Failed") =
               IF result # None /\ result.status # "Stopped" THEN {Len(trace)} ELSE {}
          /\ ~telemetryFailed => /\ Cardinality(Traced("Dispatched")) = dispatched
                                 /\ Cardinality(Traced("Cancelled")) = cancelledCount
    BY <2>1 DEF LogInv, RunLogged
  <2> HIDE DEF LogInv
  <2>5. /\ result # None /\ telemetryOn /\ ~telemetryFailed =>
             terminalObs = <<Reported(result.status)>>
        /\ result # None /\ terminalObs # <<>> /\ result.status # "Failed" =>
             terminalObs = <<Reported(result.status)>>
    BY DEF LogInv, OutcomeReported
  <2> QED BY <2>2, <2>3, <2>4, <2>5, Zenon DEF TraceTellsTheRun
<1> QED
  BY KernelInvariant, StepKeepsLog, <1>1, <1>2, PTL DEF Spec

----------------------------------------------------------------------------
(* Lazy cancellation is invisible: the kernel implements EventScheduler,     *)
(* under the mapping of SimKernel in which the live events are those of the  *)
(* heap whose id is not in cancelled_ids_.                                   *)

(* What the abstract scheduler sees does not change. *)
LEMMA Stutter ==
  ASSUME UNCHANGED <<now, queue, cancelled, current, nextId, exhausted, stopReason, lifecycle>>
  PROVE  UNCHANGED Scheduler!svars
BY DEF Scheduler!svars, Live, Issued, phase

(* schedule() is a step of the eager scheduler. *)
LEMMA ScheduleAdds ==
  ASSUME IInv, NEW timestamp \in Time, NEW priority \in Priorities,
         Schedule(timestamp, priority)
  PROVE  Scheduler!Next
<1> DEFINE e == [timestamp |-> timestamp, priority |-> priority, id |-> nextId,
                 cause |-> CurrentId]
<1>1. /\ e \in Event /\ queue' = queue \cup {e} /\ cancelled' = cancelled
      /\ nextId \notin pending /\ Issued = nextId /\ Issued' = nextId + 1
  BY ScheduleFacts
<1>2. e \in Scheduler!LiveEvent
  BY <1>1 DEF Scheduler!LiveEvent, Event, Time, EventIds
<1>3. Live' = Live \cup {e}
  BY <1>1 DEF Live, IInv, BookkeepingAgrees
<1>4. phase = "open" \/ current # None
  BY DEF Schedule, MayCall, InHandler, phase
<1>5. /\ timestamp >= now /\ now' = now /\ current' = current
      /\ stopReason' = stopReason /\ lifecycle' = lifecycle
  BY SMTT(40) DEF Schedule
<1>6. Scheduler!Add(e)
  BY <1>1, <1>3, <1>4, <1>5 DEF Scheduler!Add, Scheduler!Callable, CurrentId, phase
<1> QED
  BY <1>2, <1>6 DEF Scheduler!Next

(* cancel() removes a live event. *)
LEMMA CancelRemoves ==
  ASSUME IInv, NEW id \in EventIds, Cancel(id)
  PROVE  Scheduler!Next
<1>1. PICK e \in queue : e.id = id
  BY Zenon DEF Cancel, Cancellable, IInv, BookkeepingAgrees, Ids
<1>2. e \in Live
  BY <1>1 DEF Cancel, Cancellable, Live
<1>3. Live' = Live \ {e}
  BY <1>1 DEF Cancel, Live, IInv, BookkeepingAgrees
<1>4. phase = "open" \/ current # None
  BY DEF Cancel, MayCall, InHandler, phase
<1>5. /\ now' = now /\ current' = current /\ Issued' = Issued
      /\ stopReason' = stopReason /\ lifecycle' = lifecycle
  BY DEF Cancel, Issued
<1>6. Scheduler!Remove(e)
  BY <1>3, <1>4, <1>5 DEF Scheduler!Remove, Scheduler!Callable, phase
<1> QED
  BY <1>2, <1>6, SMTT(40) DEF Scheduler!Next

(* Discarding a cancelled event changes no live event. *)
LEMMA DiscardStutters ==
  ASSUME IInv, DiscardCancelled
  PROVE  UNCHANGED Scheduler!svars
<1> DEFINE e == First(queue)
<1>1. e \in queue /\ e.id \in cancelled
  BY PopTakesAnEvent DEF DiscardCancelled, IsDispatchable
<1>2. queue' = queue \ {e} /\ cancelled' = cancelled \ {e.id}
  BY DEF DiscardCancelled
<1>3. Live' = Live
  <2> HIDE DEF e
  <2> QED BY <1>1, <1>2 DEF Live, IInv, BookkeepingAgrees
<1> QED
  BY <1>3 DEF DiscardCancelled, Scheduler!svars, Issued, phase

(* A dispatch delivers the first live event. *)
LEMMA DispatchDelivers ==
  ASSUME IInv, Dispatch
  PROVE  Scheduler!Next
<1> DEFINE e == First(queue)
<1>1. e \in queue /\ \A f \in queue \ {e} : Precedes(e, f)
  BY PopTakesAnEvent DEF Dispatch
<1>2. /\ queue' = queue \ {e} /\ cancelled' = cancelled /\ e.id \notin cancelled
      /\ now' = e.timestamp /\ current' = e /\ current = None
      /\ lifecycle = "Running" /\ lifecycle' = lifecycle
      /\ stopReason = None /\ stopReason' = stopReason /\ Issued' = Issued
  BY DEF Dispatch, IsDispatchable, LoopTop, Issued
<1> HIDE DEF e
<1>3. e \in Live /\ Live' = Live \ {e}
  BY <1>1, <1>2 DEF Live
<1>4. Scheduler!IsLeast(e, Live)
  BY <1>1 DEF Live, Scheduler!IsLeast, Precedes
<1>5. e.timestamp >= now
  BY <1>1 DEF IInv, BookkeepingAgrees
<1>6. Scheduler!Deliver(e)
  BY <1>2, <1>3, <1>4, <1>5 DEF Scheduler!Deliver, phase
<1> QED
  BY <1>3, <1>6 DEF Scheduler!Next

(* Every step is a step of the eager scheduler, or none for it. *)
LEMMA StepRefines == IInv /\ [Next]_vars => [Scheduler!Next]_(Scheduler!svars)
<1> SUFFICES ASSUME IInv, [Next]_vars
             PROVE  Scheduler!Next \/ UNCHANGED Scheduler!svars
  OBVIOUS
<1>1. ASSUME NEW timestamp \in Time, NEW priority \in Priorities,
             Schedule(timestamp, priority)
      PROVE  Scheduler!Next
  BY <1>1, ScheduleAdds
<1>2. ASSUME NEW id \in EventIds, Cancel(id) PROVE Scheduler!Next
  BY <1>2, CancelRemoves
<1>3. CASE DiscardCancelled
  BY <1>3, DiscardStutters
<1>4. CASE Dispatch
  BY <1>4, DispatchDelivers
<1>5. ASSUME NEW timestamp \in Time, ScheduleRefused(timestamp)
      PROVE  UNCHANGED Scheduler!svars
  BY <1>5, Stutter DEF ScheduleRefused
<1>6. ASSUME NEW reason \in StopReasons, Stop(reason) PROVE Scheduler!Next
  <2>1. reason # None
    BY KernelAssumption
  <2>2. Scheduler!Stop
    BY <1>6, <2>1 DEF Stop, InHandler, Scheduler!Stop, phase, Live, Issued
  <2> QED
    BY <2>2 DEF Scheduler!Next
<1>7. CASE BeginRun
  <2>1. Scheduler!Begin
    BY <1>7 DEF BeginRun, Scheduler!Begin, phase, Live, Issued, IInv, LifecycleOK
  <2> QED
    BY <2>1 DEF Scheduler!Next
<1>8. CASE HandlerReturn
  <2>1. Scheduler!Return
    BY <1>8 DEF HandlerReturn, InHandler, Scheduler!Return, phase, Live, Issued
  <2> QED
    BY <2>1 DEF Scheduler!Next
<1>9. CASE HandlerThrow
  BY <1>9, Stutter DEF HandlerThrow
<1>10. ASSUME NEW status, NEW transition, LoopTop, Finish(status, transition)
       PROVE  Scheduler!Next \/ UNCHANGED Scheduler!svars
  <2>1. UNCHANGED <<now, queue, cancelled, current, nextId, exhausted, stopReason>>
    BY <1>10 DEF Finish
  <2>2. lifecycle' = lifecycle \/ lifecycle' = "Finished"
    BY <1>10 DEF Finish
  <2>3. CASE lifecycle' = lifecycle
    BY <2>1, <2>3, Stutter
  <2>4. CASE lifecycle' = "Finished"
    <3>1. Scheduler!End
      BY <1>10, <2>1, <2>4 DEF LoopTop, Scheduler!End, phase, Live, Issued
    <3> QED
      BY <3>1 DEF Scheduler!Next
  <2> QED
    BY <2>2, <2>3, <2>4
<1>11. CASE Fail
  <2>1. Scheduler!End
    BY <1>11 DEF Fail, Scheduler!End, phase, Live, Issued, IInv, LifecycleOK
  <2> QED
    BY <2>1 DEF Scheduler!Next
<1>12. CASE UNCHANGED vars
  BY <1>12, Stutter DEF vars
<1> QED
  BY <1>1, <1>2, <1>3, <1>4, <1>5, <1>6, <1>7, <1>8, <1>9, <1>10, <1>11, <1>12
  DEF Next, FinishCompleted, FinishStopped, RefusedAfterFinish

(* The kernel implements the eager scheduler: seen through its live events,  *)
(* run() dispatches the least live event, never a cancelled one and never    *)
(* one twice, and the clock follows the dispatched events.                   *)
THEOREM KernelRefinesScheduler == Spec => ImplementsEagerScheduler
<1>1. Init => Scheduler!Init
  BY DEF Init, Scheduler!Init, Live, Issued, phase
<1> QED
  BY KernelInvariant, StepRefines, <1>1, PTL
  DEF Spec, ImplementsEagerScheduler, Scheduler!Spec

=============================================================================
