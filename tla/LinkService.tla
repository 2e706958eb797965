---------------------------- MODULE LinkService ----------------------------
(***************************************************************************)
(* One directed link under traffic and failures: the operations of         *)
(* DirectedLink in every order the kernel can call them.  At one instant   *)
(* the kernel runs link failures (Critical) before service completions     *)
(* (Control) before chunk arrivals (Normal).  The state of the link is     *)
(* what TransportRuntime keeps in services_, together with the completion  *)
(* event the kernel holds for it and the telemetry counters derived from   *)
(* its statistics (src/transport/telemetry.cpp).                           *)
(***************************************************************************)
EXTENDS DirectedLink, FiniteSets

CONSTANTS Config,     \* the link's DirectedLinkConfiguration
          ChunkSizes, \* sizes of the chunks that arrive
          MaxChunks,  \* bound on the number of arrivals
          MaxNow      \* bound on simulated time

ASSUME LinkAssumption ==
  /\ ChunkSizes \subseteq Nat \ {0}
  /\ ValidConfiguration(Config)
  /\ MaxChunks \in Nat
  /\ MaxNow \in Nat
  /\ None \notin Nat
  /\ None \notin [id : Nat, bytes : Nat, marked : BOOLEAN]

VARIABLES
  service,    \* the DirectedLinkService
  up,         \* the arc is operational
  now,        \* simulated time
  nextEvent,  \* the id the kernel gives to the next event
  scheduled,  \* completion events pending in the kernel
  offered,    \* all traffic that reached the link so far
  busyTicks,  \* time the serializer has held a chunk
  reported,   \* reported_busy_time_ns_
  metered     \* totals of the traffic counters sent to telemetry

vars == <<service, up, now, nextEvent, scheduled, offered, busyTicks, reported,
          metered>>

Completion(chunk) ==
  [id |-> nextEvent, at |-> now + SerializationDelay(Config, chunk.bytes),
   chunk |-> chunk.id]

Traffic(statistics) ==
  [enqueued |-> statistics.enqueued, completed |-> statistics.completed,
   marked |-> statistics.marked,
   droppedBufferFull |-> statistics.droppedBufferFull,
   droppedLinkDown |-> statistics.droppedLinkDown]

(* counter_delta, applied to every traffic pair: the later value minus the   *)
(* earlier one is added to the telemetry counter.                            *)
Delta(total, before, after) ==
  [bytes |-> total.bytes + (after.bytes - before.bytes),
   chunks |-> total.chunks + (after.chunks - before.chunks)]

(* emit_link_metrics: deltas of the traffic counters, and the busy time that *)
(* was not reported before.                                                  *)
EmitLinkMetrics(before, after) ==
  /\ metered' = [c \in DOMAIN metered |->
                   Delta(metered[c], Traffic(before)[c], Traffic(after)[c])]
  /\ reported' = after.busyTime

Init ==
  /\ service = IdleService
  /\ up = TRUE
  /\ now = 0
  /\ nextEvent = 0
  /\ scheduled = {}
  /\ offered = NoTraffic
  /\ busyTicks = 0
  /\ reported = 0
  /\ metered = Traffic(NoStatistics)

(* No event of a higher priority is due. *)
CompletionsDone == \A e \in scheduled : e.at > now

(* handle_arrival on an operational arc. *)
Arrive(bytes) ==
  LET chunk == [id |-> offered.chunks, bytes |-> bytes, marked |-> FALSE]
      next  == ServiceAdmit(Config, service, chunk, now, nextEvent)
  IN /\ up
     /\ CompletionsDone
     /\ offered.chunks < MaxChunks
     /\ service' = next
     /\ scheduled' = IF service.active = None THEN scheduled \cup {Completion(chunk)}
                                              ELSE scheduled
     /\ nextEvent' = IF service.active = None THEN nextEvent + 1 ELSE nextEvent
     /\ offered' = AddTraffic(offered, One(chunk))
     /\ EmitLinkMetrics(Statistics(service, now), Statistics(next, now))
     /\ UNCHANGED <<up, now, busyTicks>>

(* handle_arrival on an arc that is down. *)
ArriveDown(bytes) ==
  LET chunk == [id |-> offered.chunks, bytes |-> bytes, marked |-> FALSE]
      next  == RecordLinkDown(service, chunk)
  IN /\ ~up
     /\ CompletionsDone
     /\ offered.chunks < MaxChunks
     /\ service' = next
     /\ offered' = AddTraffic(offered, One(chunk))
     /\ EmitLinkMetrics(Statistics(service, now), Statistics(next, now))
     /\ UNCHANGED <<up, now, nextEvent, scheduled, busyTicks>>

(* handle_completion: the event is the one the service scheduled for its     *)
(* active chunk (the code throws otherwise).                                 *)
Complete(e) ==
  LET next == ServiceComplete(service, now, nextEvent)
      promoted == service.waiting # <<>>
  IN /\ e.at = now
     /\ service.completion = e.id
     /\ service.active # None
     /\ service.active.id = e.chunk
     /\ service' = next
     /\ scheduled' = (scheduled \ {e}) \cup
                     (IF promoted THEN {Completion(Head(service.waiting))} ELSE {})
     /\ nextEvent' = IF promoted THEN nextEvent + 1 ELSE nextEvent
     /\ EmitLinkMetrics(Statistics(service, now), Statistics(next, now))
     /\ UNCHANGED <<up, now, offered, busyTicks>>

(* Mutated form: the completion of the interrupted service is not cancelled. *)
AfterCancelNothing == scheduled

(* cancel() of the remembered completion event. *)
AfterCancel == {e \in scheduled : e.id # service.completion}

(* A link, port or switch failure: reconcile_down. *)
GoDown ==
  LET next == ReconcileDown(service, now)
  IN /\ up' = FALSE
     /\ service' = next
     /\ scheduled' = AfterCancel
     /\ EmitLinkMetrics(Statistics(service, now), Statistics(next, now))
     /\ UNCHANGED <<now, nextEvent, offered, busyTicks>>

(* Recovery leaves the transport state alone. *)
GoUp ==
  /\ up' = TRUE
  /\ UNCHANGED <<service, now, nextEvent, scheduled, offered, busyTicks,
                 reported, metered>>

(* The clock moves on when no completion is due. *)
Tick ==
  /\ now < MaxNow
  /\ CompletionsDone
  /\ now' = now + 1
  /\ busyTicks' = IF service.active = None THEN busyTicks ELSE busyTicks + 1
  /\ UNCHANGED <<service, up, nextEvent, scheduled, offered, reported, metered>>

Next ==
  \/ \E bytes \in ChunkSizes : Arrive(bytes)
  \/ \E bytes \in ChunkSizes : ArriveDown(bytes)
  \/ \E e \in scheduled : Complete(e)
  \/ GoDown
  \/ GoUp
  \/ Tick

Spec == Init /\ [][Next]_vars

----------------------------------------------------------------------------
SumBytes(chunks) ==
  LET sum[n \in 0..Len(chunks)] == IF n = 0 THEN 0 ELSE sum[n - 1] + chunks[n].bytes
  IN sum[Len(chunks)]

(* The serializer is work conserving and the kernel agrees with the service: *)
(* nothing waits while it is idle; while it is busy exactly one completion   *)
(* is pending, the one the service remembers, for the active chunk, at the   *)
(* end of its serialization; and a link that is down holds nothing.  With it *)
(* none of the logic errors of handle_completion and reconcile_down occurs.  *)
SerializerAgreesWithKernel ==
  /\ service.active = None => /\ service.waiting = <<>>
                              /\ service.completion = None
                              /\ service.busySince = None
                              /\ scheduled = {}
  /\ service.active # None =>
       /\ up
       /\ service.busySince # None
       /\ service.busySince <= now
       /\ scheduled = {[id |-> service.completion,
                        at |-> service.busySince +
                               SerializationDelay(Config, service.active.bytes),
                        chunk |-> service.active.id]}
       /\ \A e \in scheduled : e.at >= now

InService ==
  IF service.active = None THEN [bytes |-> 0, chunks |-> 0]
  ELSE [bytes |-> service.active.bytes, chunks |-> 1]

(* No byte and no chunk is lost or counted twice: what reached the link was  *)
(* serialized, is in the serializer, waits, or was dropped for one of the    *)
(* two reasons.  It holds only if the outcome that admit() books beforehand  *)
(* is the one the queue then decides on.  And waiting_bytes_ is the sum of   *)
(* the chunks in the buffer, within the capacity, so that the unsigned       *)
(* subtractions in admit() and complete_service() never wrap, and within the *)
(* recorded maxima.                                                          *)
TrafficConserved ==
  LET st == service.statistics
  IN /\ service.waitingBytes = SumBytes(service.waiting)
     /\ 0 <= service.waitingBytes /\ service.waitingBytes <= service.maxWaitingBytes
     /\ service.maxWaitingBytes <= Config.capacity
     /\ Len(service.waiting) <= service.maxWaitingChunks
     /\ offered.bytes = st.completed.bytes + InService.bytes + service.waitingBytes
                        + st.droppedBufferFull.bytes + st.droppedLinkDown.bytes
     /\ offered.chunks = st.completed.chunks + InService.chunks + Len(service.waiting)
                        + st.droppedBufferFull.chunks + st.droppedLinkDown.chunks

(* Busy time is exactly the time the serializer held a chunk, however        *)
(* services were interrupted by failures, and what telemetry was told never  *)
(* runs ahead of it (counter_delta would throw) and has caught up whenever   *)
(* the link is idle.                                                         *)
BusyTimeExact ==
  /\ Statistics(service, now).busyTime = busyTicks
  /\ reported <= busyTicks
  /\ service.active = None => reported = busyTicks
  /\ metered = Traffic(service.statistics)

=============================================================================
