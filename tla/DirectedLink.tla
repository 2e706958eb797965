---------------------------- MODULE DirectedLink ----------------------------
(***************************************************************************)
(* One directed fabric link: DirectedLinkQueue and DirectedLinkService     *)
(* (src/transport/link_queue.cpp, src/transport/link_service.cpp) as       *)
(* operators on a service record.  A link has one serializer, which holds  *)
(* the active chunk, and a FIFO waiting buffer bounded in bytes.  The      *)
(* service decides what an admission will do from a snapshot of the queue, *)
(* books it in its statistics, and only then lets the queue decide.        *)
(***************************************************************************)
EXTENDS Integers, Sequences

CONSTANT None  \* an empty std::optional

(* validate_configuration.  The bandwidth is kept as the time per byte, so   *)
(* that serialization_delay is positive and grows with the size.             *)
ValidConfiguration(cfg) ==
  /\ cfg \in [capacity : Nat, threshold : Nat \cup {None}, delay : Nat \ {0},
              propagation : Nat]
  /\ cfg.threshold # None => 0 < cfg.threshold /\ cfg.threshold <= cfg.capacity

SerializationDelay(cfg, bytes) == bytes * cfg.delay

(* TrafficCount and add_traffic. *)
NoTraffic == [bytes |-> 0, chunks |-> 0]
AddTraffic(t, u) == [bytes |-> t.bytes + u.bytes, chunks |-> t.chunks + u.chunks]
One(chunk) == [bytes |-> chunk.bytes, chunks |-> 1]

NoStatistics ==
  [enqueued |-> NoTraffic, started |-> NoTraffic, completed |-> NoTraffic,
   marked |-> NoTraffic, droppedBufferFull |-> NoTraffic,
   droppedLinkDown |-> NoTraffic, busyTime |-> 0]

IdleService ==
  [active |-> None, waiting |-> <<>>, waitingBytes |-> 0,
   maxWaitingBytes |-> 0, maxWaitingChunks |-> 0,
   completion |-> None, busySince |-> None, statistics |-> NoStatistics]

MaxOf(a, b) == IF a >= b THEN a ELSE b

----------------------------------------------------------------------------
(* DirectedLinkQueue.                                                       *)

(* The chunk fits in what is left of the waiting buffer. *)
Fits(cfg, s, chunk) == chunk.bytes <= cfg.capacity - s.waitingBytes

(* The marking threshold is reached once the chunk is in the buffer. *)
Marks(cfg, s, chunk) ==
  cfg.threshold # None /\ s.waitingBytes + chunk.bytes >= cfg.threshold

(* admit(): what the queue decides. *)
Disposition(cfg, s, chunk) ==
  IF s.active = None THEN "ServiceStarted"
  ELSE IF Fits(cfg, s, chunk) THEN "Queued" ELSE "DroppedBufferFull"

(* Mutated form: chunks join at the front of the buffer. *)
QueueAdmitAtFront(cfg, s, chunk) ==
  CASE Disposition(cfg, s, chunk) = "ServiceStarted" -> [s EXCEPT !.active = chunk]
    [] Disposition(cfg, s, chunk) = "DroppedBufferFull" -> s
    [] OTHER -> [s EXCEPT !.waiting = <<chunk>> \o @,
                          !.waitingBytes = @ + chunk.bytes]

(* admit(): what the queue becomes. *)
QueueAdmit(cfg, s, chunk) ==
  CASE Disposition(cfg, s, chunk) = "ServiceStarted" -> [s EXCEPT !.active = chunk]
    [] Disposition(cfg, s, chunk) = "DroppedBufferFull" -> s
    [] OTHER ->
         LET admitted == s.waitingBytes + chunk.bytes
             queued == [chunk EXCEPT !.marked = @ \/ Marks(cfg, s, chunk)]
         IN [s EXCEPT !.waiting = Append(@, queued),
                      !.waitingBytes = admitted,
                      !.maxWaitingBytes = MaxOf(@, admitted),
                      !.maxWaitingChunks = MaxOf(@, Len(s.waiting) + 1)]

(* complete_service(): the head of the buffer moves to the serializer. *)
CompleteService(s) ==
  IF s.waiting = <<>> THEN [s EXCEPT !.active = None]
  ELSE [s EXCEPT !.active = Head(s.waiting),
                 !.waiting = Tail(@),
                 !.waitingBytes = @ - Head(s.waiting).bytes]

(* drain(): the maxima survive. *)
Drain(s) == [s EXCEPT !.active = None, !.waiting = <<>>, !.waitingBytes = 0]

(* Mutated form: the waiting chunks are not handed back. *)
DrainedActiveOnly(s) == IF s.active = None THEN <<>> ELSE <<s.active>>

(* The chunks drain() hands back, in the order they are marked dropped. *)
Drained(s) == (IF s.active = None THEN <<>> ELSE <<s.active>>) \o s.waiting

----------------------------------------------------------------------------
(* DirectedLinkService.                                                     *)

(* statistics(now): the service in progress counts as busy up to now. *)
Statistics(s, now) ==
  IF s.busySince = None THEN s.statistics
  ELSE [s.statistics EXCEPT !.busyTime = @ + (now - s.busySince)]

(* Mutated form: the drop is predicted from the whole capacity. *)
PredictedAdmissionStale(cfg, s, chunk) ==
  LET idle == s.active = None
      dropped == ~idle /\ chunk.bytes > cfg.capacity
  IN IF dropped
     THEN [s.statistics EXCEPT !.droppedBufferFull = AddTraffic(@, One(chunk))]
     ELSE [s.statistics EXCEPT !.enqueued = AddTraffic(@, One(chunk)),
             !.started = IF idle THEN AddTraffic(@, One(chunk)) ELSE @,
             !.marked = IF ~idle /\ Marks(cfg, s, chunk)
                        THEN AddTraffic(@, One(chunk)) ELSE @]

(* admit(): the statistics, computed from a snapshot before the queue acts. *)
PredictedAdmission(cfg, s, chunk) ==
  LET idle == s.active = None
      dropped == ~idle /\ chunk.bytes > cfg.capacity - s.waitingBytes
  IN IF dropped
     THEN [s.statistics EXCEPT !.droppedBufferFull = AddTraffic(@, One(chunk))]
     ELSE [s.statistics EXCEPT !.enqueued = AddTraffic(@, One(chunk)),
             !.started = IF idle THEN AddTraffic(@, One(chunk)) ELSE @,
             !.marked = IF ~idle /\ Marks(cfg, s, chunk)
                        THEN AddTraffic(@, One(chunk)) ELSE @]

(* admit(): an idle serializer takes the chunk, with `event` as the          *)
(* completion it scheduled.                                                  *)
ServiceAdmit(cfg, s, chunk, now, event) ==
  LET idle == s.active = None
  IN [QueueAdmit(cfg, s, chunk) EXCEPT
        !.statistics = PredictedAdmission(cfg, s, chunk),
        !.completion = IF idle THEN event ELSE @,
        !.busySince  = IF idle THEN now ELSE @]

(* handle_completion(): the busy interval closes; when a chunk waits, a new  *)
(* one opens, with `event` as its completion.                                *)
ServiceComplete(s, now, event) ==
  LET promoted == s.waiting # <<>>
      next == [Statistics(s, now) EXCEPT
                 !.completed = AddTraffic(@, One(s.active)),
                 !.started = IF promoted THEN AddTraffic(@, One(Head(s.waiting))) ELSE @]
  IN [CompleteService(s) EXCEPT
        !.statistics = next,
        !.completion = IF promoted THEN event ELSE None,
        !.busySince  = IF promoted THEN now ELSE None]

(* record_link_down(): a chunk that reached a link that is down. *)
RecordLinkDown(s, chunk) ==
  [s EXCEPT !.statistics.droppedLinkDown = AddTraffic(@, One(chunk))]

(* Mutated form: the statistics are not rolled forward, so the interrupted   *)
(* service leaves no busy time.                                              *)
ReconcileDownUnbilled(s, now) ==
  [Drain(s) EXCEPT
     !.statistics.droppedLinkDown =
        AddTraffic(@, [bytes |-> s.waitingBytes + (IF s.active = None THEN 0 ELSE s.active.bytes),
                       chunks |-> Len(s.waiting) + (IF s.active = None THEN 0 ELSE 1)]),
     !.completion = None,
     !.busySince = None]

(* Mutated form: the interrupted chunk is not counted as dropped. *)
ReconcileDownWaitingOnly(s, now) ==
  [Drain(s) EXCEPT
     !.statistics = [Statistics(s, now) EXCEPT
        !.droppedLinkDown =
           AddTraffic(@, [bytes |-> s.waitingBytes, chunks |-> Len(s.waiting)])],
     !.completion = None,
     !.busySince = None]

(* reconcile_down(): active and waiting chunks are dropped, the busy         *)
(* interval closes and the scheduled completion is given up (the caller      *)
(* cancels it).                                                              *)
ReconcileDown(s, now) ==
  LET waiting == [bytes |-> s.waitingBytes, chunks |-> Len(s.waiting)]
      dropped == IF s.active = None THEN waiting ELSE AddTraffic(waiting, One(s.active))
  IN [Drain(s) EXCEPT
        !.statistics = [Statistics(s, now) EXCEPT
                          !.droppedLinkDown = AddTraffic(@, dropped)],
        !.completion = None,
        !.busySince = None]

=============================================================================
