----------------------------- MODULE Transport -----------------------------
(***************************************************************************)
(* The transport runtime (TransportRuntime: src/transport/runtime.cpp,     *)
(* progress.cpp, failure.cpp) on a small topology: chunks of transfers     *)
(* move hop by hop over directed links, each with its own serializer and   *)
(* buffer (module DirectedLink), while links, ports and switches go down   *)
(* and come back.  The kernel is used through what EventScheduler          *)
(* promises: the least live event is handled next and cancel() removes an  *)
(* event at once.                                                          *)
(***************************************************************************)
EXTENDS DirectedLink, EventOrder, FiniteSets, SequencesExt

CONSTANTS
  Arcs,         \* directed fabric links, as a sequence in DirectedLinkId order
  Config,       \* their configurations
  Source,       \* the node each arc leaves
  Destination,  \* the node each arc enters
  Link,         \* the physical link of each arc
  Ports,        \* the two ports of each arc
  Switches,     \* the switches among its end points
  Requests,     \* the transfers that may be submitted
  Registrations, \* the chunks a low-level caller may register
  MaximumChunks, MaximumRouteEntries, MaximumRouteHops,  \* TransportLimits
  MaxTime,      \* the largest simulated time
  MaxChanges,   \* bound on the scheduled state changes
  ChangeLeads   \* how far ahead of the clock they are scheduled

ArcSet == ToSet(Arcs)

ASSUME TransportAssumption ==
  /\ \A a \in ArcSet : ValidConfiguration(Config[a])
  /\ MaximumChunks > 0 /\ MaximumRouteEntries > 0 /\ MaximumRouteHops > 0
  /\ MaxTime \in Nat

Critical == 0
Control  == 64
Normal   == 128

LinkSet  == {Link[a] : a \in ArcSet}
Entities == LinkSet \cup UNION {Ports[a] \cup Switches[a] : a \in ArcSet}

VARIABLES
  now,          \* simulated time
  nextId,       \* the id of the next event
  events,       \* live events of the kernel
  state,        \* operational state of links, ports and switches
  services,     \* services_
  chunks,       \* chunks_, by chunk id
  transfers,    \* transfers_, by transfer id
  completions,  \* completions_
  taken,        \* what take_completed_transfers has returned so far
  changes,      \* number of state changes scheduled
  failed        \* the chunk whose handling overflowed the time, which ends the
                \* run, or None

vars == <<now, nextId, events, state, services, chunks, transfers, completions,
          taken, changes, failed>>

----------------------------------------------------------------------------
(* Topology.                                                                *)

(* TopologyGraph::is_operational: the link, both ports and the switches at   *)
(* its ends are up.                                                          *)
IsOperational(st, a) ==
  \A x \in {Link[a]} \cup Ports[a] \cup Switches[a] : st[x] = "Up"

(* validate_route: nonempty, within the hop limit, over configured arcs, and *)
(* contiguous.                                                               *)
ValidRoute(route) ==
  /\ Len(route) \in 1..MaximumRouteHops
  /\ \A i \in 1..Len(route) : route[i] \in ArcSet
  /\ \A i \in 1..Len(route) - 1 : Destination[route[i]] = Source[route[i + 1]]

(* The time after a chunk is serialized on an arc and has propagated. *)
AfterHop(arc, bytes, t) == t + SerializationDelay(Config[arc], bytes) + Config[arc].propagation

(* Mutated form: every hop is checked from the start. *)
TimingFitsEachHop(bytes, route, t) ==
  \A i \in DOMAIN route : AfterHop(route[i], bytes, t) <= MaxTime

(* validate_timing: the last of the hops ends within the range of time, if   *)
(* the chunk never waits.                                                    *)
TimingFits(bytes, route, t) ==
  FoldLeft(LAMBDA at, arc : AfterHop(arc, bytes, at), t, route) <= MaxTime

----------------------------------------------------------------------------
(* Chunk and transfer records, kept in a book: chunks, transfers and the     *)
(* completions not yet taken, with the clock and the queue of the kernel.    *)
(* The clock of the book is what context.now() returns.  A chunk             *)
(* remembers the event of its first arrival in `first` and whether it waited *)
(* in a buffer in `waited`, which the code does not keep and only the        *)
(* properties read.  Hops count from one.                                    *)

Book == [now |-> now, nextId |-> nextId, events |-> events, chunks |-> chunks,
         transfers |-> transfers, completions |-> completions]

(* The book when the handler of event e starts: it is e's time. *)
Popped(e) == [Book EXCEPT !.now = e.timestamp, !.events = @ \ {e}]

Saved(book) ==
  /\ now' = book.now
  /\ nextId' = book.nextId
  /\ events' = book.events
  /\ chunks' = book.chunks
  /\ transfers' = book.transfers
  /\ completions' = book.completions

(* The event is in the queue; its id is the next one of the book. *)
Schedule(book, event) == [book EXCEPT !.nextId = @ + 1, !.events = @ \cup {event}]

RouteEntries(book) == FoldLeft(LAMBDA n, c : n + Len(c.route), 0, book.chunks)

(* validate_capacity. *)
HasCapacity(book, count, hops) ==
  /\ count <= MaximumChunks - Len(book.chunks)
  /\ count * hops <= MaximumRouteEntries - RouteEntries(book)

Terminal(c) == c.state \in {"Delivered", "DroppedBufferFull", "DroppedLinkDown"}

Dropped(t) == AddTraffic(t.droppedBufferFull, t.droppedLinkDown)

(* Mutated form: the outcome of the last chunk decides. *)
OutcomeOfLast(t, final) == IF final = "Delivered" THEN "Succeeded" ELSE "Failed"

(* The outcome of a transfer whose chunks are all terminal. *)
Outcome(t, final) == IF Dropped(t).chunks = 0 THEN "Succeeded" ELSE "Failed"

(* record_terminal: chunk `id` ends in state `final`; the last chunk of a    *)
(* transfer completes it.                                                    *)
RecordTerminal(book, id, final) ==
  LET c == book.chunks[id]
      t == book.transfers[c.transfer]
      one == One(c)
      counted == CASE final = "Delivered" -> [t EXCEPT !.delivered = AddTraffic(@, one)]
                   [] final = "DroppedBufferFull" ->
                        [t EXCEPT !.droppedBufferFull = AddTraffic(@, one)]
                   [] final = "DroppedLinkDown" ->
                        [t EXCEPT !.droppedLinkDown = AddTraffic(@, one)]
      terminal == AddTraffic(counted.delivered, Dropped(counted))
      done == terminal.chunks = counted.total.chunks
      completion == [transfer |-> c.transfer, outcome |-> Outcome(counted, final),
                     at |-> book.now, delivered |-> counted.delivered]
      finished == IF done THEN [counted EXCEPT !.completion = completion] ELSE counted
  IN [book EXCEPT
        !.chunks[id].state = final,
        !.chunks[id].arrival = None,
        !.transfers[c.transfer] = finished,
        !.completions = IF done THEN Append(@, completion) ELSE @]

NewTransfer ==
  [chunks |-> <<>>, total |-> NoTraffic, delivered |-> NoTraffic,
   droppedBufferFull |-> NoTraffic, droppedLinkDown |-> NoTraffic,
   startedAt |-> None, completion |-> None]

(* register_chunk, after its checks. *)
Register(book, transfer, bytes, route) ==
  LET id == Len(book.chunks) + 1
      known == IF transfer > Len(book.transfers) THEN Append(book.transfers, NewTransfer)
                                                 ELSE book.transfers
  IN [book EXCEPT
        !.chunks = Append(@, [transfer |-> transfer, bytes |-> bytes, marked |-> FALSE,
                              route |-> route, state |-> "Registered", hop |-> 1,
                              arrival |-> None, first |-> None, waited |-> FALSE]),
        !.transfers = [known EXCEPT
                         ![transfer].chunks = Append(@, id),
                         ![transfer].total =
                            AddTraffic(@, [bytes |-> bytes, chunks |-> 1])]]

Arrival(id, at, chunk, hop) ==
  [kind |-> "arrival", timestamp |-> at, priority |-> Normal, id |-> id,
   chunk |-> chunk, hop |-> hop]

(* schedule_initial_arrival, after its checks; seals the transfer. *)
Started(book, id) ==
  [Schedule(book, Arrival(book.nextId, book.now, id, 1)) EXCEPT
     !.chunks[id].state = "AwaitingArrival",
     !.chunks[id].arrival = book.nextId,
     !.chunks[id].first = book.nextId,
     !.transfers[book.chunks[id].transfer].startedAt = IF @ = None THEN book.now ELSE @]

----------------------------------------------------------------------------
Init ==
  /\ now = 0
  /\ nextId = 0
  /\ events = {}
  /\ state = [x \in Entities |-> "Up"]
  /\ services = [a \in ArcSet |-> IdleService]
  /\ chunks = <<>>
  /\ transfers = <<>>
  /\ completions = <<>>
  /\ taken = <<>>
  /\ changes = 0
  /\ failed = None

(* Calls made by the handler of the event at `now`, or before the run.       *)

(* The sizes submit_transfer cuts a request into: full chunks, then the rest. *)
ChunkBytes(request) ==
  LET full == request.bytes \div request.maximumChunk
      rest == request.bytes % request.maximumChunk
  IN [i \in 1..full |-> request.maximumChunk] \o (IF rest = 0 THEN <<>> ELSE <<rest>>)

(* What submit_transfer checks before it registers anything. *)
MaySubmit(book, request) ==
  /\ ValidRoute(request.route)
  /\ Source[request.route[1]] = request.source
  /\ Destination[Last(request.route)] = request.destination
  /\ HasCapacity(book, Len(ChunkBytes(request)), Len(request.route))
  /\ \A bytes \in ToSet(ChunkBytes(request)) : TimingFits(bytes, request.route, book.now)

(* submit_transfer: all chunks are registered before the first is scheduled. *)
Submitted(book, request) ==
  LET sizes == ChunkBytes(request)
      id == Len(book.transfers) + 1
      registered == FoldLeft(LAMBDA b, bytes : Register(b, id, bytes, request.route),
                             book, sizes)
  IN FoldLeft(Started, registered, [i \in DOMAIN sizes |-> Len(book.chunks) + i])

SubmitTransfer(request) ==
  /\ failed = None
  /\ MaySubmit(Book, request)
  /\ Saved(Submitted(Book, request))
  /\ UNCHANGED <<state, services, taken, changes, failed>>

(* Mutated form: a sealed transfer still takes chunks. *)
MayRegisterAlways(transfer) == transfer <= Len(transfers) + 1

(* register_chunk accepts a new transfer id or one that has not started. *)
MayRegister(transfer) ==
  \/ transfer = Len(transfers) + 1
  \/ transfer <= Len(transfers) /\ transfers[transfer].startedAt = None

(* register_chunk, called directly; its timing is checked from time zero. *)
RegisterChunk(transfer, bytes, route) ==
  /\ failed = None
  /\ ValidRoute(route)
  /\ HasCapacity(Book, 1, Len(route))
  /\ TimingFits(bytes, route, 0)
  /\ MayRegister(transfer)
  /\ Saved(Register(Book, transfer, bytes, route))
  /\ UNCHANGED <<state, services, taken, changes, failed>>

(* schedule_initial_arrival, called directly. *)
ScheduleInitialArrival(id) ==
  /\ failed = None
  /\ chunks[id].state = "Registered"
  /\ TimingFits(chunks[id].bytes, chunks[id].route, now)
  /\ Saved(Started(Book, id))
  /\ UNCHANGED <<state, services, taken, changes, failed>>

(* schedule_{link,port,switch}_state_change. *)
ScheduleStateChange(target, to, at) ==
  /\ failed = None
  /\ changes < MaxChanges
  /\ at <= MaxTime
  /\ Saved(Schedule(Book, [kind |-> "change", timestamp |-> at, priority |-> Critical,
                           id |-> nextId, target |-> target, to |-> to]))
  /\ changes' = changes + 1
  /\ UNCHANGED <<state, services, taken, failed>>

(* take_completed_transfers. *)
TakeCompletedTransfers ==
  /\ completions # <<>>
  /\ taken' = taken \o completions
  /\ completions' = <<>>
  /\ UNCHANGED <<now, nextId, events, state, services, chunks, transfers, changes, failed>>

----------------------------------------------------------------------------
(* Handlers.  The event being handled is the kernel's least one.             *)

CompletionEvent(id, at, arc, chunk) ==
  [kind |-> "completion", timestamp |-> at, priority |-> Control, id |-> id,
   arc |-> arc, chunk |-> chunk.id, hop |-> chunk.hop]

InTransit(id) ==
  [id |-> id, bytes |-> chunks[id].bytes, hop |-> chunks[id].hop,
   marked |-> chunks[id].marked]

(* The checks at the top of handle_arrival; it throws when they fail. *)
ExpectedArrival(e) ==
  LET c == chunks[e.chunk]
  IN c.state = "AwaitingArrival" /\ c.arrival = e.id /\ c.hop = e.hop

(* handle_arrival past the last hop. *)
HandleDelivery(e) ==
  /\ e.kind = "arrival"
  /\ ExpectedArrival(e)
  /\ e.hop = Len(chunks[e.chunk].route) + 1
  /\ Saved(RecordTerminal(Popped(e), e.chunk, "Delivered"))
  /\ UNCHANGED <<state, services, taken, changes, failed>>

(* handle_arrival at an arc that is not operational. *)
HandleArrivalDown(e) ==
  /\ e.kind = "arrival"
  /\ ExpectedArrival(e)
  /\ e.hop <= Len(chunks[e.chunk].route)
  /\ LET arc == chunks[e.chunk].route[e.hop]
     IN /\ ~IsOperational(state, arc)
        /\ services' = [services EXCEPT ![arc] = RecordLinkDown(@, InTransit(e.chunk))]
  /\ Saved(RecordTerminal(Popped(e), e.chunk, "DroppedLinkDown"))
  /\ UNCHANGED <<state, taken, changes, failed>>

(* completion_time: what admit and schedule_completion throw on. *)
HopFits(arc, bytes, t) == AfterHop(arc, bytes, t) <= MaxTime

(* handle_arrival at an operational arc: the service admits the chunk, and   *)
(* starts it when idle, or drops it.                                         *)
HandleArrival(e) ==
  /\ e.kind = "arrival"
  /\ ExpectedArrival(e)
  /\ e.hop <= Len(chunks[e.chunk].route)
  /\ LET arc == chunks[e.chunk].route[e.hop]
         cfg == Config[arc]
         svc == services[arc]
         chunk == InTransit(e.chunk)
         disposition == Disposition(cfg, svc, chunk)
         done == e.timestamp + SerializationDelay(cfg, chunk.bytes)
         served == IF disposition = "ServiceStarted"
                   THEN Schedule(Popped(e), CompletionEvent(nextId, done, arc, chunk))
                   ELSE Popped(e)
     IN /\ IsOperational(state, arc)
        /\ HopFits(arc, chunk.bytes, e.timestamp)
        /\ services' = [services EXCEPT
                          ![arc] = ServiceAdmit(cfg, svc, chunk, e.timestamp, nextId)]
        /\ Saved(IF disposition = "DroppedBufferFull"
                 THEN RecordTerminal(served, e.chunk, "DroppedBufferFull")
                 ELSE [served EXCEPT
                   !.chunks[e.chunk].state = "Admitted",
                   !.chunks[e.chunk].arrival = None,
                   !.chunks[e.chunk].waited = @ \/ disposition = "Queued",
                   !.chunks[e.chunk].marked =
                      @ \/ (disposition = "Queued" /\ Marks(cfg, svc, chunk))])
  /\ UNCHANGED <<state, taken, changes, failed>>

(* The checks of both handle_completion functions. *)
ExpectedCompletion(e) ==
  LET c == chunks[e.chunk]
      svc == services[e.arc]
  IN /\ c.state = "Admitted" /\ c.hop = e.hop
     /\ e.hop <= Len(c.route) /\ c.route[e.hop] = e.arc
     /\ svc.completion = e.id /\ svc.active # None
     /\ svc.active.id = e.chunk /\ svc.active.hop = e.hop

(* The time at which a chunk that leaves the serializer reaches the far end. *)
Propagated(arc, at) == at + Config[arc].propagation

(* The chunk for which handle_completion finds no time, or None: the one     *)
(* that leaves, then the one that is promoted.                               *)
NoTimeFor(e) ==
  LET waiting == services[e.arc].waiting
  IN IF Propagated(e.arc, e.timestamp) > MaxTime THEN e.chunk
     ELSE IF waiting # <<>> /\ ~HopFits(e.arc, Head(waiting).bytes, e.timestamp)
          THEN Head(waiting).id ELSE None

(* handle_completion: the next waiting chunk starts, the completed one       *)
(* propagates to its next hop.                                               *)
HandleCompletion(e) ==
  /\ e.kind = "completion"
  /\ ExpectedCompletion(e)
  /\ NoTimeFor(e) = None
  /\ LET arc == e.arc
         svc == services[arc]
         next == Head(svc.waiting)
         done == e.timestamp + SerializationDelay(Config[arc], next.bytes)
         served == IF svc.waiting = <<>> THEN Popped(e)
                   ELSE Schedule(Popped(e), CompletionEvent(nextId, done, arc, next))
         arrival == Arrival(served.nextId, Propagated(arc, e.timestamp), e.chunk, e.hop + 1)
     IN /\ services' = [services EXCEPT ![arc] = ServiceComplete(svc, e.timestamp, nextId)]
        /\ Saved([Schedule(served, arrival) EXCEPT
                    !.chunks[e.chunk].state = "AwaitingArrival",
                    !.chunks[e.chunk].hop = @ + 1,
                    !.chunks[e.chunk].marked = svc.active.marked,
                    !.chunks[e.chunk].arrival = arrival.id])
  /\ UNCHANGED <<state, taken, changes, failed>>

Throw(e, chunk) ==
  /\ failed' = chunk
  /\ Saved(Popped(e))
  /\ UNCHANGED <<state, services, taken, changes>>

(* The time of a hop exceeds the range: admit() or handle_completion() throw *)
(* before anything but the kernel has changed, and the run ends.             *)
ArrivalOverflows(e) ==
  /\ e.kind = "arrival"
  /\ ExpectedArrival(e)
  /\ e.hop <= Len(chunks[e.chunk].route)
  /\ LET arc == chunks[e.chunk].route[e.hop]
     IN IsOperational(state, arc) /\ ~HopFits(arc, chunks[e.chunk].bytes, e.timestamp)
  /\ Throw(e, e.chunk)

CompletionOverflows(e) ==
  /\ e.kind = "completion"
  /\ ExpectedCompletion(e)
  /\ NoTimeFor(e) # None
  /\ Throw(e, NoTimeFor(e))

(* reconcile_down for each arc of a sequence (its completion is cancelled)   *)
(* and mark_dropped_link_down for what it drains, in a handler of event e.   *)
Reconcile(arcs, e) ==
  LET drained == FoldLeft(LAMBDA seq, a : seq \o Drained(services[a]), <<>>, arcs)
      cancelled == {services[a].completion : a \in ToSet(arcs)}
      left == [Popped(e) EXCEPT !.events = {f \in @ : f.id \notin cancelled}]
  IN /\ services' = [a \in ArcSet |-> IF a \in ToSet(arcs)
                                      THEN ReconcileDown(services[a], e.timestamp)
                                      ELSE services[a]]
     /\ Saved(FoldLeft(LAMBDA b, c : RecordTerminal(b, c.id, "DroppedLinkDown"),
                       left, drained))

(* Mutated form: only one direction is reconciled. *)
LinkArcsOneWay(link) == SubSeq(SelectSeq(Arcs, LAMBDA a : Link[a] = link), 1, 1)

(* The directions of a physical link: AToB, then BToA. *)
LinkArcs(link) == SelectSeq(Arcs, LAMBDA a : Link[a] = link)

(* handle_link_state_change: coming up changes only the topology. *)
HandleLinkStateChange(e) ==
  /\ e.kind = "change"
  /\ e.target \in LinkSet
  /\ state' = [state EXCEPT ![e.target] = e.to]
  /\ IF e.to = "Up"
     THEN Saved(Popped(e)) /\ UNCHANGED services
     ELSE Reconcile(LinkArcs(e.target), e)
  /\ UNCHANGED <<taken, changes, failed>>

(* handle_port_state_change, handle_switch_state_change: in both directions  *)
(* of the change, every arc that is now unavailable is reconciled.           *)
HandleNodeStateChange(e) ==
  /\ e.kind = "change"
  /\ e.target \notin LinkSet
  /\ state' = [state EXCEPT ![e.target] = e.to]
  /\ Reconcile(SelectSeq(Arcs, LAMBDA a :
                 ~IsOperational([state EXCEPT ![e.target] = e.to], a)), e)
  /\ UNCHANGED <<taken, changes, failed>>

Dispatch ==
  /\ events # {}
  /\ failed = None
  /\ LET e == First(events)
     IN \/ HandleDelivery(e)
        \/ HandleArrivalDown(e)
        \/ HandleArrival(e)
        \/ ArrivalOverflows(e)
        \/ HandleCompletion(e)
        \/ CompletionOverflows(e)
        \/ HandleLinkStateChange(e)
        \/ HandleNodeStateChange(e)

(* The queue is empty, or a handler threw: the run is over, in the first     *)
(* case unless more work is submitted.                                       *)
Quiescent == (events = {} \/ failed # None) /\ completions = <<>> /\ UNCHANGED vars

Next ==
  \/ \E request \in Requests : SubmitTransfer(request)
  \/ \E transfer \in 1..MaximumChunks, c \in Registrations :
       RegisterChunk(transfer, c.bytes, c.route)
  \/ \E id \in 1..Len(chunks) : ScheduleInitialArrival(id)
  \/ \E target \in Entities, to \in {"Up", "Down"}, lead \in ChangeLeads :
       ScheduleStateChange(target, to, now + lead)
  \/ TakeCompletedTransfers
  \/ Dispatch
  \/ Quiescent

(* run() takes the least event from the queue as long as there is one: only  *)
(* Dispatch does, and it is enabled as long as a live event exists and its   *)
(* handler does not throw.  The dispatcher that owns the runtime takes its   *)
(* completions after each event.                                             *)
Handled == events # {} /\ First(events) \notin events'

Spec ==
  /\ Init /\ [][Next]_vars
  /\ <>[](events # {} /\ failed = None) => []<><<Handled>>_vars
  /\ WF_vars(TakeCompletedTransfers)

----------------------------------------------------------------------------
Waits(id, a) == \E i \in 1..Len(services[a].waiting) : services[a].waiting[i].id = id
Served(id, a) == services[a].active # None /\ services[a].active.id = id
ArrivalsOf(id) == {e \in events : e.kind = "arrival" /\ e.chunk = id}

(* Every chunk is in exactly one place, the one its record names: a waiting  *)
(* arrival event, the serializer or the buffer of the arc at its hop, or     *)
(* nowhere once it is terminal.  Failures drain queues and cancel events     *)
(* while other chunks propagate, and none is left behind or duplicated.      *)
(* (A handler that threw has lost its event.)                                *)
ChunkInOnePlace ==
  failed = None => \A id \in 1..Len(chunks) :
    LET c == chunks[id]
        holding == {a \in ArcSet : Served(id, a) \/ Waits(id, a)}
    IN CASE c.state = "AwaitingArrival" ->
              /\ holding = {}
              /\ \E e \in events : ArrivalsOf(id) = {e} /\ ExpectedArrival(e)
         [] c.state = "Admitted" ->
              /\ ArrivalsOf(id) = {}
              /\ holding = {c.route[c.hop]}
              /\ ~(Served(id, c.route[c.hop]) /\ Waits(id, c.route[c.hop]))
         [] OTHER -> holding = {} /\ ArrivalsOf(id) = {}

(* The kernel and the services agree: every pending completion is the one    *)
(* its service expects, a busy serializer has one, and an arc that is not    *)
(* operational is empty, whatever combination of link, port and switch       *)
(* changes led there.  (A link that comes up does not reconcile.)            *)
ServicesAgreeWithKernel ==
  failed = None =>
  /\ \A e \in events : e.kind = "completion" => ExpectedCompletion(e)
  /\ \A e \in events : e.timestamp >= now
  /\ \A a \in ArcSet :
       /\ services[a].active = None => services[a].waiting = <<>>
       /\ services[a].active # None =>
            /\ IsOperational(state, a)
            /\ \E e \in events : e.kind = "completion" /\ e.id = services[a].completion

ChunksOf(t, S) == {id \in ToSet(transfers[t].chunks) : chunks[id].state \in S}
TrafficOf(ids) == [bytes |-> FoldSet(LAMBDA id, n : n + chunks[id].bytes, 0, ids),
                   chunks |-> Cardinality(ids)]

(* The counters of a transfer are the traffic of its chunks by final state,  *)
(* in bytes and in chunks; it has a completion exactly when all its chunks   *)
(* are terminal, which succeeded exactly when every byte was delivered; and  *)
(* that completion is handed out once, however many failures race with the   *)
(* last deliveries.  What is retained never exceeds its limits, also when    *)
(* several chunks are registered at once.                                    *)
TransfersAccounted ==
  /\ Len(chunks) <= MaximumChunks /\ RouteEntries(Book) <= MaximumRouteEntries
  /\ \A t \in 1..Len(transfers) :
       LET r == transfers[t]
           all == ToSet(r.chunks)
           terminal == {id \in all : Terminal(chunks[id])}
           handedOut == SelectSeq(taken \o completions, LAMBDA c : c.transfer = t)
       IN /\ r.total = TrafficOf(all)
          /\ r.delivered = TrafficOf(ChunksOf(t, {"Delivered"}))
          /\ r.droppedBufferFull = TrafficOf(ChunksOf(t, {"DroppedBufferFull"}))
          /\ r.droppedLinkDown = TrafficOf(ChunksOf(t, {"DroppedLinkDown"}))
          /\ (r.completion # None) = (terminal = all)
          /\ handedOut = IF r.completion = None THEN <<>> ELSE <<r.completion>>
          /\ r.completion # None =>
               (r.completion.outcome = "Succeeded") = (r.delivered = r.total)

LinkTotal(field) == FoldSet(LAMBDA a, n : n + services[a].statistics[field].chunks, 0, ArcSet)

(* Link statistics and chunk records tell the same story: every drop is      *)
(* booked at exactly one link under the reason the chunk ended with.         *)
DropsBookedOnce ==
  /\ LinkTotal("droppedBufferFull") =
       Cardinality({id \in 1..Len(chunks) : chunks[id].state = "DroppedBufferFull"})
  /\ LinkTotal("droppedLinkDown") =
       Cardinality({id \in 1..Len(chunks) : chunks[id].state = "DroppedLinkDown"})

(* Chunks that share a route never overtake each other: the one that was     *)
(* started later is never ahead of the earlier one while that one is still   *)
(* under way, whatever their sizes and whatever fails around them.           *)
NoOvertaking ==
  \A i, j \in 1..Len(chunks) :
    /\ chunks[i].route = chunks[j].route
    /\ chunks[i].first # None /\ chunks[j].first # None
    /\ chunks[i].first < chunks[j].first
    /\ ~Terminal(chunks[i])
    => chunks[j].hop <= chunks[i].hop

(* The timing that submission validates is kept: a chunk that never waited   *)
(* in a buffer finds time for each of its hops, so a handler throws only for *)
(* a chunk that was delayed by others, which validate_timing cannot know.    *)
OnlyQueueingOverflows == failed # None => chunks[failed].waited

(* Every transfer whose chunks have all been scheduled completes: nothing    *)
(* waits for ever behind a failed link, a full buffer or a lost event, as    *)
(* long as no handler threw.                                                 *)
TransfersComplete ==
  \A t \in 1..MaximumChunks :
    (t <= Len(transfers) /\ ChunksOf(t, {"Registered"}) = {})
      ~> (failed # None \/ \E i \in 1..Len(taken) : taken[i].transfer = t)

=============================================================================
