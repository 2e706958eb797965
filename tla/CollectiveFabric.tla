-------------------------- MODULE CollectiveFabric --------------------------
(***************************************************************************)
(* Ring collectives over the transport: RingExecutor                       *)
(* (src/collective/runtime.cpp) submits the transfers of a round to the    *)
(* transport runtime of module Transport, and the dispatcher               *)
(* (workload/dispatcher.hpp) hands their outcomes back after every event.  *)
(* Where module RingCollective lets a transfer end as it likes, here it    *)
(* ends as its chunks do; the module shows that this is an implementation  *)
(* of RingCollective, what it assumes of the transport included.  The      *)
(* router is reduced to its answer: some path all of whose arcs are        *)
(* operational, or none (module Routing has the choice).  The jobs are the *)
(* callers of submit() and cancel(), in a handler at the current time.     *)
(***************************************************************************)
EXTENDS Transport

CONSTANTS
  Collectives,    \* requests: those of RingCollective, with the NIC of every
                  \* rank (by rank + 1) and the chunk size
  MaxCollectives, MaxParticipantEntries,
  Paths,          \* Paths[source, destination]: the routes between two NICs
  LocalDelay,     \* time per byte on a NIC (local_bandwidth)
  LocalLatency    \* local_latency

Nic(request, rank) == request.nics[rank + 1]

ASSUME CollectiveFabricAssumption ==
  /\ LocalDelay \in Nat /\ LocalLatency \in Nat
  /\ \A c \in Collectives :
       /\ Len(c.nics) = c.participants /\ c.chunk > 0
       /\ c.colocated = {k \in 0..c.participants - 1 :
                           Nic(c, k) = Nic(c, (k + 1) % c.participants)}

VARIABLES
  records,   \* records_, by collective id
  owned,     \* transfers_: for a transfer of the transport, what it is part of
  locals,    \* locals_: the same for the event of a transfer on one NIC
  results,   \* completed_
  reported,  \* what take_completed has returned so far
  handled    \* how many of the outcomes the dispatcher has taken it has handed over

executor == <<records, owned, locals, results, reported, handled>>
everything == <<vars, executor>>

Entries == {owned[t] : t \in DOMAIN owned} \cup {locals[e] : e \in DOMAIN locals}

Ring == INSTANCE RingCollective WITH
          Requests <- Collectives, transfers <- Entries, completed <- results,
          taken <- reported

----------------------------------------------------------------------------
(* Rounds.  A handler works on the record r of collective id, the two maps,  *)
(* the results and the book of the transport.                                *)

Work(book, id, r) ==
  [book |-> book, id |-> id, r |-> r, owned |-> owned, locals |-> locals, results |-> results]

Store(w) ==
  /\ records' = IF w.id > Len(records) THEN Append(records, w.r)
                                       ELSE [records EXCEPT ![w.id] = w.r]
  /\ owned' = w.owned /\ locals' = w.locals /\ results' = w.results
  /\ Saved(w.book)

(* finish() *)
Finish(w) ==
  LET ended == Ring!Finished(w.r)
  IN [w EXCEPT !.r = ended, !.results = Append(@, Ring!Result(w.id, ended))]

Usable(source, destination) ==
  {route \in Paths[source, destination] :
     \A i \in DOMAIN route : IsOperational(state, route[i])}

(* The plan of the round r is in, and those of its transfers that have bytes *)
(* and need a route.                                                         *)
Plan(r) == Ring!PlanRound(r.request.participants, r.request.bytes, r.phase, r.round)

Routed(r) == {k \in DOMAIN Plan(r) : Plan(r)[k].bytes # 0 /\ k \notin r.request.colocated}

(* What the router may answer for each of them; <<>> is no route. *)
Answers(r) ==
  {answer \in [Routed(r) -> {<<>>} \cup UNION {Paths[x] : x \in DOMAIN Paths}] :
     \A k \in Routed(r) :
       LET usable == Usable(Nic(r.request, k), Nic(r.request, Plan(r)[k].destination))
       IN answer[k] \in (IF usable = {} THEN {<<>>} ELSE usable)}

With(f, x, y) == [z \in DOMAIN f \cup {x} |-> IF z = x THEN y ELSE f[z]]

Entry(w, t) ==
  [collective |-> w.id, phase |-> w.r.phase, round |-> w.r.round, source |-> t.source,
   destination |-> t.destination, shard |-> t.shard, bytes |-> t.bytes]

LocalCompletion(w, t) ==
  [kind |-> "local", timestamp |-> w.book.now + t.bytes * LocalDelay + LocalLatency,
   priority |-> Control, id |-> w.book.nextId]

TransferRequest(r, t, route) ==
  [bytes |-> t.bytes, maximumChunk |-> r.request.chunk, route |-> route,
   source |-> Nic(r.request, t.source), destination |-> Nic(r.request, t.destination)]

(* issue() for transfer t of the plan. *)
Issue(w, t, answer) ==
  IF t.source \in w.r.request.colocated
  THEN [w EXCEPT !.book = Schedule(@, LocalCompletion(w, t)),
                 !.locals = With(@, w.book.nextId, Entry(w, t)),
                 !.r.issuedLocal = @ + t.bytes,
                 !.r.pending = @ + 1]
  ELSE IF answer[t.source] = <<>> THEN [w EXCEPT !.r.failed = TRUE]
  ELSE [w EXCEPT !.book = Submitted(@, TransferRequest(w.r, t, answer[t.source])),
                 !.owned = With(@, Len(w.book.transfers) + 1, Entry(w, t)),
                 !.r.issuedFabric = @ + t.bytes,
                 !.r.pending = @ + 1]

(* Mutated form: the round goes on after a transfer that found no route. *)
IssuesRegardless(w, t) == t.bytes # 0

(* start_round() issues what has bytes until a transfer finds no route. *)
Issues(w, t) == t.bytes # 0 /\ ~w.r.failed

(* start_round() *)
StartRound(w, answer) ==
  LET plan == Plan(w.r)
      begun == FoldLeft(LAMBDA v, k : IF Issues(v, plan[k - 1]) THEN Issue(v, plan[k - 1], answer)
                                                               ELSE v,
                        [w EXCEPT !.r.sent = w.r.held],
                        [k \in 1..w.r.request.participants |-> k])
  IN IF begun.r.pending = 0 THEN Finish(begun) ELSE begun

(* advance() *)
Advance(w) ==
  IF w.r.pending # 0 THEN Store(w)
  ELSE IF w.r.failed \/ w.r.cancelled \/ Ring!LastRound(w.r) THEN Store(Finish(w))
  ELSE \E answer \in Answers(Ring!NextRound(w.r)) :
         Store(StartRound([w EXCEPT !.r = Ring!NextRound(@)], answer))

----------------------------------------------------------------------------
FabricInit ==
  /\ Init
  /\ records = <<>> /\ results = <<>> /\ reported = <<>>
  /\ owned = <<>> /\ locals = <<>>
  /\ handled = 0

(* pump() has nothing more to hand over: the handler of an event is done. *)
Pumped == completions = <<>> /\ handled = Len(taken) /\ results = <<>>

(* submit() *)
Submit(request) ==
  LET w == Work(Book, Len(records) + 1, Ring!NewRecord(request))
  IN /\ handled = Len(taken) /\ completions = <<>>
     /\ Len(records) < MaxCollectives
     /\ request.participants <= MaxParticipantEntries - Ring!ParticipantEntries
     /\ IF request.participants = 1 THEN Store(Finish(w))
        ELSE \E answer \in Answers(w.r) : Store(StartRound(w, answer))
     /\ UNCHANGED <<state, services, taken, changes, failed, reported, handled>>

(* cancel() *)
Cancel(id) ==
  /\ handled = Len(taken) /\ completions = <<>>
  /\ ~records[id].finished
  /\ records' = [records EXCEPT ![id].cancelled = TRUE]
  /\ UNCHANGED <<vars, owned, locals, results, reported, handled>>

(* handle(LocalCompletionEvent), which throws when the event is stale. *)
HandleLocal ==
  /\ Pumped /\ events # {} /\ failed = None
  /\ LET e == First(events)
         t == locals[e.id]
         r == records[t.collective]
         w == Work(Popped(e), t.collective,
                   [Ring!Deliver(r, t) EXCEPT !.delivered = @ + t.bytes, !.pending = @ - 1])
     IN /\ e.kind = "local"
        /\ r.round = t.round /\ r.phase = t.phase
        /\ Advance([w EXCEPT !.locals = [x \in DOMAIN @ \ {e.id} |-> @[x]]])
  /\ UNCHANGED <<state, services, taken, changes, failed, reported, handled>>

(* Mutated form: all the bytes of the transfer count as delivered. *)
DeliveredAll(c) == transfers[c.transfer].total.bytes

(* The bytes an outcome adds to what the collective has delivered. *)
DeliveredBytes(c) == c.delivered.bytes

(* The checks of handle(TransferCompletion), which throws otherwise. *)
Expected(c) ==
  c.transfer \in DOMAIN owned /\ transfers[c.transfer].total.bytes = owned[c.transfer].bytes

(* handle(TransferCompletion), called by pump() for each outcome it took. *)
HandleTransfer ==
  /\ completions = <<>> /\ handled < Len(taken)
  /\ LET c == taken[handled + 1]
         t == owned[c.transfer]
         whole == c.outcome = "Succeeded"
         r == records[t.collective]
         w == Work(Book, t.collective,
                   [IF whole THEN Ring!Deliver(r, t) ELSE r EXCEPT
                      !.delivered = @ + DeliveredBytes(c),
                      !.failed = @ \/ ~whole,
                      !.pending = @ - 1])
     IN /\ Expected(c)
        /\ Advance([w EXCEPT !.owned = [x \in DOMAIN @ \ {c.transfer} |-> @[x]]])
  /\ handled' = handled + 1
  /\ UNCHANGED <<state, services, taken, changes, failed, reported>>

(* take_completed() *)
TakeCompleted ==
  /\ completions = <<>> /\ handled = Len(taken) /\ results # <<>>
  /\ reported' = reported \o results
  /\ results' = <<>>
  /\ UNCHANGED <<vars, records, owned, locals, handled>>

(* An event of the fabric, or a state change scheduled before the run. *)
Fabric ==
  /\ UNCHANGED executor
  /\ \/ Pumped /\ Dispatch
     \/ TakeCompletedTransfers
     \/ now = 0 /\ Pumped /\ \E target \in Entities, to \in {"Up", "Down"}, at \in ChangeLeads :
          ScheduleStateChange(target, to, at)

Over == events = {} /\ Pumped /\ UNCHANGED everything

FabricNext ==
  \/ Fabric
  \/ \E request \in Collectives : Submit(request)
  \/ \E id \in 1..Len(records) : Cancel(id)
  \/ HandleLocal \/ HandleTransfer \/ TakeCompleted
  \/ Over

(* run() handles events and pump() hands over as long as there is something: *)
(* weak fairness of those steps, which take something away.                  *)
Busy == events # {} \/ ~Pumped

Progress ==
  \/ events # {} /\ First(events) \notin events'
  \/ completions # <<>> /\ completions' = <<>>
  \/ handled' # handled
  \/ reported' # reported

FabricSpec ==
  FabricInit /\ [][FabricNext]_everything /\ (<>[]Busy => []<><<Progress>>_everything)

----------------------------------------------------------------------------
(* Collectives over the transport are those of RingCollective: every round   *)
(* issues its transfers in rank order up to the first without a route, waits *)
(* for all outcomes the fabric gives them, and every collective ends, also   *)
(* when links fail under its chunks or between its rounds.                   *)
ImplementsRing == Ring!Spec

Unhandled ==
  {t \in DOMAIN transfers : transfers[t].completion = None}
  \cup {taken[i].transfer : i \in handled + 1..Len(taken)}
  \cup {c.transfer : c \in ToSet(completions)}

SumOver(S, f) == FoldSet(LAMBDA x, n : n + f[x], 0, S)

(* The books of the executor and of the transport agree after every step:    *)
(* each transfer whose outcome has not been handed over belongs to one       *)
(* collective, with its bytes, each local entry has its event, and what the  *)
(* collectives count as delivered is what the fabric and the local events    *)
(* delivered.  So no outcome is unowned or counted twice, a collective that  *)
(* has finished, even cancelled, has no chunk left in the fabric, and none   *)
(* is pending when the queue is exhausted, where run_training() throws.      *)
(* Whichever event ends a round, what the next one issues is not due before  *)
(* that event, so the clock of the kernel never goes back.                   *)
BooksAgree ==
  /\ DOMAIN owned = Unhandled
  /\ \A t \in DOMAIN owned : owned[t].bytes = transfers[t].total.bytes
  /\ DOMAIN locals = {e.id : e \in {f \in events : f.kind = "local"}}
  /\ \A x \in Entries : ~records[x.collective].finished
  /\ \A e \in events : e.timestamp >= now
  /\ events = {} /\ Pumped => \A i \in DOMAIN records : records[i].finished
  /\ SumOver(DOMAIN records, [i \in DOMAIN records |-> records[i].delivered]) =
       SumOver(1..handled, [i \in 1..handled |-> taken[i].delivered.bytes])
       + SumOver(DOMAIN records, [i \in DOMAIN records |-> records[i].issuedLocal])
       - SumOver(DOMAIN locals, [e \in DOMAIN locals |-> locals[e].bytes])

=============================================================================
