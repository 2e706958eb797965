--------------------------- MODULE RingCollective ---------------------------
(***************************************************************************)
(* Ring all-reduce (RingExecutor: src/collective/runtime.cpp, and the      *)
(* planner, src/collective/planner.cpp).  A collective runs a              *)
(* reduce-scatter and then an all-gather phase of P - 1 rounds each.  In a *)
(* round every rank sends one shard to its successor; the next round       *)
(* starts when all transfers of the round have ended.  A transfer between  *)
(* GPUs of one NIC is a local event, any other goes through the router,    *)
(* which may find no path, and the transport, which ends every transfer    *)
(* once and may lose part of it (module Transport).                        *)
(***************************************************************************)
EXTENDS Integers, FiniteSets, Sequences, FiniteSetsExt

CONSTANTS Requests,        \* collectives that may be submitted: the number of
                           \* participants, the bytes and the ranks whose
                           \* successor shares their NIC
          MaxCollectives,  \* maximum_collectives
          MaxParticipantEntries

ASSUME RingAssumption ==
  /\ \A r \in Requests : r.participants \in Nat \ {0} /\ r.bytes \in Nat \ {0}
  /\ MaxCollectives \in Nat \ {0} /\ MaxParticipantEntries \in Nat \ {0}

VARIABLES
  records,    \* records_, by collective id
  transfers,  \* transfers_ and locals_: what has been issued and not ended
  completed,  \* completed_
  taken       \* what take_completed has returned so far

vars == <<records, transfers, completed, taken>>

----------------------------------------------------------------------------
(* The planner.                                                             *)

PlannedVolume(p, bytes) == 2 * (p - 1) * bytes

(* Mutated form: the all-gather phase starts from the shard of the rank. *)
ShardUnshifted(p, phase, round, rank) == (rank + p - round) % p

(* The shard a rank sends in a round. *)
Shard(p, phase, round, rank) ==
  (rank + p - round + (IF phase = "AllGather" THEN 1 ELSE 0)) % p

(* Mutated form: the remainder is not distributed. *)
ShardBytesFloor(p, bytes, shard) == bytes \div p

ShardBytes(p, bytes, shard) ==
  bytes \div p + (IF shard < bytes % p THEN 1 ELSE 0)

(* plan_round, by rank; empty shards are planned but not sent. *)
PlanRound(p, bytes, phase, round) ==
  [rank \in 0..p - 1 |->
     LET shard == Shard(p, phase, round, rank)
     IN [source |-> rank, destination |-> (rank + 1) % p, shard |-> shard,
         bytes |-> ShardBytes(p, bytes, shard)]]

----------------------------------------------------------------------------
(* What the data would be: held[rank][shard] is the set of ranks whose       *)
(* contribution is reduced into the copy of the shard at a rank.  The code   *)
(* moves no data; the properties follow it through the plan.                 *)
InitialData(p) == [rank \in 0..p - 1 |-> [shard \in 0..p - 1 |-> {rank}]]

Incoming(r, t) == r.sent[t.source][t.shard]

(* A delivered shard is reduced into the receiver's copy, or replaces it. *)
Deliver(r, t) ==
  [r EXCEPT
     !.held[t.destination][t.shard] =
        IF r.phase = "ReduceScatter" THEN @ \cup Incoming(r, t) ELSE Incoming(r, t),
     !.doubled = @ \/ (r.phase = "ReduceScatter" /\
                       Incoming(r, t) \cap r.held[t.destination][t.shard] # {})]

----------------------------------------------------------------------------
Unfinished == "Unfinished"

NewRecord(request) ==
  [request |-> request, phase |-> "ReduceScatter", round |-> 0, pending |-> 0,
   failed |-> FALSE, cancelled |-> FALSE, finished |-> FALSE,
   planned |-> PlannedVolume(request.participants, request.bytes),
   issuedFabric |-> 0, issuedLocal |-> 0, delivered |-> 0,
   held |-> InitialData(request.participants),
   sent |-> InitialData(request.participants), doubled |-> FALSE]

(* Mutated form: a failure hides the cancellation. *)
FinishedFailureFirst(r) ==
  [r EXCEPT !.finished = TRUE,
            !.phase = IF r.failed THEN "Failed"
                      ELSE IF r.cancelled THEN "Cancelled" ELSE "Succeeded"]

(* finish(): a cancelled collective is cancelled even when it also failed. *)
Finished(r) ==
  [r EXCEPT !.finished = TRUE,
            !.phase = IF r.cancelled THEN "Cancelled"
                      ELSE IF r.failed THEN "Failed" ELSE "Succeeded"]

Result(id, r) == [collective |-> id, outcome |-> r.phase, delivered |-> r.delivered]

Local(r, t) == t.source \in r.request.colocated

(* The transfers of the round that start_round issues when the router finds  *)
(* no path for rank `stop`: those of the ranks before it.                    *)
Issued(r, stop) ==
  LET plan == PlanRound(r.request.participants, r.request.bytes, r.phase, r.round)
  IN {plan[rank] : rank \in {k \in DOMAIN plan : plan[k].bytes # 0 /\ k < stop}}

(* `stop` is the number of participants when every transfer finds a path;    *)
(* only a transfer over the fabric that is not empty asks the router.        *)
Stops(r) ==
  LET p == r.request.participants
      plan == PlanRound(p, r.request.bytes, r.phase, r.round)
  IN {p} \cup {k \in 0..p - 1 : plan[k].bytes # 0 /\ k \notin r.request.colocated}

SumOf(ts) == FoldSet(LAMBDA t, n : n + t.bytes, 0, ts)

(* start_round finishes the collective when it could issue nothing. *)
NothingPending(r) == r.pending = 0

(* start_round with issue(). *)
StartRound(r, stop) ==
  LET issued == Issued(r, stop)
      local == {t \in issued : Local(r, t)}
      begun == [r EXCEPT !.pending = @ + Cardinality(issued),
                         !.issuedLocal = @ + SumOf(local),
                         !.issuedFabric = @ + SumOf(issued \ local),
                         !.failed = @ \/ stop < r.request.participants,
                         !.sent = r.held]
  IN IF NothingPending(begun) THEN Finished(begun) ELSE begun

(* Pending entries of the transfers a round issues. *)
Entries(id, r, stop) ==
  {[collective |-> id, phase |-> r.phase, round |-> r.round, source |-> t.source,
    destination |-> t.destination, shard |-> t.shard, bytes |-> t.bytes] :
      t \in Issued(r, stop)}

(* advance() up to its call of start_round. *)
NextRound(r) ==
  IF r.round + 1 < r.request.participants - 1 THEN [r EXCEPT !.round = @ + 1]
  ELSE [r EXCEPT !.phase = "AllGather", !.round = 0]

LastRound(r) == r.phase = "AllGather" /\ r.round + 1 = r.request.participants - 1

(* Mutated form: a failed collective finishes without waiting for the rest   *)
(* of its round.                                                             *)
RoundOverOrFailed(r) == r.pending = 0 \/ r.failed

(* advance() waits for the other transfers of the round. *)
RoundOver(r) == r.pending = 0

(* advance(), for collective id with record r: it waits, finishes, or starts *)
(* the next round with the outcome `stop` of its routing.                    *)
Advance(id, r, others) ==
  \/ /\ ~RoundOver(r)
     /\ records' = [records EXCEPT ![id] = r]
     /\ transfers' = others
     /\ UNCHANGED completed
  \/ /\ RoundOver(r)
     /\ r.failed \/ r.cancelled \/ LastRound(r)
     /\ records' = [records EXCEPT ![id] = Finished(r)]
     /\ completed' = Append(completed, Result(id, Finished(r)))
     /\ transfers' = others
  \/ /\ RoundOver(r)
     /\ ~(r.failed \/ r.cancelled \/ LastRound(r))
     /\ \E stop \in Stops(NextRound(r)) :
          LET begun == StartRound(NextRound(r), stop)
          IN /\ records' = [records EXCEPT ![id] = begun]
             /\ transfers' = others \cup Entries(id, NextRound(r), stop)
             /\ completed' = IF begun.finished THEN Append(completed, Result(id, begun))
                                               ELSE completed

----------------------------------------------------------------------------
Init == records = <<>> /\ transfers = {} /\ completed = <<>> /\ taken = <<>>

ParticipantEntries ==
  FoldSet(LAMBDA i, n : n + records[i].request.participants, 0, DOMAIN records)

(* submit(): a single participant is done at once. *)
Submit(request) ==
  LET id == Len(records) + 1
      r == NewRecord(request)
  IN /\ Len(records) < MaxCollectives
     /\ request.participants <= MaxParticipantEntries - ParticipantEntries
     /\ \E stop \in IF request.participants = 1 THEN {1} ELSE Stops(r) :
          LET begun == IF request.participants = 1 THEN Finished(r) ELSE StartRound(r, stop)
          IN /\ records' = Append(records, begun)
             /\ transfers' = IF request.participants = 1 THEN transfers
                             ELSE transfers \cup Entries(id, r, stop)
             /\ completed' = IF begun.finished THEN Append(completed, Result(id, begun))
                                               ELSE completed
     /\ UNCHANGED taken

(* handle(LocalCompletionEvent): throws when the collective has moved on. *)
HandleLocal(t) ==
  LET r == records[t.collective]
  IN /\ Local(r, t)
     /\ r.round = t.round /\ r.phase = t.phase
     /\ Advance(t.collective,
                [Deliver(r, t) EXCEPT !.delivered = @ + t.bytes, !.pending = @ - 1],
                transfers \ {t})
     /\ UNCHANGED taken

(* handle(TransferCompletion): `bytes` of the transfer were delivered, the   *)
(* rest was dropped.                                                         *)
HandleTransfer(t, bytes) ==
  LET r == records[t.collective]
      whole == bytes = t.bytes
      got == IF whole THEN Deliver(r, t) ELSE r
  IN /\ ~Local(r, t)
     /\ Advance(t.collective,
                [got EXCEPT !.delivered = @ + bytes, !.failed = @ \/ ~whole,
                            !.pending = @ - 1],
                transfers \ {t})
     /\ UNCHANGED taken

(* cancel(): only marks; the transfers under way are drained. *)
Cancel(id) ==
  /\ ~records[id].finished
  /\ records' = [records EXCEPT ![id].cancelled = TRUE]
  /\ UNCHANGED <<transfers, completed, taken>>

(* take_completed(). *)
TakeCompleted ==
  /\ completed # <<>>
  /\ taken' = taken \o completed
  /\ completed' = <<>>
  /\ UNCHANGED <<records, transfers>>

(* All submitted collectives are over. *)
Idle == transfers = {} /\ completed = <<>> /\ UNCHANGED vars

TransferEnds ==
  \E t \in transfers : HandleLocal(t) \/ \E bytes \in 0..t.bytes : HandleTransfer(t, bytes)

Next ==
  \/ \E request \in Requests : Submit(request)
  \/ TransferEnds
  \/ \E id \in 1..Len(records) : Cancel(id)
  \/ TakeCompleted
  \/ Idle

(* Every transfer ends (TransfersComplete of module Transport, and the local *)
(* events of the kernel), and the dispatcher takes results after each event: *)
(* weak fairness of TransferEnds, whose steps are those that remove one.     *)
Ended == \E t \in transfers : t \notin transfers'

Spec ==
  /\ Init /\ [][Next]_vars
  /\ <>[](transfers # {}) => []<><<Ended>>_vars
  /\ WF_vars(TakeCompleted)

----------------------------------------------------------------------------
Outstanding(id) == {t \in transfers : t.collective = id}

(* The plan is an all-reduce: when a collective succeeds, every rank holds   *)
(* the contribution of every rank in every shard that has bytes, and no      *)
(* contribution was reduced twice on the way, in whatever order the          *)
(* transfers of a round ended and whichever shards were empty.               *)
AllReduced ==
  \A i \in 1..Len(records) :
    LET r == records[i]
        p == r.request.participants
    IN /\ ~r.doubled
       /\ r.phase = "Succeeded" =>
            \A rank, shard \in 0..p - 1 :
              ShardBytes(p, r.request.bytes, shard) # 0 => r.held[rank][shard] = 0..p - 1

(* Byte conservation, which finish() throws on: a collective that succeeds   *)
(* has delivered what was planned, and all of it was issued; before that     *)
(* what was issued is delivered or under way unless a transfer failed.       *)
BytesConserved ==
  \A i \in 1..Len(records) :
    LET r == records[i]
        issued == r.issuedFabric + r.issuedLocal
        underway == SumOf(Outstanding(i))
    IN /\ issued <= r.planned
       /\ r.delivered + underway <= issued
       /\ ~r.failed => r.delivered + underway = issued
       /\ r.phase = "Succeeded" => r.delivered = r.planned /\ issued = r.planned

(* A collective drains before it ends: its pending count is the number of    *)
(* its transfers under way, all of them of the current round, also after a   *)
(* failure or a cancellation, and none is left once it has finished.  So no  *)
(* local event is stale, and no outcome arrives for a finished collective.   *)
DrainsBeforeEnd ==
  \A i \in 1..Len(records) :
    LET r == records[i]
    IN /\ r.pending = Cardinality(Outstanding(i))
       /\ \A t \in Outstanding(i) : t.phase = r.phase /\ t.round = r.round
       /\ r.finished <=> r.pending = 0

(* What a caller of the executor sees of a collective, and of a result. *)
Call(r) ==
  [cancelled |-> r.cancelled, outcome |-> IF r.finished THEN r.phase ELSE Unfinished]

Answer(result) == [collective |-> result.collective, outcome |-> result.outcome]

Calls == [i \in DOMAIN records |-> Call(records[i])]
Ready == [i \in DOMAIN completed |-> Answer(completed[i])]
Told == [i \in DOMAIN taken |-> Answer(taken[i])]

Service == INSTANCE CollectiveService WITH
             MaxCalls <- MaxCollectives, None <- Unfinished,
             calls <- Calls, ready <- Ready, told <- Told

(* The executor keeps its promise to the jobs: every submitted collective    *)
(* ends, once, and is reported once with its final outcome, as cancelled     *)
(* exactly when it was cancelled before it ended, whatever its transfers do  *)
(* and also when a transfer failed; no round waits for a transfer that was   *)
(* never issued.                                                             *)
ImplementsService == Service!Contract

=============================================================================
