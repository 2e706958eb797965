----------------------------- MODULE RingProofs -----------------------------
(***************************************************************************)
(* For rings of every size, any number of collectives, and transfers that  *)
(* end in any order and with any outcome: a collective drains before it    *)
(* ends, and the executor implements CollectiveService.                    *)
(***************************************************************************)
EXTENDS RingCollective, FiniteSetTheorems, TLAPS

Fields == {"request", "phase", "round", "pending", "failed", "cancelled", "finished",
           "planned", "issuedFabric", "issuedLocal", "delivered", "held", "sent", "doubled"}

(* What the control of a collective needs of its record. *)
IsRecord(r) ==
  /\ r = [f \in Fields |-> r[f]]
  /\ r.request \in Requests
  /\ r.pending \in Nat
  /\ r.cancelled \in BOOLEAN /\ r.finished \in BOOLEAN

IsSequence(s) == \E S : s \in Seq(S)

(* DrainsBeforeEnd with the types it needs, and no transfer without its      *)
(* collective.                                                               *)
Draining ==
  /\ IsSequence(records) /\ IsSequence(completed) /\ IsSequence(taken)
  /\ \A i \in 1..Len(records) : IsRecord(records[i])
  /\ IsFiniteSet(transfers)
  /\ \A t \in transfers : t.collective \in 1..Len(records)
  /\ DrainsBeforeEnd

----------------------------------------------------------------------------
(* Sequences. *)

(* A sequence is a function on 1..Len. *)
LEMMA SequenceFacts ==
  ASSUME NEW s, IsSequence(s)
  PROVE  Len(s) \in Nat /\ DOMAIN s = 1..Len(s) /\ s = [i \in 1..Len(s) |-> s[i]]
BY DEF IsSequence

(* Append extends a sequence by one element. *)
LEMMA AppendFacts ==
  ASSUME NEW s, NEW e, IsSequence(s)
  PROVE  /\ IsSequence(Append(s, e))
         /\ Len(Append(s, e)) = Len(s) + 1
         /\ \A i \in 1..Len(s) : Append(s, e)[i] = s[i]
         /\ Append(s, e)[Len(s) + 1] = e
         /\ Append(s, e) = [i \in 1..Len(s) + 1 |-> IF i = Len(s) + 1 THEN e ELSE s[i]]
<1>1. PICK S : s \in Seq(S)
  BY DEF IsSequence
<1>2. s \in Seq(S \cup {e}) /\ e \in S \cup {e}
  BY <1>1
<1>3. Append(s, e) \in Seq(S \cup {e})
  BY <1>2
<1>4. IsSequence(Append(s, e))
  BY <1>3 DEF IsSequence
<1>5. /\ Len(Append(s, e)) = Len(s) + 1
      /\ \A i \in 1..Len(s) : Append(s, e)[i] = s[i]
      /\ Append(s, e)[Len(s) + 1] = e
  BY <1>2
<1>6. Append(s, e) = [i \in 1..Len(s) + 1 |-> Append(s, e)[i]]
  BY <1>4, <1>5, SequenceFacts, Zenon
<1>7. Len(s) \in Nat
  BY <1>1
<1>8. \A i \in 1..Len(s) + 1 : Append(s, e)[i] = IF i = Len(s) + 1 THEN e ELSE s[i]
  BY <1>5, <1>7
<1> QED BY <1>4, <1>5, <1>6, <1>8

(* What the caller sees of results is a sequence as long as theirs. *)
LEMMA ViewFacts ==
  ASSUME Draining
  PROVE  /\ IsSequence(Calls) /\ Len(Calls) = Len(records)
         /\ IsSequence(Ready) /\ Len(Ready) = Len(completed)
         /\ IsSequence(Told) /\ Len(Told) = Len(taken)
<1>1. /\ Len(records) \in Nat /\ DOMAIN records = 1..Len(records)
      /\ Len(completed) \in Nat /\ DOMAIN completed = 1..Len(completed)
      /\ Len(taken) \in Nat /\ DOMAIN taken = 1..Len(taken)
  BY SequenceFacts DEF Draining
<1>2. /\ Calls = [i \in 1..Len(records) |-> Calls[i]]
      /\ Ready = [i \in 1..Len(completed) |-> Ready[i]]
      /\ Told = [i \in 1..Len(taken) |-> Told[i]]
  BY <1>1 DEF Calls, Ready, Told
<1>3. ASSUME NEW n \in Nat, NEW s, s = [i \in 1..n |-> s[i]]
      PROVE  IsSequence(s) /\ Len(s) = n
  <2>1. s \in [1..n -> {s[i] : i \in 1..n}]
    BY <1>3
  <2>2. s \in Seq({s[i] : i \in 1..n})
    BY <2>1
  <2>3. IsSequence(s)
    BY <2>2 DEF IsSequence
  <2>4. DOMAIN s = 1..n /\ DOMAIN s = 1..Len(s) /\ Len(s) \in Nat
    BY <2>1, <2>3, SequenceFacts
  <2> QED BY <2>3, <2>4
<1> QED BY <1>1, <1>2, <1>3, Zenon

(* A result added to completed_ is added to what the caller can take. *)
LEMMA ReadyAppends ==
  ASSUME Draining, NEW c, completed' = Append(completed, c)
  PROVE  Ready' = Append(Ready, Answer(c))
<1> DEFINE n == Len(completed)
<1>1. /\ n \in Nat /\ DOMAIN completed = 1..n
      /\ completed' = [i \in 1..n + 1 |-> IF i = n + 1 THEN c ELSE completed[i]]
  BY SequenceFacts, AppendFacts DEF Draining
<1>2. Ready' = [i \in 1..n + 1 |-> Answer(IF i = n + 1 THEN c ELSE completed[i])]
  BY <1>1 DEF Ready, Answer
<1>3. Append(Ready, Answer(c)) =
        [i \in 1..n + 1 |-> IF i = n + 1 THEN Answer(c) ELSE Ready[i]]
  BY ViewFacts, AppendFacts
<1>4. \A i \in 1..n + 1 : Answer(IF i = n + 1 THEN c ELSE completed[i])
                          = IF i = n + 1 THEN Answer(c) ELSE Ready[i]
  BY <1>1 DEF Ready
<1> QED BY <1>2, <1>3, <1>4

----------------------------------------------------------------------------
(* Records. *)

(* finish() sets the outcome, Cancelled exactly for a cancelled collective. *)
LEMMA FinishedFacts ==
  ASSUME NEW r, IsRecord(r)
  PROVE  /\ IsRecord(Finished(r))
         /\ Finished(r).finished = TRUE
         /\ Finished(r).pending = r.pending
         /\ Finished(r).cancelled = r.cancelled
         /\ Finished(r).phase \in {"Succeeded", "Failed", "Cancelled"}
         /\ Finished(r).phase = "Cancelled" <=> r.cancelled
BY Zenon DEF Finished, IsRecord, Fields

(* A delivery touches the data only. *)
LEMMA DeliverFacts ==
  ASSUME NEW r, IsRecord(r), NEW t
  PROVE  LET n == Deliver(r, t)
         IN /\ IsRecord(n) /\ n.request = r.request /\ n.pending = r.pending
            /\ n.phase = r.phase /\ n.round = r.round
            /\ n.cancelled = r.cancelled /\ n.finished = r.finished
BY Zenon DEF Deliver, IsRecord, Fields

(* The transfers a round issues are finitely many, one entry each. *)
LEMMA IssuedFinite ==
  ASSUME NEW r, IsRecord(r), NEW stop
  PROVE  IsFiniteSet(Issued(r, stop))
<1> DEFINE plan == PlanRound(r.request.participants, r.request.bytes, r.phase, r.round)
           S == {k \in DOMAIN plan : plan[k].bytes # 0 /\ k < stop}
           f == [k \in S |-> plan[k]]
<1>1. r.request.participants - 1 \in Int
  <2>1. r.request \in Requests
    BY DEF IsRecord
  <2>2. r.request.participants \in Nat
    BY <2>1, RingAssumption
  <2> QED BY <2>2
<1>2. DOMAIN plan = 0..r.request.participants - 1
  BY DEF PlanRound
<1>3. IsFiniteSet(S)
  <2>1. IsFiniteSet(0..r.request.participants - 1)
    BY <1>1, FS_Interval
  <2> QED BY <1>2, <2>1, FS_Subset, Zenon
<1>4. Issued(r, stop) = {plan[k] : k \in S}
  BY DEF Issued
<1>5. f \in Surjection(S, Issued(r, stop))
  <2> HIDE DEF plan
  <2> QED BY <1>4 DEF Surjection
<1> QED BY <1>3, <1>5, FS_Surjection

EntryOf(id, r, t) ==
  [collective |-> id, phase |-> r.phase, round |-> r.round, source |-> t.source,
   destination |-> t.destination, shard |-> t.shard, bytes |-> t.bytes]

(* start_round() makes one entry, of the current round, for each transfer. *)
LEMMA EntriesFacts ==
  ASSUME NEW id, NEW r, IsRecord(r), NEW stop
  PROVE  /\ IsFiniteSet(Entries(id, r, stop))
         /\ Cardinality(Entries(id, r, stop)) = Cardinality(Issued(r, stop))
         /\ \A t \in Entries(id, r, stop) :
              t.collective = id /\ t.phase = r.phase /\ t.round = r.round
<1> DEFINE I == Issued(r, stop)
           E == Entries(id, r, stop)
           f == [t \in I |-> EntryOf(id, r, t)]
<1>1. E = {EntryOf(id, r, t) : t \in I}
  BY DEF Entries, EntryOf
<1>2. \A t \in I : t = [source |-> t.source, destination |-> t.destination,
                        shard |-> t.shard, bytes |-> t.bytes]
  BY Zenon DEF Issued, PlanRound
<1>3. \A t, u \in I : EntryOf(id, r, t) = EntryOf(id, r, u) => t = u
  <2> TAKE t, u \in I
  <2> HAVE EntryOf(id, r, t) = EntryOf(id, r, u)
  <2>1. /\ t.source = u.source /\ t.destination = u.destination
        /\ t.shard = u.shard /\ t.bytes = u.bytes
    BY DEF EntryOf
  <2> QED BY <1>2, <2>1
<1>4. f \in Bijection(I, E)
  <2> HIDE DEF I, E
  <2> QED BY <1>1, <1>3 DEF Bijection, Injection, Surjection, IsInjective
<1>5. ExistsBijection(I, E)
  BY <1>4 DEF ExistsBijection
<1>6. \A t \in E : t.collective = id /\ t.phase = r.phase /\ t.round = r.round
  BY <1>1 DEF EntryOf
<1> QED BY <1>5, <1>6, IssuedFinite, FS_Bijection

(* start_round() counts what it issues, and ends a round that issues nothing. *)
LEMMA StartRoundFacts ==
  ASSUME NEW r, IsRecord(r), r.pending = 0, r.finished = FALSE, NEW stop
  PROVE  LET b == StartRound(r, stop)
         IN /\ IsRecord(b)
            /\ b.cancelled = r.cancelled
            /\ b.pending = Cardinality(Issued(r, stop))
            /\ b.finished <=> b.pending = 0
            /\ b.pending # 0 => b.phase = r.phase /\ b.round = r.round
            /\ b.finished => /\ b.phase \in {"Succeeded", "Failed", "Cancelled"}
                             /\ b.phase = "Cancelled" <=> r.cancelled
<1> DEFINE issued == Issued(r, stop)
           local == {t \in issued : Local(r, t)}
           begun == [r EXCEPT !.pending = @ + Cardinality(issued),
                              !.issuedLocal = @ + SumOf(local),
                              !.issuedFabric = @ + SumOf(issued \ local),
                              !.failed = @ \/ stop < r.request.participants,
                              !.sent = r.held]
<1>1. Cardinality(issued) \in Nat
  BY IssuedFinite, FS_CardinalityType
<1>2. /\ IsRecord(begun) /\ begun.cancelled = r.cancelled
      /\ begun.pending = Cardinality(issued) /\ begun.finished = FALSE
      /\ begun.phase = r.phase /\ begun.round = r.round
  <2>1. r.pending + Cardinality(issued) = Cardinality(issued)
    BY <1>1
  <2> DEFINE n == Cardinality(issued)
             a == r.issuedLocal + SumOf(local)
             b == r.issuedFabric + SumOf(issued \ local)
             c == r.failed \/ stop < r.request.participants
             m == [r EXCEPT !.pending = n, !.issuedLocal = a, !.issuedFabric = b,
                            !.failed = c, !.sent = r.held]
  <2>2. begun = m
    BY <2>1, Zenon
  <2> HIDE DEF issued, local, begun, n, a, b, c
  <2>3. n \in Nat
    BY <1>1 DEF n
  <2>4. /\ IsRecord(m) /\ m.pending = n
        /\ m.cancelled = r.cancelled /\ m.finished = r.finished
        /\ m.phase = r.phase /\ m.round = r.round
    BY <2>3, Zenon DEF IsRecord, Fields
  <2> QED BY <2>2, <2>4, Zenon DEF n
<1>3. StartRound(r, stop) = IF begun.pending = 0 THEN Finished(begun) ELSE begun
  BY DEF StartRound, NothingPending
<1> HIDE DEF begun, issued, local
<1>4. CASE begun.pending = 0
  BY <1>2, <1>3, <1>4, FinishedFacts, Zenon DEF issued
<1>5. CASE begun.pending # 0
  BY <1>2, <1>3, <1>5 DEF issued
<1> QED BY <1>4, <1>5

----------------------------------------------------------------------------
(* Steps of one collective. *)

(* One record is replaced, the others stay. *)
LEMMA RecordsUpdated ==
  ASSUME Draining, NEW id \in 1..Len(records), NEW r, records' = [records EXCEPT ![id] = r]
  PROVE  /\ Len(records) \in Nat /\ DOMAIN records = 1..Len(records)
         /\ IsSequence(records') /\ Len(records') = Len(records)
         /\ DOMAIN records' = 1..Len(records) /\ records'[id] = r
         /\ \A j \in 1..Len(records) : j # id => records'[j] = records[j]
<1>1. IsSequence(records)
  BY DEF Draining
<1>2. PICK S : records \in Seq(S)
  BY <1>1 DEF IsSequence
<1>3. records' \in Seq(S \cup {r})
  BY <1>2
<1>4. IsSequence(records')
  BY <1>3 DEF IsSequence
<1> QED BY <1>2, <1>3, <1>4

(* Replacing the record of one collective keeps Draining when the record     *)
(* agrees with the transfers of that collective.                             *)
LEMMA UpdateDrains ==
  ASSUME Draining, NEW id \in 1..Len(records), NEW r, IsRecord(r),
         records' = [records EXCEPT ![id] = r],
         IsSequence(completed'), IsSequence(taken'), IsFiniteSet(transfers'),
         \A u \in transfers' : u.collective = id \/ u \in transfers,
         \A u \in transfers : u.collective = id \/ u \in transfers',
         r.pending = Cardinality({u \in transfers' : u.collective = id}),
         \A u \in transfers' : u.collective = id => u.phase = r.phase /\ u.round = r.round,
         r.finished <=> r.pending = 0
  PROVE  Draining'
<1>1. /\ IsSequence(records') /\ Len(records') = Len(records) /\ records'[id] = r
      /\ \A j \in 1..Len(records) : j # id => records'[j] = records[j]
  BY RecordsUpdated, Zenon
<1>2. \A i \in 1..Len(records') : IsRecord(records'[i])
  BY <1>1 DEF Draining
<1>3. \A u \in transfers' : u.collective \in 1..Len(records')
  BY <1>1 DEF Draining
<1>4. ASSUME NEW i \in 1..Len(records), i # id
      PROVE  Outstanding(i)' = Outstanding(i)
  BY <1>4 DEF Outstanding
<1>5. Outstanding(id)' = {u \in transfers' : u.collective = id}
  BY DEF Outstanding
<1>6. DrainsBeforeEnd'
  <2> SUFFICES ASSUME NEW i \in 1..Len(records')
               PROVE  /\ records'[i].pending = Cardinality(Outstanding(i)')
                      /\ \A t \in Outstanding(i)' :
                           t.phase = records'[i].phase /\ t.round = records'[i].round
                      /\ records'[i].finished <=> records'[i].pending = 0
    BY DEF DrainsBeforeEnd
  <2>1. CASE i = id
    BY <1>1, <1>5, <2>1, Zenon
  <2>2. CASE i # id
    <3>1. /\ records[i].pending = Cardinality(Outstanding(i))
          /\ \A t \in Outstanding(i) :
               t.phase = records[i].phase /\ t.round = records[i].round
          /\ records[i].finished <=> records[i].pending = 0
      BY <1>1 DEF Draining, DrainsBeforeEnd
    <3> QED BY <1>1, <1>4, <2>2, <3>1
  <2> QED BY <2>1, <2>2
<1> QED BY <1>1, <1>2, <1>3, <1>6 DEF Draining

(* A collective that goes on changes nothing its caller sees. *)
LEMMA UpdateStutters ==
  ASSUME Draining, NEW id \in 1..Len(records), NEW r,
         r.cancelled = records[id].cancelled, ~records[id].finished, ~r.finished,
         records' = [records EXCEPT ![id] = r], completed' = completed, taken' = taken
  PROVE  UNCHANGED Service!cvars
<1>1. /\ Len(records) \in Nat /\ DOMAIN records = 1..Len(records)
      /\ DOMAIN records' = 1..Len(records) /\ records'[id] = r
      /\ \A j \in 1..Len(records) : j # id => records'[j] = records[j]
  BY RecordsUpdated
<1>2. Call(r) = Call(records[id])
  BY DEF Call
<1>3. Calls' = [i \in DOMAIN records' |-> Call(records'[i])]
  BY DEF Calls, Call
<1>4. Calls' = Calls
  BY <1>1, <1>2, <1>3 DEF Calls
<1> QED BY <1>4 DEF Service!cvars, Ready, Told

(* A collective that ends is an end of CollectiveService. *)
LEMMA UpdateEnds ==
  ASSUME Draining, NEW id \in 1..Len(records), NEW r, IsRecord(r),
         r.cancelled = records[id].cancelled, ~records[id].finished, r.finished,
         r.phase \in {"Succeeded", "Failed", "Cancelled"},
         r.phase = "Cancelled" <=> r.cancelled,
         records' = [records EXCEPT ![id] = r],
         completed' = Append(completed, Result(id, r)), taken' = taken
  PROVE  Service!Step
<1>1. /\ Len(records) \in Nat /\ DOMAIN records = 1..Len(records)
      /\ DOMAIN records' = 1..Len(records) /\ records'[id] = r
      /\ \A j \in 1..Len(records) : j # id => records'[j] = records[j]
  BY RecordsUpdated
<1>2. Call(records[id]).outcome = Unfinished /\ Call(records[id]).cancelled = r.cancelled
  BY DEF Call
<1>3. Call(r) = [Call(records[id]) EXCEPT !.outcome = r.phase]
  BY DEF Call
<1>4. Calls' = [Calls EXCEPT ![id].outcome = r.phase]
  BY <1>1, <1>3, Zenon DEF Calls
<1>5. Ready' = Append(Ready, [collective |-> id, outcome |-> r.phase])
  <2>1. Answer(Result(id, r)) = [collective |-> id, outcome |-> r.phase]
    BY DEF Answer, Result
  <2> QED BY <2>1, ReadyAppends
<1>6. Service!Ends(Calls[id], r.phase)
  BY <1>1, <1>2 DEF Service!Ends, Service!Outcomes, Calls
<1>7. Len(Calls) = Len(records)
  BY ViewFacts
<1>8. Service!End(id, r.phase)
  BY <1>4, <1>5, <1>6 DEF Service!End, Told
<1> QED BY <1>7, <1>8 DEF Service!Step, Service!Outcomes

(* The record of a collective of which one more transfer has ended. *)
Counted(r, old) ==
  /\ IsRecord(r)
  /\ r.pending = old.pending - 1
  /\ r.cancelled = old.cancelled /\ r.finished = old.finished
  /\ r.phase = old.phase /\ r.round = old.round

(* A transfer under way belongs to a collective that is not over. *)
LEMMA UnderWay ==
  ASSUME Draining, NEW t \in transfers
  PROVE  LET old == records[t.collective]
         IN /\ t.collective \in 1..Len(records)
            /\ IsRecord(old) /\ old.pending \in Nat \ {0} /\ old.finished = FALSE
            /\ t.phase = old.phase /\ t.round = old.round
            /\ IsFiniteSet(Outstanding(t.collective))
            /\ old.pending = Cardinality(Outstanding(t.collective))
<1> DEFINE old == records[t.collective]
<1>1. t.collective \in 1..Len(records) /\ IsRecord(old)
  BY DEF Draining
<1>2. t \in Outstanding(t.collective)
  BY DEF Outstanding
<1>3. IsFiniteSet(Outstanding(t.collective))
  <2>1. Outstanding(t.collective) \subseteq transfers
    BY DEF Outstanding
  <2> QED BY <2>1, FS_Subset DEF Draining
<1>4. Cardinality(Outstanding(t.collective)) # 0
  BY <1>2, <1>3, FS_EmptySet
<1>5. /\ old.pending = Cardinality(Outstanding(t.collective))
      /\ t.phase = old.phase /\ t.round = old.round
      /\ old.finished <=> old.pending = 0
  BY <1>1, <1>2 DEF Draining, DrainsBeforeEnd
<1>6. old.pending \in Nat /\ old.finished \in BOOLEAN
  BY <1>1 DEF IsRecord
<1> QED BY <1>1, <1>3, <1>4, <1>5, <1>6

(* advance(): waits, ends the collective, or starts its next round. *)
LEMMA AdvanceStep ==
  ASSUME Draining, NEW t \in transfers, NEW r, Counted(r, records[t.collective]),
         Advance(t.collective, r, transfers \ {t}), taken' = taken
  PROVE  Draining' /\ (Service!Step \/ UNCHANGED Service!cvars)
<1> DEFINE id == t.collective
           old == records[id]
           rest == {u \in transfers \ {t} : u.collective = id}
<1>1. /\ id \in 1..Len(records) /\ IsRecord(old) /\ old.pending \in Nat \ {0}
      /\ old.finished = FALSE /\ IsFiniteSet(Outstanding(id))
      /\ old.pending = Cardinality(Outstanding(id))
  BY UnderWay, Zenon
<1>2. /\ IsRecord(r) /\ r.pending = old.pending - 1 /\ r.cancelled = old.cancelled
      /\ r.finished = FALSE /\ r.phase = old.phase /\ r.round = old.round
  BY <1>1 DEF Counted
<1>3. /\ IsFiniteSet(rest) /\ r.pending = Cardinality(rest)
      /\ \A u \in rest : u.phase = r.phase /\ u.round = r.round
  <2>1. rest = Outstanding(id) \ {t} /\ t \in Outstanding(id)
    BY DEF Outstanding
  <2>2. \A u \in Outstanding(id) : u.phase = old.phase /\ u.round = old.round
    BY <1>1 DEF Draining, DrainsBeforeEnd
  <2> HIDE DEF rest
  <2>3. IsFiniteSet(rest) /\ Cardinality(rest) = Cardinality(Outstanding(id)) - 1
    BY <1>1, <2>1, FS_RemoveElement
  <2> QED BY <1>1, <1>2, <2>1, <2>2, <2>3
<1>4. IsFiniteSet(transfers \ {t}) /\ IsSequence(completed) /\ IsSequence(taken)
  BY FS_RemoveElement DEF Draining
<1>5. CASE /\ ~RoundOver(r) /\ records' = [records EXCEPT ![id] = r]
           /\ transfers' = transfers \ {t} /\ completed' = completed
  <2>1. r.finished <=> r.pending = 0
    BY <1>2, <1>5 DEF RoundOver
  <2>2. Draining'
    BY <1>1, <1>2, <1>3, <1>4, <1>5, <2>1, UpdateDrains, Zenon
  <2>3. UNCHANGED Service!cvars
    BY <1>1, <1>2, <1>5, UpdateStutters, Zenon
  <2> QED BY <2>2, <2>3
<1>6. CASE /\ RoundOver(r) /\ records' = [records EXCEPT ![id] = Finished(r)]
           /\ completed' = Append(completed, Result(id, Finished(r)))
           /\ transfers' = transfers \ {t}
  <2>1. /\ IsRecord(Finished(r)) /\ Finished(r).finished /\ Finished(r).pending = r.pending
        /\ Finished(r).cancelled = old.cancelled
        /\ Finished(r).phase \in {"Succeeded", "Failed", "Cancelled"}
        /\ Finished(r).phase = "Cancelled" <=> Finished(r).cancelled
    BY <1>2, FinishedFacts, Zenon
  <2>2. rest = {} /\ r.pending = 0
    BY <1>3, <1>6, FS_EmptySet, Zenon DEF RoundOver
  <2>3. IsSequence(completed')
    BY <1>4, <1>6, AppendFacts
  <2>4. Draining'
    <3> DEFINE f == Finished(r)
    <3>1. /\ f.pending = Cardinality(rest) /\ (f.finished <=> f.pending = 0)
          /\ \A u \in transfers' : u.collective = id => u.phase = f.phase /\ u.round = f.round
      BY <1>3, <1>6, <2>1, <2>2
    <3> HIDE DEF f
    <3> QED BY <1>1, <1>4, <1>6, <2>1, <2>3, <3>1, UpdateDrains, Zenon DEF f
  <2>5. Service!Step
    BY <1>1, <1>6, <2>1, UpdateEnds, Zenon
  <2> QED BY <2>4, <2>5
<1>7. CASE /\ RoundOver(r)
           /\ \E stop \in Stops(NextRound(r)) :
                LET b == StartRound(NextRound(r), stop)
                IN /\ records' = [records EXCEPT ![id] = b]
                   /\ transfers' = (transfers \ {t}) \cup Entries(id, NextRound(r), stop)
                   /\ completed' = IF b.finished THEN Append(completed, Result(id, b))
                                                 ELSE completed
  <2> DEFINE n == NextRound(r)
  <2>1. PICK stop : /\ records' = [records EXCEPT ![id] = StartRound(n, stop)]
                    /\ transfers' = (transfers \ {t}) \cup Entries(id, n, stop)
                    /\ completed' = IF StartRound(n, stop).finished
                                    THEN Append(completed, Result(id, StartRound(n, stop)))
                                    ELSE completed
    BY <1>7, Zenon
  <2>2. rest = {} /\ r.pending = 0
    BY <1>3, <1>7, FS_EmptySet DEF RoundOver
  <2>3. /\ IsRecord(n) /\ n.pending = 0 /\ n.cancelled = old.cancelled /\ n.finished = FALSE
    BY <1>2, <2>2 DEF NextRound, IsRecord, Fields
  <2> DEFINE b == StartRound(n, stop)
             E == Entries(id, n, stop)
  <2> HIDE DEF n
  <2>4. /\ IsRecord(b) /\ b.cancelled = old.cancelled
        /\ b.pending = Cardinality(Issued(n, stop))
        /\ b.finished <=> b.pending = 0
        /\ b.pending # 0 => b.phase = n.phase /\ b.round = n.round
        /\ b.finished => /\ b.phase \in {"Succeeded", "Failed", "Cancelled"}
                         /\ b.phase = "Cancelled" <=> b.cancelled
    BY <2>3, StartRoundFacts, Zenon
  <2>5. /\ IsFiniteSet(E) /\ Cardinality(E) = Cardinality(Issued(n, stop))
        /\ \A u \in E : u.collective = id /\ u.phase = n.phase /\ u.round = n.round
    BY <2>3, EntriesFacts
  <2>6. {u \in transfers' : u.collective = id} = E
    BY <2>1, <2>2, <2>5
  <2>7. \A u \in E : u.phase = b.phase /\ u.round = b.round
    <3>1. CASE b.pending = 0
      BY <2>4, <2>5, <3>1, FS_EmptySet
    <3>2. CASE b.pending # 0
      BY <2>4, <2>5, <3>2
    <3> QED BY <3>1, <3>2
  <2>8. IsFiniteSet(transfers') /\ IsSequence(completed')
    BY <1>4, <2>1, <2>5, FS_Union, AppendFacts, Zenon
  <2> HIDE DEF b, E
  <2>9. records' = [records EXCEPT ![id] = b]
    BY <2>1 DEF b
  <2>10. Draining'
    <3>1. /\ \A u \in transfers' : u.collective = id \/ u \in transfers
          /\ \A u \in transfers : u.collective = id \/ u \in transfers'
      BY <2>1, <2>5 DEF E
    <3>2. b.pending = Cardinality({u \in transfers' : u.collective = id})
      BY <2>4, <2>5, <2>6
    <3>3. \A u \in transfers' : u.collective = id => u.phase = b.phase /\ u.round = b.round
      BY <2>6, <2>7
    <3>4. IsSequence(taken')
      BY <1>4
    <3> QED BY <1>1, <2>4, <2>8, <2>9, <3>1, <3>2, <3>3, <3>4, UpdateDrains, Zenon
  <2>11. CASE b.finished
    <3>1. completed' = Append(completed, Result(id, b))
      BY <2>1, <2>11 DEF b
    <3>2. Service!Step
      BY <1>1, <2>4, <2>9, <2>11, <3>1, UpdateEnds, Zenon
    <3> QED BY <2>10, <3>2
  <2>12. CASE ~b.finished
    <3>1. completed' = completed
      BY <2>1, <2>12 DEF b
    <3>2. UNCHANGED Service!cvars
      BY <1>1, <2>4, <2>9, <2>12, <3>1, UpdateStutters, Zenon
    <3> QED BY <2>10, <3>2
  <2> QED BY <2>11, <2>12
<1> QED BY <1>5, <1>6, <1>7 DEF Advance

(* A transfer that ends, on one NIC or over the fabric, with any outcome. *)
LEMMA TransferStep ==
  ASSUME Draining, NEW t \in transfers, NEW bytes, HandleLocal(t) \/ HandleTransfer(t, bytes)
  PROVE  Draining' /\ (Service!Step \/ UNCHANGED Service!cvars)
<1> DEFINE old == records[t.collective]
<1>1. IsRecord(old) /\ old.pending \in Nat \ {0} /\ old.finished = FALSE
  BY UnderWay
<1>2. ASSUME NEW d, d \in {old, Deliver(old, t)}
      PROVE  /\ IsRecord(d) /\ d.pending = old.pending /\ d.phase = old.phase
             /\ d.round = old.round /\ d.cancelled = old.cancelled /\ d.finished = old.finished
  BY <1>1, <1>2, DeliverFacts
<1>3. ASSUME NEW d \in {old, Deliver(old, t)}, NEW a, NEW c
      PROVE  /\ Counted([d EXCEPT !.delivered = a, !.pending = @ - 1], old)
             /\ Counted([d EXCEPT !.delivered = a, !.failed = c, !.pending = @ - 1], old)
  <2> DEFINE m == d.pending - 1
             r == [d EXCEPT !.delivered = a, !.pending = m]
             q == [d EXCEPT !.delivered = a, !.failed = c, !.pending = m]
  <2>1. m \in Nat /\ m = old.pending - 1
    BY <1>1, <1>2
  <2> HIDE DEF m, old
  <2>2. /\ IsRecord(r) /\ r.pending = m /\ r.phase = d.phase /\ r.round = d.round
        /\ r.cancelled = d.cancelled /\ r.finished = d.finished
    BY <1>2, <2>1 DEF IsRecord, Fields
  <2>3. /\ IsRecord(q) /\ q.pending = m /\ q.phase = d.phase /\ q.round = d.round
        /\ q.cancelled = d.cancelled /\ q.finished = d.finished
    BY <1>2, <2>1 DEF IsRecord, Fields
  <2> HIDE DEF r, q
  <2>4. Counted(r, old) /\ Counted(q, old)
    BY <1>2, <2>1, <2>2, <2>3, Zenon DEF Counted
  <2> QED BY <2>4, Zenon DEF r, q, m
<1>4. CASE HandleLocal(t)
  <2> DEFINE d == Deliver(old, t)
             a == d.delivered + t.bytes
             r == [d EXCEPT !.delivered = a, !.pending = @ - 1]
  <2>1. Advance(t.collective, r, transfers \ {t}) /\ taken' = taken
    BY <1>4 DEF HandleLocal
  <2>2. Counted(r, old)
    BY <1>3
  <2> HIDE DEF r
  <2> QED BY <2>1, <2>2, AdvanceStep
<1>5. CASE HandleTransfer(t, bytes)
  <2> DEFINE whole == bytes = t.bytes
             d == IF whole THEN Deliver(old, t) ELSE old
             a == d.delivered + bytes
             c == d.failed \/ ~whole
             r == [d EXCEPT !.delivered = a, !.failed = c, !.pending = @ - 1]
  <2>1. Advance(t.collective, r, transfers \ {t}) /\ taken' = taken
    BY <1>5 DEF HandleTransfer
  <2>2. d \in {old, Deliver(old, t)}
    OBVIOUS
  <2>3. Counted(r, old)
    <3> HIDE DEF d, a, c
    <3> QED BY <1>3, <2>2
  <2> HIDE DEF r
  <2> QED BY <2>1, <2>3, AdvanceStep
<1> QED BY <1>4, <1>5

(* cancel() marks the collective and leaves its transfers alone. *)
LEMMA CancelStep ==
  ASSUME Draining, NEW id \in 1..Len(records), Cancel(id)
  PROVE  Draining' /\ Service!Step
<1> DEFINE old == records[id]
           r == [old EXCEPT !.cancelled = TRUE]
<1>1. /\ ~old.finished /\ records' = [records EXCEPT ![id] = r]
      /\ transfers' = transfers /\ completed' = completed /\ taken' = taken
  BY DEF Cancel
<1>2. /\ IsRecord(old) /\ old.pending = Cardinality(Outstanding(id))
      /\ \A t \in Outstanding(id) : t.phase = old.phase /\ t.round = old.round
      /\ old.finished <=> old.pending = 0
  BY DEF Draining, DrainsBeforeEnd
<1>3. /\ IsRecord(r) /\ r.pending = old.pending /\ r.phase = old.phase
      /\ r.round = old.round /\ r.finished = old.finished /\ r.cancelled = TRUE
  <2> HIDE DEF old
  <2> QED BY <1>2, Zenon DEF IsRecord, Fields
<1> HIDE DEF r
<1>4. Draining'
  <2>1. Outstanding(id) = {u \in transfers' : u.collective = id}
    BY <1>1 DEF Outstanding
  <2>2. IsSequence(completed') /\ IsSequence(taken') /\ IsFiniteSet(transfers')
    BY <1>1 DEF Draining
  <2>3. /\ r.pending = Cardinality({u \in transfers' : u.collective = id})
        /\ \A u \in transfers' : u.collective = id => u.phase = r.phase /\ u.round = r.round
        /\ r.finished <=> r.pending = 0
    BY <1>2, <1>3, <2>1, Zenon
  <2> QED BY <1>1, <1>3, <2>2, <2>3, UpdateDrains, ZenonT(40)
<1>5. /\ Len(records) \in Nat /\ DOMAIN records = 1..Len(records)
      /\ DOMAIN records' = 1..Len(records) /\ records'[id] = r
      /\ \A j \in 1..Len(records) : j # id => records'[j] = records[j]
  BY <1>1, RecordsUpdated
<1>6. Call(r) = [Call(old) EXCEPT !.cancelled = TRUE] /\ Call(old).outcome = Unfinished
  <2> DEFINE y == TRUE
  <2>1. Call(old) = [cancelled |-> old.cancelled, outcome |-> Unfinished]
    BY <1>1 DEF Call
  <2>2. Call(r) = [cancelled |-> y, outcome |-> Unfinished]
    BY <1>1, <1>3, Zenon DEF Call
  <2> HIDE DEF y
  <2>3. Call(r) = [Call(old) EXCEPT !.cancelled = y]
    BY <2>1, <2>2
  <2>4. Call(old).outcome = Unfinished
    BY <2>1
  <2>5. Call(r) = [Call(old) EXCEPT !.cancelled = TRUE]
    BY <2>3, Zenon DEF y
  <2> QED BY <2>4, <2>5
<1>7. Calls' = [Calls EXCEPT ![id].cancelled = TRUE]
  BY <1>5, <1>6, Zenon DEF Calls
<1>8. Calls[id].outcome = Unfinished
  BY <1>5, <1>6 DEF Calls
<1>9. Service!Cancel(id)
  BY <1>1, <1>7, <1>8 DEF Service!Cancel, Ready, Told
<1>10. Len(Calls) = Len(records)
  BY ViewFacts
<1> QED BY <1>4, <1>9, <1>10 DEF Service!Step

(* Adding a collective whose record agrees with the transfers it issued. *)
LEMMA AppendDrains ==
  ASSUME Draining, NEW b, IsRecord(b), NEW E, IsFiniteSet(E),
         \A u \in E : /\ u.collective = Len(records) + 1
                      /\ u.phase = b.phase /\ u.round = b.round,
         b.pending = Cardinality(E), b.finished <=> b.pending = 0,
         records' = Append(records, b), transfers' = transfers \cup E,
         IsSequence(completed'), taken' = taken
  PROVE  Draining'
<1> DEFINE id == Len(records) + 1
<1>1. /\ Len(records) \in Nat /\ IsSequence(records') /\ Len(records') = id
      /\ records'[id] = b /\ \A j \in 1..Len(records) : records'[j] = records[j]
  <2>1. IsSequence(records)
    BY DEF Draining
  <2> QED BY <2>1, SequenceFacts, AppendFacts
<1>2. \A i \in 1..id : i = id \/ i \in 1..Len(records)
  BY <1>1
<1>3. \A i \in 1..Len(records') : IsRecord(records'[i])
  BY <1>1, <1>2 DEF Draining
<1>4. IsFiniteSet(transfers') /\ IsSequence(taken')
  BY FS_Union, Zenon DEF Draining
<1>5. \A u \in transfers' : u.collective \in 1..Len(records')
  BY <1>1 DEF Draining
<1>6. {u \in transfers' : u.collective = id} = E
  BY <1>1 DEF Draining
<1>7. \A i \in 1..Len(records) : Outstanding(i)' = Outstanding(i)
  BY <1>1 DEF Outstanding
<1>8. DrainsBeforeEnd'
  <2> SUFFICES ASSUME NEW i \in 1..Len(records')
               PROVE  /\ records'[i].pending = Cardinality(Outstanding(i)')
                      /\ \A t \in Outstanding(i)' :
                           t.phase = records'[i].phase /\ t.round = records'[i].round
                      /\ records'[i].finished <=> records'[i].pending = 0
    BY DEF DrainsBeforeEnd
  <2>1. CASE i = id
    <3>1. Outstanding(i)' = E
      BY <1>6, <2>1 DEF Outstanding
    <3> QED BY <1>1, <2>1, <3>1
  <2>2. CASE i \in 1..Len(records)
    <3>1. /\ records[i].pending = Cardinality(Outstanding(i))
          /\ \A t \in Outstanding(i) :
               t.phase = records[i].phase /\ t.round = records[i].round
          /\ records[i].finished <=> records[i].pending = 0
      BY <2>2 DEF Draining, DrainsBeforeEnd
    <3> QED BY <1>1, <1>7, <2>2, <3>1
  <2> QED BY <1>1, <1>2, <2>1, <2>2
<1> QED BY <1>1, <1>3, <1>4, <1>5, <1>8 DEF Draining

(* A new collective, over within the call or not, is one of                  *)
(* CollectiveService.                                                        *)
LEMMA AppendSubmits ==
  ASSUME Draining, NEW b, IsRecord(b), b.cancelled = FALSE,
         b.finished => b.phase \in {"Succeeded", "Failed"},
         Len(records) < MaxCollectives, records' = Append(records, b),
         completed' = IF b.finished THEN Append(completed, Result(Len(records) + 1, b))
                                    ELSE completed,
         taken' = taken
  PROVE  Service!Step
<1> DEFINE n == Len(records)
           call == [cancelled |-> FALSE, outcome |-> Unfinished]
<1>1. /\ n \in Nat /\ DOMAIN records = 1..n
      /\ records' = [i \in 1..n + 1 |-> IF i = n + 1 THEN b ELSE records[i]]
  BY SequenceFacts, AppendFacts DEF Draining
<1>2. Calls' = [i \in 1..n + 1 |-> Call(IF i = n + 1 THEN b ELSE records[i])]
  BY <1>1 DEF Calls, Call
<1>3. Append(Calls, Call(b)) = [i \in 1..n + 1 |-> IF i = n + 1 THEN Call(b) ELSE Calls[i]]
  BY ViewFacts, AppendFacts
<1>4. Calls' = Append(Calls, Call(b))
  <2>1. \A i \in 1..n + 1 : Call(IF i = n + 1 THEN b ELSE records[i])
                            = IF i = n + 1 THEN Call(b) ELSE Calls[i]
    BY <1>1 DEF Calls
  <2> QED BY <1>2, <1>3, <2>1
<1>5. Len(Calls) = n /\ Told' = Told
  BY ViewFacts DEF Told
<1>6. CASE ~b.finished
  <2>1. Call(b) = call
    BY <1>6, Zenon DEF Call
  <2>2. Ready' = Ready
    BY <1>6 DEF Ready
  <2>3. Service!Submit(Unfinished)
    BY <1>4, <1>5, <2>1, <2>2, Zenon DEF Service!Submit
  <2> QED BY <2>3 DEF Service!Step
<1>7. CASE b.finished
  <2>1. Call(b) = [cancelled |-> FALSE, outcome |-> b.phase]
    BY <1>7, Zenon DEF Call
  <2>2. [call EXCEPT !.outcome = b.phase] = [cancelled |-> FALSE, outcome |-> b.phase]
    <3>1. \A x : [[cancelled |-> x, outcome |-> Unfinished] EXCEPT !.outcome = b.phase]
                 = [cancelled |-> x, outcome |-> b.phase]
      OBVIOUS
    <3> QED BY <3>1, Zenon
  <2>3. Ready' = Append(Ready, [collective |-> n + 1, outcome |-> b.phase])
    <3>1. Answer(Result(n + 1, b)) = [collective |-> n + 1, outcome |-> b.phase]
      BY DEF Answer, Result
    <3> QED BY <1>7, <3>1, ReadyAppends
  <2>4. Service!Ends(call, b.phase)
    BY <1>7 DEF Service!Ends, Service!Outcomes
  <2>5. Service!Submit(b.phase)
    BY <1>4, <1>5, <2>1, <2>2, <2>3, <2>4, Zenon DEF Service!Submit
  <2> QED BY <1>7, <2>5 DEF Service!Step, Service!Outcomes
<1> QED BY <1>6, <1>7

(* submit(): the record of the new collective agrees with what it issued. *)
LEMMA SubmitStep ==
  ASSUME Draining, NEW request \in Requests, Submit(request)
  PROVE  Draining' /\ Service!Step
<1> DEFINE id == Len(records) + 1
           r == NewRecord(request)
           single == request.participants = 1
<1>1. PICK stop :
        LET b == IF single THEN Finished(r) ELSE StartRound(r, stop)
        IN /\ records' = Append(records, b)
           /\ transfers' = IF single THEN transfers ELSE transfers \cup Entries(id, r, stop)
           /\ completed' = IF b.finished THEN Append(completed, Result(id, b)) ELSE completed
  BY Zenon DEF Submit
<1> DEFINE b == IF single THEN Finished(r) ELSE StartRound(r, stop)
           E == IF single THEN {} ELSE Entries(id, r, stop)
<1>2. /\ records' = Append(records, b) /\ transfers' = transfers \cup E
      /\ completed' = IF b.finished THEN Append(completed, Result(id, b)) ELSE completed
      /\ taken' = taken /\ Len(records) < MaxCollectives
  BY <1>1 DEF Submit
<1>3. /\ IsRecord(r) /\ r.pending = 0 /\ r.cancelled = FALSE /\ r.finished = FALSE
  BY DEF NewRecord, IsRecord, Fields
<1> HIDE DEF r
<1>4. /\ IsRecord(b) /\ b.cancelled = FALSE /\ b.pending = Cardinality(E) /\ IsFiniteSet(E)
      /\ b.finished <=> b.pending = 0
      /\ b.finished => b.phase \in {"Succeeded", "Failed"}
      /\ \A u \in E : u.collective = id /\ u.phase = b.phase /\ u.round = b.round
  <2>1. CASE single
    <3>1. b = Finished(r) /\ E = {}
      BY <2>1
    <3>2. /\ IsRecord(Finished(r)) /\ Finished(r).finished = TRUE /\ Finished(r).pending = 0
          /\ Finished(r).cancelled = FALSE /\ Finished(r).phase \in {"Succeeded", "Failed"}
      BY <1>3, FinishedFacts, Zenon
    <3> HIDE DEF b, E
    <3> QED BY <3>1, <3>2, FS_EmptySet
  <2>2. CASE ~single
    <3> DEFINE s == StartRound(r, stop)
               F == Entries(id, r, stop)
    <3>1. b = s /\ E = F
      BY <2>2
    <3>2. /\ IsRecord(s) /\ s.cancelled = FALSE /\ s.pending = Cardinality(Issued(r, stop))
          /\ s.finished <=> s.pending = 0
          /\ s.pending # 0 => s.phase = r.phase /\ s.round = r.round
          /\ s.finished => s.phase \in {"Succeeded", "Failed"}
      BY <1>3, StartRoundFacts, Zenon
    <3>3. /\ IsFiniteSet(F) /\ Cardinality(F) = Cardinality(Issued(r, stop))
          /\ \A u \in F : u.collective = id /\ u.phase = r.phase /\ u.round = r.round
      BY <1>3, EntriesFacts
    <3>4. s.pending = 0 => F = {}
      BY <3>2, <3>3, FS_EmptySet
    <3> HIDE DEF b, E, s, F
    <3> QED BY <3>1, <3>2, <3>3, <3>4
  <2> QED BY <2>1, <2>2, Zenon
<1> HIDE DEF b, E
<1>5. IsSequence(completed')
  <2>1. IsSequence(completed)
    BY DEF Draining
  <2> QED BY <1>2, <2>1, AppendFacts
<1>6. Draining'
  BY <1>2, <1>4, <1>5, AppendDrains
<1>7. Service!Step
  BY <1>2, <1>4, AppendSubmits, Zenon
<1> QED BY <1>6, <1>7

(* The concatenation of two sequences, by index. *)
LEMMA ConcatFacts ==
  ASSUME NEW s, NEW t, IsSequence(s), IsSequence(t)
  PROVE  /\ IsSequence(s \o t)
         /\ s \o t = [i \in 1..Len(s) + Len(t) |-> IF i <= Len(s) THEN s[i] ELSE t[i - Len(s)]]
<1>1. PICK S : s \in Seq(S)
  BY DEF IsSequence
<1>2. PICK T : t \in Seq(T)
  BY DEF IsSequence
<1>3. s \in Seq(S \cup T) /\ t \in Seq(S \cup T)
  BY <1>1, <1>2
<1>4. s \o t \in Seq(S \cup T)
  BY <1>3
<1>5. IsSequence(s \o t)
  BY <1>4 DEF IsSequence
<1>6. /\ Len(s \o t) = Len(s) + Len(t)
      /\ \A i \in 1..Len(s) + Len(t) :
           (s \o t)[i] = IF i <= Len(s) THEN s[i] ELSE t[i - Len(s)]
  BY <1>3
<1>7. s \o t = [i \in 1..Len(s) + Len(t) |-> (s \o t)[i]]
  BY <1>5, <1>6, SequenceFacts, Zenon
<1> QED BY <1>5, <1>6, <1>7

(* take_completed() hands over all results, in order. *)
LEMMA TakeStep ==
  ASSUME Draining, TakeCompleted
  PROVE  Draining' /\ Service!Step
<1>1. /\ taken' = taken \o completed /\ completed' = <<>>
      /\ records' = records /\ transfers' = transfers
  BY DEF TakeCompleted
<1>2. /\ IsSequence(taken) /\ IsSequence(completed)
      /\ Len(taken) \in Nat /\ Len(completed) \in Nat
      /\ DOMAIN taken = 1..Len(taken) /\ DOMAIN completed = 1..Len(completed)
  BY SequenceFacts DEF Draining
<1>3. IsSequence(taken') /\ IsSequence(completed')
  <2>1. <<>> \in Seq({})
    OBVIOUS
  <2> QED BY <1>1, <1>2, <2>1, ConcatFacts, Zenon DEF IsSequence
<1>4. DrainsBeforeEnd'
  BY <1>1, Zenon DEF Draining, DrainsBeforeEnd, Outstanding
<1>5. Draining'
  BY <1>1, <1>3, <1>4 DEF Draining
<1>6. taken' = [i \in 1..Len(taken) + Len(completed) |->
                  IF i <= Len(taken) THEN taken[i] ELSE completed[i - Len(taken)]]
  BY <1>1, <1>2, ConcatFacts
<1>7. Told' = [i \in 1..Len(taken) + Len(completed) |->
                 Answer(IF i <= Len(taken) THEN taken[i] ELSE completed[i - Len(taken)])]
  BY <1>2, <1>6 DEF Told, Answer
<1>8. Told \o Ready = [i \in 1..Len(taken) + Len(completed) |->
                         IF i <= Len(taken) THEN Told[i] ELSE Ready[i - Len(taken)]]
  BY ViewFacts, ConcatFacts
<1>9. \A i \in 1..Len(taken) + Len(completed) :
        Answer(IF i <= Len(taken) THEN taken[i] ELSE completed[i - Len(taken)])
        = IF i <= Len(taken) THEN Told[i] ELSE Ready[i - Len(taken)]
  BY <1>2 DEF Told, Ready
<1>10. Told' = Told \o Ready
  BY <1>7, <1>8, <1>9
<1>11. Ready' = <<>> /\ Calls' = Calls
  BY <1>1 DEF Ready, Calls
<1>12. Service!Take
  BY <1>10, <1>11 DEF Service!Take
<1> QED BY <1>5, <1>12 DEF Service!Step

----------------------------------------------------------------------------
(* Nothing has been submitted. *)
LEMMA InitDrains == Init => Draining /\ Service!Start
<1> SUFFICES ASSUME Init PROVE Draining /\ Service!Start
  OBVIOUS
<1>1. records = <<>> /\ transfers = {} /\ completed = <<>> /\ taken = <<>>
  BY DEF Init
<1>2. <<>> \in Seq({}) /\ Len(<<>>) = 0
  OBVIOUS
<1>3. IsSequence(records) /\ IsSequence(completed) /\ IsSequence(taken)
  BY <1>1, <1>2 DEF IsSequence
<1>4. 1..Len(records) = {}
  BY <1>1, <1>2
<1>5. Draining
  BY <1>1, <1>3, <1>4, FS_EmptySet DEF Draining, DrainsBeforeEnd
<1>6. Calls = <<>> /\ Ready = <<>> /\ Told = <<>>
  BY <1>1 DEF Calls, Ready, Told
<1> QED BY <1>5, <1>6 DEF Service!Start

(* Every step keeps Draining, and is a step of CollectiveService or none. *)
LEMMA NextStep ==
  Draining /\ [Next]_vars => Draining' /\ [Service!Step]_(Service!cvars)
<1> SUFFICES ASSUME Draining, [Next]_vars
             PROVE  Draining' /\ (Service!Step \/ UNCHANGED Service!cvars)
  OBVIOUS
<1>1. ASSUME NEW request \in Requests, Submit(request)
      PROVE  Draining' /\ Service!Step
  BY <1>1, SubmitStep
<1>2. ASSUME NEW t \in transfers, HandleLocal(t)
      PROVE  Draining' /\ (Service!Step \/ UNCHANGED Service!cvars)
  BY <1>2, TransferStep
<1>3. ASSUME NEW t \in transfers, NEW bytes \in 0..t.bytes, HandleTransfer(t, bytes)
      PROVE  Draining' /\ (Service!Step \/ UNCHANGED Service!cvars)
  BY <1>3, TransferStep
<1>4. ASSUME NEW id \in 1..Len(records), Cancel(id)
      PROVE  Draining' /\ Service!Step
  BY <1>4, CancelStep
<1>5. CASE TakeCompleted
  BY <1>5, TakeStep
<1>6. CASE UNCHANGED vars
  <2>1. /\ records' = records /\ transfers' = transfers
        /\ completed' = completed /\ taken' = taken
    BY <1>6 DEF vars
  <2>2. Draining'
    BY <2>1, Zenon DEF Draining, DrainsBeforeEnd, Outstanding
  <2>3. UNCHANGED Service!cvars
    BY <2>1 DEF Service!cvars, Calls, Ready, Told
  <2> QED BY <2>2, <2>3
<1> QED BY <1>1, <1>2, <1>3, <1>4, <1>5, <1>6 DEF Next, TransferEnds, Idle

(* A collective never ends, by success, failure or cancellation, while a     *)
(* transfer of it is under way, and never waits for one that is not: advance *)
(* and finish() find the pending count exact.                                *)
THEOREM CollectivesDrain == Spec => []DrainsBeforeEnd
<1>1. Init => Draining
  BY InitDrains
<1>2. Draining /\ [Next]_vars => Draining'
  BY NextStep
<1>3. Draining => DrainsBeforeEnd
  BY DEF Draining
<1> QED BY <1>1, <1>2, <1>3, PTL DEF Spec

(* Every step of the executor is, to its caller, a submission, a             *)
(* cancellation, the one end of a collective with the outcome the caller     *)
(* must see, the taking of the results, or nothing.                          *)
THEOREM ExecutorIsService == Spec => Service!Safety
<1>1. Init => Draining /\ Service!Start
  BY InitDrains
<1>2. Draining /\ [Next]_vars => Draining' /\ [Service!Step]_(Service!cvars)
  BY NextStep
<1> QED BY <1>1, <1>2, PTL DEF Spec, Service!Safety

=============================================================================
