--------------------------- MODULE RingDataProofs ---------------------------
(***************************************************************************)
(* The plan of the ring is an all-reduce for every number of participants  *)
(* and of bytes, in whatever order the transfers of a round end.           *)
(***************************************************************************)
EXTENDS RingProofs, InductionLemmas

(* How far along the ring a rank is from the rank a shard is named after. *)
Distance(p, shard, rank) == IF rank >= shard THEN rank - shard ELSE rank + p - shard

(* The ranks up to a distance. *)
Arc(p, shard, d) == {rank \in 0..p - 1 : Distance(p, shard, rank) <= d}

HasBytes(r, shard) == ShardBytes(r.request.participants, r.request.bytes, shard) # 0

Underway(ts, shard) == \E t \in ts : t.shard = shard

(* A transfer of the plan of the current round. *)
Planned(r, t) ==
  LET p == r.request.participants
  IN /\ t.source \in 0..p - 1
     /\ t.destination = (t.source + 1) % p
     /\ t.shard = Shard(p, r.phase, r.round, t.source)
     /\ t.bytes = ShardBytes(p, r.request.bytes, t.shard)
     /\ HasBytes(r, t.shard)

(* The copy of a shard at a rank during a round.  The shard moves along the  *)
(* ring from its own rank, and the sum over the arc behind it with it; in    *)
(* the second phase the whole sum moves on from where the first ended.       *)
HoldsAt(r, ts, rank, shard) ==
  LET p == r.request.participants
      d == Distance(p, shard, rank)
      copy == r.held[rank][shard]
  IN IF r.phase = "ReduceScatter"
     THEN /\ d > r.round + 1 => copy = {rank}
          /\ d = r.round + 1 =>
               copy = IF Underway(ts, shard) THEN {rank} ELSE Arc(p, shard, d)
     ELSE d = p - 1 \/ d < r.round \/ (d = r.round /\ ~Underway(ts, shard))
            => copy = 0..p - 1

(* What a round sends. *)
Sends(r, shard) ==
  LET p == r.request.participants
  IN IF r.phase = "ReduceScatter" THEN Arc(p, shard, r.round) ELSE 0..p - 1

Holds(r, ts) ==
  /\ \A rank, shard \in 0..r.request.participants - 1 :
       HasBytes(r, shard) => HoldsAt(r, ts, rank, shard)
  /\ \A t \in ts : Incoming(r, t) = Sends(r, t.shard)

(* A collective under way.  Once it has failed, only that nothing is reduced *)
(* twice still matters.                                                      *)
Moving(r, ts) ==
  /\ r.phase \in {"ReduceScatter", "AllGather"}
  /\ r.round \in 0..r.request.participants - 2
  /\ \A t \in ts : Planned(r, t)
  /\ \A t, u \in ts : t.shard = u.shard => t = u
  /\ r.phase = "ReduceScatter" =>
       \A t \in ts : Incoming(r, t) \cap r.held[t.destination][t.shard] = {}
  /\ ~r.failed => Holds(r, ts)

Copies(p) == [0..p - 1 -> [0..p - 1 -> SUBSET (0..p - 1)]]

Reduced(r) ==
  LET p == r.request.participants
  IN \A rank, shard \in 0..p - 1 : HasBytes(r, shard) => r.held[rank][shard] = 0..p - 1

(* The data of one collective, whose transfers under way are ts. *)
Copied(r, ts) ==
  /\ r.held \in Copies(r.request.participants)
  /\ r.sent \in Copies(r.request.participants)
  /\ r.failed \in BOOLEAN
  /\ r.doubled = FALSE
  /\ r.finished \/ Moving(r, ts)
  /\ r.phase = "Succeeded" => Reduced(r)

----------------------------------------------------------------------------
(* The ring. *)

(* The remainder of a number that is at most twice around the ring. *)
LEMMA Around ==
  ASSUME NEW p \in Nat \ {0}, NEW x \in 0..2 * p
  PROVE  x % p = IF x < p THEN x ELSE IF x < 2 * p THEN x - p ELSE x - 2 * p
<1>1. CASE x < p
  BY <1>1, SMT
<1>2. CASE x >= p /\ x < 2 * p
  BY <1>2, SMT
<1>3. CASE x = 2 * p
  BY <1>3, SMT
<1> QED BY <1>1, <1>2, <1>3

(* A shard moves one rank per round, in both phases. *)
LEMMA ShardMoves ==
  ASSUME NEW p \in Nat \ {0, 1}, NEW round \in 0..p - 2, NEW source \in 0..p - 1, NEW phase
  PROVE  LET shard == Shard(p, phase, round, source)
             destination == (source + 1) % p
         IN /\ shard \in 0..p - 1 /\ destination \in 0..p - 1
            /\ phase # "AllGather" => /\ Distance(p, shard, source) = round
                                      /\ Distance(p, shard, destination) = round + 1
            /\ phase = "AllGather" =>
                 /\ Distance(p, shard, source) = IF round = 0 THEN p - 1 ELSE round - 1
                 /\ Distance(p, shard, destination) = round
<1> DEFINE d == (source + 1) % p
<1>1. d = IF source + 1 < p THEN source + 1 ELSE 0
  <2> DEFINE x == source + 1
  <2>1. x \in 0..2 * p /\ x <= p
    OBVIOUS
  <2> HIDE DEF x
  <2>2. x % p = IF x < p THEN x ELSE 0
    BY <2>1, Around
  <2> QED BY <2>2 DEF x
<1>2. CASE phase # "AllGather"
  <2> DEFINE s == (source + p - round + 0) % p
  <2>1. Shard(p, phase, round, source) = s
    BY <1>2, Zenon DEF Shard
  <2>2. s = IF source + p - round < p THEN source + p - round ELSE source - round
    <3> DEFINE x == source + p - round + 0
    <3>1. x \in 0..2 * p /\ x < 2 * p /\ x = source + p - round
      OBVIOUS
    <3> HIDE DEF x
    <3>2. x % p = IF x < p THEN x ELSE x - p
      BY <3>1, Around, Zenon
    <3> QED BY <3>1, <3>2 DEF x
  <2> HIDE DEF s, d
  <2>3. s \in 0..p - 1 /\ d \in 0..p - 1 /\ Distance(p, s, source) = round
        /\ Distance(p, s, d) = round + 1
    BY <1>1, <2>2 DEF Distance
  <2> QED BY <1>2, <2>1, <2>3 DEF d
<1>3. CASE phase = "AllGather"
  <2> DEFINE s == (source + p - round + 1) % p
  <2>1. Shard(p, phase, round, source) = s
    BY <1>3, Zenon DEF Shard
  <2>2. s = IF source + p - round + 1 < p THEN source + p - round + 1
            ELSE IF source - round + 1 < p THEN source - round + 1 ELSE 0
    <3> DEFINE x == source + p - round + 1
    <3>1. x \in 0..2 * p
      OBVIOUS
    <3> HIDE DEF x
    <3>2. x % p = IF x < p THEN x ELSE IF x < 2 * p THEN x - p ELSE x - 2 * p
      BY <3>1, Around, Zenon
    <3> QED BY <3>1, <3>2 DEF x
  <2> HIDE DEF s, d
  <2>3. s \in 0..p - 1 /\ d \in 0..p - 1
        /\ Distance(p, s, source) = (IF round = 0 THEN p - 1 ELSE round - 1)
        /\ Distance(p, s, d) = round
    BY <1>1, <2>2 DEF Distance
  <2> QED BY <1>3, <2>1, <2>3 DEF d
<1> QED BY <1>2, <1>3

(* A rank has its own distance from a shard, and a shard from a rank. *)
LEMMA DistanceFacts ==
  ASSUME NEW p \in Nat \ {0}, NEW s \in 0..p - 1, NEW a \in 0..p - 1
  PROVE  /\ Distance(p, s, a) \in 0..p - 1
         /\ \A b \in 0..p - 1 : Distance(p, s, a) = Distance(p, s, b) => a = b
         /\ \A b \in 0..p - 1 : Distance(p, s, a) = Distance(p, b, a) => s = b
         /\ Distance(p, s, a) = 0 => a = s
BY DEF Distance

(* In every round each shard is sent, by one rank. *)
LEMMA ShardSent ==
  ASSUME NEW p \in Nat \ {0, 1}, NEW round \in 0..p - 2, NEW phase, NEW shard \in 0..p - 1
  PROVE  /\ \E rank \in 0..p - 1 : Shard(p, phase, round, rank) = shard
         /\ \A a, b \in 0..p - 1 :
              Shard(p, phase, round, a) = shard /\ Shard(p, phase, round, b) = shard => a = b
<1> DEFINE d == IF phase # "AllGather" THEN round ELSE IF round = 0 THEN p - 1 ELSE round - 1
           rank == IF shard + d < p THEN shard + d ELSE shard + d - p
<1>1. \A a \in 0..p - 1 : /\ Shard(p, phase, round, a) \in 0..p - 1
                          /\ Distance(p, Shard(p, phase, round, a), a) = d
  BY ShardMoves
<1>2. d \in 0..p - 1
  OBVIOUS
<1> HIDE DEF d
<1>3. rank \in 0..p - 1 /\ Distance(p, shard, rank) = d
  BY <1>2 DEF Distance
<1>4. Shard(p, phase, round, rank) = shard
  <2> DEFINE s == Shard(p, phase, round, rank)
  <2>1. s \in 0..p - 1 /\ Distance(p, s, rank) = Distance(p, shard, rank)
    BY <1>1, <1>3
  <2> HIDE DEF rank, s
  <2>2. s = shard
    BY <1>3, <2>1, DistanceFacts
  <2> QED BY <2>2 DEF s
<1>5. \A a, b \in 0..p - 1 :
        Shard(p, phase, round, a) = shard /\ Shard(p, phase, round, b) = shard => a = b
  BY <1>1, DistanceFacts
<1> QED BY <1>3, <1>4, <1>5

(* The ranks at distance zero, and at any distance. *)
LEMMA ArcEnds ==
  ASSUME NEW p \in Nat \ {0}, NEW s \in 0..p - 1
  PROVE  Arc(p, s, 0) = {s} /\ Arc(p, s, p - 1) = 0..p - 1
BY DEF Arc, Distance

(* The arc behind a shard grows by the rank the shard moves to. *)
LEMMA ArcGrows ==
  ASSUME NEW p \in Nat \ {0}, NEW s \in 0..p - 1, NEW a \in 0..p - 1, NEW d \in Nat,
         Distance(p, s, a) = d + 1
  PROVE  Arc(p, s, d) \cup {a} = Arc(p, s, d + 1) /\ Arc(p, s, d) \cap {a} = {}
<1>1. \A b \in 0..p - 1 : /\ Distance(p, s, b) \in Int
                          /\ Distance(p, s, b) = d + 1 => b = a
  BY DEF Distance
<1> QED BY <1>1 DEF Arc

----------------------------------------------------------------------------
(* Transfers. *)

(* A transfer of the plan moves its shard from one rank to the next. *)
LEMMA PlannedMoves ==
  ASSUME NEW r, IsRecord(r), NEW ts, Moving(r, ts), NEW t \in ts
  PROVE  LET p == r.request.participants
         IN /\ p \in Nat \ {0, 1} /\ r.round \in Nat /\ r.round <= p - 2
            /\ t.source \in 0..p - 1 /\ t.destination \in 0..p - 1 /\ t.shard \in 0..p - 1
            /\ HasBytes(r, t.shard)
            /\ r.phase = "ReduceScatter" => Distance(p, t.shard, t.destination) = r.round + 1
            /\ r.phase = "AllGather" => Distance(p, t.shard, t.destination) = r.round
<1> DEFINE p == r.request.participants
           k == r.round
           a == t.source
<1>1. p \in Nat \ {0}
  BY RingAssumption DEF IsRecord
<1>2. /\ k \in 0..p - 2 /\ a \in 0..p - 1 /\ t.destination = (a + 1) % p
      /\ t.shard = Shard(p, r.phase, k, a) /\ HasBytes(r, t.shard)
      /\ r.phase \in {"ReduceScatter", "AllGather"}
  BY DEF Moving, Planned
<1> HIDE DEF p, k, a
<1>3. p \in Nat \ {0, 1} /\ k \in Nat /\ k <= p - 2
  BY <1>1, <1>2
<1>4. /\ t.shard \in 0..p - 1 /\ t.destination \in 0..p - 1
      /\ r.phase # "AllGather" => Distance(p, t.shard, t.destination) = k + 1
      /\ r.phase = "AllGather" => Distance(p, t.shard, t.destination) = k
  BY <1>2, <1>3, ShardMoves
<1> QED BY <1>2, <1>3, <1>4 DEF p, k, a

(* What a delivery does to the data of a collective. *)
Delivers(r, t, q) ==
  LET a == t.destination
      s == t.shard
      in == Incoming(r, t)
  IN /\ q.held = [r.held EXCEPT ![a][s] =
                    IF r.phase = "ReduceScatter" THEN r.held[a][s] \cup in ELSE in]
     /\ q.doubled <=> r.doubled \/ (r.phase = "ReduceScatter" /\ in \cap r.held[a][s] # {})
     /\ q.failed = r.failed

(* A delivered transfer gives its receiver the sum over one rank more, or    *)
(* the whole sum, and reduces nothing twice.                                 *)
LEMMA DeliveryMoves ==
  ASSUME NEW r, IsRecord(r), NEW ts, Copied(r, ts), r.finished = FALSE, NEW t \in ts, NEW q,
         q.request = r.request, q.phase = r.phase, q.round = r.round,
         q.sent = r.sent, q.finished = FALSE, q.doubled \in BOOLEAN, Delivers(r, t, q)
  PROVE  Copied(q, ts \ {t})
<1> DEFINE p == r.request.participants
           a == t.destination
           s == t.shard
           in == Incoming(r, t)
           old == r.held[a][s]
           new == IF r.phase = "ReduceScatter" THEN old \cup in ELSE in
           rest == ts \ {t}
<1>1. /\ Moving(r, ts) /\ r.held \in Copies(p) /\ r.sent \in Copies(p)
      /\ r.failed \in BOOLEAN /\ r.doubled = FALSE
  BY DEF Copied
<1>2. /\ p \in Nat \ {0, 1} /\ r.round \in Nat /\ r.round <= p - 2
      /\ t.source \in 0..p - 1 /\ a \in 0..p - 1 /\ s \in 0..p - 1 /\ HasBytes(r, s)
      /\ r.phase = "ReduceScatter" => Distance(p, s, a) = r.round + 1
      /\ r.phase = "AllGather" => Distance(p, s, a) = r.round
  BY <1>1, PlannedMoves, Zenon
<1>3. old \in SUBSET (0..p - 1) /\ in \in SUBSET (0..p - 1)
  BY <1>1, <1>2, Zenon DEF Copies, Incoming
<1>4. new \in SUBSET (0..p - 1)
  BY <1>3
<1>5. q.held = [r.held EXCEPT ![a][s] = new]
  BY DEF Delivers
<1>6. /\ q.held \in Copies(p) /\ q.held[a][s] = new
      /\ \A b, u \in 0..p - 1 : b # a \/ u # s => q.held[b][u] = r.held[b][u]
  <2> DEFINE h == r.held
             g == q.held
  <2>1. h \in Copies(p) /\ g = [h EXCEPT ![a][s] = new]
    BY <1>1, <1>5
  <2> HIDE DEF new, p, a, s, h, g
  <2>2. /\ g \in Copies(p) /\ g[a][s] = new
        /\ \A b, u \in 0..p - 1 : b # a \/ u # s => g[b][u] = h[b][u]
    BY <1>2, <1>4, <2>1 DEF Copies
  <2> QED BY <2>2 DEF h, g
<1>7. q.doubled = FALSE /\ q.failed = r.failed
  <2>1. r.phase = "ReduceScatter" => in \cap old = {}
    BY <1>1 DEF Moving
  <2>2. q.failed = r.failed /\ ~q.doubled
    BY <1>1, <2>1, Zenon DEF Delivers
  <2> QED BY <2>2
<1>8. Moving(q, rest)
  <2>1. /\ q.phase \in {"ReduceScatter", "AllGather"}
        /\ q.round \in 0..q.request.participants - 2
        /\ \A u \in rest : Planned(q, u) /\ u.shard # s
        /\ \A u, v \in rest : u.shard = v.shard => u = v
    BY <1>1 DEF Moving, Planned, HasBytes
  <2>2. \A u \in rest : /\ Incoming(q, u) = Incoming(r, u)
                        /\ q.held[u.destination][u.shard] = r.held[u.destination][u.shard]
    <3> TAKE u \in rest
    <3>1. u.destination \in 0..p - 1 /\ u.shard \in 0..p - 1
      BY <1>1, PlannedMoves, Zenon
    <3> QED BY <1>6, <2>1, <3>1 DEF Incoming
  <2>3. q.phase = "ReduceScatter" =>
          \A u \in rest : Incoming(q, u) \cap q.held[u.destination][u.shard] = {}
    BY <1>1, <2>2 DEF Moving
  <2>4. ASSUME ~q.failed PROVE Holds(q, rest)
    <3>1. Holds(r, ts)
      BY <1>1, <1>7, <2>4 DEF Moving
    <3>2. \A u \in rest : Incoming(q, u) = Sends(q, u.shard)
      BY <2>2, <3>1 DEF Holds, Sends
    <3>3. ASSUME NEW b \in 0..p - 1, NEW u \in 0..p - 1, HasBytes(q, u)
          PROVE  HoldsAt(q, rest, b, u)
      <4>1. HoldsAt(r, ts, b, u)
        BY <3>1, <3>3 DEF Holds, HasBytes
      <4>2. CASE u # s
        <5>1. Underway(rest, u) <=> Underway(ts, u)
          BY <4>2 DEF Underway
        <5>2. q.held[b][u] = r.held[b][u]
          BY <1>6, <4>2
        <5> QED BY <4>1, <5>1, <5>2 DEF HoldsAt
      <4>3. CASE u = s /\ b # a
        <5>1. q.held[b][u] = r.held[b][u]
          BY <1>6, <4>3
        <5>2. Distance(p, s, b) # Distance(p, s, a)
          <6>1. p \in Nat \ {0}
            BY <1>2
          <6> HIDE DEF p, a, s
          <6> QED BY <1>2, <4>3, <6>1, DistanceFacts, Zenon
        <5> QED BY <1>1, <1>2, <4>1, <4>3, <5>1, <5>2 DEF HoldsAt, Moving
      <4>4. CASE u = s /\ b = a
        <5>1. ~Underway(rest, u) /\ Underway(ts, u)
          BY <2>1, <4>4 DEF Underway
        <5>2. in = Sends(r, s)
          BY <3>1 DEF Holds
        <5>3. CASE r.phase = "ReduceScatter"
          <6>1. old = {a} /\ in = Arc(p, s, r.round)
            BY <1>2, <4>1, <4>4, <5>1, <5>2, <5>3 DEF HoldsAt, Sends
          <6>2. new = Arc(p, s, r.round + 1)
            <7> DEFINE k == r.round
            <7>1. /\ p \in Nat \ {0} /\ k \in Nat /\ Distance(p, s, a) = k + 1
                  /\ s \in 0..p - 1 /\ a \in 0..p - 1
              BY <1>2, <5>3
            <7>2. new = Arc(p, s, k) \cup {a}
              BY <5>3, <6>1
            <7> HIDE DEF p, a, s, new, k
            <7>3. new = Arc(p, s, k + 1)
              BY <7>1, <7>2, ArcGrows
            <7> QED BY <7>3 DEF k
          <6>3. Distance(p, u, b) = r.round + 1 /\ q.held[b][u] = Arc(p, u, r.round + 1)
            BY <1>2, <1>6, <4>4, <5>3, <6>2, Zenon
          <6> HIDE DEF p
          <6>4. ~(Distance(p, u, b) > r.round + 1)
            BY <1>2, <6>3
          <6> QED BY <5>1, <5>3, <6>3, <6>4, Zenon DEF HoldsAt, p
        <5>4. CASE r.phase = "AllGather"
          BY <1>6, <4>4, <5>2, <5>4 DEF HoldsAt, Sends
        <5> QED BY <1>1, <5>3, <5>4 DEF Moving
      <4> QED BY <4>2, <4>3, <4>4
    <3> QED BY <3>2, <3>3, Zenon DEF Holds
  <2> QED BY <2>1, <2>3, <2>4 DEF Moving
<1>9. q.phase # "Succeeded"
  BY <1>1 DEF Moving
<1> QED BY <1>1, <1>6, <1>7, <1>8, <1>9 DEF Copied

(* A transfer that failed leaves the data alone. *)
LEMMA LossMoves ==
  ASSUME NEW r, IsRecord(r), NEW ts, Copied(r, ts), r.finished = FALSE, NEW t \in ts, NEW q,
         q.request = r.request, q.phase = r.phase, q.round = r.round, q.held = r.held,
         q.sent = r.sent, q.finished = FALSE, q.doubled = r.doubled, q.failed = TRUE
  PROVE  Copied(q, ts \ {t})
<1>1. Moving(q, ts \ {t})
  BY DEF Copied, Moving, Planned, HasBytes, Incoming
<1>2. q.phase # "Succeeded"
  BY DEF Copied, Moving
<1> QED BY <1>1, <1>2, Zenon DEF Copied

----------------------------------------------------------------------------
(* Rounds. *)

(* What a round finds of the copies when it starts. *)
PreparedAt(r, rank, shard) ==
  LET p == r.request.participants
      d == Distance(p, shard, rank)
      copy == r.held[rank][shard]
  IN IF r.phase = "ReduceScatter"
     THEN /\ d > r.round => copy = {rank}
          /\ d = r.round => copy = Arc(p, shard, d)
     ELSE d = p - 1 \/ d < r.round => copy = 0..p - 1

(* A collective at the start of a round. *)
Prepared(r) ==
  LET p == r.request.participants
  IN /\ r.phase \in {"ReduceScatter", "AllGather"} /\ r.round \in 0..p - 2
     /\ r.held \in Copies(p)
     /\ r.failed = FALSE /\ r.doubled = FALSE /\ r.finished = FALSE
     /\ \A rank, shard \in 0..p - 1 : HasBytes(r, shard) => PreparedAt(r, rank, shard)

(* Shard 0 is never empty, as a collective has bytes. *)
LEMMA FirstShardHasBytes ==
  ASSUME NEW p \in Nat \ {0}, NEW bytes \in Nat \ {0}
  PROVE  ShardBytes(p, bytes, 0) # 0
<1>1. bytes = (bytes \div p) * p + (bytes % p) /\ bytes \div p \in Nat /\ bytes % p \in 0..p - 1
  BY SMT
<1> DEFINE q == bytes \div p
           m == bytes % p
<1>2. q \in Nat /\ m \in Nat /\ bytes = q * p + m
  BY <1>1
<1>3. q = 0 => m # 0
  <2> HIDE DEF q, m
  <2> QED BY <1>2, SMT
<1>4. q + (IF 0 < m THEN 1 ELSE 0) # 0
  <2> HIDE DEF q, m
  <2> QED BY <1>2, <1>3
<1> QED BY <1>4 DEF ShardBytes

(* The transfers of a round are those of its plan, one for each shard, and   *)
(* all of them when every route was found.                                   *)
LEMMA EntriesPlanned ==
  ASSUME NEW id, NEW r, IsRecord(r), r.round \in 0..r.request.participants - 2, NEW stop
  PROVE  LET E == Entries(id, r, stop)
         IN /\ \A t \in E : Planned(r, t)
            /\ \A t, u \in E : t.shard = u.shard => t = u
            /\ stop = r.request.participants =>
                 \A shard \in 0..r.request.participants - 1 :
                   HasBytes(r, shard) => Underway(E, shard)
<1> DEFINE p == r.request.participants
           bytes == r.request.bytes
           S(rank) == Shard(p, r.phase, r.round, rank)
           Transfer(rank) ==
             [source |-> rank, destination |-> (rank + 1) % p, shard |-> S(rank),
              bytes |-> ShardBytes(p, bytes, S(rank))]
           E == Entries(id, r, stop)
           K == {rank \in 0..p - 1 : ShardBytes(p, bytes, S(rank)) # 0 /\ rank < stop}
           Entry(rank) ==
             [collective |-> id, phase |-> r.phase, round |-> r.round, source |-> rank,
              destination |-> (rank + 1) % p, shard |-> S(rank),
              bytes |-> ShardBytes(p, bytes, S(rank))]
<1>1. p \in Nat \ {0, 1} /\ r.round \in 0..p - 2
  BY RingAssumption DEF IsRecord
<1>2. E = {Entry(rank) : rank \in K}
  <2>1. Issued(r, stop) = {Transfer(rank) : rank \in K}
    BY Zenon DEF Issued, PlanRound
  <2>2. E = {EntryOf(id, r, t) : t \in Issued(r, stop)}
    BY DEF Entries, EntryOf
  <2>3. \A rank \in K : EntryOf(id, r, Transfer(rank)) = Entry(rank)
    BY DEF EntryOf
  <2> HIDE DEF Transfer, Entry, E, K
  <2> QED BY <2>1, <2>2, <2>3
<1>3. \A rank \in K : /\ Entry(rank).source = rank
                      /\ Entry(rank).destination = (rank + 1) % p
                      /\ Entry(rank).shard = S(rank)
                      /\ Entry(rank).bytes = ShardBytes(p, bytes, S(rank))
                      /\ HasBytes(r, S(rank)) /\ rank \in 0..p - 1
  BY DEF HasBytes
<1>4. \A rank \in 0..p - 1 : S(rank) \in 0..p - 1
  BY <1>1, ShardMoves
<1>5. \A shard \in 0..p - 1 :
        /\ \E rank \in 0..p - 1 : S(rank) = shard
        /\ \A a, b \in 0..p - 1 : S(a) = shard /\ S(b) = shard => a = b
  <2> DEFINE k == r.round
             phase == r.phase
  <2>1. p \in Nat \ {0, 1} /\ k \in 0..p - 2
    BY <1>1
  <2> HIDE DEF p, k, phase
  <2>2. \A shard \in 0..p - 1 :
        /\ \E rank \in 0..p - 1 : Shard(p, phase, k, rank) = shard
        /\ \A a, b \in 0..p - 1 :
             Shard(p, phase, k, a) = shard /\ Shard(p, phase, k, b) = shard => a = b
    BY <2>1, ShardSent, Zenon
  <2> QED BY <2>2 DEF k, phase
<1>6. \A a, b \in 0..p - 1 : S(a) = S(b) => a = b
  BY <1>4, <1>5
<1>7. stop = p => \A shard \in 0..p - 1 : HasBytes(r, shard) =>
                    \E rank \in K : S(rank) = shard
  <2> SUFFICES ASSUME stop = p, NEW shard \in 0..p - 1, HasBytes(r, shard)
               PROVE  \E rank \in K : S(rank) = shard
    OBVIOUS
  <2>1. PICK rank \in 0..p - 1 : S(rank) = shard
    BY <1>5
  <2>2. rank < stop
    BY <1>1
  <2> QED BY <2>1, <2>2 DEF HasBytes
<1> HIDE DEF Entry, K, S, E
<1>8. \A t \in E : Planned(r, t)
  BY <1>2, <1>3 DEF Planned, S
<1>9. \A t, u \in E : t.shard = u.shard => t = u
  BY <1>2, <1>3, <1>6
<1>10. stop = p => \A shard \in 0..p - 1 : HasBytes(r, shard) => Underway(E, shard)
  BY <1>2, <1>3, <1>7 DEF Underway
<1> QED BY <1>8, <1>9, <1>10 DEF E

(* What start_round() leaves of a record. *)
Begun(r, stop, q) ==
  /\ q.request = r.request /\ q.phase = r.phase /\ q.round = r.round
  /\ q.held = r.held /\ q.sent = r.held
  /\ q.doubled = r.doubled /\ q.finished = r.finished
  /\ q.failed <=> r.failed \/ stop < r.request.participants
  /\ q.failed \in BOOLEAN

(* The transfers of a round send what has been reduced so far, or the whole  *)
(* sum, to ranks that have not had it.                                       *)
LEMMA RoundMoves ==
  ASSUME NEW id, NEW r, IsRecord(r), Prepared(r), NEW stop \in Stops(r), NEW q, Begun(r, stop, q)
  PROVE  Moving(q, Entries(id, r, stop))
<1> DEFINE p == r.request.participants
           k == r.round
           E == Entries(id, r, stop)
<1>1. /\ p \in Nat \ {0, 1} /\ k \in 0..p - 2 /\ r.held \in Copies(p)
      /\ r.phase \in {"ReduceScatter", "AllGather"} /\ r.failed = FALSE
  BY RingAssumption DEF IsRecord, Prepared
<1>2. /\ \A t \in E : Planned(r, t)
      /\ \A t, u \in E : t.shard = u.shard => t = u
      /\ stop = p => \A shard \in 0..p - 1 : HasBytes(r, shard) => Underway(E, shard)
  BY <1>1, EntriesPlanned, Zenon
<1> HIDE DEF E
<1>3. ASSUME NEW t \in E
      PROVE  /\ Incoming(q, t) = Sends(q, t.shard)
             /\ t.shard \in 0..p - 1 /\ t.destination \in 0..p - 1
             /\ r.phase = "ReduceScatter" =>
                  Incoming(q, t) \cap q.held[t.destination][t.shard] = {}
  <2> DEFINE a == t.source
             b == t.destination
             s == t.shard
  <2>1. /\ a \in 0..p - 1 /\ b = (a + 1) % p /\ s = Shard(p, r.phase, k, a) /\ HasBytes(r, s)
    BY <1>2, <1>3 DEF Planned
  <2> HIDE DEF p, k, a, b, s
  <2>2. /\ s \in 0..p - 1 /\ b \in 0..p - 1
        /\ r.phase # "AllGather" => Distance(p, s, a) = k /\ Distance(p, s, b) = k + 1
        /\ r.phase = "AllGather" => Distance(p, s, a) = IF k = 0 THEN p - 1 ELSE k - 1
    BY <1>1, <2>1, ShardMoves
  <2>3. PreparedAt(r, a, s) /\ PreparedAt(r, b, s)
    BY <2>1, <2>2 DEF Prepared, p
  <2>4. CASE r.phase = "ReduceScatter"
    <3>1. r.held[a][s] = Arc(p, s, k)
      BY <2>2, <2>3, <2>4 DEF PreparedAt, p, k
    <3>2. r.held[b][s] = {b}
      <4>1. k + 1 > k
        BY <1>1
      <4> QED BY <2>2, <2>3, <2>4, <4>1 DEF PreparedAt, p, k
    <3>3. Arc(p, s, k) \cap {b} = {}
      BY <1>1, <2>2, <2>4, ArcGrows
    <3> QED BY <2>2, <2>4, <3>1, <3>2, <3>3 DEF Begun, Incoming, Sends, a, b, s, p, k
  <2>5. CASE r.phase = "AllGather"
    <3>1. Distance(p, s, a) = p - 1 \/ Distance(p, s, a) < k
      BY <1>1, <2>2, <2>5
    <3>2. r.held[a][s] = 0..p - 1
      BY <2>3, <2>5, <3>1 DEF PreparedAt, p, k
    <3> QED BY <2>2, <2>5, <3>2 DEF Begun, Incoming, Sends, a, b, s, p, k
  <2> QED BY <1>1, <2>4, <2>5
<1>4. ASSUME ~q.failed PROVE Holds(q, E)
  <2>1. stop = p
    <3>1. ~(stop < p)
      BY <1>4 DEF Begun
    <3>2. stop \in 0..p
      BY <1>1 DEF Stops
    <3> QED BY <1>1, <3>1, <3>2
  <2>2. ASSUME NEW a \in 0..p - 1, NEW s \in 0..p - 1, HasBytes(q, s)
        PROVE  HoldsAt(q, E, a, s)
    <3> DEFINE d == Distance(p, s, a)
               copy == r.held[a][s]
    <3>1. HasBytes(r, s)
      BY <2>2 DEF Begun, HasBytes
    <3>2. Underway(E, s) /\ PreparedAt(r, a, s)
      BY <1>2, <2>1, <3>1 DEF Prepared
    <3>3. d \in 0..p - 1
      BY <1>1 DEF Distance
    <3> HIDE DEF d, p, k, copy
    <3>4. CASE r.phase = "ReduceScatter"
      <4>1. d > k => copy = {a}
        BY <3>2, <3>4 DEF PreparedAt, d, p, k, copy
      <4>2. (d > k + 1 => copy = {a}) /\ (d = k + 1 => copy = {a})
        BY <1>1, <3>3, <4>1
      <4> QED BY <3>2, <3>4, <4>2, Zenon DEF Begun, HoldsAt, d, p, k, copy
    <3>5. CASE r.phase = "AllGather"
      BY <3>2, <3>5 DEF Begun, HoldsAt, PreparedAt
    <3> QED BY <1>1, <3>4, <3>5
  <2> QED BY <1>3, <2>2 DEF Holds, Begun
<1>5. \A t \in E : Planned(q, t)
  BY <1>2 DEF Planned, Begun, HasBytes
<1> QED BY <1>1, <1>2, <1>3, <1>4, <1>5 DEF Moving, Begun, E

(* start_round(): with all routes found it issues at least the transfer of   *)
(* shard 0 and the collective goes on, without them it has failed.           *)
LEMMA StartRecord ==
  ASSUME NEW id, NEW r, IsRecord(r), Prepared(r), r.pending = 0, NEW stop \in Stops(r)
  PROVE  LET q == StartRound(r, stop)
             issued == Issued(r, stop)
             local == {t \in issued : Local(r, t)}
         IN /\ q.request = r.request /\ q.held = r.held /\ q.sent = r.held
            /\ q.doubled = FALSE /\ q.planned = r.planned /\ q.delivered = r.delivered
            /\ q.issuedLocal = r.issuedLocal + SumOf(local)
            /\ q.issuedFabric = r.issuedFabric + SumOf(issued \ local)
            /\ q.failed \in BOOLEAN /\ (q.failed <=> stop # r.request.participants)
            /\ \/ q.finished = FALSE /\ q.phase = r.phase /\ q.round = r.round
               \/ q.finished = TRUE /\ q.failed /\ q.phase # "Succeeded"
<1> DEFINE p == r.request.participants
           E == Entries(id, r, stop)
           issued == Issued(r, stop)
           local == {t \in issued : Local(r, t)}
           n == r.pending + Cardinality(issued)
           x == r.issuedLocal + SumOf(local)
           y == r.issuedFabric + SumOf(issued \ local)
           z == r.failed \/ stop < r.request.participants
           q == [r EXCEPT !.pending = n, !.issuedLocal = x, !.issuedFabric = y,
                          !.failed = z, !.sent = r.held]
<1>1. StartRound(r, stop) = IF q.pending = 0 THEN Finished(q) ELSE q
  BY Zenon DEF StartRound, NothingPending
<1>2. IsFiniteSet(E) /\ n = Cardinality(E)
  <2>1. IsFiniteSet(issued) /\ IsFiniteSet(E) /\ Cardinality(E) = Cardinality(issued)
    BY IssuedFinite, EntriesFacts, Zenon
  <2>2. Cardinality(issued) \in Nat
    BY <2>1, FS_CardinalityType
  <2> HIDE DEF issued, E
  <2> QED BY <2>1, <2>2
<1>3. /\ p \in Nat \ {0, 1} /\ r.request.bytes \in Nat \ {0}
      /\ r.failed = FALSE /\ r.doubled = FALSE /\ r.finished = FALSE /\ r.round \in 0..p - 2
  BY RingAssumption DEF IsRecord, Prepared
<1>4. z \in BOOLEAN /\ (z <=> stop # p)
  <2>1. stop \in 0..p
    BY <1>3 DEF Stops
  <2> QED BY <1>3, <2>1
<1>5. /\ q = [f \in Fields |-> q[f]] /\ q.pending = n
      /\ q.request = r.request /\ q.phase = r.phase /\ q.round = r.round
      /\ q.held = r.held /\ q.sent = r.held /\ q.planned = r.planned
      /\ q.delivered = r.delivered /\ q.issuedLocal = x /\ q.issuedFabric = y
      /\ q.doubled = r.doubled /\ q.finished = r.finished /\ q.failed = z
  <2> HIDE DEF n, x, y, z
  <2> QED BY Zenon DEF IsRecord, Fields
<1> HIDE DEF q, n, x, y, z, E, issued, local, p
<1>6. CASE q.pending # 0
  <2>1. StartRound(r, stop) = q
    BY <1>1, <1>6
  <2> QED BY <1>3, <1>4, <1>5, <2>1 DEF x, y, issued, local, p
<1>7. CASE q.pending = 0
  <2>1. E = {}
    BY <1>2, <1>5, <1>7, FS_EmptySet, Zenon
  <2>2. z
    <3> SUFFICES ASSUME stop = p PROVE FALSE
      BY <1>4
    <3>1. HasBytes(r, 0)
      BY <1>3, FirstShardHasBytes DEF HasBytes, p
    <3>2. 0 \in 0..p - 1
      BY <1>3
    <3>3. Underway(E, 0)
      BY <1>3, <3>1, <3>2, EntriesPlanned DEF E, p
    <3> QED BY <2>1, <3>3 DEF Underway
  <2> DEFINE f == Finished(q)
  <2>3. /\ f.request = r.request /\ f.held = r.held /\ f.sent = r.held /\ f.failed = z
        /\ f.planned = r.planned /\ f.delivered = r.delivered
        /\ f.issuedLocal = x /\ f.issuedFabric = y
        /\ f.doubled = r.doubled /\ f.finished = TRUE /\ f.phase # "Succeeded"
    <3>1. q.failed
      BY <1>5, <2>2, Zenon
    <3> QED BY <1>5, <3>1, Zenon DEF Finished, Fields
  <2> HIDE DEF f
  <2>4. StartRound(r, stop) = f
    BY <1>1, <1>7 DEF f
  <2> QED BY <1>3, <1>4, <2>2, <2>3, <2>4, Zenon DEF x, y, issued, local, p
<1> QED BY <1>6, <1>7, Zenon

(* start_round() keeps the copies right. *)
LEMMA StartCopies ==
  ASSUME NEW id, NEW r, IsRecord(r), Prepared(r), r.pending = 0, NEW stop \in Stops(r)
  PROVE  Copied(StartRound(r, stop), Entries(id, r, stop))
<1> DEFINE p == r.request.participants
           q == StartRound(r, stop)
           E == Entries(id, r, stop)
<1>1. /\ q.request = r.request /\ q.held = r.held /\ q.sent = r.held /\ q.doubled = FALSE
      /\ q.failed \in BOOLEAN /\ (q.failed <=> stop # p)
      /\ \/ q.finished = FALSE /\ q.phase = r.phase /\ q.round = r.round
         \/ q.finished = TRUE /\ q.phase # "Succeeded"
  BY StartRecord, Zenon
<1> HIDE DEF q, E
<1>2. /\ r.held \in Copies(p) /\ r.failed = FALSE /\ r.doubled = FALSE /\ r.finished = FALSE
      /\ r.phase # "Succeeded"
  BY DEF Prepared
<1>3. stop # p <=> stop < p
  <2>1. p \in Nat
    BY RingAssumption DEF IsRecord
  <2>2. stop \in 0..p
    BY <2>1 DEF Stops
  <2> QED BY <2>1, <2>2
<1>4. q.held \in Copies(q.request.participants) /\ q.sent \in Copies(q.request.participants)
  BY <1>1, <1>2
<1>5. CASE q.finished = FALSE /\ q.phase = r.phase /\ q.round = r.round
  <2>1. Begun(r, stop, q)
    BY <1>1, <1>2, <1>3, <1>5, Zenon DEF Begun
  <2>2. Moving(q, E)
    BY <2>1, RoundMoves DEF E
  <2>3. Copied(q, E)
    BY <1>1, <1>2, <1>4, <1>5, <2>2 DEF Copied
  <2> QED BY <2>3 DEF q, E
<1>6. CASE q.finished = TRUE /\ q.phase # "Succeeded"
  <2>1. Copied(q, E)
    BY <1>1, <1>4, <1>6 DEF Copied
  <2> QED BY <2>1 DEF q, E
<1> QED BY <1>1, <1>5, <1>6, Zenon

(* The end of a round prepares the next one: the whole sum of a shard is at  *)
(* the rank before its own when the second phase starts.                     *)
LEMMA RoundPrepares ==
  ASSUME NEW r, IsRecord(r), Copied(r, {}), r.finished = FALSE, ~r.failed, ~LastRound(r)
  PROVE  Prepared(NextRound(r))
<1> DEFINE p == r.request.participants
           k == r.round
           n == NextRound(r)
           last == ~(k + 1 < p - 1)
<1>1. /\ r.held \in Copies(p) /\ r.failed = FALSE /\ r.doubled = FALSE
      /\ k \in 0..p - 2 /\ r.phase \in {"ReduceScatter", "AllGather"} /\ Holds(r, {})
  BY DEF Copied, Moving
<1>2. p \in Nat \ {0, 1}
  BY <1>1, RingAssumption DEF IsRecord
<1>3. /\ n.request = r.request /\ n.held = r.held /\ n.failed = r.failed
      /\ n.doubled = r.doubled /\ n.finished = r.finished
      /\ ~last => n.phase = r.phase /\ n.round = k + 1
      /\ last => n.phase = "AllGather" /\ n.round = 0
  BY Zenon DEF NextRound, IsRecord, Fields
<1>4. last => k = p - 2 /\ r.phase = "ReduceScatter"
  BY <1>1, <1>2 DEF LastRound
<1>5. n.phase \in {"ReduceScatter", "AllGather"} /\ n.round \in 0..p - 2
  BY <1>1, <1>2, <1>3
<1> HIDE DEF n
<1>6. ASSUME NEW a \in 0..p - 1, NEW s \in 0..p - 1, HasBytes(n, s)
      PROVE  PreparedAt(n, a, s)
  <2> DEFINE d == Distance(p, s, a)
             copy == r.held[a][s]
  <2>1. HasBytes(r, s)
    BY <1>3, <1>6 DEF HasBytes
  <2>2. HoldsAt(r, {}, a, s) /\ ~Underway({}, s)
    BY <1>1, <2>1 DEF Holds, Underway
  <2>3. d \in 0..p - 1
    BY <1>2 DEF Distance
  <2>4. /\ r.phase = "ReduceScatter" => /\ d > k + 1 => copy = {a}
                                        /\ d = k + 1 => copy = Arc(p, s, d)
        /\ r.phase = "AllGather" => (d = p - 1 \/ d < k \/ d = k => copy = 0..p - 1)
    <3> HIDE DEF d, copy, p
    <3> QED BY <2>2, Zenon DEF HoldsAt, d, copy, p
  <2>5. PreparedAt(n, a, s) <=>
          IF n.phase = "ReduceScatter"
          THEN /\ d > n.round => copy = {a}
               /\ d = n.round => copy = Arc(p, s, d)
          ELSE d = p - 1 \/ d < n.round => copy = 0..p - 1
    BY <1>3, Zenon DEF PreparedAt
  <2>6. Arc(p, s, p - 1) = 0..p - 1
    BY <1>2, ArcEnds
  <2> HIDE DEF d, copy, p, k, last
  <2>7. CASE ~last
    <3>1. CASE r.phase = "ReduceScatter"
      <4>1. n.phase = "ReduceScatter" /\ n.round = k + 1
        BY <1>3, <2>7, <3>1
      <4>2. (d > n.round => copy = {a}) /\ (d = n.round => copy = Arc(p, s, d))
        BY <2>4, <3>1, <4>1, Zenon
      <4> QED BY <2>5, <4>1, <4>2, Zenon
    <3>2. CASE r.phase = "AllGather"
      <4>1. d < k + 1 => d < k \/ d = k
        BY <1>1, <1>2, <2>3
      <4> QED BY <1>3, <2>4, <2>5, <2>7, <3>2, <4>1
    <3> QED BY <1>1, <3>1, <3>2
  <2>8. CASE last
    <3>1. ~(d < 0) /\ (d = p - 1 => d = k + 1)
      BY <1>2, <1>4, <2>3, <2>8
    <3>2. d = p - 1 => copy = 0..p - 1
      BY <1>4, <2>4, <2>6, <2>8, <3>1
    <3>3. n.phase # "ReduceScatter" /\ n.round = 0
      BY <1>3, <2>8
    <3> QED BY <2>5, <3>1, <3>2, <3>3
  <2> QED BY <2>7, <2>8
<1>7. /\ n.request.participants = p /\ n.held \in Copies(p)
      /\ n.failed = FALSE /\ n.doubled = FALSE /\ n.finished = FALSE
  BY <1>1, <1>3
<1>8. Prepared(n)
  BY <1>5, <1>6, <1>7, Zenon DEF Prepared
<1> QED BY <1>8 DEF n

(* A collective that ends has failed, was cancelled, or has reduced every    *)
(* shard everywhere.                                                         *)
LEMMA EndCopies ==
  ASSUME NEW r, IsRecord(r), Copied(r, {}), r.finished = FALSE,
         r.failed \/ r.cancelled \/ LastRound(r)
  PROVE  Copied(Finished(r), {})
<1> DEFINE p == r.request.participants
           f == Finished(r)
<1>1. /\ r.held \in Copies(p) /\ r.sent \in Copies(p) /\ r.failed \in BOOLEAN
      /\ r.doubled = FALSE /\ r.round \in 0..p - 2 /\ (~r.failed => Holds(r, {}))
  BY DEF Copied, Moving
<1>2. p \in Nat \ {0, 1}
  BY <1>1, RingAssumption DEF IsRecord
<1>3. /\ f.request = r.request /\ f.held = r.held /\ f.sent = r.sent /\ f.failed = r.failed
      /\ f.doubled = r.doubled /\ f.finished = TRUE
      /\ f.phase = "Succeeded" => ~r.cancelled /\ ~r.failed
  BY Zenon DEF Finished, IsRecord, Fields
<1> HIDE DEF f
<1>4. ASSUME f.phase = "Succeeded" PROVE Reduced(f)
  <2>1. Holds(r, {}) /\ r.phase = "AllGather" /\ r.round + 1 = p - 1
    BY <1>1, <1>3, <1>4 DEF LastRound
  <2>2. ASSUME NEW a \in 0..p - 1, NEW s \in 0..p - 1, HasBytes(f, s)
        PROVE  f.held[a][s] = 0..p - 1
    <3> DEFINE d == Distance(p, s, a)
    <3>1. HoldsAt(r, {}, a, s) /\ ~Underway({}, s)
      BY <1>3, <2>1, <2>2 DEF Holds, Underway, HasBytes
    <3>2. d \in 0..p - 1
      BY <1>2 DEF Distance
    <3>3. d = p - 1 \/ d < r.round \/ d = r.round
      BY <1>1, <1>2, <2>1, <3>2
    <3> QED BY <1>3, <2>1, <3>1, <3>3 DEF HoldsAt
  <2> QED BY <1>3, <2>2 DEF Reduced
<1>5. Copied(f, {})
  BY <1>1, <1>3, <1>4 DEF Copied
<1> QED BY <1>5 DEF f

----------------------------------------------------------------------------
(* Sums of bytes. *)

(* SumOf adds the bytes of its transfers, in whatever order. *)
LEMMA SumOfFacts ==
  ASSUME NEW S, IsFiniteSet(S), \A t \in S : t.bytes \in Nat
  PROVE  /\ SumOf({}) = 0
         /\ SumOf(S) \in Nat
         /\ \A t \in S : SumOf(S) = SumOf(S \ {t}) + t.bytes
<1> DEFINE Folds(U, g) == g = [s \in SUBSET U |-> IF s = {} THEN 0
                                 ELSE g[s \ {Chosen(s)}] + Chosen(s).bytes]
           W(U) == [t \in U |-> t.bytes]
<1>1. \A U : SumOf(U) = (CHOOSE g : Folds(U, g))[U]
  BY Zenon DEF SumOf, FoldSet, MapThenFoldSet, Chosen
<1>2. ASSUME NEW U, NEW g PROVE Sums(U, W(U), g) <=> Folds(U, g)
  <2>1. \A s \in SUBSET U : s # {} => W(U)[Chosen(s)] = Chosen(s).bytes
    <3> TAKE s \in SUBSET U
    <3> HAVE s # {}
    <3>1. Chosen(s) \in s
      BY Zenon DEF Chosen
    <3> QED BY <3>1
  <2> HIDE DEF W
  <2>2. [s \in SUBSET U |-> IF s = {} THEN 0 ELSE g[s \ {Chosen(s)}] + W(U)[Chosen(s)]]
        = [s \in SUBSET U |-> IF s = {} THEN 0 ELSE g[s \ {Chosen(s)}] + Chosen(s).bytes]
    BY <2>1
  <2> QED BY <2>2 DEF Sums
<1> DEFINE G(U) == CHOOSE g : Folds(U, g)
<1>3. ASSUME NEW U, IsFiniteSet(U) PROVE Sums(U, W(U), G(U))
  <2>1. \E g : Sums(U, W(U), g)
    BY <1>3, SumsExist
  <2> HIDE DEF Folds, W
  <2>2. \E g : Folds(U, g)
    BY <1>2, <2>1
  <2>3. Folds(U, G(U))
    BY <2>2, Zenon
  <2> QED BY <1>2, <2>3, Zenon
<1> HIDE DEF G, Folds
<1>4. \A U : SumOf(U) = G(U)[U]
  BY <1>1, Zenon DEF G
<1>5. \A t \in S : W(S)[t] \in Nat /\ W(S)[t] = t.bytes
  OBVIOUS
<1>6. /\ G(S)[{}] = 0
      /\ \A s \in SUBSET S : G(S)[s] \in Nat
      /\ \A s \in SUBSET S : \A t \in s : G(S)[s] = G(S)[s \ {t}] + W(S)[t]
  <2> DEFINE w == W(S)
             g == G(S)
  <2>1. Sums(S, w, g) /\ \A t \in S : w[t] \in Nat
    BY <1>3, <1>5
  <2> HIDE DEF W, w, g
  <2>2. g[{}] = 0 /\ \A s \in SUBSET S : g[s] \in Nat
    BY <2>1, SumTyped
  <2>3. \A s \in SUBSET S : \A t \in s : g[s] = g[s \ {t}] + w[t]
    <3> TAKE s \in SUBSET S
    <3> TAKE t \in s
    <3> QED BY <2>1, SumRemoves
  <2> QED BY <2>2, <2>3 DEF w, g
<1>7. ASSUME NEW U \in SUBSET S PROVE SumOf(U) = G(S)[U]
  <2>1. IsFiniteSet(U)
    BY FS_Subset
  <2>2. Sums(U, W(U), G(U)) /\ Sums(S, W(S), G(S))
    BY <1>3, <2>1
  <2>3. \A x \in U : x \in S => W(S)[x] = W(U)[x]
    OBVIOUS
  <2> DEFINE wu == W(U)
             ws == W(S)
             gu == G(U)
             gs == G(S)
  <2> HIDE DEF W, wu, ws, gu, gs
  <2>4. Sums(U, wu, gu) /\ Sums(S, ws, gs) /\ \A x \in U : x \in S => ws[x] = wu[x]
    BY <2>2, <2>3 DEF wu, ws, gu, gs
  <2>5. gu[U] = gs[U]
    BY <2>1, <2>4, SumsAgree
  <2> QED BY <1>4, <2>5 DEF gu, gs
<1>8. SumOf({}) = 0 /\ SumOf(S) \in Nat
  BY <1>6, <1>7
<1>9. ASSUME NEW t \in S PROVE SumOf(S) = SumOf(S \ {t}) + t.bytes
  <2>1. S \in SUBSET S /\ S \ {t} \in SUBSET S
    OBVIOUS
  <2>2. G(S)[S] = G(S)[S \ {t}] + W(S)[t]
    BY <1>6, <2>1, Zenon
  <2> HIDE DEF W
  <2> QED BY <1>5, <1>7, <2>1, <2>2
<1> QED BY <1>8, <1>9

(* The sum over a part and the rest is the sum over the whole. *)
LEMMA SumSplits ==
  ASSUME NEW S, IsFiniteSet(S), \A t \in S : t.bytes \in Nat, NEW A \in SUBSET S
  PROVE  /\ SumOf(A) \in Nat /\ SumOf(S \ A) \in Nat
         /\ SumOf(S) = SumOf(A) + SumOf(S \ A)
<1> DEFINE T == {n \in Nat : \A B \in SUBSET S :
                               Cardinality(B) = n => SumOf(S) = SumOf(B) + SumOf(S \ B)}
<1>1. \A B \in SUBSET S : /\ IsFiniteSet(B) /\ Cardinality(B) \in Nat
                          /\ SumOf(B) \in Nat
                          /\ \A t \in B : SumOf(B) = SumOf(B \ {t}) + t.bytes
  <2> TAKE B \in SUBSET S
  <2>1. IsFiniteSet(B) /\ \A t \in B : t.bytes \in Nat
    BY FS_Subset
  <2> QED BY <2>1, FS_CardinalityType, SumOfFacts
<1>2. 0 \in T
  <2> SUFFICES ASSUME NEW B \in SUBSET S, Cardinality(B) = 0
               PROVE  SumOf(S) = SumOf(B) + SumOf(S \ B)
    OBVIOUS
  <2>1. B = {}
    BY <1>1, FS_EmptySet
  <2> DEFINE x == SumOf(S)
             y == SumOf(B)
             z == SumOf(S \ B)
  <2>2. y = 0 /\ x \in Nat
    BY <2>1, SumOfFacts
  <2>3. S \ B = S
    BY <2>1
  <2>4. z = x
    BY <2>3, Zenon
  <2> HIDE DEF x, y, z
  <2>5. x = y + z
    BY <2>2, <2>4
  <2> QED BY <2>5 DEF x, y, z
<1>3. ASSUME NEW n \in Nat, n \in T PROVE n + 1 \in T
  <2> SUFFICES ASSUME NEW B \in SUBSET S, Cardinality(B) = n + 1
               PROVE  SumOf(S) = SumOf(B) + SumOf(S \ B)
    OBVIOUS
  <2>1. PICK t : t \in B
    BY FS_EmptySet
  <2> DEFINE C == B \ {t}
             D == S \ B
             E == S \ C
  <2>2. Cardinality(C) = n
    BY <1>1, <2>1, Removed
  <2>3. C \in SUBSET S /\ E \in SUBSET S /\ D \in SUBSET S /\ t \in E /\ E \ {t} = D
    BY <2>1
  <2>4. SumOf(S) = SumOf(C) + SumOf(E)
    BY <1>3, <2>2, <2>3
  <2>5. SumOf(B) = SumOf(C) + t.bytes /\ SumOf(E) = SumOf(E \ {t}) + t.bytes
    BY <1>1, <2>1, <2>3
  <2>6. SumOf(C) \in Nat /\ SumOf(D) \in Nat /\ t.bytes \in Nat
    BY <1>1, <2>1, <2>3
  <2> DEFINE x == SumOf(S)
             y == SumOf(B)
             c == SumOf(C)
             d == SumOf(D)
             e == SumOf(E)
  <2>7. x = c + e /\ y = c + t.bytes /\ e = d + t.bytes
    BY <2>3, <2>4, <2>5, Zenon
  <2>8. c \in Nat /\ d \in Nat /\ t.bytes \in Nat
    BY <2>6
  <2> HIDE DEF x, y, c, d, e
  <2>9. x = y + d
    BY <2>7, <2>8
  <2> QED BY <2>9 DEF x, y, d
<1>4. \A n \in Nat : n \in T
  <2> HIDE DEF T
  <2> QED BY <1>2, <1>3, Induction
<1>5. S \ A \in SUBSET S
  OBVIOUS
<1> QED BY <1>1, <1>4, <1>5

(* Transfers of distinct shards below m. *)
Labelled(S, p, b, m) ==
  /\ IsFiniteSet(S)
  /\ \A t \in S : t.shard \in 0..m - 1 /\ t.bytes = ShardBytes(p, b, t.shard)
  /\ \A t, u \in S : t.shard = u.shard => t = u

(* The bytes of the shards below m. *)
Below(p, b, m) == m * (b \div p) + (IF m < b % p THEN m ELSE b % p)

(* The shards of a collective add up to its bytes. *)
LEMMA ShardBytesFacts ==
  ASSUME NEW p \in Nat \ {0}, NEW b \in Nat
  PROVE  /\ \A s \in Nat : ShardBytes(p, b, s) \in Nat
         /\ Below(p, b, 0) = 0 /\ Below(p, b, p) = b
         /\ \A m \in Nat : /\ Below(p, b, m) \in Nat
                           /\ Below(p, b, m + 1) = Below(p, b, m) + ShardBytes(p, b, m)
<1> DEFINE q == b \div p
           e == b % p
<1>1. q \in Nat /\ e \in 0..p - 1 /\ b = p * q + e
  BY SMT
<1>2. Below(p, b, 0) = 0 * q + (IF 0 < e THEN 0 ELSE e)
  BY DEF Below
<1>3. Below(p, b, p) = p * q + (IF p < e THEN p ELSE e)
  BY DEF Below
<1>4. \A m \in Nat : /\ Below(p, b, m) = m * q + (IF m < e THEN m ELSE e)
                     /\ Below(p, b, m + 1) = (m + 1) * q + (IF m + 1 < e THEN m + 1 ELSE e)
                     /\ ShardBytes(p, b, m) = q + (IF m < e THEN 1 ELSE 0)
  BY Zenon DEF Below, ShardBytes
<1> HIDE DEF q, e
<1>5. Below(p, b, 0) = 0 /\ Below(p, b, p) = b
  BY <1>1, <1>2, <1>3, SMT
<1>6. \A m \in Nat : ShardBytes(p, b, m) \in Nat
  BY <1>1, <1>4
<1>7. ASSUME NEW m \in Nat
      PROVE  /\ Below(p, b, m) \in Nat
             /\ Below(p, b, m + 1) = Below(p, b, m) + ShardBytes(p, b, m)
  <2>1. (m + 1) * q = m * q + q /\ m * q \in Nat
    BY <1>1, SMT
  <2> DEFINE x == m * q
             y == (m + 1) * q
  <2>2. y = x + q /\ x \in Nat
    BY <2>1
  <2>3. /\ Below(p, b, m) = x + (IF m < e THEN m ELSE e)
        /\ Below(p, b, m + 1) = y + (IF m + 1 < e THEN m + 1 ELSE e)
        /\ ShardBytes(p, b, m) = q + (IF m < e THEN 1 ELSE 0)
    BY <1>4
  <2> HIDE DEF x, y
  <2> QED BY <1>1, <2>2, <2>3
<1> QED BY <1>5, <1>6, <1>7

(* Transfers of distinct shards are finitely many, of natural sizes. *)
LEMMA LabelledBytes ==
  ASSUME NEW p \in Nat \ {0}, NEW b \in Nat, NEW m \in Nat, NEW S, Labelled(S, p, b, m)
  PROVE  IsFiniteSet(S) /\ \A t \in S : t.bytes \in Nat
<1>1. IsFiniteSet(S)
  BY DEF Labelled
<1>2. ASSUME NEW t \in S PROVE t.bytes \in Nat
  <2>1. t.shard \in 0..m - 1 /\ t.bytes = ShardBytes(p, b, t.shard)
    BY DEF Labelled
  <2>2. t.shard \in Nat
    BY <2>1
  <2>3. \A s \in Nat : ShardBytes(p, b, s) \in Nat
    BY ShardBytesFacts, Zenon
  <2> QED BY <2>1, <2>2, <2>3, Zenon
<1> QED BY <1>1, <1>2

(* Transfers of distinct shards carry at most the bytes of their shards, and *)
(* all of them if every shard with bytes is there.                           *)
LEMMA LabelledSum ==
  ASSUME NEW p \in Nat \ {0}, NEW b \in Nat, NEW S, Labelled(S, p, b, p)
  PROVE  /\ SumOf(S) \in Nat /\ SumOf(S) <= b
         /\ (\A s \in 0..p - 1 : ShardBytes(p, b, s) # 0 => Underway(S, s)) => SumOf(S) = b
<1> DEFINE Full(A, m) == \A s \in 0..m - 1 : ShardBytes(p, b, s) # 0 => Underway(A, s)
           Fits(A, m) == /\ SumOf(A) \in Nat /\ SumOf(A) <= Below(p, b, m)
                         /\ Full(A, m) => SumOf(A) = Below(p, b, m)
           T == {m \in Nat : \A A : Labelled(A, p, b, m) => Fits(A, m)}
<1>1. 0 \in T
  <2> SUFFICES ASSUME NEW A, Labelled(A, p, b, 0) PROVE Fits(A, 0)
    OBVIOUS
  <2>1. A = {}
    BY DEF Labelled
  <2>2. SumOf(A) = 0
    BY <2>1, SumOfFacts, FS_EmptySet
  <2> QED BY <2>2, ShardBytesFacts
<1>2. ASSUME NEW m \in Nat, m \in T PROVE m + 1 \in T
  <2> SUFFICES ASSUME NEW A, Labelled(A, p, b, m + 1) PROVE Fits(A, m + 1)
    OBVIOUS
  <2> DEFINE x == SumOf(A)
             v == Below(p, b, m)
             y == Below(p, b, m + 1)
             c == ShardBytes(p, b, m)
  <2>1. v \in Nat /\ c \in Nat /\ y = v + c
    BY ShardBytesFacts, Zenon
  <2>2. IsFiniteSet(A) /\ \A t \in A : t.bytes \in Nat
    <3>1. m + 1 \in Nat
      OBVIOUS
    <3> QED BY <3>1, LabelledBytes, Zenon
  <2>3. CASE \E t \in A : t.shard = m
    <3>1. PICK t \in A : t.shard = m
      BY <2>3
    <3> DEFINE B == A \ {t}
               z == SumOf(B)
    <3>2. x = z + t.bytes /\ t.bytes = c
      BY <2>2, <3>1, SumOfFacts DEF Labelled
    <3>3. Labelled(B, p, b, m)
      <4>1. IsFiniteSet(B)
        BY <2>2, FS_Subset
      <4>2. \A u \in B : u.shard \in 0..m - 1
        BY <3>1 DEF Labelled
      <4> QED BY <4>1, <4>2 DEF Labelled
    <3>4. Full(A, m + 1) => Full(B, m)
      <4> SUFFICES ASSUME Full(A, m + 1), NEW s \in 0..m - 1, ShardBytes(p, b, s) # 0
                   PROVE  Underway(B, s)
        OBVIOUS
      <4>1. s \in 0..(m + 1) - 1 /\ s # m
        OBVIOUS
      <4>2. PICK u \in A : u.shard = s
        BY <4>1 DEF Underway
      <4> QED BY <3>1, <4>1, <4>2 DEF Underway
    <3>5. Fits(B, m)
      BY <1>2, <3>3
    <3> DEFINE full == Full(A, m + 1)
    <3>6. z \in Nat /\ z <= v /\ (full => z = v)
      BY <3>4, <3>5, Zenon
    <3> HIDE DEF x, y, z, v, c, full, B, Full
    <3>7. x \in Nat /\ x <= y /\ (full => x = y)
      BY <2>1, <3>2, <3>6
    <3> QED BY <3>7 DEF x, y, full
  <2>4. CASE \A t \in A : t.shard # m
    <3>1. Labelled(A, p, b, m)
      <4>1. \A u \in A : u.shard \in 0..m - 1
        BY <2>4 DEF Labelled
      <4> QED BY <4>1 DEF Labelled
    <3>2. Fits(A, m)
      BY <1>2, <3>1
    <3> DEFINE full == Full(A, m + 1)
    <3>3. full => Full(A, m) /\ c = 0
      <4>1. \A s \in 0..m - 1 : s \in 0..(m + 1) - 1
        OBVIOUS
      <4>2. m \in 0..(m + 1) - 1 /\ ~Underway(A, m)
        BY <2>4 DEF Underway
      <4> QED BY <4>1, <4>2
    <3>4. x \in Nat /\ x <= v /\ (full => x = v /\ c = 0)
      BY <3>2, <3>3, Zenon
    <3> HIDE DEF x, y, v, c, full, Full
    <3>5. x \in Nat /\ x <= y /\ (full => x = y)
      BY <2>1, <3>4
    <3> QED BY <3>5 DEF x, y, full
  <2> QED BY <2>3, <2>4
<1>3. p \in T
  <2> HIDE DEF T
  <2> QED BY <1>1, <1>2, Induction
<1>4. Below(p, b, p) = b
  BY ShardBytesFacts
<1> QED BY <1>3, <1>4

(* Transfers of the same shards carry the same bytes. *)
LEMMA LabelledSame ==
  ASSUME NEW p \in Nat \ {0}, NEW b \in Nat, NEW S, NEW U,
         Labelled(S, p, b, p), Labelled(U, p, b, p),
         \A s \in 0..p - 1 : Underway(S, s) <=> Underway(U, s)
  PROVE  SumOf(S) = SumOf(U)
<1> DEFINE Same(A, B) == \A s \in Nat : Underway(A, s) <=> Underway(B, s)
           T == {m \in Nat : \A A, B : /\ Labelled(A, p, b, m) /\ Labelled(B, p, b, m)
                                       /\ Same(A, B)
                                       => SumOf(A) = SumOf(B)}
<1>1. 0 \in T
  <2> SUFFICES ASSUME NEW A, NEW B, Labelled(A, p, b, 0), Labelled(B, p, b, 0)
               PROVE  SumOf(A) = SumOf(B)
    OBVIOUS
  <2>1. A = {} /\ B = {}
    BY DEF Labelled
  <2> QED BY <2>1
<1>2. ASSUME NEW m \in Nat, m \in T PROVE m + 1 \in T
  <2> SUFFICES ASSUME NEW A, NEW B, Labelled(A, p, b, m + 1), Labelled(B, p, b, m + 1), Same(A, B)
               PROVE  SumOf(A) = SumOf(B)
    OBVIOUS
  <2>1. CASE Underway(A, m)
    <3>1. PICK t \in A : t.shard = m
      BY <2>1 DEF Underway
    <3>2. PICK u \in B : u.shard = m
      BY <2>1 DEF Underway
    <3> DEFINE C == A \ {t}
               D == B \ {u}
    <3>3. /\ IsFiniteSet(A) /\ \A e \in A : e.bytes \in Nat
          /\ IsFiniteSet(B) /\ \A e \in B : e.bytes \in Nat
          /\ t.bytes = u.bytes
      <4>1. m + 1 \in Nat
        OBVIOUS
      <4>2. t.bytes = ShardBytes(p, b, m) /\ u.bytes = ShardBytes(p, b, m)
        BY <3>1, <3>2 DEF Labelled
      <4> QED BY <4>1, <4>2, LabelledBytes, Zenon
    <3>4. SumOf(A) = SumOf(C) + t.bytes /\ SumOf(B) = SumOf(D) + u.bytes
      BY <3>3, SumOfFacts
    <3>5. Labelled(C, p, b, m) /\ Labelled(D, p, b, m)
      <4>1. IsFiniteSet(C) /\ IsFiniteSet(D)
        BY <3>3, FS_Subset
      <4>2. (\A e \in C : e.shard \in 0..m - 1) /\ (\A e \in D : e.shard \in 0..m - 1)
        BY <3>1, <3>2 DEF Labelled
      <4> QED BY <4>1, <4>2 DEF Labelled
    <3>6. Same(C, D)
      BY <3>1, <3>2 DEF Underway, Labelled
    <3>7. SumOf(C) = SumOf(D)
      BY <1>2, <3>5, <3>6, Zenon
    <3> QED BY <3>3, <3>4, <3>7, Zenon
  <2>2. CASE ~Underway(A, m)
    <3>1. Labelled(A, p, b, m) /\ Labelled(B, p, b, m)
      <4>1. (\A e \in A : e.shard \in 0..m - 1) /\ (\A e \in B : e.shard \in 0..m - 1)
        BY <2>2 DEF Labelled, Underway
      <4> QED BY <4>1 DEF Labelled
    <3> QED BY <1>2, <3>1, Zenon
  <2> QED BY <2>1, <2>2
<1>3. p \in T
  <2> HIDE DEF T
  <2> QED BY <1>1, <1>2, Induction
<1>4. Same(S, U)
  BY DEF Underway, Labelled
<1> QED BY <1>3, <1>4, Zenon

----------------------------------------------------------------------------
(* Bytes. *)

(* The rounds before the current one. *)
RoundNumber(r) ==
  r.round + (IF r.phase = "AllGather" THEN r.request.participants - 1 ELSE 0)

(* What a collective plans is fixed, and its counters are naturals. *)
Counters(r) ==
  /\ r.planned = PlannedVolume(r.request.participants, r.request.bytes)
  /\ r.issuedFabric \in Nat /\ r.issuedLocal \in Nat /\ r.delivered \in Nat

(* The bytes of one collective, whose transfers under way are ts: every      *)
(* round without a failure issues all bytes once.                            *)
Booked(r, ts) ==
  LET issued == r.issuedFabric + r.issuedLocal
      underway == SumOf(ts)
  IN /\ Counters(r)
     /\ IsFiniteSet(ts) /\ \A t \in ts : t.bytes \in Nat
     /\ issued <= r.planned
     /\ r.delivered + underway <= issued
     /\ ~r.failed => r.delivered + underway = issued
     /\ ~r.failed /\ ~r.finished => issued = (RoundNumber(r) + 1) * r.request.bytes
     /\ r.phase = "Succeeded" => r.delivered = r.planned /\ issued = r.planned

(* The bytes at the start of a round. *)
Settled(r) ==
  LET issued == r.issuedFabric + r.issuedLocal
  IN /\ Counters(r)
     /\ r.delivered = issued /\ issued = RoundNumber(r) * r.request.bytes

(* A round issues each byte once, when all its routes are found. *)
LEMMA RoundVolume ==
  ASSUME NEW id, NEW r, IsRecord(r), r.round \in 0..r.request.participants - 2, NEW stop
  PROVE  LET I == Issued(r, stop)
             E == Entries(id, r, stop)
         IN /\ IsFiniteSet(I) /\ \A t \in I : t.bytes \in Nat
            /\ IsFiniteSet(E) /\ \A t \in E : t.bytes \in Nat
            /\ SumOf(E) = SumOf(I) /\ SumOf(I) \in Nat /\ SumOf(I) <= r.request.bytes
            /\ stop = r.request.participants => SumOf(I) = r.request.bytes
<1> DEFINE p == r.request.participants
           b == r.request.bytes
           I == Issued(r, stop)
           E == Entries(id, r, stop)
<1>1. p \in Nat \ {0, 1} /\ b \in Nat /\ r.round \in 0..p - 2
  BY RingAssumption DEF IsRecord
<1>2. IsFiniteSet(I) /\ IsFiniteSet(E)
  BY IssuedFinite, EntriesFacts, Zenon
<1>3. /\ \A t \in E : Planned(r, t)
      /\ \A t, u \in E : t.shard = u.shard => t = u
      /\ stop = p => \A shard \in 0..p - 1 : HasBytes(r, shard) => Underway(E, shard)
  BY <1>1, EntriesPlanned, Zenon
<1>4. E = {EntryOf(id, r, t) : t \in I}
  BY DEF Entries, EntryOf
<1>5. \A t \in I : t = [source |-> t.source, destination |-> t.destination,
                        shard |-> t.shard, bytes |-> t.bytes]
  BY Zenon DEF Issued, PlanRound
<1>6. \A t : EntryOf(id, r, t).shard = t.shard /\ EntryOf(id, r, t).bytes = t.bytes
  BY DEF EntryOf
<1>7. \A t, u \in I : EntryOf(id, r, t) = EntryOf(id, r, u) => t = u
  <2> TAKE t, u \in I
  <2> HAVE EntryOf(id, r, t) = EntryOf(id, r, u)
  <2>1. /\ t.source = u.source /\ t.destination = u.destination
        /\ t.shard = u.shard /\ t.bytes = u.bytes
    BY DEF EntryOf
  <2> HIDE DEF I
  <2> QED BY <1>5, <2>1
<1>8. \A t \in E : t.shard \in 0..p - 1 /\ t.bytes = ShardBytes(p, b, t.shard)
  <2> TAKE t \in E
  <2> DEFINE k == r.round
             a == t.source
  <2>1. a \in 0..p - 1 /\ t.shard = Shard(p, r.phase, k, a) /\ t.bytes = ShardBytes(p, b, t.shard)
    BY <1>3 DEF Planned
  <2>2. k \in 0..p - 2
    BY <1>1
  <2> HIDE DEF p, b, k, a, E
  <2>3. Shard(p, r.phase, k, a) \in 0..p - 1
    BY <1>1, <2>1, <2>2, ShardMoves, Zenon
  <2> QED BY <2>1, <2>3
<1> HIDE DEF p, b, I, E
<1>9. Labelled(E, p, b, p)
  BY <1>2, <1>3, <1>8 DEF Labelled
<1>10. Labelled(I, p, b, p)
  <2>1. \A t \in I : t.shard \in 0..p - 1 /\ t.bytes = ShardBytes(p, b, t.shard)
    BY <1>4, <1>6, <1>8
  <2>2. \A t, u \in I : t.shard = u.shard => t = u
    BY <1>3, <1>4, <1>6, <1>7
  <2> QED BY <1>2, <2>1, <2>2 DEF Labelled
<1>11. \A s \in 0..p - 1 : Underway(E, s) <=> Underway(I, s)
  BY <1>4, <1>6 DEF Underway
<1>12. p \in Nat /\ p \in Nat \ {0}
  BY <1>1
<1>13. (\A t \in I : t.bytes \in Nat) /\ (\A t \in E : t.bytes \in Nat)
  BY <1>1, <1>9, <1>10, <1>12, LabelledBytes
<1>14. SumOf(E) = SumOf(I)
  BY <1>1, <1>9, <1>10, <1>11, <1>12, LabelledSame
<1>15. SumOf(I) \in Nat /\ SumOf(I) <= b
  BY <1>1, <1>10, <1>12, LabelledSum
<1>16. stop = p => SumOf(I) = b
  <2>1. ASSUME stop = p PROVE \A s \in 0..p - 1 : ShardBytes(p, b, s) # 0 => Underway(I, s)
    BY <1>3, <1>11, <2>1 DEF HasBytes, p, b
  <2> QED BY <1>1, <1>10, <1>12, <2>1, LabelledSum
<1> QED BY <1>2, <1>13, <1>14, <1>15, <1>16 DEF I, E, b, p

(* start_round() books what it issues. *)
LEMMA StartBooks ==
  ASSUME NEW id, NEW r, IsRecord(r), Prepared(r), Settled(r), r.pending = 0, NEW stop \in Stops(r)
  PROVE  Booked(StartRound(r, stop), Entries(id, r, stop))
<1> DEFINE p == r.request.participants
           b == r.request.bytes
           q == StartRound(r, stop)
           I == Issued(r, stop)
           L == {t \in I : Local(r, t)}
           E == Entries(id, r, stop)
           k == RoundNumber(r)
<1>1. /\ q.request = r.request /\ q.planned = r.planned /\ q.delivered = r.delivered
      /\ q.issuedLocal = r.issuedLocal + SumOf(L)
      /\ q.issuedFabric = r.issuedFabric + SumOf(I \ L)
      /\ q.failed \in BOOLEAN /\ (q.failed <=> stop # p)
      /\ \/ q.finished = FALSE /\ q.phase = r.phase /\ q.round = r.round
         \/ q.finished = TRUE /\ q.failed /\ q.phase # "Succeeded"
  BY StartRecord, Zenon
<1>2. /\ IsFiniteSet(I) /\ \A t \in I : t.bytes \in Nat
      /\ IsFiniteSet(E) /\ \A t \in E : t.bytes \in Nat
      /\ SumOf(E) = SumOf(I) /\ SumOf(I) \in Nat /\ SumOf(I) <= b
      /\ stop = p => SumOf(I) = b
  <2>1. r.round \in 0..r.request.participants - 2
    BY DEF Prepared
  <2> QED BY <2>1, RoundVolume, Zenon
<1>3. SumOf(L) \in Nat /\ SumOf(I \ L) \in Nat /\ SumOf(I) = SumOf(L) + SumOf(I \ L)
  <2>1. L \in SUBSET I
    OBVIOUS
  <2> HIDE DEF I, L
  <2> QED BY <1>2, <2>1, SumSplits, Zenon
<1>4. /\ p \in Nat \ {0, 1} /\ b \in Nat /\ r.round \in 0..p - 2
      /\ r.phase \in {"ReduceScatter", "AllGather"}
  BY RingAssumption DEF IsRecord, Prepared
<1>5. k \in Nat /\ k + 1 <= 2 * (p - 1)
  BY <1>4 DEF RoundNumber
<1>6. /\ r.planned = 2 * (p - 1) * b /\ r.issuedFabric \in Nat /\ r.issuedLocal \in Nat
      /\ r.delivered \in Nat /\ r.delivered = r.issuedFabric + r.issuedLocal
      /\ r.issuedFabric + r.issuedLocal = k * b
  BY DEF Settled, Counters, PlannedVolume
<1> DEFINE fabric == r.issuedFabric
           here == r.issuedLocal
           done == r.delivered
           x == SumOf(L)
           y == SumOf(I \ L)
           sum == SumOf(I)
           out == SumOf(E)
           plan == r.planned
<1>7. /\ fabric \in Nat /\ here \in Nat /\ done = fabric + here /\ done = k * b
      /\ x \in Nat /\ y \in Nat /\ sum = x + y /\ out = sum /\ sum <= b
      /\ stop = p => sum = b
      /\ plan = 2 * (p - 1) * b
  BY <1>2, <1>3, <1>6
<1> HIDE DEF p, b, q, I, L, E, k, fabric, here, done, x, y, sum, out, plan
<1>8. (k + 1) * b = k * b + b /\ (k + 1) * b <= 2 * (p - 1) * b /\ k * b \in Nat
  <2>1. 2 * (p - 1) \in Nat
    BY <1>4
  <2> DEFINE m == 2 * (p - 1)
  <2>2. m \in Nat /\ k + 1 <= m
    BY <1>5, <2>1
  <2> HIDE DEF m
  <2>3. (k + 1) * b <= m * b
    BY <1>4, <1>5, <2>2, SMT
  <2>4. (k + 1) * b = k * b + b /\ k * b \in Nat
    BY <1>4, <1>5, SMT
  <2> QED BY <2>3, <2>4 DEF m
<1> DEFINE kb == k * b
           kb1 == (k + 1) * b
           i == (fabric + y) + (here + x)
<1>9. kb1 = kb + b /\ kb1 <= plan /\ kb \in Nat /\ done = kb
  BY <1>7, <1>8
<1> HIDE DEF kb, kb1
<1>10. /\ i <= plan /\ done + out <= i /\ done + out = i /\ (stop = p => i = kb1)
       /\ fabric + y \in Nat /\ here + x \in Nat /\ done \in Nat
  BY <1>4, <1>7, <1>9
<1>11. q.issuedFabric + q.issuedLocal = i /\ q.delivered = done /\ q.planned = plan
  BY <1>1 DEF i, fabric, here, x, y, done, plan
<1>12. Counters(q)
  <2>1. q.planned = PlannedVolume(q.request.participants, q.request.bytes)
    BY <1>1, <1>7, <1>11 DEF PlannedVolume, p, b
  <2>2. q.issuedFabric \in Nat /\ q.issuedLocal \in Nat /\ q.delivered \in Nat
    BY <1>1, <1>10, <1>11 DEF fabric, here, x, y
  <2> QED BY <2>1, <2>2 DEF Counters
<1>13. ~q.failed /\ ~q.finished => i = (RoundNumber(q) + 1) * q.request.bytes
  <2> SUFFICES ASSUME ~q.failed, ~q.finished
               PROVE  i = (RoundNumber(q) + 1) * q.request.bytes
    OBVIOUS
  <2>1. stop = p /\ RoundNumber(q) = k /\ q.request.bytes = b
    BY <1>1 DEF RoundNumber, k, b
  <2> HIDE DEF i
  <2> QED BY <1>10, <2>1 DEF kb1
<1>14. q.phase # "Succeeded"
  BY <1>1, <1>4
<1>15. Booked(q, E)
  <2> HIDE DEF i
  <2>1. /\ i <= q.planned /\ q.delivered + SumOf(E) <= i /\ q.delivered + SumOf(E) = i
    BY <1>10, <1>11 DEF out
  <2> QED BY <1>2, <1>11, <1>12, <1>13, <1>14, <2>1 DEF Booked
<1> QED BY <1>15 DEF q, E

(* A delivered transfer moves its bytes from under way to delivered. *)
LEMMA DeliveryBooks ==
  ASSUME NEW r, NEW ts, Booked(r, ts), r.finished = FALSE, r.phase # "Succeeded",
         NEW t \in ts, NEW got \in 0..t.bytes, NEW q,
         q.request = r.request, q.phase = r.phase, q.round = r.round,
         q.planned = r.planned, q.issuedFabric = r.issuedFabric,
         q.issuedLocal = r.issuedLocal, q.finished = FALSE,
         q.delivered = r.delivered + got, got # t.bytes => q.failed, r.failed => q.failed
  PROVE  Booked(q, ts \ {t})
<1> DEFINE i == r.issuedFabric + r.issuedLocal
           out == SumOf(ts)
           left == SumOf(ts \ {t})
           b == t.bytes
           done == r.delivered
           plan == r.planned
<1>1. /\ Counters(r) /\ IsFiniteSet(ts) /\ \A u \in ts : u.bytes \in Nat
      /\ i <= plan /\ done + out <= i /\ (~r.failed => done + out = i)
      /\ ~r.failed => i = (RoundNumber(r) + 1) * r.request.bytes
  BY DEF Booked
<1>2. out \in Nat /\ out = left + b /\ b \in Nat
  BY <1>1, SumOfFacts
<1>3. IsFiniteSet(ts \ {t}) /\ \A u \in ts \ {t} : u.bytes \in Nat
  BY <1>1, FS_Subset
<1>4. left \in Nat
  BY <1>3, SumOfFacts
<1>5. done \in Nat /\ i \in Nat /\ r.issuedFabric \in Nat /\ r.issuedLocal \in Nat
  BY <1>1 DEF Counters
<1>6. got \in Nat /\ got <= b /\ (~q.failed => ~r.failed /\ got = b)
  BY <1>2
<1>7. q.issuedFabric + q.issuedLocal = i /\ q.planned = plan /\ q.delivered = done + got
  OBVIOUS
<1>8. Counters(q)
  BY <1>1, <1>5, <1>6, <1>7 DEF Counters
<1>9. ~q.failed => i = (RoundNumber(q) + 1) * q.request.bytes
  BY <1>1, <1>6 DEF RoundNumber
<1> HIDE DEF i, out, left, b, done, plan
<1>10. (done + got) + left <= i /\ (~q.failed => (done + got) + left = i)
  BY <1>1, <1>2, <1>4, <1>5, <1>6
<1>11. q.delivered + SumOf(ts \ {t}) <= i /\ (~q.failed => q.delivered + SumOf(ts \ {t}) = i)
  BY <1>7, <1>10 DEF left
<1> QED BY <1>1, <1>3, <1>7, <1>8, <1>9, <1>11 DEF Booked

(* A round that ends without a failure settles the bytes of the next. *)
LEMMA RoundSettles ==
  ASSUME NEW r, IsRecord(r), Copied(r, {}), Booked(r, {}), r.finished = FALSE, ~r.failed,
         ~LastRound(r)
  PROVE  Settled(NextRound(r))
<1> DEFINE p == r.request.participants
           n == NextRound(r)
           last == ~(r.round + 1 < p - 1)
<1>1. r.round \in 0..p - 2 /\ r.phase \in {"ReduceScatter", "AllGather"}
  BY DEF Copied, Moving
<1>2. p \in Nat \ {0, 1}
  BY <1>1, RingAssumption DEF IsRecord
<1>3. /\ n.request = r.request /\ n.planned = r.planned /\ n.delivered = r.delivered
      /\ n.issuedFabric = r.issuedFabric /\ n.issuedLocal = r.issuedLocal
      /\ ~last => n.phase = r.phase /\ n.round = r.round + 1
      /\ last => n.phase = "AllGather" /\ n.round = 0
  BY Zenon DEF NextRound, IsRecord, Fields
<1>4. last => r.round = p - 2 /\ r.phase = "ReduceScatter"
  BY <1>1, <1>2 DEF LastRound
<1> HIDE DEF n
<1>5. RoundNumber(n) = RoundNumber(r) + 1
  BY <1>1, <1>2, <1>3, <1>4 DEF RoundNumber
<1>6. /\ Counters(r) /\ r.delivered + SumOf({}) = r.issuedFabric + r.issuedLocal
      /\ r.issuedFabric + r.issuedLocal = (RoundNumber(r) + 1) * r.request.bytes
  BY DEF Booked
<1>7. SumOf({}) = 0
  BY SumOfFacts, FS_EmptySet
<1>8. r.delivered = r.issuedFabric + r.issuedLocal
  BY <1>6, <1>7 DEF Counters
<1>9. Counters(n)
  BY <1>3, <1>6 DEF Counters
<1>10. Settled(n)
  BY <1>3, <1>5, <1>6, <1>8, <1>9 DEF Settled
<1> QED BY <1>10 DEF n

(* A collective that succeeds has issued and delivered all it planned. *)
LEMMA EndBooks ==
  ASSUME NEW r, IsRecord(r), Copied(r, {}), Booked(r, {}), r.finished = FALSE,
         r.failed \/ r.cancelled \/ LastRound(r)
  PROVE  Booked(Finished(r), {})
<1> DEFINE p == r.request.participants
           b == r.request.bytes
           f == Finished(r)
           i == r.issuedFabric + r.issuedLocal
<1>1. r.round \in 0..p - 2 /\ r.failed \in BOOLEAN
  BY DEF Copied, Moving
<1>2. p \in Nat \ {0, 1} /\ b \in Nat
  BY <1>1, RingAssumption DEF IsRecord
<1>3. /\ f.request = r.request /\ f.planned = r.planned /\ f.delivered = r.delivered
      /\ f.issuedFabric = r.issuedFabric /\ f.issuedLocal = r.issuedLocal
      /\ f.failed = r.failed /\ f.finished = TRUE
      /\ f.phase = "Succeeded" => ~r.cancelled /\ ~r.failed
  BY Zenon DEF Finished, IsRecord, Fields
<1> HIDE DEF f
<1>4. /\ Counters(r) /\ i <= r.planned /\ r.delivered + SumOf({}) <= i
      /\ ~r.failed => r.delivered + SumOf({}) = i
      /\ ~r.failed => i = (RoundNumber(r) + 1) * b
  BY DEF Booked
<1>5. SumOf({}) = 0
  BY SumOfFacts, FS_EmptySet
<1>6. Counters(f)
  BY <1>3, <1>4 DEF Counters
<1>7. ASSUME f.phase = "Succeeded" PROVE r.delivered = r.planned /\ i = r.planned
  <2>1. r.phase = "AllGather" /\ r.round + 1 = p - 1 /\ ~r.failed
    BY <1>3, <1>7 DEF LastRound
  <2>2. RoundNumber(r) + 1 = 2 * (p - 1)
    BY <1>1, <1>2, <2>1 DEF RoundNumber
  <2>3. i = r.planned
    BY <1>4, <2>1, <2>2 DEF Counters, PlannedVolume
  <2>4. r.delivered = i
    BY <1>4, <1>5, <2>1 DEF Counters
  <2> QED BY <2>3, <2>4
<1>8. IsFiniteSet({})
  BY FS_EmptySet
<1>9. Booked(f, {})
  BY <1>3, <1>4, <1>6, <1>7, <1>8 DEF Booked
<1> QED BY <1>9 DEF f

----------------------------------------------------------------------------
(* The invariant. *)

Sound(r, ts) == Copied(r, ts) /\ Booked(r, ts)

RingInv == Draining /\ \A i \in 1..Len(records) : Sound(records[i], Outstanding(i))

----------------------------------------------------------------------------
(* Steps. *)

(* A step that replaces the record of one collective. *)
LEMMA UpdateSound ==
  ASSUME RingInv, Draining', NEW id \in 1..Len(records), NEW r,
         records' = [records EXCEPT ![id] = r],
         \A u \in transfers' : u.collective = id \/ u \in transfers,
         \A u \in transfers : u.collective = id \/ u \in transfers',
         NEW ts, ts = {u \in transfers' : u.collective = id}, Sound(r, ts)
  PROVE  RingInv'
<1>1. Draining
  BY DEF RingInv
<1>2. /\ Len(records') = Len(records) /\ records'[id] = r
      /\ \A j \in 1..Len(records) : j # id => records'[j] = records[j]
  BY <1>1, RecordsUpdated, Zenon
<1>3. Outstanding(id)' = ts
  BY DEF Outstanding
<1>4. ASSUME NEW i \in 1..Len(records), i # id
      PROVE  Outstanding(i)' = Outstanding(i)
  BY <1>4 DEF Outstanding
<1>5. ASSUME NEW i \in 1..Len(records')
      PROVE  Sound(records'[i], Outstanding(i)')
  <2>1. CASE i = id
    BY <1>2, <1>3, <2>1, Zenon
  <2>2. CASE i # id
    <3>1. Sound(records[i], Outstanding(i))
      BY <1>2 DEF RingInv
    <3> QED BY <1>2, <1>4, <2>2, <3>1
  <2> QED BY <2>1, <2>2
<1> QED BY <1>5 DEF RingInv

(* advance() with a record whose data is sound. *)
LEMMA AdvanceSound ==
  ASSUME RingInv, NEW t \in transfers, NEW r, Counted(r, records[t.collective]),
         Sound(r, Outstanding(t.collective) \ {t}),
         Advance(t.collective, r, transfers \ {t}), taken' = taken
  PROVE  RingInv'
<1> DEFINE id == t.collective
           rest == Outstanding(id) \ {t}
<1>1. Draining
  BY DEF RingInv
<1>2. Draining'
  BY <1>1, AdvanceStep
<1>3. /\ id \in 1..Len(records) /\ IsRecord(r) /\ r.finished = FALSE /\ r.pending \in Nat
      /\ IsFiniteSet(rest) /\ r.pending = Cardinality(rest)
  <2>1. /\ id \in 1..Len(records) /\ IsRecord(records[id]) /\ records[id].finished = FALSE
        /\ IsFiniteSet(Outstanding(id)) /\ records[id].pending = Cardinality(Outstanding(id))
    BY <1>1, UnderWay, Zenon
  <2>2. t \in Outstanding(id)
    BY DEF Outstanding
  <2>3. IsFiniteSet(rest) /\ Cardinality(rest) = Cardinality(Outstanding(id)) - 1
    BY <2>1, <2>2, FS_RemoveElement, Zenon
  <2> QED BY <2>1, <2>3 DEF Counted, IsRecord
<1>4. rest = {u \in transfers \ {t} : u.collective = id}
  BY DEF Outstanding
<1>5. RoundOver(r) => rest = {}
  BY <1>3, FS_EmptySet, Zenon DEF RoundOver
<1> HIDE DEF rest
<1>6. Sound(r, rest)
  BY DEF rest
<1>7. CASE /\ ~RoundOver(r) /\ records' = [records EXCEPT ![id] = r]
           /\ transfers' = transfers \ {t}
  <2>1. /\ \A u \in transfers' : u.collective = id \/ u \in transfers
        /\ \A u \in transfers : u.collective = id \/ u \in transfers'
    BY <1>7
  <2> QED BY <1>2, <1>3, <1>4, <1>6, <1>7, <2>1, UpdateSound, Zenon
<1>8. CASE /\ RoundOver(r) /\ (r.failed \/ r.cancelled \/ LastRound(r))
           /\ records' = [records EXCEPT ![id] = Finished(r)]
           /\ transfers' = transfers \ {t}
  <2>1. /\ \A u \in transfers' : u.collective = id \/ u \in transfers
        /\ \A u \in transfers : u.collective = id \/ u \in transfers'
    BY <1>8
  <2>2. Sound(r, {})
    BY <1>5, <1>6, <1>8
  <2>3. Sound(Finished(r), {})
    BY <1>3, <1>8, <2>2, EndCopies, EndBooks, Zenon DEF Sound
  <2>4. Sound(Finished(r), rest) /\ rest = {u \in transfers' : u.collective = id}
    BY <1>4, <1>5, <1>8, <2>3
  <2> QED BY <1>2, <1>3, <1>8, <2>1, <2>4, UpdateSound, Zenon
<1>9. CASE /\ RoundOver(r) /\ ~(r.failed \/ r.cancelled \/ LastRound(r))
           /\ \E stop \in Stops(NextRound(r)) :
                /\ records' = [records EXCEPT ![id] = StartRound(NextRound(r), stop)]
                /\ transfers' = (transfers \ {t}) \cup Entries(id, NextRound(r), stop)
  <2> DEFINE n == NextRound(r)
  <2>1. PICK stop \in Stops(n) :
          /\ records' = [records EXCEPT ![id] = StartRound(n, stop)]
          /\ transfers' = (transfers \ {t}) \cup Entries(id, n, stop)
    BY <1>9, Zenon
  <2>2. Sound(r, {})
    BY <1>5, <1>6, <1>9
  <2>3. Prepared(n) /\ Settled(n)
    BY <1>3, <1>9, <2>2, RoundPrepares, RoundSettles, Zenon DEF Sound
  <2>4. IsRecord(n) /\ n.pending = 0
    BY <1>3, <1>9, Zenon DEF NextRound, IsRecord, Fields, RoundOver
  <2> HIDE DEF n
  <2> DEFINE E == Entries(id, n, stop)
             b == StartRound(n, stop)
  <2>5. Sound(b, E)
    BY <2>3, <2>4, StartCopies, StartBooks DEF Sound
  <2>6. \A u \in E : u.collective = id
    BY <2>4, EntriesFacts
  <2>7. {u \in transfers' : u.collective = id} = E
    BY <1>4, <1>5, <1>9, <2>1, <2>6
  <2>8. /\ \A u \in transfers' : u.collective = id \/ u \in transfers
        /\ \A u \in transfers : u.collective = id \/ u \in transfers'
    BY <2>1, <2>6
  <2> HIDE DEF E, b
  <2>9. records' = [records EXCEPT ![id] = b]
    BY <2>1 DEF b
  <2> QED BY <1>2, <1>3, <2>5, <2>7, <2>8, <2>9, UpdateSound, Zenon
<1> QED BY <1>7, <1>8, <1>9 DEF Advance

(* A transfer that ends, on one NIC or over the fabric, with any outcome. *)
LEMMA TransferSound ==
  ASSUME RingInv, NEW t \in transfers, NEW bytes \in 0..t.bytes,
         HandleLocal(t) \/ HandleTransfer(t, bytes)
  PROVE  RingInv'
<1> DEFINE id == t.collective
           old == records[id]
           ts == Outstanding(id)
           new == IF old.phase = "ReduceScatter"
                  THEN old.held[t.destination][t.shard] \cup Incoming(old, t)
                  ELSE Incoming(old, t)
           h == [old.held EXCEPT ![t.destination][t.shard] = new]
           w == old.doubled \/ (old.phase = "ReduceScatter" /\
                                Incoming(old, t) \cap old.held[t.destination][t.shard] # {})
           m == old.pending - 1
<1>1. Draining
  BY DEF RingInv
<1>2. /\ id \in 1..Len(records) /\ IsRecord(old) /\ old.pending \in Nat \ {0}
      /\ old.finished = FALSE
  BY <1>1, UnderWay, Zenon
<1>3. /\ Copied(old, ts) /\ Booked(old, ts) /\ t \in ts
      /\ old.doubled = FALSE /\ old.failed \in BOOLEAN /\ old.phase # "Succeeded"
      /\ t.bytes \in Nat
  <2>1. Sound(old, ts) /\ t \in ts
    BY <1>2, Zenon DEF RingInv, Outstanding
  <2> HIDE DEF old, ts
  <2> QED BY <1>2, <2>1 DEF Sound, Copied, Moving, Booked
<1>4. m \in Nat /\ w \in BOOLEAN
  BY <1>2, <1>3
<1>5. Deliver(old, t) = [old EXCEPT !.held = h, !.doubled = w]
  <2> HIDE DEF old, w
  <2> QED BY <1>2, Zenon DEF Deliver, IsRecord, Fields, w
<1> HIDE DEF old, ts, h, w, m
<1>6. ASSUME NEW x, x = old.delivered + t.bytes
      PROVE  LET q == [old EXCEPT !.held = h, !.doubled = w, !.delivered = x, !.pending = m]
             IN Counted(q, old) /\ Sound(q, ts \ {t})
  <2> DEFINE q == [old EXCEPT !.held = h, !.doubled = w, !.delivered = x, !.pending = m]
  <2>1. /\ q = [f \in Fields |-> q[f]]
        /\ q.request = old.request /\ q.phase = old.phase /\ q.round = old.round
        /\ q.sent = old.sent /\ q.finished = old.finished /\ q.held = h /\ q.doubled = w
        /\ q.failed = old.failed /\ q.pending = m /\ q.cancelled = old.cancelled
        /\ q.planned = old.planned /\ q.issuedFabric = old.issuedFabric
        /\ q.issuedLocal = old.issuedLocal /\ q.delivered = x
    BY <1>2, Zenon DEF IsRecord, Fields
  <2> HIDE DEF q
  <2>2. Delivers(old, t, q)
    BY <2>1, Zenon DEF Delivers, h, w
  <2>3. Copied(q, ts \ {t})
    BY <1>2, <1>3, <1>4, <2>1, <2>2, DeliveryMoves, Zenon
  <2>4. Booked(q, ts \ {t})
    <3>1. t.bytes \in 0..t.bytes
      BY <1>3
    <3> QED BY <1>2, <1>3, <1>6, <2>1, <3>1, DeliveryBooks, Zenon
  <2>5. Counted(q, old)
    BY <1>2, <1>4, <2>1 DEF Counted, IsRecord, m
  <2> QED BY <2>3, <2>4, <2>5 DEF q, Sound
<1>7. ASSUME NEW x, x = old.delivered + bytes, bytes # t.bytes
      PROVE  LET q == [old EXCEPT !.delivered = x, !.failed = TRUE, !.pending = m]
             IN Counted(q, old) /\ Sound(q, ts \ {t})
  <2> DEFINE y == TRUE
             q == [old EXCEPT !.delivered = x, !.failed = y, !.pending = m]
  <2> HIDE DEF y
  <2>1. /\ q = [f \in Fields |-> q[f]]
        /\ q.request = old.request /\ q.phase = old.phase /\ q.round = old.round
        /\ q.sent = old.sent /\ q.finished = old.finished /\ q.held = old.held
        /\ q.doubled = old.doubled
        /\ q.failed = y /\ q.pending = m /\ q.cancelled = old.cancelled
        /\ q.planned = old.planned /\ q.issuedFabric = old.issuedFabric
        /\ q.issuedLocal = old.issuedLocal /\ q.delivered = x
    BY <1>2, Zenon DEF IsRecord, Fields
  <2> HIDE DEF q
  <2>2. q.failed = TRUE
    BY <2>1 DEF y
  <2>3. Copied(q, ts \ {t})
    BY <1>2, <1>3, <2>1, <2>2, LossMoves, Zenon
  <2>4. Booked(q, ts \ {t})
    BY <1>2, <1>3, <1>7, <2>1, <2>2, DeliveryBooks, Zenon
  <2>5. Counted(q, old)
    BY <1>2, <1>4, <2>1 DEF Counted, IsRecord, m
  <2> QED BY <2>3, <2>4, <2>5 DEF q, y, Sound
<1>8. CASE HandleLocal(t)
  <2> DEFINE x == Deliver(old, t).delivered + t.bytes
             q == [old EXCEPT !.held = h, !.doubled = w, !.delivered = x, !.pending = m]
             r == [Deliver(old, t) EXCEPT !.delivered = x, !.pending = @ - 1]
  <2>1. Advance(id, r, transfers \ {t}) /\ taken' = taken
    BY <1>8 DEF HandleLocal, old
  <2>2. r = q
    <3>1. Deliver(old, t).pending = old.pending
      BY <1>2, DeliverFacts, Zenon
    <3> HIDE DEF x
    <3> QED BY <1>2, <1>5, <3>1, Zenon DEF IsRecord, Fields, m
  <2>3. Counted(q, old) /\ Sound(q, ts \ {t})
    <3>1. x = old.delivered + t.bytes
      BY <1>2, <1>5, Zenon DEF IsRecord, Fields
    <3> HIDE DEF x
    <3> QED BY <1>6, <3>1, Zenon
  <2> HIDE DEF q, r
  <2> QED BY <2>1, <2>2, <2>3, AdvanceSound, Zenon DEF old, ts
<1>9. CASE HandleTransfer(t, bytes)
  <2> DEFINE whole == bytes = t.bytes
             d == IF whole THEN Deliver(old, t) ELSE old
             r == [d EXCEPT !.delivered = @ + bytes, !.failed = @ \/ ~whole, !.pending = @ - 1]
  <2>1. Advance(id, r, transfers \ {t}) /\ taken' = taken
    BY <1>9 DEF HandleTransfer, old
  <2>2. CASE whole
    <3> DEFINE x == Deliver(old, t).delivered + bytes
               z == old.failed \/ ~whole
               q == [old EXCEPT !.held = h, !.doubled = w, !.delivered = x, !.pending = m]
    <3>1. r = q
      <4>1. Deliver(old, t).pending = old.pending
        BY <1>2, DeliverFacts, Zenon
      <4>2. z = old.failed
        BY <1>3, <2>2
      <4> DEFINE D == Deliver(old, t)
      <4>3. D.failed = old.failed
        BY <1>2, <1>5, Zenon DEF IsRecord, Fields
      <4>4. r = [D EXCEPT !.delivered = x, !.failed = z, !.pending = m]
        BY <2>2, <4>1, <4>3, Zenon DEF m
      <4> HIDE DEF x, z, r
      <4> QED BY <1>2, <1>5, <4>2, <4>4, Zenon DEF IsRecord, Fields
    <3>2. Counted(q, old) /\ Sound(q, ts \ {t})
      <4>1. x = old.delivered + t.bytes
        BY <1>2, <1>5, <2>2, Zenon DEF IsRecord, Fields
      <4> HIDE DEF x
      <4> QED BY <1>6, <4>1
    <3> HIDE DEF q, r
    <3> QED BY <2>1, <3>1, <3>2, AdvanceSound, Zenon DEF old, ts
  <2>3. CASE ~whole
    <3> DEFINE x == old.delivered + bytes
               z == old.failed \/ ~whole
               q == [old EXCEPT !.delivered = x, !.failed = TRUE, !.pending = m]
    <3>1. r = q
      <4>1. z = TRUE
        BY <2>3
      <4>2. r = [old EXCEPT !.delivered = x, !.failed = z, !.pending = m]
        BY <2>3, Zenon DEF m
      <4> HIDE DEF z, r, x
      <4> QED BY <4>1, <4>2, Zenon
    <3>2. Counted(q, old) /\ Sound(q, ts \ {t})
      <4>1. x = old.delivered + bytes /\ bytes # t.bytes
        BY <2>3
      <4> HIDE DEF x
      <4> QED BY <1>7, <4>1, Zenon
    <3> HIDE DEF q, r
    <3> QED BY <2>1, <3>1, <3>2, AdvanceSound DEF old, ts
  <2> QED BY <2>2, <2>3
<1> QED BY <1>8, <1>9

(* cancel() leaves the data alone. *)
LEMMA CancelSound ==
  ASSUME RingInv, NEW id \in 1..Len(records), Cancel(id)
  PROVE  RingInv'
<1> DEFINE old == records[id]
           y == TRUE
           r == [old EXCEPT !.cancelled = y]
           ts == Outstanding(id)
<1>1. Draining /\ IsRecord(old) /\ Sound(old, ts)
  BY DEF RingInv, Draining
<1>2. Draining'
  BY <1>1, CancelStep
<1>3. records' = [records EXCEPT ![id] = r] /\ transfers' = transfers
  BY DEF Cancel
<1>4. /\ r.request = old.request /\ r.phase = old.phase /\ r.round = old.round
      /\ r.planned = old.planned /\ r.delivered = old.delivered
      /\ r.issuedFabric = old.issuedFabric /\ r.issuedLocal = old.issuedLocal
      /\ r.held = old.held /\ r.sent = old.sent /\ r.doubled = old.doubled
      /\ r.failed = old.failed /\ r.finished = old.finished
  <2> HIDE DEF old, y
  <2> QED BY <1>1, Zenon DEF IsRecord, Fields
<1>5. ts = {u \in transfers' : u.collective = id}
  BY <1>3 DEF Outstanding
<1> HIDE DEF r, old, y, ts
<1>6. Sound(r, ts)
  <2>1. Moving(old, ts) => Moving(r, ts)
    <3>1. \A s : HasBytes(r, s) <=> HasBytes(old, s)
      BY <1>4 DEF HasBytes
    <3>2. \A t : Planned(r, t) <=> Planned(old, t)
      BY <1>4, <3>1 DEF Planned
    <3>3. \A t : Incoming(r, t) = Incoming(old, t)
      BY <1>4 DEF Incoming
    <3>4. \A s : Sends(r, s) = Sends(old, s)
      BY <1>4 DEF Sends
    <3>5. \A a, s : HoldsAt(old, ts, a, s) => HoldsAt(r, ts, a, s)
      BY <1>4 DEF HoldsAt
    <3>6. Holds(old, ts) => Holds(r, ts)
      BY <1>4, <3>1, <3>3, <3>4, <3>5 DEF Holds
    <3> QED BY <1>4, <3>2, <3>3, <3>6 DEF Moving
  <2>2. Reduced(old) => Reduced(r)
    <3>1. \A s : HasBytes(r, s) <=> HasBytes(old, s)
      BY <1>4 DEF HasBytes
    <3> QED BY <1>4, <3>1 DEF Reduced
  <2>3. Copied(r, ts)
    BY <1>1, <1>4, <2>1, <2>2, Zenon DEF Sound, Copied
  <2>4. Booked(r, ts)
    <3>1. RoundNumber(r) = RoundNumber(old) /\ (Counters(old) => Counters(r))
      BY <1>4 DEF RoundNumber, Counters
    <3> QED BY <1>1, <1>4, <3>1 DEF Sound, Booked
  <2> QED BY <2>3, <2>4 DEF Sound
<1> QED BY <1>2, <1>3, <1>5, <1>6, UpdateSound, Zenon

(* A collective starts with the contribution of each rank at that rank. *)
LEMMA NewPrepared ==
  ASSUME NEW request \in Requests
  PROVE  LET r == NewRecord(request)
             p == request.participants
         IN /\ r.request = request /\ r.pending = 0 /\ r.finished = FALSE
            /\ r.phase = "ReduceScatter" /\ r.failed = FALSE /\ r.doubled = FALSE
            /\ r.cancelled = FALSE
            /\ r.held = InitialData(p) /\ r.sent = InitialData(p)
            /\ IsRecord(r) /\ InitialData(p) \in Copies(p)
            /\ Settled(r)
            /\ p # 1 => Prepared(r)
<1> DEFINE r == NewRecord(request)
           p == request.participants
<1>1. p \in Nat \ {0}
  BY RingAssumption
<1>2. /\ r.request = request /\ r.pending = 0 /\ r.finished = FALSE /\ r.round = 0
      /\ r.phase = "ReduceScatter" /\ r.failed = FALSE /\ r.doubled = FALSE
      /\ r.cancelled = FALSE
      /\ r.held = InitialData(p) /\ r.sent = InitialData(p)
      /\ r.planned = PlannedVolume(p, request.bytes) /\ r.issuedFabric = 0
      /\ r.issuedLocal = 0 /\ r.delivered = 0
  BY DEF NewRecord
<1>3. IsRecord(r)
  BY DEF NewRecord, IsRecord, Fields
<1> HIDE DEF r
<1>4. InitialData(p) \in Copies(p)
  BY DEF InitialData, Copies
<1>5. ASSUME p # 1 PROVE Prepared(r)
  <2>1. 0 \in 0..p - 2
    BY <1>1, <1>5
  <2>2. ASSUME NEW a \in 0..p - 1, NEW s \in 0..p - 1
        PROVE  PreparedAt(r, a, s)
    <3>1. r.held[a][s] = {a}
      BY <1>2 DEF InitialData
    <3>2. Distance(p, s, a) = 0 => Arc(p, s, Distance(p, s, a)) = {a}
      BY <1>1, ArcEnds, DistanceFacts, Zenon
    <3> QED BY <1>2, <3>1, <3>2 DEF PreparedAt
  <2> QED BY <1>2, <1>4, <2>1, <2>2 DEF Prepared
<1>6. Settled(r)
  <2>1. request.bytes \in Nat /\ 0 * request.bytes = 0
    BY RingAssumption
  <2>2. RoundNumber(r) = 0
    BY <1>2 DEF RoundNumber
  <2> QED BY <1>2, <2>1, <2>2 DEF Settled, Counters
<1> QED BY <1>2, <1>3, <1>4, <1>5, <1>6 DEF r

(* submit(): also when a single participant is done at once. *)
LEMMA SubmitSound ==
  ASSUME RingInv, NEW request \in Requests, Submit(request)
  PROVE  RingInv'
<1> DEFINE id == Len(records) + 1
           r == NewRecord(request)
           p == request.participants
           single == p = 1
<1>1. Draining
  BY DEF RingInv
<1>2. Draining'
  BY <1>1, SubmitStep
<1>3. PICK stop \in IF single THEN {1} ELSE Stops(r) :
        LET b == IF single THEN Finished(r) ELSE StartRound(r, stop)
        IN /\ records' = Append(records, b)
           /\ transfers' = IF single THEN transfers ELSE transfers \cup Entries(id, r, stop)
  BY Zenon DEF Submit
<1> DEFINE b == IF single THEN Finished(r) ELSE StartRound(r, stop)
           E == IF single THEN {} ELSE Entries(id, r, stop)
<1>4. records' = Append(records, b) /\ transfers' = transfers \cup E
  BY <1>3
<1>5. /\ r.request = request /\ r.pending = 0 /\ r.finished = FALSE
      /\ r.phase = "ReduceScatter" /\ r.failed = FALSE /\ r.doubled = FALSE
      /\ r.cancelled = FALSE
      /\ r.held = InitialData(p) /\ r.sent = InitialData(p)
      /\ IsRecord(r) /\ InitialData(p) \in Copies(p) /\ Settled(r) /\ (p # 1 => Prepared(r))
  BY NewPrepared, Zenon
<1> HIDE DEF r
<1>6. Sound(b, E) /\ \A u \in E : u.collective = id
  <2>1. CASE single
    <3> DEFINE f == Finished(r)
    <3>1. /\ f.request = request /\ f.held = InitialData(p) /\ f.sent = InitialData(p)
          /\ f.failed = FALSE /\ f.doubled = FALSE /\ f.finished = TRUE
          /\ f.planned = r.planned /\ f.delivered = r.delivered
          /\ f.issuedFabric = r.issuedFabric /\ f.issuedLocal = r.issuedLocal
      BY <1>5, Zenon DEF Finished, IsRecord, Fields
    <3> HIDE DEF f
    <3>2. Reduced(f)
      <4>1. p = 1 /\ f.request.participants = 1
        BY <2>1, <3>1
      <4>2. ASSUME NEW a \in 0..0, NEW s \in 0..0 PROVE f.held[a][s] = 0..0
        <5>1. f.held[a][s] = {a} /\ a = 0
          BY <3>1, <4>1 DEF InitialData
        <5> QED BY <5>1
      <4> QED BY <4>1, <4>2 DEF Reduced
    <3>3. Copied(f, {})
      BY <1>5, <3>1, <3>2, Zenon DEF Copied
    <3>4. Booked(f, {})
      <4>1. /\ Counters(r) /\ r.delivered = r.issuedFabric + r.issuedLocal
            /\ r.delivered = RoundNumber(r) * request.bytes
        BY <1>5 DEF Settled
      <4>2. r.planned = 0 /\ r.delivered = 0
        <5>1. request.bytes \in Nat
          BY RingAssumption
        <5>2. 2 * (1 - 1) * request.bytes = 0
          BY <5>1, SMT
        <5>3. r.planned = 0
          BY <1>5, <2>1, <4>1, <5>2 DEF Counters, PlannedVolume
        <5> QED BY <5>3, NewPrepared DEF r, NewRecord
      <4>3. SumOf({}) = 0 /\ IsFiniteSet({})
        BY SumOfFacts, FS_EmptySet
      <4>4. Counters(f)
        BY <1>5, <3>1, <4>1 DEF Counters
      <4>5. f.issuedFabric + f.issuedLocal = 0 /\ f.planned = 0 /\ f.delivered = 0
        BY <3>1, <4>1, <4>2
      <4>6. f.delivered + SumOf({}) = 0
        BY <4>3, <4>5
      <4> QED BY <3>1, <4>3, <4>4, <4>5, <4>6 DEF Booked
    <3> QED BY <2>1, <3>3, <3>4 DEF f, Sound
  <2>2. CASE ~single
    <3>1. stop \in Stops(r) /\ Prepared(r)
      BY <1>3, <1>5, <2>2
    <3>2. Sound(StartRound(r, stop), Entries(id, r, stop))
      BY <1>5, <3>1, StartCopies, StartBooks, Zenon DEF Sound
    <3>3. \A u \in Entries(id, r, stop) : u.collective = id
      BY <1>5, EntriesFacts
    <3> QED BY <2>2, <3>2, <3>3
  <2> QED BY <2>1, <2>2
<1> HIDE DEF b, E
<1>7. /\ Len(records) \in Nat /\ Len(records') = id /\ records'[id] = b
      /\ \A j \in 1..Len(records) : records'[j] = records[j]
  <2>1. IsSequence(records)
    BY <1>1 DEF Draining
  <2> QED BY <1>4, <2>1, SequenceFacts, AppendFacts
<1>8. \A u \in transfers : u.collective \in 1..Len(records)
  BY <1>1 DEF Draining
<1>9. ASSUME NEW i \in 1..Len(records')
      PROVE  Sound(records'[i], Outstanding(i)')
  <2>1. CASE i = id
    <3>1. Outstanding(i)' = E
      BY <1>4, <1>6, <1>7, <1>8, <2>1 DEF Outstanding
    <3> QED BY <1>6, <1>7, <2>1, <3>1
  <2>2. CASE i \in 1..Len(records)
    <3>1. Outstanding(i)' = Outstanding(i)
      BY <1>4, <1>6, <1>7, <2>2 DEF Outstanding
    <3>2. Sound(records[i], Outstanding(i))
      BY <2>2 DEF RingInv
    <3> QED BY <1>7, <2>2, <3>1, <3>2
  <2> QED BY <1>7, <2>1, <2>2
<1> QED BY <1>2, <1>9 DEF RingInv

(* A transfer under way has a number of bytes. *)
LEMMA TransferBytes ==
  ASSUME RingInv, NEW t \in transfers
  PROVE  t.bytes \in Nat
<1>1. t.collective \in 1..Len(records) /\ t \in Outstanding(t.collective)
  BY DEF RingInv, Draining, Outstanding
<1> QED BY <1>1 DEF RingInv, Sound, Booked

(* Every step keeps the data and the bytes of every collective right. *)
LEMMA RingStep == RingInv /\ [Next]_vars => RingInv'
<1> SUFFICES ASSUME RingInv, [Next]_vars PROVE RingInv'
  OBVIOUS
<1>1. Draining /\ Draining'
  BY NextStep DEF RingInv
<1>2. ASSUME NEW request \in Requests, Submit(request) PROVE RingInv'
  BY <1>2, SubmitSound
<1>3. ASSUME NEW t \in transfers, HandleLocal(t) PROVE RingInv'
  <2>1. 0 \in 0..t.bytes
    BY TransferBytes
  <2> QED BY <1>3, <2>1, TransferSound
<1>4. ASSUME NEW t \in transfers, NEW bytes \in 0..t.bytes, HandleTransfer(t, bytes)
      PROVE  RingInv'
  BY <1>4, TransferSound
<1>5. ASSUME NEW id \in 1..Len(records), Cancel(id) PROVE RingInv'
  BY <1>5, CancelSound
<1>6. CASE records' = records /\ transfers' = transfers
  BY <1>1, <1>6, Zenon DEF RingInv, Outstanding
<1>7. CASE TakeCompleted
  BY <1>6, <1>7 DEF TakeCompleted
<1>8. CASE UNCHANGED vars
  BY <1>6, <1>8 DEF vars
<1> QED BY <1>2, <1>3, <1>4, <1>5, <1>7, <1>8 DEF Next, TransferEnds, Idle

(* The copies and the bytes of every collective are right, always. *)
LEMMA RingInvariant == Spec => []RingInv
<1>1. Init => RingInv
  <2> SUFFICES ASSUME Init PROVE RingInv
    OBVIOUS
  <2>1. Draining
    BY InitDrains
  <2>2. 1..Len(records) = {}
    BY DEF Init
  <2> QED BY <2>1, <2>2 DEF RingInv
<1>2. RingInv /\ [Next]_vars => RingInv'
  BY RingStep
<1> QED BY <1>1, <1>2, PTL DEF Spec

(* A collective that succeeds has reduced every shard with bytes, from every *)
(* rank into every rank, and none has reduced a contribution twice: for      *)
(* every number of participants and of bytes, every assignment of ranks to   *)
(* NICs, and every order and outcome of the transfers.                       *)
THEOREM RingAllReduces == Spec => []AllReduced
<1>1. RingInv => AllReduced
  BY DEF RingInv, Sound, Copied, Reduced, HasBytes, AllReduced
<1> QED BY <1>1, RingInvariant, PTL

(* Every byte a collective issued is delivered or under way unless a         *)
(* transfer failed, it issues at most what it planned, and a collective that *)
(* succeeds has issued and delivered exactly that: the checks of finish()    *)
(* never throw.                                                              *)
THEOREM RingConservesBytes == Spec => []BytesConserved
<1>1. RingInv => BytesConserved
  BY DEF RingInv, Sound, Booked, BytesConserved
<1> QED BY <1>1, RingInvariant, PTL

=============================================================================
