-------------------------- MODULE InventoryProofs --------------------------
(***************************************************************************)
(* Theorems about placement, for every cluster, every set of requests and  *)
(* every scattering of free GPUs: the policies grant what allocate()       *)
(* accepts, allocations never overlap, and a policy that promises one rack *)
(* keeps the promise whenever it can be kept.                              *)
(***************************************************************************)
EXTENDS Inventory, InductionLemmas

(* before[a] are the predecessors of a in a strict total order of S. *)
Linear(S, before) ==
  /\ before \in [S -> SUBSET S]
  /\ \A a \in S : a \notin before[a]
  /\ \A a, b \in S : a = b \/ a \in before[b] \/ b \in before[a]
  /\ \A a, b \in S : a \in before[b] => before[a] \subseteq before[b]

(* f lists the elements of S, each once, in that order. *)
Lists(f, S, before) ==
  /\ f \in [1..Cardinality(S) -> S]
  /\ \A i, j \in 1..Cardinality(S) : f[i] = f[j] => i = j
  /\ \A a \in S : \E i \in 1..Cardinality(S) : f[i] = a
  /\ \A i, j \in 1..Cardinality(S) : i < j => f[i] \in before[f[j]]

(* Counting by an injection, and the pigeonhole principle. *)
LEMMA Injects ==
  ASSUME NEW S, NEW T, IsFiniteSet(S), IsFiniteSet(T), NEW g \in [S -> T],
         \A a, b \in S : g[a] = g[b] => a = b
  PROVE  /\ Cardinality(S) <= Cardinality(T)
         /\ Cardinality(S) = Cardinality(T) => \A t \in T : \E a \in S : g[a] = t
<1> DEFINE image == {g[a] : a \in S}
<1>1. image \in SUBSET T /\ \A t \in image : \E a \in S : g[a] = t
  OBVIOUS
<1>2. g \in Bijection(S, image)
  <2>1. g \in [S -> image] /\ DOMAIN g = S
    OBVIOUS
  <2>2. IsInjective(g)
    BY <2>1 DEF IsInjective
  <2> HIDE DEF image
  <2> QED BY <1>1, <2>1, <2>2, Zenon DEF Bijection, Injection, Surjection
<1> HIDE DEF image
<1>3. IsFiniteSet(image) /\ Cardinality(image) = Cardinality(S)
  <2>1. ExistsBijection(S, image)
    BY <1>2 DEF ExistsBijection
  <2> QED BY <2>1, FS_Bijection
<1>4. Cardinality(image) <= Cardinality(T) /\ (Cardinality(image) = Cardinality(T) => image = T)
  BY <1>1, FS_Subset
<1> QED BY <1>1, <1>3, <1>4

(* The number of predecessors grows along the order. *)
LEMMA RanksGrow ==
  ASSUME NEW S, IsFiniteSet(S), NEW before, Linear(S, before)
  PROVE  /\ \A a \in S : Cardinality(before[a]) \in 0..Cardinality(S) - 1
         /\ \A a, b \in S : a \in before[b] => Cardinality(before[a]) < Cardinality(before[b])
<1>1. \A a \in S : IsFiniteSet(before[a]) /\ before[a] \in SUBSET S
  BY FS_Subset DEF Linear
<1>2. ASSUME NEW a \in S, NEW U, IsFiniteSet(U), before[a] \subseteq U, a \in U
      PROVE  Cardinality(before[a]) < Cardinality(U)
  <2>1. before[a] # U
    BY <1>2 DEF Linear
  <2>2. before[a] \in SUBSET U
    BY <1>2
  <2> QED BY <1>2, <2>1, <2>2, FS_Subset, FS_CardinalityType
<1>3. ASSUME NEW a \in S PROVE Cardinality(before[a]) \in 0..Cardinality(S) - 1
  <2>1. Cardinality(before[a]) \in Nat /\ Cardinality(S) \in Nat
    BY <1>1, FS_CardinalityType
  <2>2. Cardinality(before[a]) < Cardinality(S)
    BY <1>1, <1>2
  <2> QED BY <2>1, <2>2
<1>4. ASSUME NEW a \in S, NEW b \in S, a \in before[b]
      PROVE  Cardinality(before[a]) < Cardinality(before[b])
  BY <1>1, <1>2, <1>4 DEF Linear
<1> QED BY <1>3, <1>4

(* Sorting: a strict total order of a finite set is listed by Ranked. *)
LEMMA RankedLists ==
  ASSUME NEW S, IsFiniteSet(S), NEW before, Linear(S, before)
  PROVE  Lists(Ranked(S, before), S, before)
<1> DEFINE n == Cardinality(S)
           rank == [a \in S |-> Cardinality(before[a])]
           f == Ranked(S, before)
<1>1. n \in Nat
  BY FS_CardinalityType
<1>2. rank \in [S -> 0..n - 1]
  BY RanksGrow
<1>3. \A a, b \in S : rank[a] = rank[b] => a = b
  <2> SUFFICES ASSUME NEW a \in S, NEW b \in S, rank[a] = rank[b], a # b PROVE FALSE
    OBVIOUS
  <2>1. a \in before[b] \/ b \in before[a]
    BY DEF Linear
  <2>2. rank[a] < rank[b] \/ rank[b] < rank[a]
    BY <2>1, RanksGrow
  <2>3. rank[a] \in Int /\ rank[b] \in Int
    BY <1>1, <1>2
  <2> QED BY <2>2, <2>3
<1>4. \A t \in 0..n - 1 : \E a \in S : rank[a] = t
  <2> DEFINE T == 0..n - 1
  <2>1. IsFiniteSet(T) /\ Cardinality(T) = Cardinality(S) /\ rank \in [S -> T]
    BY <1>1, <1>2, FS_Interval
  <2> HIDE DEF rank, T
  <2>2. \A t \in T : \E a \in S : rank[a] = t
    BY <1>3, <2>1, Injects
  <2> QED BY <2>2 DEF T
<1>5. \A i \in 1..n : f[i] \in S /\ rank[f[i]] = i - 1
  <2> SUFFICES ASSUME NEW i \in 1..n PROVE f[i] \in S /\ rank[f[i]] = i - 1
    OBVIOUS
  <2>1. i - 1 \in 0..n - 1
    BY <1>1
  <2>2. \E a \in S : Cardinality(before[a]) = i - 1
    BY <1>4, <2>1
  <2>3. f[i] = CHOOSE a \in S : Cardinality(before[a]) = i - 1
    BY DEF Ranked
  <2>4. f[i] \in S /\ Cardinality(before[f[i]]) = i - 1
    BY <2>2, <2>3, Zenon
  <2> HIDE DEF f
  <2> QED BY <2>4
<1>6. f \in [1..n -> S]
  <2>1. f = [i \in 1..n |-> f[i]]
    BY DEF Ranked
  <2> HIDE DEF f, n
  <2> QED BY <1>5, <2>1
<1> HIDE DEF f, rank
<1>7. \A i, j \in 1..n : f[i] = f[j] => i = j
  <2> SUFFICES ASSUME NEW i \in 1..n, NEW j \in 1..n, f[i] = f[j] PROVE i = j
    OBVIOUS
  <2>1. i - 1 = j - 1
    BY <1>5
  <2> QED BY <1>1, <2>1
<1>8. \A a \in S : \E i \in 1..n : f[i] = a
  <2> SUFFICES ASSUME NEW a \in S PROVE \E i \in 1..n : f[i] = a
    OBVIOUS
  <2>1. rank[a] \in 0..n - 1
    BY <1>2
  <2>2. rank[a] + 1 \in 1..n /\ (rank[a] + 1) - 1 = rank[a]
    BY <1>1, <2>1
  <2>3. f[rank[a] + 1] \in S /\ rank[f[rank[a] + 1]] = rank[a]
    BY <1>5, <2>2
  <2> QED BY <1>3, <2>2, <2>3
<1>9. \A i, j \in 1..n : i < j => f[i] \in before[f[j]]
  <2> SUFFICES ASSUME NEW i \in 1..n, NEW j \in 1..n, i < j PROVE f[i] \in before[f[j]]
    OBVIOUS
  <2>1. f[i] \in S /\ f[j] \in S /\ rank[f[i]] < rank[f[j]]
    BY <1>1, <1>5
  <2>2. f[i] # f[j]
    BY <1>1, <1>7
  <2>3. f[j] \notin before[f[i]]
    <3>1. f[j] \in before[f[i]] => rank[f[j]] < rank[f[i]]
      BY <2>1, RanksGrow DEF rank
    <3>2. rank[f[i]] \in Int /\ rank[f[j]] \in Int
      BY <1>1, <1>2, <2>1
    <3> QED BY <2>1, <3>1, <3>2
  <2> QED BY <2>1, <2>2, <2>3 DEF Linear
<1> QED BY <1>6, <1>7, <1>8, <1>9 DEF Lists, f

----------------------------------------------------------------------------
(* The orders of the policies. *)
LEMMA FreeGpusFacts ==
  ASSUME NEW free \in SUBSET Gpus
  PROVE  /\ IsFiniteSet(free) /\ Cardinality(free) \in Nat /\ free \subseteq Nat
         /\ \A a \in free : Rack[a] \in Nat /\ Nic[a] \in Nat
         /\ \A a \in free : Cardinality(InRack(free, Rack[a])) \in Nat
<1>1. IsFiniteSet(free)
  BY PlacementAssumption, FS_Subset
<1>2. \A a \in free : InRack(free, Rack[a]) \in SUBSET free
  BY DEF InRack
<1>3. \A a \in free : Cardinality(InRack(free, Rack[a])) \in Nat
  BY <1>1, <1>2, FS_Subset, FS_CardinalityType
<1> QED BY <1>1, <1>3, PlacementAssumption, FS_CardinalityType

(* Ids order the free GPUs. *)
LEMMA IdOrderLinear ==
  ASSUME NEW free \in SUBSET Gpus
  PROVE  Linear(free, [a \in free |-> {b \in free : b < a}])
<1> DEFINE before == [a \in free |-> {b \in free : b < a}]
<1>1. free \subseteq Nat
  BY FreeGpusFacts
<1>2. before \in [free -> SUBSET free] /\ \A a, b \in free : b \in before[a] <=> b < a
  OBVIOUS
<1> HIDE DEF before
<1>3. \A a, b \in free : a \in before[b] => before[a] \subseteq before[b]
  <2> SUFFICES ASSUME NEW a \in free, NEW b \in free, a \in before[b],
                      NEW c \in before[a]
               PROVE  c \in before[b]
    OBVIOUS
  <2>1. c \in free
    BY <1>2
  <2> QED BY <1>1, <1>2, <2>1
<1>4. \A a \in free : a \notin before[a]
  BY <1>1, <1>2
<1>5. \A a, b \in free : a = b \/ a \in before[b] \/ b \in before[a]
  BY <1>1, <1>2
<1>6. Linear(free, before)
  BY <1>2, <1>3, <1>4, <1>5 DEF Linear
<1> QED BY <1>6 DEF before

(* Scores and then ids order the free GPUs. *)
LEMMA RandomLinear ==
  ASSUME NEW free \in SUBSET Gpus, NEW score \in [Gpus -> Nat]
  PROVE  Linear(free, [a \in free |-> {b \in free : \/ score[b] < score[a]
                                                    \/ score[b] = score[a] /\ b < a}])
<1> DEFINE before == [a \in free |-> {b \in free : \/ score[b] < score[a]
                                                   \/ score[b] = score[a] /\ b < a}]
<1>1. free \subseteq Nat /\ \A a \in free : score[a] \in Nat
  BY FreeGpusFacts
<1>2. /\ before \in [free -> SUBSET free]
      /\ \A a, b \in free : b \in before[a] <=> \/ score[b] < score[a]
                                                \/ score[b] = score[a] /\ b < a
  OBVIOUS
<1> HIDE DEF before
<1>3. \A a, b \in free : a \in before[b] => before[a] \subseteq before[b]
  <2> SUFFICES ASSUME NEW a \in free, NEW b \in free, a \in before[b],
                      NEW c \in before[a]
               PROVE  c \in before[b]
    OBVIOUS
  <2>1. c \in free
    BY <1>2
  <2> QED BY <1>1, <1>2, <2>1
<1>4. \A a \in free : a \notin before[a]
  BY <1>1, <1>2
<1>5. \A a, b \in free : a = b \/ a \in before[b] \/ b \in before[a]
  BY <1>1, <1>2
<1>6. Linear(free, before)
  BY <1>2, <1>3, <1>4, <1>5 DEF Linear
<1> QED BY <1>6 DEF before

(* The GPUs of a chosen rack before the others, then ids, is an order. *)
LEMMA LocalLinear ==
  ASSUME NEW free \in SUBSET Gpus, NEW local \in SUBSET free
  PROVE  Linear(free, [a \in free |->
                  IF a \in local THEN {b \in local : b < a} ELSE local \cup {b \in free : b < a}])
<1> DEFINE before == [a \in free |->
             IF a \in local THEN {b \in local : b < a} ELSE local \cup {b \in free : b < a}]
<1>1. free \subseteq Nat
  BY FreeGpusFacts
<1>2. /\ before \in [free -> SUBSET free]
      /\ \A a, b \in free : b \in before[a] <=>
           IF a \in local THEN b \in local /\ b < a ELSE b \in local \/ b < a
  OBVIOUS
<1> HIDE DEF before
<1>3. \A a, b \in free : a \in before[b] => before[a] \subseteq before[b]
  <2> SUFFICES ASSUME NEW a \in free, NEW b \in free, a \in before[b],
                      NEW c \in before[a]
               PROVE  c \in before[b]
    OBVIOUS
  <2>1. c \in free
    BY <1>2
  <2> QED BY <1>1, <1>2, <2>1
<1>4. \A a \in free : a \notin before[a]
  BY <1>1, <1>2
<1>5. \A a, b \in free : a = b \/ a \in before[b] \/ b \in before[a]
  BY <1>1, <1>2
<1>6. Linear(free, before)
  BY <1>2, <1>3, <1>4, <1>5 DEF Linear
<1> QED BY <1>6 DEF before

(* compact() compares the size of the racks, the racks, the size of the     *)
(* NICs, the NICs and the GPUs, in that order.                              *)
LEMMA CompactLinear ==
  ASSUME NEW free \in SUBSET Gpus, NEW size \in [free -> Nat], NEW share \in [free -> Nat],
         \A a, b \in free : Rack[a] = Rack[b] => size[a] = size[b],
         \A a, b \in free : Nic[a] = Nic[b] => share[a] = share[b],
         NEW before \in [free -> SUBSET free],
         \A a, b \in free : b \in before[a] <=>
           IF Rack[b] # Rack[a]
           THEN size[b] > size[a] \/ (size[b] = size[a] /\ Rack[b] < Rack[a])
           ELSE IF Nic[b] # Nic[a]
           THEN share[b] > share[a] \/ (share[b] = share[a] /\ Nic[b] < Nic[a])
           ELSE b < a
  PROVE  Linear(free, before)
<1>1. free \subseteq Nat /\ \A a \in free : Rack[a] \in Nat /\ Nic[a] \in Nat
  BY FreeGpusFacts
<1>2. \A a \in free : size[a] \in Nat /\ share[a] \in Nat
  OBVIOUS
<1>3. \A a \in free : a \notin before[a]
  BY <1>1, <1>2
<1>4. \A a, b \in free : a = b \/ a \in before[b] \/ b \in before[a]
  BY <1>1, <1>2
<1>5. \A a, b \in free : a \in before[b] => before[a] \subseteq before[b]
  <2> SUFFICES ASSUME NEW a \in free, NEW b \in free, a \in before[b],
                      NEW c \in before[a]
               PROVE  c \in before[b]
    OBVIOUS
  <2>1. c \in free
    OBVIOUS
  <2>2. IF Rack[a] # Rack[b]
        THEN size[a] > size[b] \/ (size[a] = size[b] /\ Rack[a] < Rack[b])
        ELSE IF Nic[a] # Nic[b]
        THEN share[a] > share[b] \/ (share[a] = share[b] /\ Nic[a] < Nic[b])
        ELSE a < b
    OBVIOUS
  <2>3. IF Rack[c] # Rack[a]
        THEN size[c] > size[a] \/ (size[c] = size[a] /\ Rack[c] < Rack[a])
        ELSE IF Nic[c] # Nic[a]
        THEN share[c] > share[a] \/ (share[c] = share[a] /\ Nic[c] < Nic[a])
        ELSE c < a
    BY <2>1
  <2>4. IF Rack[c] # Rack[b]
        THEN size[c] > size[b] \/ (size[c] = size[b] /\ Rack[c] < Rack[b])
        ELSE IF Nic[c] # Nic[b]
        THEN share[c] > share[b] \/ (share[c] = share[b] /\ Nic[c] < Nic[b])
        ELSE c < b
    BY <1>1, <1>2, <2>1, <2>2, <2>3
  <2> QED BY <2>1, <2>4
<1> QED BY <1>3, <1>4, <1>5 DEF Linear

(* The first rack that holds the job, if there is one. *)
LEMMA FirstFittingFacts ==
  ASSUME NEW free \in SUBSET Gpus, NEW count \in Nat \ {0}
  PROVE  LET local == FirstFitting(free, count)
         IN /\ local \in SUBSET free
            /\ \A a, b \in local : Rack[a] = Rack[b]
            /\ (\E g \in free : Cardinality(InRack(free, Rack[g])) >= count) =>
                 \E g \in local : local = InRack(free, Rack[g])
                                  /\ Cardinality(local) >= count
<1> DEFINE fitting == {Rack[gpu] : gpu \in {g \in free : Cardinality(InRack(free, Rack[g])) >= count}}
           r == CHOOSE x \in fitting : \A q \in fitting : x <= q
           local == FirstFitting(free, count)
<1>1. local = {gpu \in free : fitting # {} /\ Rack[gpu] = r}
  BY Zenon DEF FirstFitting
<1>2. fitting \subseteq Nat
  BY FreeGpusFacts
<1> HIDE DEF local
<1>3. ASSUME NEW h \in free, Cardinality(InRack(free, Rack[h])) >= count
      PROVE  \E g \in local : local = InRack(free, Rack[g]) /\ Cardinality(local) >= count
  <2>1. fitting # {}
    BY <1>3
  <2>2. r \in fitting
    <3> HIDE DEF fitting
    <3>1. \E x \in fitting : \A q \in fitting : x <= q
      BY <1>2, <2>1, LeastNatural
    <3> QED BY <3>1, Zenon
  <2>3. PICK g \in free : Cardinality(InRack(free, Rack[g])) >= count /\ Rack[g] = r
    BY <2>2
  <2>4. local = InRack(free, Rack[g]) /\ g \in local
    <3> HIDE DEF fitting, r
    <3> QED BY <1>1, <2>1, <2>3 DEF InRack
  <2> QED BY <2>3, <2>4
<1> HIDE DEF r, fitting
<1>4. local \in SUBSET free /\ \A a, b \in local : Rack[a] = Rack[b]
  BY <1>1
<1> QED BY <1>3, <1>4 DEF local

----------------------------------------------------------------------------
(* f lists the elements of S, each once. *)
Enumerates(f, S) ==
  /\ f \in [1..Cardinality(S) -> S]
  /\ \A i, j \in 1..Cardinality(S) : f[i] = f[j] => i = j
  /\ \A a \in S : \E i \in 1..Cardinality(S) : f[i] = a

(* The elements of P come first in f. *)
Leads(P, f, n) == \A i, j \in 1..n : i < j /\ f[j] \in P => f[i] \in P

(* rack_local(): the GPUs of the chosen rack come first. *)
LEMMA RackLocalFacts ==
  ASSUME NEW free \in SUBSET Gpus, NEW count \in Nat \ {0}
  PROVE  LET f == RackLocalOrder(free, count)
         IN Enumerates(f, free) /\ Leads(FirstFitting(free, count), f, Cardinality(free))
<1> DEFINE local == FirstFitting(free, count)
           before == [a \in free |->
             IF a \in local THEN {b \in local : b < a} ELSE local \cup {b \in free : b < a}]
           f == RackLocalOrder(free, count)
<1>1. local \in SUBSET free /\ IsFiniteSet(free)
  BY FirstFittingFacts, FreeGpusFacts
<1>2. f = Ranked(free, before)
  BY DEF RackLocalOrder
<1> HIDE DEF local, f
<1>3. Linear(free, before)
  BY <1>1, LocalLinear
<1>4. \A a, b \in free : a \in local /\ b \in before[a] => b \in local
  OBVIOUS
<1> HIDE DEF before
<1>5. Lists(f, free, before)
  BY <1>1, <1>2, <1>3, RankedLists
<1>6. Leads(local, f, Cardinality(free))
  <2> SUFFICES ASSUME NEW i \in 1..Cardinality(free), NEW j \in 1..Cardinality(free),
                      i < j, f[j] \in local
               PROVE  f[i] \in local
    BY DEF Leads
  <2>1. f[i] \in free /\ f[j] \in free /\ f[i] \in before[f[j]]
    BY <1>5 DEF Lists
  <2> QED BY <1>4, <2>1
<1> QED BY <1>5, <1>6 DEF Lists, Enumerates, f, local

(* compact(): the largest rack comes first. *)
LEMMA CompactFacts ==
  ASSUME NEW free \in SUBSET Gpus, free # {}
  PROVE  LET f == CompactOrder(free)
             best == InRack(free, Rack[f[1]])
         IN /\ Enumerates(f, free)
            /\ 1 \in 1..Cardinality(free) /\ f[1] \in free
            /\ Leads(best, f, Cardinality(free))
            /\ \A g \in free : Cardinality(InRack(free, Rack[g])) <= Cardinality(best)
<1> DEFINE size == [g \in free |-> Cardinality(InRack(free, Rack[g]))]
           share == [g \in free |-> Cardinality({h \in free : Nic[h] = Nic[g]})]
           before == [a \in free |-> {b \in free :
             IF Rack[b] # Rack[a]
             THEN \/ Cardinality(InRack(free, Rack[b])) > Cardinality(InRack(free, Rack[a]))
                  \/ (Cardinality(InRack(free, Rack[b])) = Cardinality(InRack(free, Rack[a]))
                      /\ Rack[b] < Rack[a])
             ELSE IF Nic[b] # Nic[a]
             THEN \/ Cardinality({h \in free : Nic[h] = Nic[b]})
                       > Cardinality({h \in free : Nic[h] = Nic[a]})
                  \/ (Cardinality({h \in free : Nic[h] = Nic[b]})
                        = Cardinality({h \in free : Nic[h] = Nic[a]})
                      /\ Nic[b] < Nic[a])
             ELSE b < a}]
           f == CompactOrder(free)
           best == InRack(free, Rack[f[1]])
           n == Cardinality(free)
<1>1. /\ IsFiniteSet(free) /\ n \in Nat /\ free \subseteq Nat
      /\ \A a \in free : Rack[a] \in Nat /\ Nic[a] \in Nat
  BY FreeGpusFacts
<1>2. f = Ranked(free, before)
  BY Zenon DEF CompactOrder
<1> HIDE DEF f
<1>3. size \in [free -> Nat]
  BY FreeGpusFacts
<1>4. share \in [free -> Nat]
  <2>1. \A g \in free : {h \in free : Nic[h] = Nic[g]} \in SUBSET free
    OBVIOUS
  <2>2. \A g \in free : Cardinality({h \in free : Nic[h] = Nic[g]}) \in Nat
    BY <1>1, <2>1, FS_Subset, FS_CardinalityType
  <2> QED BY <2>2
<1>5. \A a, b \in free : Rack[a] = Rack[b] => size[a] = size[b]
  OBVIOUS
<1>6. \A a, b \in free : Nic[a] = Nic[b] => share[a] = share[b]
  OBVIOUS
<1>7. /\ before \in [free -> SUBSET free]
      /\ \A a, b \in free : b \in before[a] <=>
           IF Rack[b] # Rack[a]
           THEN size[b] > size[a] \/ (size[b] = size[a] /\ Rack[b] < Rack[a])
           ELSE IF Nic[b] # Nic[a]
           THEN share[b] > share[a] \/ (share[b] = share[a] /\ Nic[b] < Nic[a])
           ELSE b < a
  OBVIOUS
<1>8. \A g \in free : size[g] = Cardinality(InRack(free, Rack[g]))
  OBVIOUS
<1> HIDE DEF size, share, before
<1>9. Linear(free, before)
  BY <1>3, <1>4, <1>5, <1>6, <1>7, CompactLinear
<1>10. Lists(f, free, before)
  BY <1>1, <1>2, <1>9, RankedLists
<1>11. 1 \in 1..n /\ f[1] \in free
  <2>1. n # 0
    BY <1>1, FS_EmptySet
  <2> QED BY <1>1, <1>10, <2>1 DEF Lists
<1>12. \A g \in free : size[g] <= size[f[1]]
  <2> SUFFICES ASSUME NEW g \in free PROVE size[g] <= size[f[1]]
    OBVIOUS
  <2>1. PICK i \in 1..n : f[i] = g
    BY <1>10 DEF Lists
  <2>2. size[g] \in Nat /\ size[f[1]] \in Nat
    BY <1>3, <1>11
  <2>3. CASE i = 1
    BY <2>1, <2>2, <2>3
  <2>4. CASE i # 1
    <3>1. 1 < i
      BY <1>1, <2>4
    <3>2. f[1] \in before[g]
      BY <1>10, <1>11, <2>1, <3>1 DEF Lists
    <3>3. CASE Rack[f[1]] # Rack[g]
      BY <1>7, <1>11, <2>2, <3>2, <3>3
    <3>4. CASE Rack[f[1]] = Rack[g]
      BY <1>5, <1>11, <2>2, <3>4
    <3> QED BY <3>3, <3>4
  <2> QED BY <2>3, <2>4
<1>13. Leads(best, f, n)
  <2> HIDE DEF best, n
  <2>0. SUFFICES ASSUME NEW i \in 1..n, NEW j \in 1..n, i < j /\ f[j] \in best
                      PROVE  f[i] \in best
    BY Zenon DEF Leads
  <2>. SUFFICES ASSUME f[i] \notin best PROVE FALSE
    OBVIOUS
  <2> USE DEF n
  <2>1. /\ f[i] \in free /\ f[j] \in free /\ f[i] \in before[f[j]]
        /\ Rack[f[j]] = Rack[f[1]] /\ Rack[f[i]] # Rack[f[1]]
    BY <2>0, <1>10 DEF Lists, best, InRack
  <2>2. size[f[j]] = size[f[1]] /\ size[f[1]] \in Nat /\ size[f[i]] \in Nat
    BY <1>3, <1>5, <1>11, <2>1
  <2>3. size[f[i]] > size[f[1]] \/ (size[f[i]] = size[f[1]] /\ Rack[f[i]] < Rack[f[1]])
    BY <1>7, <2>1, <2>2
  <2>4. i # 1
    BY <2>1
  <2>5. 1 < i
    BY <1>1, <2>4
  <2>6. f[1] \in before[f[i]]
    BY <1>10, <1>11, <2>5 DEF Lists
  <2>7. size[f[1]] > size[f[i]] \/ (size[f[1]] = size[f[i]] /\ Rack[f[1]] < Rack[f[i]])
    BY <1>7, <1>11, <2>1, <2>6
  <2>8. Rack[f[1]] \in Nat /\ Rack[f[i]] \in Nat
    BY <1>1, <1>11, <2>1
  <2>9. \A x, y, p, q \in Nat : (x > y \/ (x = y /\ p < q)) => ~(y > x \/ (y = x /\ q < p))
    OBVIOUS
  <2> QED BY <2>2, <2>3, <2>7, <2>8, <2>9
<1>14. \A g \in free : Cardinality(InRack(free, Rack[g])) <= Cardinality(best)
  BY <1>8, <1>11, <1>12 DEF best
<1> QED BY <1>10, <1>11, <1>13, <1>14 DEF Lists, Enumerates, f, best

(* As many elements as lead a list are at its start. *)
LEMMA LeadersFirst ==
  ASSUME NEW S, IsFiniteSet(S), NEW f, Enumerates(f, S), NEW P \in SUBSET S,
         Leads(P, f, Cardinality(S)), NEW count \in Nat, count <= Cardinality(P)
  PROVE  count <= Cardinality(S) /\ \A i \in 1..count : f[i] \in P
<1> DEFINE n == Cardinality(S)
<1>1. IsFiniteSet(P) /\ Cardinality(P) \in Nat /\ n \in Nat /\ Cardinality(P) <= n
  BY FS_Subset, FS_CardinalityType
<1>2. count <= n
  BY <1>1
<1> SUFFICES ASSUME NEW i \in 1..count, f[i] \notin P PROVE FALSE
  BY <1>2
<1> DEFINE at == [a \in P |-> CHOOSE j \in 1..n : f[j] = a]
<1>3. ASSUME NEW a \in P PROVE at[a] \in 1..i - 1 /\ f[at[a]] = a
  <2>1. \E j \in 1..n : f[j] = a
    BY DEF Enumerates
  <2>2. at[a] \in 1..n /\ f[at[a]] = a
    BY <2>1, Zenon
  <2> HIDE DEF at
  <2>3. i \in 1..n
    BY <1>1
  <2>4. ~(i < at[a])
    BY <2>2, <2>3 DEF Leads
  <2>5. i # at[a]
    BY <2>2
  <2> QED BY <1>1, <2>2, <2>3, <2>4, <2>5
<1>4. at \in [P -> 1..i - 1]
  BY <1>3
<1>5. \A a, b \in P : at[a] = at[b] => a = b
  <2> SUFFICES ASSUME NEW a \in P, NEW b \in P, at[a] = at[b] PROVE a = b
    OBVIOUS
  <2>1. f[at[a]] = a /\ f[at[b]] = b
    BY <1>3
  <2> HIDE DEF at
  <2> QED BY <2>1
<1>6. IsFiniteSet(1..i - 1) /\ Cardinality(1..i - 1) = i - 1
  <2>1. i \in Nat /\ i >= 1
    BY <1>1
  <2>2. Cardinality(1..i - 1) = IF 1 > i - 1 THEN 0 ELSE (i - 1) - 1 + 1
    BY <2>1, FS_Interval
  <2> QED BY <2>1, <2>2, FS_Interval
<1>7. Cardinality(P) <= i - 1
  <2> DEFINE T == 1..i - 1
  <2> HIDE DEF at, T
  <2>1. at \in [P -> T] /\ IsFiniteSet(T) /\ Cardinality(T) = i - 1
    BY <1>4, <1>6 DEF T
  <2>2. Cardinality(P) <= Cardinality(T)
    BY <1>1, <1>5, <2>1, Injects
  <2> QED BY <2>1, <2>2
<1> QED BY <1>1, <1>7

----------------------------------------------------------------------------
(* What a policy orders are the free GPUs, each once. *)
LEMMA OrderFacts ==
  ASSUME NEW free \in SUBSET Gpus, NEW policy, NEW request,
         request.job \in Jobs, request.workers \in Nat \ {0}, free # {}
  PROVE  Enumerates(Order(policy, free, request), free)
<1>1. IsFiniteSet(free)
  BY FreeGpusFacts
<1>2. ASSUME NEW before, Linear(free, before) PROVE Enumerates(Ranked(free, before), free)
  BY <1>1, <1>2, RankedLists DEF Lists, Enumerates
<1>3. CASE policy = "random"
  <2>1. Score[request.job] \in [Gpus -> Nat]
    BY InventoryAssumption
  <2>2. Enumerates(RandomOrder(free, request.job), free)
    BY <1>2, <2>1, RandomLinear DEF RandomOrder
  <2> QED BY <1>3, <2>2 DEF Order
<1>4. CASE policy = "rack-local"
  BY <1>4, RackLocalFacts DEF Order
<1>5. CASE policy = "compact"
  BY <1>5, CompactFacts DEF Order
<1>6. CASE policy \notin {"random", "rack-local", "compact"}
  <2>1. Enumerates(IdOrder(free), free)
    BY <1>2, IdOrderLinear DEF IdOrder
  <2>2. Order(policy, free, request) = IdOrder(free)
    BY <1>6 DEF Order
  <2> QED BY <2>1, <2>2
<1> QED BY <1>3, <1>4, <1>5, <1>6

(* The first elements of a list. *)
LEMMA FirstOf ==
  ASSUME NEW S, IsFiniteSet(S), NEW f, Enumerates(f, S),
         NEW count \in Nat, count <= Cardinality(S)
  PROVE  /\ SubSeq(f, 1, count) = [i \in 1..count |-> f[i]]
         /\ SubSeq(f, 1, count) \in Seq(S)
         /\ Len(SubSeq(f, 1, count)) = count
         /\ IsInjective(SubSeq(f, 1, count))
<1> DEFINE n == Cardinality(S)
<1>1. n \in Nat /\ f \in [1..n -> S] /\ \A i, j \in 1..n : f[i] = f[j] => i = j
  BY FS_CardinalityType DEF Enumerates
<1> HIDE DEF n
<1>2. f \in Seq(S) /\ Len(f) = n
  BY <1>1
<1>3. SubSeq(f, 1, count) = [i \in 1..count |-> f[i]]
  BY <1>1, <1>2 DEF n
<1>4. SubSeq(f, 1, count) \in Seq(S) /\ Len(SubSeq(f, 1, count)) = count
  BY <1>1, <1>3 DEF n
<1>5. DOMAIN SubSeq(f, 1, count) = 1..count /\ 1..count \subseteq 1..n
  BY <1>1, <1>3 DEF n
<1>6. IsInjective(SubSeq(f, 1, count))
  BY <1>1, <1>3, <1>5 DEF IsInjective
<1> QED BY <1>3, <1>4, <1>6

(* The views of the inventory. *)
Views == [Gpus -> [healthy : BOOLEAN, owner : Jobs \cup {None}]]

(* What a job asks the policy for. *)
Asked(job, wanted) == [job |-> job, workers |-> wanted.workers, pinned |-> wanted.pinned]

(* place(): what a decision guarantees, for any view and any policy. *)
LEMMA PlaceFacts ==
  ASSUME NEW view \in Views, NEW job \in Jobs, NEW policy \in Policies,
         NEW wanted \in Requests
  PROVE  LET free == FreeGpus(view)
             result == Place(policy, Asked(job, wanted), view)
         IN /\ result.outcome = "Placed" =>
                 /\ result.workers \in Seq(free) /\ result.workers # <<>>
                 /\ IsInjective(result.workers)
                 /\ Len(result.workers) = wanted.workers
                 /\ wanted.pinned # <<>> => result.workers = wanted.pinned
                 /\ wanted.pinned = <<>> =>
                      /\ wanted.workers \in Nat \ {0} /\ wanted.workers <= Cardinality(free)
                      /\ free # {}
                      /\ result.workers = SubSeq(Order(policy, free, Asked(job, wanted)),
                                                 1, wanted.workers)
            /\ result.outcome = "Waiting" =>
                 IF wanted.pinned = <<>> THEN Cardinality(free) < wanted.workers
                 ELSE ~(Range(wanted.pinned) \subseteq free)
<1> DEFINE free == FreeGpus(view)
           request == Asked(job, wanted)
           result == Place(policy, request, view)
           few == \/ request.workers = 0 \/ request.workers > Cardinality(Gpus)
                  \/ request.pinned # <<>> /\ Len(request.pinned) # request.workers
           listed == SubSeq(Order(policy, free, request), 1, request.workers)
<1>1. /\ request.job = job /\ request.workers = wanted.workers
      /\ request.pinned = wanted.pinned
      /\ wanted.workers \in Nat /\ wanted.pinned \in Seq(Nat)
  BY InventoryAssumption DEF Asked
<1>2. free \in SUBSET Gpus /\ IsFiniteSet(free) /\ Cardinality(free) \in Nat
  BY FreeGpusFacts DEF FreeGpus
<1>3. result = IF few THEN Decision("Rejected", <<>>)
               ELSE IF request.pinned # <<>> THEN Pinned(request, view)
               ELSE IF Cardinality(free) < request.workers THEN Decision("Waiting", <<>>)
               ELSE Decision("Placed", listed)
  BY Zenon DEF Place
<1> HIDE DEF free, result, request
<1>4. CASE few
  <2>1. result.outcome = "Rejected"
    BY <1>3, <1>4 DEF Decision
  <2> QED BY <2>1 DEF result, request
<1>5. CASE ~few /\ wanted.pinned # <<>>
  <2>1. result = Pinned(request, view)
    BY <1>1, <1>3, <1>5
  <2>2. result = IF ~(Range(wanted.pinned) \subseteq Gpus /\ IsInjective(wanted.pinned))
                 THEN Decision("Rejected", <<>>)
                 ELSE IF Range(wanted.pinned) \subseteq free
                 THEN Decision("Placed", wanted.pinned)
                 ELSE Decision("Waiting", <<>>)
    BY <1>1, <2>1 DEF Pinned, free
  <2>3. CASE ~(Range(wanted.pinned) \subseteq Gpus /\ IsInjective(wanted.pinned))
    <3>1. result.outcome = "Rejected"
      BY <2>2, <2>3 DEF Decision
    <3> QED BY <3>1 DEF result, request
  <2>4. CASE /\ IsInjective(wanted.pinned) /\ Range(wanted.pinned) \subseteq Gpus
             /\ Range(wanted.pinned) \subseteq free
    <3>1. result.outcome = "Placed" /\ result.workers = wanted.pinned
      BY <2>2, <2>4 DEF Decision
    <3>2. wanted.pinned \in Seq(free)
      <4>1. \A i \in 1..Len(wanted.pinned) : wanted.pinned[i] \in free
        BY <1>1, <2>4 DEF Range
      <4> QED BY <1>1, <4>1
    <3>3. Len(wanted.pinned) = wanted.workers
      BY <1>1, <1>5
    <3> QED BY <1>5, <2>4, <3>1, <3>2, <3>3 DEF result, request, free
  <2>5. CASE /\ IsInjective(wanted.pinned) /\ Range(wanted.pinned) \subseteq Gpus
             /\ ~(Range(wanted.pinned) \subseteq free)
    <3>1. result.outcome = "Waiting"
      BY <2>2, <2>5 DEF Decision
    <3> QED BY <1>5, <2>5, <3>1 DEF result, request, free
  <2> QED BY <2>3, <2>4, <2>5
<1>6. CASE ~few /\ wanted.pinned = <<>> /\ Cardinality(free) < wanted.workers
  <2>1. result.outcome = "Waiting"
    BY <1>1, <1>3, <1>6 DEF Decision
  <2> QED BY <1>6, <2>1 DEF result, request, free
<1>7. CASE ~few /\ wanted.pinned = <<>> /\ ~(Cardinality(free) < wanted.workers)
  <2>1. result.outcome = "Placed" /\ result.workers = listed
    BY <1>1, <1>3, <1>7 DEF Decision
  <2>2. wanted.workers \in Nat \ {0} /\ wanted.workers <= Cardinality(free)
    BY <1>1, <1>2, <1>7
  <2>3. free # {}
    BY <2>2, FS_EmptySet
  <2>4. Enumerates(Order(policy, free, request), free)
    BY <1>1, <1>2, <2>2, <2>3, OrderFacts
  <2>5. listed \in Seq(free) /\ Len(listed) = wanted.workers /\ IsInjective(listed)
    BY <1>1, <1>2, <2>2, <2>4, FirstOf
  <2>6. listed # <<>>
    BY <2>2, <2>5
  <2>7. listed = SubSeq(Order(policy, free, request), 1, wanted.workers)
    BY <1>1
  <2> HIDE DEF listed
  <2> QED BY <1>7, <2>1, <2>2, <2>3, <2>5, <2>6, <2>7 DEF result, request, free
<1> QED BY <1>4, <1>5, <1>6, <1>7

----------------------------------------------------------------------------
(* The record of a decision. *)
Deciding(view, job, policy, wanted) ==
  [request |-> Asked(job, wanted), policy |-> policy, before |-> view,
   result |-> Place(policy, Asked(job, wanted), view), loose |-> Fragmentation(view)]

(* The GPUs a job owns are the ones it was granted. *)
Owned == \A job \in Jobs : {gpu \in Gpus : gpus[gpu].owner = job} = Range(granted[job])

(* A decision was made by a policy, on a view of the inventory in which the  *)
(* job owned nothing.                                                        *)
Explained ==
  last # None =>
    \E view \in Views, job \in Jobs, policy \in Policies, wanted \in Requests :
      /\ last = Deciding(view, job, policy, wanted)
      /\ \A gpu \in Gpus : view[gpu].owner # job

InventoryInv ==
  /\ gpus \in Views
  /\ granted \in [Jobs -> Seq(Gpus)]
  /\ Owned
  /\ Explained

(* The full inventory satisfies the invariant. *)
LEMMA InitInventory == Init => InventoryInv
<1> SUFFICES ASSUME Init PROVE InventoryInv
  OBVIOUS
<1>1. gpus \in Views
  BY DEF Init, FullInventory, Views
<1>2. granted \in [Jobs -> Seq(Gpus)]
  BY DEF Init
<1>3. Owned
  <2> SUFFICES ASSUME NEW job \in Jobs
               PROVE  {gpu \in Gpus : gpus[gpu].owner = job} = Range(granted[job])
    BY DEF Owned
  <2>1. \A gpu \in Gpus : gpus[gpu].owner = None
    BY DEF Init, FullInventory
  <2>2. granted[job] = <<>>
    BY DEF Init
  <2>3. Range(<<>>) = {}
    BY DEF Range
  <2> QED BY <2>1, <2>2, <2>3, InventoryAssumption
<1>4. Explained
  BY DEF Init, Explained
<1> QED BY <1>1, <1>2, <1>3, <1>4 DEF InventoryInv

(* allocate() after a decision: the workers are the job's, no other owner    *)
(* changes.                                                                  *)
LEMMA DecideKeeps ==
  ASSUME InventoryInv, NEW job \in Jobs, NEW policy \in Policies, NEW wanted \in Requests,
         Decide(job, policy, wanted)
  PROVE  InventoryInv'
<1> DEFINE request == Asked(job, wanted)
           decision == Place(policy, request, gpus)
<1>1. /\ granted[job] = <<>>
      /\ last' = Deciding(gpus, job, policy, wanted)
      /\ IF decision.outcome = "Placed"
         THEN /\ gpus' = Allocated(gpus, job, decision.workers)
              /\ granted' = [granted EXCEPT ![job] = decision.workers]
         ELSE UNCHANGED <<gpus, granted>>
  BY DEF Decide, Asked, Deciding
<1>2. gpus \in Views /\ granted \in [Jobs -> Seq(Gpus)] /\ Owned
  BY DEF InventoryInv
<1>3. \A gpu \in Gpus : gpus[gpu].owner # job
  <2>1. Range(<<>>) = {}
    BY DEF Range
  <2> QED BY <1>1, <1>2, <2>1 DEF Owned
<1> HIDE DEF request
<1>4. Explained'
  BY <1>1, <1>2, <1>3 DEF Explained
<1>5. CASE decision.outcome # "Placed"
  BY <1>1, <1>2, <1>4, <1>5 DEF InventoryInv, Owned
<1>6. CASE decision.outcome = "Placed"
  <2> DEFINE workers == decision.workers
  <2>1. workers \in Seq(FreeGpus(gpus))
    BY <1>2, <1>6, PlaceFacts DEF request
  <2>2. workers \in Seq(Gpus) /\ Range(workers) \subseteq FreeGpus(gpus)
    BY <2>1 DEF FreeGpus, Range
  <2> HIDE DEF workers
  <2>3. gpus' = Allocated(gpus, job, workers) /\ granted' = [granted EXCEPT ![job] = workers]
    BY <1>1, <1>6 DEF workers
  <2>4. \A gpu \in Gpus : gpus'[gpu] = IF gpu \in Range(workers)
                                       THEN [gpus[gpu] EXCEPT !.owner = job] ELSE gpus[gpu]
    BY <2>3 DEF Allocated
  <2>5. gpus' \in Views
    <3>1. \A gpu \in Gpus : gpus[gpu] \in [healthy : BOOLEAN, owner : Jobs \cup {None}]
      BY <1>2 DEF Views
    <3>2. \A gpu \in Gpus : gpus'[gpu] \in [healthy : BOOLEAN, owner : Jobs \cup {None}]
      BY <2>4, <3>1
    <3> QED BY <2>3, <3>2 DEF Views, Allocated
  <2>6. \A gpu \in Gpus : gpus'[gpu].owner = IF gpu \in Range(workers) THEN job
                                             ELSE gpus[gpu].owner
    BY <1>2, <2>4 DEF Views
  <2>7. granted' \in [Jobs -> Seq(Gpus)]
    BY <1>2, <2>2, <2>3
  <2>8. Owned'
    <3> SUFFICES ASSUME NEW other \in Jobs
                 PROVE  {gpu \in Gpus : gpus'[gpu].owner = other} = Range(granted'[other])
      BY DEF Owned
    <3>1. CASE other = job
      <4>1. granted'[other] = workers
        BY <1>2, <2>3, <3>1
      <4>2. Range(workers) \subseteq Gpus
        BY <2>2 DEF FreeGpus
      <4> QED BY <1>3, <2>6, <3>1, <4>1, <4>2
    <3>2. CASE other # job
      <4>1. granted'[other] = granted[other]
        BY <1>2, <2>3, <3>2
      <4>2. \A gpu \in Range(workers) : gpus[gpu].owner # other
        BY <2>2, InventoryAssumption DEF FreeGpus
      <4>3. {gpu \in Gpus : gpus[gpu].owner = other} = Range(granted[other])
        BY <1>2 DEF Owned
      <4> QED BY <2>6, <3>2, <4>1, <4>2, <4>3
    <3> QED BY <3>1, <3>2
  <2> QED BY <1>4, <2>5, <2>7, <2>8 DEF InventoryInv
<1> QED BY <1>5, <1>6

(* release(): the job owns nothing, whatever the health of its GPUs. *)
LEMMA ReleaseKeeps ==
  ASSUME InventoryInv, NEW job \in Jobs, Release(job)
  PROVE  InventoryInv'
<1>1. /\ gpus' = Released(gpus, job) /\ granted' = [granted EXCEPT ![job] = <<>>]
      /\ last' = None
  BY DEF Release
<1>2. gpus \in Views /\ granted \in [Jobs -> Seq(Gpus)] /\ Owned
  BY DEF InventoryInv
<1>3. \A gpu \in Gpus : gpus[gpu] \in [healthy : BOOLEAN, owner : Jobs \cup {None}]
  BY <1>2 DEF Views
<1>4. \A gpu \in Gpus : gpus'[gpu] = IF gpus[gpu].owner = job
                                     THEN [gpus[gpu] EXCEPT !.owner = None] ELSE gpus[gpu]
  BY <1>1 DEF Released
<1>5. gpus' \in Views
  <2>1. \A gpu \in Gpus : gpus'[gpu] \in [healthy : BOOLEAN, owner : Jobs \cup {None}]
    BY <1>3, <1>4
  <2> QED BY <1>1, <2>1 DEF Views, Released
<1>6. \A gpu \in Gpus : gpus'[gpu].owner = IF gpus[gpu].owner = job THEN None
                                           ELSE gpus[gpu].owner
  BY <1>3, <1>4
<1>7. granted' \in [Jobs -> Seq(Gpus)]
  BY <1>1, <1>2
<1>8. Owned'
  <2> SUFFICES ASSUME NEW other \in Jobs
               PROVE  {gpu \in Gpus : gpus'[gpu].owner = other} = Range(granted'[other])
    BY DEF Owned
  <2>1. CASE other = job
    <3>1. granted'[other] = <<>>
      BY <1>1, <1>2, <2>1
    <3>2. Range(<<>>) = {}
      BY DEF Range
    <3> QED BY <1>6, <2>1, <3>1, <3>2, InventoryAssumption
  <2>2. CASE other # job
    <3>1. granted'[other] = granted[other]
      BY <1>1, <1>2, <2>2
    <3>2. {gpu \in Gpus : gpus[gpu].owner = other} = Range(granted[other])
      BY <1>2 DEF Owned
    <3> QED BY <1>6, <2>2, <3>1, <3>2, InventoryAssumption
  <2> QED BY <2>1, <2>2
<1>9. Explained'
  BY <1>1 DEF Explained
<1> QED BY <1>5, <1>7, <1>8, <1>9 DEF InventoryInv

(* set_health(): no owner changes. *)
LEMMA SetHealthKeeps ==
  ASSUME InventoryInv, NEW gpu \in Gpus, NEW healthy \in BOOLEAN, SetHealth(gpu, healthy)
  PROVE  InventoryInv'
<1>1. gpus' = WithHealth(gpus, gpu, healthy) /\ granted' = granted /\ last' = None
  BY DEF SetHealth
<1>2. gpus \in Views /\ granted \in [Jobs -> Seq(Gpus)] /\ Owned
  BY DEF InventoryInv
<1>3. \A g \in Gpus : gpus[g] \in [healthy : BOOLEAN, owner : Jobs \cup {None}]
  BY <1>2 DEF Views
<1>4. gpus' = [gpus EXCEPT ![gpu].healthy = healthy]
  BY <1>1 DEF WithHealth
<1>5. gpus' \in Views
  BY <1>2, <1>3, <1>4 DEF Views
<1>6. \A g \in Gpus : gpus'[g].owner = gpus[g].owner
  BY <1>2, <1>3, <1>4 DEF Views
<1>7. Owned'
  <2> SUFFICES ASSUME NEW job \in Jobs
               PROVE  {g \in Gpus : gpus'[g].owner = job} = Range(granted'[job])
    BY DEF Owned
  <2>1. {g \in Gpus : gpus[g].owner = job} = Range(granted[job])
    BY <1>2 DEF Owned
  <2> QED BY <1>1, <1>6, <2>1
<1>8. Explained'
  BY <1>1 DEF Explained
<1> QED BY <1>1, <1>2, <1>5, <1>7, <1>8 DEF InventoryInv

(* The invariant holds in every reachable state. *)
LEMMA InventoryInvariant == Spec => []InventoryInv
<1>1. InventoryInv /\ [Next]_ivars => InventoryInv'
  <2> SUFFICES ASSUME InventoryInv, [Next]_ivars PROVE InventoryInv'
    OBVIOUS
  <2>1. CASE UNCHANGED ivars
    BY <2>1 DEF ivars, InventoryInv, Owned, Explained
  <2>2. CASE Next
    BY <2>2, DecideKeeps, ReleaseKeeps, SetHealthKeeps DEF Next
  <2> QED BY <2>1, <2>2
<1> QED BY <1>1, InitInventory, PTL DEF Spec

(* Every placement decision is one allocate() accepts, and a job waits only  *)
(* when what it asks for is not all free; allocations stay whole and never   *)
(* overlap, whichever GPUs fail while they are owned.                        *)
THEOREM PlacementIsSound == Spec => []PlacementSound
<1>1. InventoryInv => PlacementSound
  <2> SUFFICES ASSUME InventoryInv PROVE PlacementSound
    OBVIOUS
  <2>1. \A job \in Jobs : {gpu \in Gpus : gpus[gpu].owner = job} = Range(granted[job])
    BY DEF InventoryInv, Owned
  <2>2. ASSUME last # None
        PROVE  LET free == FreeGpus(last.before)
                   result == last.result
                   request == last.request
               IN /\ result.outcome = "Placed" =>
                       /\ MayAllocate(last.before, request.job, result.workers)
                       /\ \A gpu \in Range(result.workers) :
                            last.before[gpu].healthy /\ last.before[gpu].owner = None
                       /\ Len(result.workers) = request.workers
                       /\ request.pinned # <<>> => result.workers = request.pinned
                  /\ result.outcome = "Waiting" =>
                       IF request.pinned = <<>> THEN Cardinality(free) < request.workers
                       ELSE ~(Range(request.pinned) \subseteq free)
    <3>1. PICK view \in Views, job \in Jobs, policy \in Policies, wanted \in Requests :
            /\ last = Deciding(view, job, policy, wanted)
            /\ \A gpu \in Gpus : view[gpu].owner # job
      BY <2>2 DEF InventoryInv, Explained
    <3> DEFINE result == Place(policy, Asked(job, wanted), view)
               workers == result.workers
    <3>2. /\ last.before = view /\ last.result = result
          /\ last.request.job = job /\ last.request.workers = wanted.workers
          /\ last.request.pinned = wanted.pinned
      BY <3>1 DEF Deciding, Asked
    <3>3. result.outcome = "Placed" =>
            /\ workers \in Seq(FreeGpus(view)) /\ workers # <<>> /\ IsInjective(workers)
            /\ Len(workers) = wanted.workers
            /\ wanted.pinned # <<>> => workers = wanted.pinned
      BY PlaceFacts
    <3>4. result.outcome = "Waiting" =>
            IF wanted.pinned = <<>> THEN Cardinality(FreeGpus(view)) < wanted.workers
            ELSE ~(Range(wanted.pinned) \subseteq FreeGpus(view))
      BY PlaceFacts
    <3> HIDE DEF result
    <3>5. ASSUME result.outcome = "Placed"
          PROVE  /\ MayAllocate(view, job, workers)
                 /\ \A gpu \in Range(workers) : view[gpu].healthy /\ view[gpu].owner = None
      <4>1. Range(workers) \subseteq FreeGpus(view)
        BY <3>3, <3>5 DEF Range
      <4>2. MayAllocate(view, job, workers)
        BY <3>1, <3>3, <3>5, <4>1 DEF MayAllocate
      <4>3. \A gpu \in Range(workers) : view[gpu].healthy /\ view[gpu].owner = None
        BY <4>1 DEF FreeGpus
      <4> QED BY <4>2, <4>3
    <3> QED BY <3>2, <3>3, <3>4, <3>5
  <2> QED BY <2>1, <2>2 DEF PlacementSound
<1> QED BY <1>1, InventoryInvariant, PTL

----------------------------------------------------------------------------
(* Locality.  Racks(w) are the racks of a sequence of GPUs, Leaving(w) the   *)
(* positions whose ring edge leaves their rack.                              *)
Racks(w) == {Rack[gpu] : gpu \in Range(w)}
Leaving(w) == {i \in DOMAIN w : Rack[w[i]] # Rack[w[(i % Len(w)) + 1]]}

(* locality() of an allocation counts finite sets. *)
LEMMA LocalityFacts ==
  ASSUME NEW w \in Seq(Gpus), w # <<>>
  PROVE  /\ Locality(w).racks = Cardinality(Racks(w))
         /\ Locality(w).crossRackRingEdges = Cardinality(Leaving(w))
         /\ IsFiniteSet(Racks(w)) /\ IsFiniteSet(Leaving(w))
         /\ Cardinality(Racks(w)) \in Nat /\ Cardinality(Leaving(w)) \in Nat
         /\ 1 \in DOMAIN w /\ w[1] \in Gpus
<1>1. /\ Locality(w).racks = Cardinality(Racks(w))
      /\ Locality(w).crossRackRingEdges = Cardinality(Leaving(w))
  BY DEF Locality, Racks, Leaving
<1>2. DOMAIN w = 1..Len(w) /\ Len(w) \in Nat /\ Len(w) # 0 /\ \A i \in 1..Len(w) : w[i] \in Gpus
  OBVIOUS
<1>3. IsFiniteSet(1..Len(w))
  BY <1>2, FS_Interval
<1>4. IsFiniteSet(Leaving(w))
  BY <1>2, <1>3, FS_Subset DEF Leaving
<1>5. IsFiniteSet(Racks(w))
  <2>1. Racks(w) = {Rack[w[i]] : i \in 1..Len(w)}
    BY <1>2 DEF Racks, Range
  <2> DEFINE g == [i \in 1..Len(w) |-> Rack[w[i]]]
  <2>2. g \in Surjection(1..Len(w), Racks(w))
    <3>1. g \in [1..Len(w) -> Racks(w)]
      BY <2>1
    <3>2. \A r \in Racks(w) : \E i \in 1..Len(w) : g[i] = r
      BY <2>1
    <3> HIDE DEF g
    <3> QED BY <3>1, <3>2, Zenon DEF Surjection
  <2> HIDE DEF g
  <2> QED BY <1>3, <2>2, FS_Surjection
<1> QED BY <1>1, <1>2, <1>4, <1>5, FS_CardinalityType

(* One rack: all the GPUs are in it. *)
LEMMA OneRack ==
  ASSUME NEW w \in Seq(Gpus), w # <<>>
  PROVE  Cardinality(Racks(w)) = 1 <=> \A i \in DOMAIN w : Rack[w[i]] = Rack[w[1]]
<1>1. IsFiniteSet(Racks(w)) /\ 1 \in DOMAIN w
  BY LocalityFacts
<1>2. Racks(w) = {Rack[w[i]] : i \in DOMAIN w}
  BY DEF Racks, Range
<1>3. ASSUME Cardinality(Racks(w)) = 1, NEW i \in DOMAIN w PROVE Rack[w[i]] = Rack[w[1]]
  <2>1. PICK r : Racks(w) = {r}
    BY <1>1, <1>3, FS_Singleton
  <2> QED BY <1>1, <1>2, <2>1
<1>4. ASSUME \A i \in DOMAIN w : Rack[w[i]] = Rack[w[1]] PROVE Cardinality(Racks(w)) = 1
  <2>1. Racks(w) = {Rack[w[1]]}
    BY <1>1, <1>2, <1>4
  <2> QED BY <2>1, FS_Singleton
<1> QED BY <1>3, <1>4

(* The neighbour of a rank in the ring. *)
LEMMA RingNeighbour ==
  ASSUME NEW n \in Nat \ {0}, NEW i \in 1..n
  PROVE  (i % n) + 1 = IF i = n THEN 1 ELSE i + 1
<1>1. CASE i = n
  <2>1. n % n = 0
    OBVIOUS
  <2> QED BY <1>1, <2>1
<1>2. CASE i # n
  <2>1. i \in 0..n - 1
    BY <1>2
  <2>2. i % n = i
    BY <2>1
  <2> QED BY <1>2, <2>2
<1> QED BY <1>1, <1>2

(* A set of ranks closed under the neighbour holds all of them or none. *)
LEMMA RingClosed ==
  ASSUME NEW n \in Nat \ {0}, NEW C, NEW a \in 1..n, a \in C,
         \A i \in 1..n : i \in C => (i % n) + 1 \in C
  PROVE  \A i \in 1..n : i \in C
<1>1. \A i \in 1..n : i \in C => (IF i = n THEN 1 ELSE i + 1) \in C
  BY RingNeighbour
<1>2. ASSUME NEW b \in 1..n, b \in C PROVE \A i \in 1..n : b <= i => i \in C
  <2> DEFINE T == {k \in Nat : b + k <= n => b + k \in C}
  <2>1. 0 \in T
    BY <1>2
  <2>2. ASSUME NEW k \in Nat, k \in T PROVE k + 1 \in T
    <3> SUFFICES ASSUME b + (k + 1) <= n PROVE b + (k + 1) \in C
      OBVIOUS
    <3>1. b + k \in 1..n /\ b + k # n
      OBVIOUS
    <3>2. b + k \in C
      BY <2>2, <3>1
    <3>3. (b + k) + 1 \in C
      BY <1>1, <3>1, <3>2
    <3> QED BY <3>3
  <2>3. \A k \in Nat : k \in T
    <3> HIDE DEF T
    <3> QED BY <2>1, <2>2, Induction
  <2> SUFFICES ASSUME NEW i \in 1..n, b <= i PROVE i \in C
    OBVIOUS
  <2> DEFINE k == i - b
  <2>4. k \in Nat /\ b + k = i /\ i <= n
    OBVIOUS
  <2> HIDE DEF k
  <2>5. b + k <= n => b + k \in C
    BY <2>3, <2>4
  <2> QED BY <2>4, <2>5
<1>3. n \in C /\ n \in 1..n /\ 1 \in 1..n
  BY <1>2
<1>4. 1 \in C
  BY <1>1, <1>3
<1> QED BY <1>2, <1>3, <1>4

(* locality(): a ring in one rack has no edge that leaves it; a ring over    *)
(* several leaves each of its racks.                                         *)
LEMMA RingEdges ==
  ASSUME NEW w \in Seq(Gpus), w # <<>>
  PROVE  /\ Cardinality(Racks(w)) = 1 => Cardinality(Leaving(w)) = 0
         /\ Cardinality(Racks(w)) > 1 => Cardinality(Leaving(w)) >= Cardinality(Racks(w))
<1> DEFINE n == Len(w)
<1>1. n \in Nat \ {0} /\ DOMAIN w = 1..n
  OBVIOUS
<1>2. /\ IsFiniteSet(Racks(w)) /\ IsFiniteSet(Leaving(w))
      /\ Cardinality(Racks(w)) \in Nat /\ Cardinality(Leaving(w)) \in Nat
  BY LocalityFacts
<1>3. \A i \in 1..n : (i % n) + 1 \in 1..n
  <2> HIDE DEF n
  <2>1. \A i \in 1..n : (i % n) + 1 = IF i = n THEN 1 ELSE i + 1
    BY <1>1, RingNeighbour
  <2> QED BY <1>1, <2>1
<1>4. ASSUME Cardinality(Racks(w)) = 1 PROVE Cardinality(Leaving(w)) = 0
  <2>1. \A i \in 1..n : Rack[w[i]] = Rack[w[1]]
    BY <1>1, <1>4, OneRack
  <2>2. \A i \in 1..n : Rack[w[i]] = Rack[w[(i % n) + 1]]
    BY <1>3, <2>1
  <2>3. Leaving(w) = {}
    BY <1>1, <2>2 DEF Leaving
  <2> QED BY <2>3, FS_EmptySet
<1>5. ASSUME Cardinality(Racks(w)) > 1 PROVE Cardinality(Leaving(w)) >= Cardinality(Racks(w))
  <2>1. ASSUME NEW r \in Racks(w) PROVE \E i \in Leaving(w) : Rack[w[i]] = r
    <3> SUFFICES ASSUME \A i \in Leaving(w) : Rack[w[i]] # r PROVE FALSE
      OBVIOUS
    <3> DEFINE C == {i \in 1..n : Rack[w[i]] = r}
    <3>1. PICK a \in 1..n : Rack[w[a]] = r
      BY <1>1, <2>1 DEF Racks, Range
    <3>2. \A i \in 1..n : i \in C => (i % n) + 1 \in C
      BY <1>1, <1>3 DEF Leaving
    <3>3. a \in C
      BY <3>1
    <3>4. \A i \in 1..n : i \in C
      <4> HIDE DEF C, n
      <4> QED BY <1>1, <3>2, <3>3, RingClosed
    <3>5. \A i \in DOMAIN w : Rack[w[i]] = Rack[w[1]]
      BY <1>1, <3>4
    <3>6. Cardinality(Racks(w)) = 1
      BY <3>5, OneRack
    <3> QED BY <1>5, <3>6
  <2> DEFINE R == Racks(w)
             E == Leaving(w)
             g == [r \in R |-> CHOOSE i \in E : Rack[w[i]] = r]
  <2>2. ASSUME NEW r \in R PROVE g[r] \in E /\ Rack[w[g[r]]] = r
    BY <2>1, Zenon
  <2>3. g \in [R -> E]
    BY <2>2, Zenon
  <2> HIDE DEF g, R, E
  <2>4. \A r, q \in R : g[r] = g[q] => r = q
    BY <2>2
  <2>5. Cardinality(R) <= Cardinality(E)
    BY <1>2, <2>3, <2>4, Injects DEF R, E
  <2> QED BY <1>2, <2>5 DEF R, E
<1> QED BY <1>4, <1>5

(* A job in one rack: the rack had enough free GPUs. *)
LEMMA OneRackFits ==
  ASSUME NEW free \in SUBSET Gpus, NEW w \in Seq(free), w # <<>>, IsInjective(w),
         Cardinality(Racks(w)) = 1
  PROVE  \E gpu \in free : Cardinality(InRack(free, Rack[gpu])) >= Len(w)
<1> DEFINE home == InRack(free, Rack[w[1]])
           ranks == 1..Len(w)
<1>1. w \in Seq(Gpus) /\ Len(w) \in Nat /\ DOMAIN w = ranks /\ w[1] \in free
  OBVIOUS
<1>2. \A i \in ranks : Rack[w[i]] = Rack[w[1]] /\ w[i] \in free
  BY <1>1, OneRack
<1>3. w \in [ranks -> home]
  BY <1>1, <1>2 DEF InRack
<1>4. \A i, j \in ranks : w[i] = w[j] => i = j
  BY <1>1 DEF IsInjective
<1>5. IsFiniteSet(ranks) /\ Cardinality(ranks) = Len(w)
  <2>1. Cardinality(1..Len(w)) = IF 1 > Len(w) THEN 0 ELSE Len(w) - 1 + 1
    BY <1>1, FS_Interval
  <2> QED BY <1>1, <2>1, FS_Interval
<1>6. IsFiniteSet(home) /\ Cardinality(home) \in Nat
  <2>1. home \in SUBSET free
    BY DEF InRack
  <2> QED BY <2>1, FreeGpusFacts, FS_Subset, FS_CardinalityType
<1> HIDE DEF ranks, home
<1>7. Cardinality(ranks) <= Cardinality(home)
  BY <1>3, <1>4, <1>5, <1>6, Injects
<1> QED BY <1>1, <1>5, <1>6, <1>7 DEF home

(* A rack with enough free GPUs: rack-local and compact take one rack. *)
LEMMA FitsOneRack ==
  ASSUME NEW free \in SUBSET Gpus, NEW request, request.workers \in Nat \ {0},
         NEW policy \in {"rack-local", "compact"}, NEW w,
         w = SubSeq(Order(policy, free, request), 1, request.workers),
         \E gpu \in free : Cardinality(InRack(free, Rack[gpu])) >= request.workers
  PROVE  \A i \in DOMAIN w : Rack[w[i]] = Rack[w[1]]
<1> DEFINE count == request.workers
           f == Order(policy, free, request)
<1>1. IsFiniteSet(free) /\ free # {} /\ Cardinality(free) \in Nat
  BY FreeGpusFacts
<1>2. \E P \in SUBSET free : /\ Enumerates(f, free) /\ Leads(P, f, Cardinality(free))
                             /\ count <= Cardinality(P) /\ \A a, b \in P : Rack[a] = Rack[b]
  <2>1. CASE policy = "rack-local"
    <3> DEFINE P == FirstFitting(free, count)
    <3>1. f = RackLocalOrder(free, count)
      BY <2>1 DEF Order
    <3>2. Enumerates(f, free) /\ Leads(P, f, Cardinality(free))
      BY <3>1, RackLocalFacts
    <3>3. P \in SUBSET free /\ \A a, b \in P : Rack[a] = Rack[b]
      BY FirstFittingFacts
    <3>4. Cardinality(P) >= count
      BY FirstFittingFacts
    <3>5. Cardinality(P) \in Nat
      BY <1>1, <3>3, FS_Subset, FS_CardinalityType
    <3>6. count <= Cardinality(P)
      BY <3>4, <3>5
    <3> HIDE DEF P, f
    <3> QED BY <3>2, <3>3, <3>6
  <2>2. CASE policy = "compact"
    <3> DEFINE P == InRack(free, Rack[f[1]])
    <3>1. f = CompactOrder(free)
      BY <2>2 DEF Order
    <3>2. Enumerates(f, free) /\ Leads(P, f, Cardinality(free)) /\ f[1] \in free
      BY <1>1, <3>1, CompactFacts
    <3>3. \A g \in free : Cardinality(InRack(free, Rack[g])) <= Cardinality(P)
      BY <1>1, <3>1, CompactFacts
    <3> HIDE DEF f
    <3>4. P \in SUBSET free /\ \A a, b \in P : Rack[a] = Rack[b]
      BY DEF InRack
    <3>5. PICK g \in free : Cardinality(InRack(free, Rack[g])) >= count
      OBVIOUS
    <3>6. Cardinality(InRack(free, Rack[g])) \in Nat /\ Cardinality(P) \in Nat
      BY <3>2, FreeGpusFacts
    <3>7. count <= Cardinality(P)
      BY <3>3, <3>5, <3>6
    <3> HIDE DEF P
    <3> QED BY <3>2, <3>4, <3>7
  <2> QED BY <2>1, <2>2
<1> HIDE DEF f
<1>3. PICK P \in SUBSET free :
        /\ Enumerates(f, free) /\ Leads(P, f, Cardinality(free))
        /\ count <= Cardinality(P) /\ \A a, b \in P : Rack[a] = Rack[b]
  BY <1>2
<1>4. count <= Cardinality(free) /\ \A i \in 1..count : f[i] \in P
  BY <1>1, <1>3, LeadersFirst
<1>5. w = [i \in 1..count |-> f[i]]
  BY <1>1, <1>3, <1>4, FirstOf DEF f
<1>6. DOMAIN w = 1..count /\ 1 \in 1..count /\ \A i \in 1..count : w[i] \in P
  BY <1>4, <1>5
<1> QED BY <1>3, <1>6

(* fragmentation(): zero only when the free GPUs share a rack. *)
LEMMA LooseFacts ==
  ASSUME NEW view, FreeGpus(view) # {}, Fragmentation(view) = 0
  PROVE  \A a, b \in FreeGpus(view) : Rack[a] = Rack[b]
<1> DEFINE free == FreeGpus(view)
           sizes == {Cardinality(InRack(free, Rack[gpu])) : gpu \in free} \cup {0}
           most == CHOOSE n \in sizes : \A m \in sizes : m <= n
<1>1. Fragmentation(view) = Cardinality(free) - most
  BY Zenon DEF Fragmentation
<1>2. free \in SUBSET Gpus /\ free # {}
  BY DEF FreeGpus
<1> HIDE DEF free
<1>3. IsFiniteSet(free) /\ Cardinality(free) \in Nat
  BY <1>2, FreeGpusFacts
<1>4. \A g \in free : /\ InRack(free, Rack[g]) \in SUBSET free
                      /\ Cardinality(InRack(free, Rack[g])) \in Nat
                      /\ Cardinality(InRack(free, Rack[g])) <= Cardinality(free)
                      /\ Cardinality(InRack(free, Rack[g])) = Cardinality(free)
                           => InRack(free, Rack[g]) = free
  <2>1. \A g \in free : InRack(free, Rack[g]) \in SUBSET free
    BY DEF InRack
  <2> QED BY <1>2, <1>3, <2>1, FreeGpusFacts, FS_Subset
<1>5. sizes \subseteq Nat /\ 0 \in sizes /\ \A m \in sizes : m <= Cardinality(free)
  BY <1>3, <1>4
<1>6. most \in sizes
  <2> HIDE DEF sizes
  <2> DEFINE U == {k \in Nat : \A m \in sizes : m <= k}
  <2>1. Cardinality(free) \in U
    BY <1>3, <1>5
  <2>2. U \subseteq Nat /\ U # {}
    BY <2>1
  <2>3. PICK k \in U : \A y \in U : k <= y
    <3> HIDE DEF U
    <3> QED BY <2>2, LeastNatural
  <2>4. k \in sizes
    <3> SUFFICES ASSUME k \notin sizes PROVE FALSE
      OBVIOUS
    <3>1. k \in Nat /\ k # 0
      BY <1>5
    <3>2. \A m \in sizes : m <= k - 1
      <4> SUFFICES ASSUME NEW m \in sizes PROVE m <= k - 1
        OBVIOUS
      <4>1. m \in Nat /\ m <= k /\ m # k
        BY <1>5
      <4> QED BY <3>1, <4>1
    <3>3. k - 1 \in U
      BY <3>1, <3>2
    <3> QED BY <2>3, <3>1, <3>3
  <2>5. \E n \in sizes : \A m \in sizes : m <= n
    BY <2>4
  <2> QED BY <2>5, Zenon
<1>7. most = Cardinality(free)
  <2> HIDE DEF most, sizes
  <2>1. most \in Nat
    BY <1>5, <1>6
  <2> QED BY <1>1, <1>3, <2>1
<1>8. Cardinality(free) # 0
  BY <1>2, <1>3, FS_EmptySet
<1>9. PICK g \in free : Cardinality(InRack(free, Rack[g])) = Cardinality(free)
  <2>1. Cardinality(free) \in sizes
    BY <1>6, <1>7, Zenon
  <2> HIDE DEF most
  <2> QED BY <1>8, <2>1
<1>10. InRack(free, Rack[g]) = free
  BY <1>4, <1>9
<1>11. \A a \in free : Rack[a] = Rack[g]
  BY <1>10 DEF InRack
<1> QED BY <1>11 DEF free

(* rack-local and compact keep a job in one rack exactly when some rack has  *)
(* enough free GPUs; without fragmentation every policy does; and the ring   *)
(* of an allocation leaves each rack it touches, or has no edge between      *)
(* racks.                                                                    *)
THEOREM PlacementIsLocal == Spec => []LocalWhenPossible
<1>1. InventoryInv => LocalWhenPossible
  <2> SUFFICES ASSUME InventoryInv, last # None, last.result.outcome = "Placed"
               PROVE
    LET free == FreeGpus(last.before)
        local == Locality(last.result.workers)
        fits == \E gpu \in free : Cardinality(InRack(free, Rack[gpu])) >= last.request.workers
    IN /\ last.policy \in {"rack-local", "compact"} /\ last.request.pinned = <<>> =>
            (local.racks = 1) = fits
       /\ local.racks = 1 => local.crossRackRingEdges = 0
       /\ local.racks > 1 => local.crossRackRingEdges >= local.racks
       /\ last.loose = 0 /\ last.request.pinned = <<>> => local.racks = 1
    BY Zenon DEF LocalWhenPossible
  <2>1. PICK view \in Views, job \in Jobs, policy \in Policies, wanted \in Requests :
          last = Deciding(view, job, policy, wanted)
    BY DEF InventoryInv, Explained
  <2> DEFINE result == Place(policy, Asked(job, wanted), view)
             w == result.workers
             free == FreeGpus(view)
             local == Locality(w)
             count == wanted.workers
             fits == \E gpu \in free : Cardinality(InRack(free, Rack[gpu])) >= count
  <2>2. /\ last.before = view /\ last.result = result /\ last.policy = policy
        /\ last.loose = Fragmentation(view)
        /\ last.request.workers = count /\ last.request.pinned = wanted.pinned
    BY <2>1 DEF Deciding, Asked
  <2>3. result.outcome = "Placed"
    BY <2>2
  <2>4. w \in Seq(free) /\ w # <<>> /\ IsInjective(w) /\ Len(w) = count
    BY <2>3, PlaceFacts
  <2>5. wanted.pinned = <<>> =>
          /\ count \in Nat \ {0} /\ free # {}
          /\ w = SubSeq(Order(policy, free, Asked(job, wanted)), 1, count)
    BY <2>3, PlaceFacts
  <2> HIDE DEF result
  <2>6. free \in SUBSET Gpus
    BY DEF FreeGpus
  <2>7. w \in Seq(Gpus)
    BY <2>4, <2>6
  <2> HIDE DEF w, free
  <2>8. local.racks = Cardinality(Racks(w)) /\ local.crossRackRingEdges = Cardinality(Leaving(w))
    BY <2>4, <2>7, LocalityFacts
  <2>9. /\ local.racks = 1 => local.crossRackRingEdges = 0
        /\ local.racks > 1 => local.crossRackRingEdges >= local.racks
    <3> HIDE DEF local
    <3> QED BY <2>4, <2>7, <2>8, RingEdges
  <2>10. ASSUME policy \in {"rack-local", "compact"}, wanted.pinned = <<>>
         PROVE  (local.racks = 1) <=> fits
    <3> HIDE DEF local
    <3>1. ASSUME local.racks = 1 PROVE fits
      BY <2>4, <2>6, <2>8, <3>1, OneRackFits
    <3>2. ASSUME fits PROVE local.racks = 1
      <4> DEFINE request == Asked(job, wanted)
      <4>1. request.workers = count
        BY DEF Asked
      <4> HIDE DEF request, count
      <4>2. w = SubSeq(Order(policy, free, request), 1, request.workers)
        BY <2>5, <2>10, <4>1 DEF request
      <4>3. request.workers \in Nat \ {0}
        BY <2>5, <2>10, <4>1
      <4>4. \A i \in DOMAIN w : Rack[w[i]] = Rack[w[1]]
        BY <2>6, <2>10, <3>2, <4>1, <4>2, <4>3, FitsOneRack
      <4> QED BY <2>4, <2>7, <2>8, <4>4, OneRack
    <3> QED BY <3>1, <3>2
  <2>11. ASSUME Fragmentation(view) = 0, wanted.pinned = <<>> PROVE local.racks = 1
    <3> HIDE DEF local
    <3>1. \A a, b \in free : Rack[a] = Rack[b]
      BY <2>5, <2>11, LooseFacts DEF free
    <3>2. \A i \in DOMAIN w : w[i] \in free
      BY <2>4
    <3>3. 1 \in DOMAIN w
      BY <2>4
    <3>4. \A i \in DOMAIN w : Rack[w[i]] = Rack[w[1]]
      BY <3>1, <3>2, <3>3
    <3> QED BY <2>4, <2>7, <2>8, <3>4, OneRack
  <2>12. local = Locality(last.result.workers) /\ free = FreeGpus(last.before)
    BY <2>2 DEF w, free
  <2> HIDE DEF local
  <2> QED BY <2>2, <2>9, <2>10, <2>11, <2>12
<1> QED BY <1>1, InventoryInvariant, PTL

=============================================================================
