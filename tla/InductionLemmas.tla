-------------------------- MODULE InductionLemmas --------------------------
(***************************************************************************)
(* Induction over the naturals in a form without operator parameters: the  *)
(* property is given as a set.                                             *)
(***************************************************************************)
EXTENDS Integers, FiniteSetTheorems, WellFoundedInduction, TLAPS

(* Every non-empty set of naturals has a least element.                      *)
LEMMA LeastNatural ==
  ASSUME NEW T, T \subseteq Nat, T # {}
  PROVE  \E x \in T : \A y \in T : x <= y
<1> DEFINE Family == {0..x : x \in T}
           R == StrictSubsetOrdering(Nat)
<1>1. Family \subseteq FiniteSubsetsOf(Nat)
  <2> SUFFICES ASSUME NEW x \in T PROVE 0..x \in FiniteSubsetsOf(Nat)
    OBVIOUS
  <2>1. IsFiniteSet(0..x)
    BY FS_Interval
  <2> QED
    BY <2>1 DEF FiniteSubsetsOf
<1>2. IsWellFoundedOn(R, FiniteSubsetsOf(Nat))
  BY FS_StrictSubsetOrderingWellFounded
<1>3. Family # {}
  BY Zenon
<1>4. \E U \in Family : \A V \in Family : <<V, U>> \notin R
  <2> HIDE DEF Family, R
  <2> QED BY <1>1, <1>2, <1>3, WFMin
<1>5. PICK x \in T : \A y \in T : <<0..y, 0..x>> \notin R
  BY <1>4, Zenon
<1> SUFFICES ASSUME NEW y \in T, y < x PROVE FALSE
  OBVIOUS
<1>6. 0..y \in SUBSET Nat /\ 0..x \in SUBSET Nat
  OBVIOUS
<1>7. 0..y \subseteq 0..x /\ x \in 0..x /\ x \notin 0..y
  OBVIOUS
<1>8. <<0..y, 0..x>> \in R
  BY <1>6, <1>7, Zenon DEF StrictSubsetOrdering
<1> QED BY <1>5, <1>8

(* A set that holds 0 and the successor of each of its naturals holds every  *)
(* natural.                                                                  *)
LEMMA Induction ==
  ASSUME NEW T, 0 \in T, \A n \in Nat : n \in T => n + 1 \in T
  PROVE  \A n \in Nat : n \in T
<1> SUFFICES ASSUME NEW m \in Nat, m \notin T PROVE FALSE
  OBVIOUS
<1> DEFINE Missing == Nat \ T
<1>1. Missing \subseteq Nat /\ Missing # {}
  OBVIOUS
<1>2. PICK x \in Missing : \A y \in Missing : x <= y
  <2> HIDE DEF Missing
  <2> QED BY <1>1, LeastNatural
<1>3. x # 0 /\ x - 1 \in Nat /\ ~(x <= x - 1)
  OBVIOUS
<1>4. x - 1 \in T
  BY <1>2, <1>3
<1>5. (x - 1) + 1 \in T
  BY <1>3, <1>4
<1> QED BY <1>5

----------------------------------------------------------------------------
(* Sums over finite sets, as FoldSet of the community modules computes them. *)

Chosen(s) == CHOOSE x \in s : TRUE

(* g sums w over every subset of S. *)
Sums(S, w, g) ==
  g = [s \in SUBSET S |-> IF s = {} THEN 0 ELSE g[s \ {Chosen(s)}] + w[Chosen(s)]]

(* What is left of a finite set without one of its elements. *)
LEMMA Removed ==
  ASSUME NEW s, IsFiniteSet(s), NEW x \in s
  PROVE  /\ IsFiniteSet(s \ {x}) /\ Cardinality(s) \in Nat
         /\ Cardinality(s \ {x}) \in Nat /\ Cardinality(s) = Cardinality(s \ {x}) + 1
<1>1. IsFiniteSet(s \ {x}) /\ Cardinality(s \ {x}) = Cardinality(s) - 1
  BY FS_RemoveElement
<1>2. Cardinality(s) \in Nat /\ Cardinality(s \ {x}) \in Nat
  BY <1>1, FS_CardinalityType
<1> QED BY <1>1, <1>2

(* The recursion that defines a sum has a solution. *)
LEMMA SumsExist ==
  ASSUME NEW S, IsFiniteSet(S), NEW w
  PROVE  \E g : Sums(S, w, g)
<1> DEFINE Small(n) == {s \in SUBSET S : Cardinality(s) <= n}
           Value(s, g) == IF s = {} THEN 0 ELSE g[s \ {Chosen(s)}] + w[Chosen(s)]
           Upto(n, g) == g = [s \in Small(n) |-> Value(s, g)]
           T == {n \in Nat : \E g : Upto(n, g)}
<1>1. \A s \in SUBSET S : /\ IsFiniteSet(s) /\ Cardinality(s) \in Nat
                          /\ Cardinality(s) = 0 <=> s = {}
  BY FS_Subset, FS_CardinalityType, FS_EmptySet
<1>2. ASSUME NEW s \in SUBSET S, s # {}
      PROVE  /\ s \ {Chosen(s)} \in SUBSET S /\ Chosen(s) \in s
             /\ Cardinality(s \ {Chosen(s)}) \in Nat
             /\ Cardinality(s) = Cardinality(s \ {Chosen(s)}) + 1
  <2>1. Chosen(s) \in s
    BY <1>2, Zenon DEF Chosen
  <2> QED BY <1>1, <2>1, Removed
<1>3. 0 \in T
  <2> DEFINE g == [s \in Small(0) |-> 0]
  <2>1. \A s \in Small(0) : s = {}
    BY <1>1
  <2>2. Upto(0, g)
    BY <2>1, Zenon
  <2> QED BY <2>2
<1>4. ASSUME NEW n \in Nat, n \in T PROVE n + 1 \in T
  <2>1. PICK f : Upto(n, f)
    BY <1>4
  <2> DEFINE g == [s \in Small(n + 1) |-> Value(s, f)]
  <2>2. ASSUME NEW s \in Small(n), s # {}
        PROVE  s \ {Chosen(s)} \in Small(n)
    BY <1>1, <1>2, <2>2
  <2>3. ASSUME NEW s \in Small(n + 1), s # {}
        PROVE  s \ {Chosen(s)} \in Small(n)
    BY <1>1, <1>2, <2>3
  <2>4. \A s \in Small(n) : s \in Small(n + 1)
    BY <1>1
  <2> HIDE DEF Small
  <2>5. \A s \in Small(n) : g[s] = f[s]
    <3>1. \A s \in Small(n) : f[s] = Value(s, f)
      BY <2>1, Zenon
    <3> HIDE DEF Value
    <3> QED BY <2>4, <3>1
  <2>6. \A s \in Small(n + 1) : Value(s, f) = Value(s, g)
    <3> HIDE DEF g
    <3> QED BY <2>3, <2>5
  <2>7. Upto(n + 1, g)
    <3>1. g = [s \in Small(n + 1) |-> Value(s, f)]
      OBVIOUS
    <3> HIDE DEF g, Value
    <3> QED BY <2>6, <3>1
  <2>8. n + 1 \in Nat
    OBVIOUS
  <2> HIDE DEF g, Upto
  <2> QED BY <2>7, <2>8
<1>5. Cardinality(S) \in T
  <2> HIDE DEF T
  <2> QED BY <1>1, <1>3, <1>4, Induction
<1>6. Small(Cardinality(S)) = SUBSET S
  BY <1>1, FS_Subset
<1> QED BY <1>5, <1>6, Zenon DEF Sums

(* A sum is a natural number. *)
LEMMA SumTyped ==
  ASSUME NEW S, IsFiniteSet(S), NEW w, \A x \in S : w[x] \in Nat, NEW g, Sums(S, w, g)
  PROVE  g[{}] = 0 /\ \A s \in SUBSET S : g[s] \in Nat
<1> DEFINE T == {n \in Nat : \A s \in SUBSET S : Cardinality(s) = n => g[s] \in Nat}
<1>1. \A s \in SUBSET S : IsFiniteSet(s) /\ Cardinality(s) \in Nat
  BY FS_Subset, FS_CardinalityType
<1>2. /\ g[{}] = 0
      /\ \A s \in SUBSET S : s # {} => g[s] = g[s \ {Chosen(s)}] + w[Chosen(s)]
  BY Zenon DEF Sums
<1>3. 0 \in T
  BY <1>1, <1>2, FS_EmptySet
<1>4. ASSUME NEW n \in Nat, n \in T PROVE n + 1 \in T
  <2> SUFFICES ASSUME NEW s \in SUBSET S, Cardinality(s) = n + 1 PROVE g[s] \in Nat
    OBVIOUS
  <2>1. s # {}
    BY FS_EmptySet
  <2>2. Chosen(s) \in s
    BY <2>1, Zenon DEF Chosen
  <2>3. Cardinality(s \ {Chosen(s)}) = n
    BY <1>1, <2>2, Removed
  <2>4. g[s \ {Chosen(s)}] \in Nat
    BY <1>4, <2>3
  <2>5. w[Chosen(s)] \in Nat
    BY <2>2
  <2>6. g[s] = g[s \ {Chosen(s)}] + w[Chosen(s)]
    BY <1>2, <2>1
  <2> QED BY <2>4, <2>5, <2>6
<1>5. \A n \in Nat : n \in T
  <2> HIDE DEF T
  <2> QED BY <1>3, <1>4, Induction
<1> QED BY <1>1, <1>2, <1>5

(* The elements may be taken in any order. *)
LEMMA SumRemoves ==
  ASSUME NEW S, IsFiniteSet(S), NEW w, \A y \in S : w[y] \in Nat, NEW g, Sums(S, w, g),
         NEW u \in SUBSET S, NEW e \in u
  PROVE  g[u] = g[u \ {e}] + w[e]
<1> DEFINE T == {n \in Nat : \A s \in SUBSET S : Cardinality(s) = n =>
                               \A x \in s : g[s] = g[s \ {x}] + w[x]}
<1>1. \A s \in SUBSET S : IsFiniteSet(s) /\ Cardinality(s) \in Nat /\ g[s] \in Nat
  BY FS_Subset, FS_CardinalityType, SumTyped
<1>2. \A s \in SUBSET S : s # {} => g[s] = g[s \ {Chosen(s)}] + w[Chosen(s)]
  BY Zenon DEF Sums
<1>3. 0 \in T
  BY <1>1, FS_EmptySet
<1>4. ASSUME NEW n \in Nat, n \in T PROVE n + 1 \in T
  <2> SUFFICES ASSUME NEW s \in SUBSET S, Cardinality(s) = n + 1, NEW x \in s
               PROVE  g[s] = g[s \ {x}] + w[x]
    OBVIOUS
  <2> DEFINE y == Chosen(s)
             a == s \ {y}
             b == s \ {x}
             c == (s \ {x}) \ {y}
  <2>1. y \in s
    BY Zenon DEF Chosen
  <2>2. g[s] = g[a] + w[y]
    BY <1>2
  <2> HIDE DEF y
  <2>3. CASE x = y
    BY <2>2, <2>3
  <2>4. CASE x # y
    <3>1. Cardinality(a) = n /\ Cardinality(b) = n
      BY <1>1, <2>1, Removed
    <3>2. x \in a /\ y \in b /\ a \ {x} = c /\ b \ {y} = c
      BY <2>1, <2>4
    <3>3. g[a] = g[a \ {x}] + w[x] /\ g[b] = g[b \ {y}] + w[y]
      BY <1>4, <3>1, <3>2
    <3>4. g[c] \in Nat /\ w[x] \in Nat /\ w[y] \in Nat
      BY <1>1, <2>1
    <3>5. g[a] = g[c] + w[x] /\ g[b] = g[c] + w[y]
      BY <3>2, <3>3, Zenon
    <3> HIDE DEF a, b, c
    <3>6. g[s] = g[b] + w[x]
      BY <2>2, <3>4, <3>5
    <3> QED BY <3>6 DEF b
  <2> QED BY <2>3, <2>4
<1>5. \A n \in Nat : n \in T
  <2> HIDE DEF T
  <2> QED BY <1>3, <1>4, Induction
<1> QED BY <1>1, <1>5

(* The sum over a set does not depend on the set it is part of. *)
LEMMA SumsAgree ==
  ASSUME NEW S, IsFiniteSet(S), NEW w, NEW g, Sums(S, w, g),
         NEW U, NEW v, NEW h, Sums(U, v, h), \A x \in S : x \in U => v[x] = w[x]
  PROVE  \A s \in SUBSET S : s \in SUBSET U => g[s] = h[s]
<1> DEFINE T == {n \in Nat : \A s \in SUBSET S :
                               Cardinality(s) = n /\ s \in SUBSET U => g[s] = h[s]}
<1>1. \A s \in SUBSET S : IsFiniteSet(s) /\ Cardinality(s) \in Nat
  BY FS_Subset, FS_CardinalityType
<1>2. /\ g[{}] = 0 /\ h[{}] = 0
      /\ \A s \in SUBSET S : s # {} => g[s] = g[s \ {Chosen(s)}] + w[Chosen(s)]
      /\ \A s \in SUBSET U : s # {} => h[s] = h[s \ {Chosen(s)}] + v[Chosen(s)]
  BY Zenon DEF Sums
<1>3. 0 \in T
  BY <1>1, <1>2, FS_EmptySet
<1>4. ASSUME NEW n \in Nat, n \in T PROVE n + 1 \in T
  <2> SUFFICES ASSUME NEW s \in SUBSET S, Cardinality(s) = n + 1, s \in SUBSET U
               PROVE  g[s] = h[s]
    OBVIOUS
  <2>1. s # {}
    BY FS_EmptySet
  <2>2. Chosen(s) \in s
    BY <2>1, Zenon DEF Chosen
  <2>3. Cardinality(s \ {Chosen(s)}) = n
    BY <1>1, <2>2, Removed
  <2>4. g[s \ {Chosen(s)}] = h[s \ {Chosen(s)}]
    BY <1>4, <2>3
  <2> QED BY <1>2, <2>1, <2>2, <2>4
<1>5. \A n \in Nat : n \in T
  <2> HIDE DEF T
  <2> QED BY <1>3, <1>4, Induction
<1> QED BY <1>1, <1>5

=============================================================================
