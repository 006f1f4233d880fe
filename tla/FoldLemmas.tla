----------------------------- MODULE FoldLemmas -----------------------------
(***************************************************************************)
(* Induction and sums for the proofs.  The library's induction theorems     *)
(* take a predicate; here they are stated of a set, which the provers can   *)
(* instantiate.  A sum of natural numbers is the number of tickets when     *)
(* each member of the set gets as many as its value: from that follows what *)
(* the folds of the community modules compute, in whatever order.            *)
(***************************************************************************)
EXTENDS Integers, FiniteSetTheorems, WellFoundedInduction, TLAPS

\* A set of natural numbers has a least member.
LEMMA LeastOf ==
  ASSUME NEW T, T \subseteq Nat, T # {}
  PROVE  \E n \in T : \A m \in T : n <= m
<1> DEFINE R == {p \in Nat \X Nat : p[1] < p[2]}
<1>1. IsWellFoundedOn(R, Nat)
  BY NatLessThanWellFounded DEF OpToRel
<1>2. \A x, y \in T : ~ (<<y, x>> \in R) => x <= y
  OBVIOUS
<1> HIDE DEF R
<1>3. \E x \in T : \A y \in T : ~ (<<y, x>> \in R)
  BY <1>1, WFMin
<1>4. QED
  BY <1>2, <1>3

\* Induction over the natural numbers up to n.
LEMMA UpTo ==
  ASSUME NEW n \in Nat, NEW T, 0 \in T, \A k \in 0..(n - 1) : k \in T => k + 1 \in T
  PROVE  0..n \subseteq T
<1> SUFFICES ASSUME NEW m \in 0..n, m \notin T
             PROVE  FALSE
  OBVIOUS
<1> DEFINE Out == {k \in 0..n : k \notin T}
<1>1. Out \subseteq Nat /\ Out # {}
  OBVIOUS
<1>2. PICK k \in Out : \A j \in Out : k <= j
  <2> HIDE DEF Out
  <2>1. QED
    BY <1>1, LeastOf
<1>3. k # 0 /\ k - 1 \in 0..(n - 1) /\ ~(k <= k - 1)
  BY <1>2
<1>4. k - 1 \in T
  BY <1>2, <1>3
<1>5. QED
  BY <1>2, <1>3, <1>4

\* Induction over the subsets of a finite set.
LEMMA OverSubsets ==
  ASSUME NEW S, IsFiniteSet(S), NEW Q, {} \in Q,
         \A T \in SUBSET S : \A x \in S \ T : T \in Q => T \cup {x} \in Q
  PROVE  SUBSET S \subseteq Q
<1> SUFFICES ASSUME NEW A \in SUBSET S
             PROVE  A \in Q
  OBVIOUS
<1>1. ASSUME NEW T \in SUBSET S
      PROVE  IsFiniteSet(T) /\ Cardinality(T) \in Nat
  <2>1. IsFiniteSet(T)
    BY FS_Subset
  <2>2. QED
    BY <2>1, FS_CardinalityType
<1> DEFINE Small == {k \in Nat : \A T \in SUBSET S : Cardinality(T) <= k => T \in Q}
<1>2. 0 \in Small
  <2>1. \A T \in SUBSET S : Cardinality(T) <= 0 => T = {}
    BY <1>1, FS_EmptySet
  <2>2. QED
    BY <2>1
<1>3. ASSUME NEW k \in Nat, k \in Small
      PROVE  k + 1 \in Small
  <2> SUFFICES ASSUME NEW T \in SUBSET S, Cardinality(T) <= k + 1
               PROVE  T \in Q
    OBVIOUS
  <2> SUFFICES ASSUME T # {}
               PROVE  T \in Q
    OBVIOUS
  <2>1. PICK x \in T : TRUE
    OBVIOUS
  <2>2. T \ {x} \in SUBSET S /\ Cardinality(T \ {x}) <= k
    <3>1. Cardinality(T \ {x}) = Cardinality(T) - 1
      BY <1>1, FS_RemoveElement
    <3>2. QED
      BY <1>1, <3>1
  <2>3. T \ {x} \in Q
    BY <1>3, <2>2
  <2>4. (T \ {x}) \cup {x} \in Q /\ (T \ {x}) \cup {x} = T
    BY <2>1, <2>2, <2>3
  <2>5. QED
    BY <2>4
<1> HIDE DEF Small
<1>4. 0..Cardinality(A) \subseteq Small
  BY <1>1, <1>2, <1>3, UpTo
<1>5. Cardinality(A) \in Small
  BY <1>1, <1>4
<1>6. QED
  BY <1>1, <1>5 DEF Small

-----------------------------------------------------------------------------
\* A member of S gets as many tickets as its value.
Tickets(v, S) == UNION {{x} \X (1..v[x]) : x \in S}

\* The sum of the values over a finite set.
Total(v, S) == Cardinality(Tickets(v, S))

LEMMA TicketsOfOne ==
  ASSUME NEW x, NEW n \in Nat
  PROVE  IsFiniteSet({x} \X (1..n)) /\ Cardinality({x} \X (1..n)) = n
<1>1. IsFiniteSet({x}) /\ Cardinality({x}) = 1
  BY FS_Singleton
<1>2. IsFiniteSet(1..n) /\ Cardinality(1..n) = n
  BY FS_Interval
<1>3. PICK A, B : A = {x} /\ B = 1..n
  OBVIOUS
<1>4. IsFiniteSet(A \X B) /\ Cardinality(A \X B) = Cardinality(A) * Cardinality(B)
  BY <1>1, <1>2, <1>3, FS_Product
<1>5. Cardinality(A) * Cardinality(B) = n
  BY <1>1, <1>2, <1>3
<1>6. QED
  BY <1>3, <1>4, <1>5

LEMMA TotalEmpty == \A v : Tickets(v, {}) = {} /\ Total(v, {}) = 0
  BY FS_EmptySet DEF Tickets, Total

\* What is added to the set is added to the sum.
LEMMA TicketsOfMore ==
  ASSUME NEW v, NEW T, NEW x, x \notin T, v[x] \in Nat, IsFiniteSet(Tickets(v, T))
  PROVE  /\ IsFiniteSet(Tickets(v, T \cup {x}))
         /\ Total(v, T \cup {x}) = Total(v, T) + v[x]
<1> DEFINE A == Tickets(v, T)
           B == {x} \X (1..v[x])
<1>1. Tickets(v, T \cup {x}) = A \cup B
  BY DEF Tickets
<1>2. A \cap B = {}
  BY DEF Tickets
<1>3. IsFiniteSet(B) /\ Cardinality(B) = v[x]
  BY TicketsOfOne
<1>4. Cardinality(A) \in Nat /\ Cardinality(A \cap B) = 0
  BY <1>2, FS_CardinalityType, FS_EmptySet
<1> HIDE DEF A, B
<1>5. IsFiniteSet(A) /\ Cardinality(A) = Total(v, T)
  BY DEF A, Total
<1>6. IsFiniteSet(A \cup B) /\ Cardinality(A \cup B) = Cardinality(A) + Cardinality(B) - 0
  BY <1>3, <1>4, <1>5, FS_Union
<1>7. IsFiniteSet(Tickets(v, T \cup {x})) /\ Total(v, T \cup {x}) = Cardinality(A \cup B)
  BY <1>1, <1>6 DEF Total
<1>8. QED
  BY <1>3, <1>4, <1>5, <1>6, <1>7

LEMMA TotalType ==
  ASSUME NEW S, IsFiniteSet(S), NEW v, \A x \in S : v[x] \in Nat, NEW T \in SUBSET S
  PROVE  IsFiniteSet(Tickets(v, T)) /\ Total(v, T) \in Nat
<1> DEFINE Q == {A \in SUBSET S : IsFiniteSet(Tickets(v, A))}
<1>1. {} \in Q
  BY TotalEmpty, FS_EmptySet
<1>2. ASSUME NEW A \in SUBSET S, NEW x \in S \ A, A \in Q
      PROVE  A \cup {x} \in Q
  BY <1>2, TicketsOfMore
<1>3. SUBSET S \subseteq Q
  <2> HIDE DEF Q
  <2>1. QED
    BY <1>1, <1>2, OverSubsets
<1>4. IsFiniteSet(Tickets(v, T))
  BY <1>3
<1>5. QED
  BY <1>4, FS_CardinalityType DEF Total

\* Any member can be taken out of the sum.
LEMMA TotalSplit ==
  ASSUME NEW S, IsFiniteSet(S), NEW v, \A x \in S : v[x] \in Nat, NEW z \in S
  PROVE  Total(v, S) = v[z] + Total(v, S \ {z})
<1>1. IsFiniteSet(Tickets(v, S \ {z})) /\ Total(v, S \ {z}) \in Nat
  BY TotalType
<1>2. Total(v, (S \ {z}) \cup {z}) = Total(v, S \ {z}) + v[z]
  BY <1>1, TicketsOfMore
<1>3. (S \ {z}) \cup {z} = S
  OBVIOUS
<1>4. Total(v, S) = Total(v, S \ {z}) + v[z]
  <2>1. PICK A : A = (S \ {z}) \cup {z}
    OBVIOUS
  <2>2. A = S /\ Total(v, A) = Total(v, S \ {z}) + v[z]
    BY <1>2, <1>3, <2>1
  <2>3. QED
    BY <2>2
<1>5. QED
  BY <1>1, <1>4

\* Only the values of the members count.
LEMMA TotalSame ==
  ASSUME NEW S, NEW v, NEW w, \A x \in S : v[x] = w[x]
  PROVE  Total(v, S) = Total(w, S)
<1>1. Tickets(v, S) = Tickets(w, S)
  BY DEF Tickets
<1>2. QED
  BY <1>1 DEF Total

LEMMA TotalOfZeros ==
  ASSUME NEW S, NEW v, \A x \in S : v[x] = 0
  PROVE  Total(v, S) = 0
<1>1. Tickets(v, S) = {}
  BY DEF Tickets
<1>2. QED
  BY <1>1, FS_EmptySet DEF Total

\* When one member's value changes, the sum changes by as much.
LEMMA TotalChange ==
  ASSUME NEW S, IsFiniteSet(S), NEW v, NEW w, NEW z \in S,
         \A x \in S : v[x] \in Nat /\ w[x] \in Nat,
         \A x \in S \ {z} : v[x] = w[x]
  PROVE  Total(w, S) = Total(v, S) + (w[z] - v[z])
<1>1. Total(v, S) = v[z] + Total(v, S \ {z}) /\ Total(w, S) = w[z] + Total(w, S \ {z})
  BY TotalSplit
<1>2. Total(v, S \ {z}) = Total(w, S \ {z})
  BY TotalSame
<1>3. Total(v, S \ {z}) \in Nat
  BY TotalType
<1>4. QED
  BY <1>1, <1>2, <1>3

\* A sum is as large as each of its terms.
LEMMA TotalAtLeast ==
  ASSUME NEW S, IsFiniteSet(S), NEW v, \A x \in S : v[x] \in Nat, NEW z \in S
  PROVE  v[z] <= Total(v, S)
<1>1. Total(v, S) = v[z] + Total(v, S \ {z}) /\ Total(v, S \ {z}) \in Nat
  BY TotalSplit, TotalType
<1>2. QED
  BY <1>1

\* The sum over two sets that share no member.
LEMMA TotalUnion ==
  ASSUME NEW S, NEW T, S \cap T = {}, IsFiniteSet(S), IsFiniteSet(T),
         NEW v, \A x \in S \cup T : v[x] \in Nat
  PROVE  Total(v, S \cup T) = Total(v, S) + Total(v, T)
<1> DEFINE A == Tickets(v, S)
           B == Tickets(v, T)
<1>1. Tickets(v, S \cup T) = A \cup B
  BY DEF Tickets
<1>2. A \cap B = {}
  BY DEF Tickets
<1>3. IsFiniteSet(A) /\ IsFiniteSet(B)
  <2>1. IsFiniteSet(A)
    BY TotalType
  <2>2. IsFiniteSet(B)
    BY TotalType
  <2>3. QED
    BY <2>1, <2>2
<1>4. Cardinality(A) = Total(v, S) /\ Cardinality(B) = Total(v, T)
  BY DEF Total
<1> HIDE DEF A, B
<1>5. Cardinality(A \cap B) = 0 /\ Cardinality(A) \in Nat /\ Cardinality(B) \in Nat
  BY <1>2, <1>3, FS_CardinalityType, FS_EmptySet
<1>6. Cardinality(A \cup B) = Cardinality(A) + Cardinality(B)
  <2>1. Cardinality(A \cup B) = Cardinality(A) + Cardinality(B) - Cardinality(A \cap B)
    BY <1>3, FS_Union
  <2>2. QED
    BY <1>5, <2>1
<1>7. Total(v, S \cup T) = Cardinality(A \cup B)
  BY <1>1 DEF Total
<1>8. QED
  BY <1>4, <1>6, <1>7

LEMMA TotalMonotone ==
  ASSUME NEW S, IsFiniteSet(S), NEW v, \A x \in S : v[x] \in Nat, NEW T \in SUBSET S
  PROVE  Total(v, T) <= Total(v, S)
<1>1. IsFiniteSet(T) /\ IsFiniteSet(S \ T) /\ T \cap (S \ T) = {} /\ T \cup (S \ T) = S
  BY FS_Subset
<1>2. PICK R : R = S \ T
  OBVIOUS
<1>3. Total(v, T \cup R) = Total(v, T) + Total(v, R)
  BY <1>1, <1>2, TotalUnion
<1>4. Total(v, T) \in Nat /\ Total(v, R) \in Nat
  BY <1>1, <1>2, TotalType
<1>5. Total(v, S) = Total(v, T) + Total(v, R)
  BY <1>1, <1>2, <1>3
<1>6. QED
  BY <1>4, <1>5

\* Under other names the sum is the same.
LEMMA TotalMapped ==
  ASSUME NEW S, IsFiniteSet(S), NEW v, \A x \in S : v[x] \in Nat,
         NEW w, NEW g, \A x, y \in S : g[x] = g[y] => x = y,
         \A x \in S : w[g[x]] = v[x]
  PROVE  Total(w, {g[x] : x \in S}) = Total(v, S)
<1> DEFINE Im(A) == {g[x] : x \in A}
           Q == {A \in SUBSET S : /\ IsFiniteSet(Tickets(w, Im(A)))
                                 /\ Total(w, Im(A)) = Total(v, A)}
<1>1. {} \in Q
  <2>1. Im({}) = {}
    OBVIOUS
  <2>2. QED
    BY <2>1, TotalEmpty, FS_EmptySet
<1>2. ASSUME NEW A \in SUBSET S, NEW x \in S \ A, A \in Q
      PROVE  A \cup {x} \in Q
  <2>1. Im(A \cup {x}) = Im(A) \cup {g[x]} /\ g[x] \notin Im(A)
    OBVIOUS
  <2>2. IsFiniteSet(Tickets(v, A)) /\ w[g[x]] = v[x] /\ v[x] \in Nat
    BY TotalType
  <2>3. Total(v, A \cup {x}) = Total(v, A) + v[x]
    BY <2>2, TicketsOfMore
  <2>4. PICK I : I = Im(A)
    OBVIOUS
  <2>5. g[x] \notin I /\ w[g[x]] \in Nat /\ IsFiniteSet(Tickets(w, I))
    BY <1>2, <2>1, <2>2, <2>4
  <2>6. /\ IsFiniteSet(Tickets(w, I \cup {g[x]}))
        /\ Total(w, I \cup {g[x]}) = Total(w, I) + w[g[x]]
    BY <2>5, TicketsOfMore
  <2>7. QED
    BY <1>2, <2>1, <2>2, <2>3, <2>4, <2>6
<1> HIDE DEF Q
<1>3. SUBSET S \subseteq Q
  BY <1>1, <1>2, OverSubsets
<1>4. S \in Q
  BY <1>3
<1>5. QED
  BY <1>4 DEF Q

-----------------------------------------------------------------------------
\* The choice by which the folds take the members of a set, one by one.
Some(T) == CHOOSE x \in T : TRUE

\* The sum satisfies the equation by which the folds compute it,
LEMMA SumRecursion ==
  ASSUME NEW S, IsFiniteSet(S), NEW v, \A x \in S : v[x] \in Nat, NEW T \in SUBSET S, T # {}
  PROVE  Total(v, T) = v[Some(T)] + Total(v, T \ {Some(T)})
<1>1. Some(T) \in T
  BY DEF Some
<1>2. IsFiniteSet(T)
  BY FS_Subset
<1>3. QED
  BY <1>1, <1>2, TotalSplit

\* and nothing else does.
LEMMA SumSolution ==
  ASSUME NEW S, IsFiniteSet(S), NEW v, \A x \in S : v[x] \in Nat, NEW f,
         \A T \in SUBSET S : f[T] = IF T = {} THEN 0 ELSE v[Some(T)] + f[T \ {Some(T)}]
  PROVE  f[S] = Total(v, S)
<1> DEFINE Small == {k \in Nat : \A T \in SUBSET S : Cardinality(T) <= k => f[T] = Total(v, T)}
<1>1. \A T \in SUBSET S : IsFiniteSet(T) /\ Cardinality(T) \in Nat
  <2> HIDE DEF Small
  <2> SUFFICES ASSUME NEW T \in SUBSET S
               PROVE  IsFiniteSet(T) /\ Cardinality(T) \in Nat
    OBVIOUS
  <2>1. IsFiniteSet(T)
    BY FS_Subset
  <2>2. QED
    BY <2>1, FS_CardinalityType
<1>2. f[{}] = Total(v, {})
  BY TotalEmpty
<1>3. 0 \in Small
  <2>1. \A T \in SUBSET S : Cardinality(T) <= 0 => T = {}
    BY <1>1, FS_EmptySet
  <2>2. QED
    BY <1>2, <2>1
<1>4. ASSUME NEW k \in Nat, k \in Small
      PROVE  k + 1 \in Small
  <2> SUFFICES ASSUME NEW T \in SUBSET S, Cardinality(T) <= k + 1
               PROVE  f[T] = Total(v, T)
    OBVIOUS
  <2>1. CASE T = {}
    BY <1>2, <2>1
  <2>2. CASE T # {}
    <3>1. Some(T) \in T
      BY <2>2 DEF Some
    <3>2. Cardinality(T \ {Some(T)}) = Cardinality(T) - 1
      BY <1>1, <3>1, FS_RemoveElement
    <3>3. T \ {Some(T)} \in SUBSET S /\ Cardinality(T \ {Some(T)}) <= k
      BY <1>1, <3>2
    <3>4. f[T \ {Some(T)}] = Total(v, T \ {Some(T)})
      BY <1>4, <3>3
    <3>5. Total(v, T) = v[Some(T)] + Total(v, T \ {Some(T)})
      BY <1>1, <3>1, TotalSplit
    <3>6. QED
      BY <2>2, <3>4, <3>5
  <2>3. QED
    BY <2>1, <2>2
<1>5. 0..Cardinality(S) \subseteq Small
  <2> HIDE DEF Small
  <2>1. QED
    BY <1>1, <1>3, <1>4, UpTo
<1>6. Cardinality(S) \in Small
  BY <1>1, <1>5
<1>7. QED
  BY <1>1, <1>6
=============================================================================
