---------------------------- MODULE SearchProofs ----------------------------
(***************************************************************************)
(* Proofs about module Search, that merging the answers of the days gives the *)
(* answer of one query over the union of their rows, and about module         *)
(* Compiler, that the SQL of a query selects what the query means.            *)
(***************************************************************************)
EXTENDS Search, Compiler, FoldLemmas, FiniteSetTheorems, SequenceTheorems, TLAPS

-----------------------------------------------------------------------------
(* Sorting.                                                                 *)

\* L has each member of S once.
Lists(L, S) ==
  /\ L \in Seq(S) /\ Len(L) = Cardinality(S) /\ DOMAIN L = 1..Cardinality(S)
  /\ \A i, j \in DOMAIN L : L[i] = L[j] => i = j
  /\ \A x \in S : \E i \in DOMAIN L : L[i] = x

\* R orders the members of S, strictly.
Orders(R, S) ==
  /\ \A x \in S : <<x, x>> \notin R
  /\ \A x, y \in S : x # y => <<x, y>> \in R \/ <<y, x>> \in R
  /\ \A x, y, z \in S : <<x, y>> \in R /\ <<y, z>> \in R => <<x, z>> \in R

Ascends(L, R) == \A i, j \in DOMAIN L : i < j => <<L[i], L[j]>> \in R

\* What InOrder computes: at k is a member that k - 1 others come before, if there is one.
Places(L, S, R) ==
  /\ \E V : L \in [1..Cardinality(S) -> V]
  /\ \A k \in 1..Cardinality(S), x \in S :
       Cardinality({y \in S : <<y, x>> \in R}) = k - 1 =>
         L[k] \in S /\ Cardinality({y \in S : <<y, L[k]>> \in R}) = k - 1

\* A list made that way has each member once, in order.
LEMMA Sorting ==
  ASSUME NEW S, IsFiniteSet(S), NEW R, Orders(R, S), NEW L, Places(L, S, R)
  PROVE  Lists(L, S) /\ Ascends(L, R) /\ Cardinality(S) \in Nat
<1> DEFINE n == Cardinality(S)
           D == 1..n
           Ahead(x) == {y \in S : <<y, x>> \in R}
           rank == [x \in S |-> Cardinality(Ahead(x)) + 1]
<1>1. n \in Nat /\ IsFiniteSet(D) /\ Cardinality(D) = n
  BY FS_CardinalityType, FS_Interval
<1>2. \A x \in S : Ahead(x) \subseteq S /\ x \notin Ahead(x)
  BY DEF Orders
<1>3. \A x \in S : IsFiniteSet(Ahead(x)) /\ Cardinality(Ahead(x)) \in Nat
  <2> SUFFICES ASSUME NEW x \in S
               PROVE  IsFiniteSet(Ahead(x)) /\ Cardinality(Ahead(x)) \in Nat
    OBVIOUS
  <2>1. IsFiniteSet(Ahead(x))
    BY FS_Subset
  <2>2. QED
    BY <2>1, FS_CardinalityType
<1>4. ASSUME NEW x \in S, NEW z \in S, <<x, z>> \in R
      PROVE  rank[x] < rank[z]
  <2>1. PICK A, B : A = Ahead(x) /\ B = Ahead(z)
    OBVIOUS
  <2>2. IsFiniteSet(B) /\ A \in SUBSET B /\ A # B
    <3>1. Ahead(x) \subseteq Ahead(z) /\ x \in Ahead(z) /\ x \notin Ahead(x)
      BY <1>4 DEF Orders
    <3>2. QED
      BY <1>3, <2>1, <3>1
  <2>3. Cardinality(A) <= Cardinality(B) /\ Cardinality(A) # Cardinality(B)
    BY <2>2, FS_Subset
  <2>4. /\ Cardinality(A) \in Nat /\ Cardinality(B) \in Nat
        /\ rank[x] = Cardinality(A) + 1 /\ rank[z] = Cardinality(B) + 1
    BY <1>3, <2>1
  <2> HIDE DEF rank
  <2>5. QED
    BY <2>3, <2>4
<1>5. \A x \in S : rank[x] \in D
  <2> SUFFICES ASSUME NEW x \in S
               PROVE  rank[x] \in D
    OBVIOUS
  <2>1. PICK A, B : A = Ahead(x) /\ B = S \ {x}
    OBVIOUS
  <2>2. IsFiniteSet(B) /\ Cardinality(B) = n - 1
    BY <2>1, FS_RemoveElement
  <2>3. A \in SUBSET B
    BY <1>2, <2>1
  <2>4. Cardinality(A) <= n - 1 /\ Cardinality(A) \in Nat
    <3>1. Cardinality(A) <= Cardinality(B)
      BY <2>2, <2>3, FS_Subset
    <3>2. QED
      BY <1>3, <2>1, <2>2, <3>1
  <2>5. rank[x] = Cardinality(A) + 1
    BY <2>1
  <2>6. QED
    BY <1>1, <2>4, <2>5
<1>6. \A x \in S, k \in D : rank[x] = k <=> Cardinality(Ahead(x)) = k - 1
  <2> SUFFICES ASSUME NEW x \in S, NEW k \in D
               PROVE  rank[x] = k <=> Cardinality(Ahead(x)) = k - 1
    OBVIOUS
  <2>1. PICK c \in Nat : c = Cardinality(Ahead(x))
    BY <1>3
  <2>2. rank[x] = c + 1 /\ k \in Int
    BY <1>1, <2>1
  <2> HIDE DEF rank
  <2>3. QED
    BY <2>1, <2>2
<1>7. \A k \in D, x \in S : Cardinality(Ahead(x)) = k - 1 =>
        L[k] \in S /\ Cardinality(Ahead(L[k])) = k - 1
  BY DEF Places
<1>8. DOMAIN L = D
  <2>1. PICK V : L \in [D -> V]
    BY DEF Places
  <2>2. QED
    BY <2>1
<1> HIDE DEF rank, n
<1>9. \A x, z \in S : rank[x] = rank[z] => x = z
  <2> SUFFICES ASSUME NEW x \in S, NEW z \in S, rank[x] = rank[z], x # z
               PROVE  FALSE
    OBVIOUS
  <2>1. rank[x] \in Int
    BY <1>1, <1>5
  <2>2. rank[x] < rank[z] \/ rank[z] < rank[x]
    BY <1>4 DEF Orders
  <2>3. QED
    BY <2>1, <2>2
<1>10. rank \in Surjection(S, D)
  <2>1. rank \in [S -> D]
    BY <1>5 DEF rank
  <2>2. rank \in Injection(S, D)
    BY <1>9, <2>1 DEF Injection, IsInjective
  <2>3. QED
    BY <1>1, <2>2, FS_Injection DEF n
<1>11. \A k \in D : L[k] \in S /\ rank[L[k]] = k
  <2> SUFFICES ASSUME NEW k \in D
               PROVE  L[k] \in S /\ rank[L[k]] = k
    OBVIOUS
  <2>1. \E x \in S : rank[x] = k
    BY <1>10 DEF Surjection
  <2>2. \E x \in S : Cardinality(Ahead(x)) = k - 1
    BY <1>6, <2>1
  <2>3. L[k] \in S /\ Cardinality(Ahead(L[k])) = k - 1
    BY <1>7, <2>2
  <2>4. QED
    BY <1>6, <2>3
<1>12. L \in Seq(S) /\ Len(L) = n
  <2>1. L \in [1..n -> S]
    <3>1. PICK V : L \in [1..n -> V]
      BY DEF Places, n
    <3>2. QED
      BY <1>11, <3>1
  <2>2. QED
    BY <1>1, <2>1
<1>13. \A x \in S : L[rank[x]] = x /\ rank[x] \in D
  BY <1>5, <1>9, <1>11
<1>14. Lists(L, S)
  <2>1. \A i, j \in DOMAIN L : L[i] = L[j] => i = j
    BY <1>8, <1>11
  <2>2. \A x \in S : \E i \in DOMAIN L : L[i] = x
    BY <1>8, <1>13
  <2>3. QED
    BY <1>8, <1>12, <2>1, <2>2 DEF Lists, n
<1>15. ASSUME NEW i \in D, NEW j \in D, i < j
       PROVE  <<L[i], L[j]>> \in R
  <2>1. L[i] \in S /\ L[j] \in S /\ rank[L[i]] = i /\ rank[L[j]] = j
    BY <1>11
  <2>2. i \in Int /\ j \in Int /\ ~(j < i) /\ i # j
    BY <1>1, <1>15
  <2>3. L[i] # L[j] /\ ~(rank[L[j]] < rank[L[i]])
    BY <2>1, <2>2
  <2>4. <<L[i], L[j]>> \in R \/ <<L[j], L[i]>> \in R
    BY <2>1, <2>3 DEF Orders
  <2>5. QED
    BY <1>4, <2>1, <2>3, <2>4
<1>16. QED
  BY <1>1, <1>8, <1>14, <1>15 DEF Ascends, n

-----------------------------------------------------------------------------
(* Two sorted lists of which one leaves rows out.                           *)

\* In a list that ascends by K, the members up to k are the first ones.
LEMMA CountedUpTo ==
  ASSUME NEW S, IsFiniteSet(S), NEW L, Lists(L, S), NEW K, \A x \in S : K[x] \in Int,
         \A i, j \in DOMAIN L : i < j => K[L[i]] <= K[L[j]],
         NEW k \in Int, NEW i \in DOMAIN L
  PROVE  K[L[i]] <= k <=> i <= Cardinality({x \in S : K[x] <= k})
<1> DEFINE D == 1..Cardinality(S)
           T == {x \in S : K[x] <= k}
           I == {j \in D : K[L[j]] <= k}
<1>1. Cardinality(S) \in Nat /\ IsFiniteSet(D)
  BY FS_CardinalityType, FS_Interval
<1>2. /\ DOMAIN L = D /\ \A j \in D : L[j] \in S
      /\ \A j, m \in D : L[j] = L[m] => j = m
      /\ \A x \in S : \E j \in D : L[j] = x
  BY <1>1, SMTT(30) DEF Lists
<1>3. IsFiniteSet(I) /\ Cardinality(I) \in Nat
  <2>1. IsFiniteSet(I)
    BY <1>1, FS_Subset
  <2>2. QED
    BY <2>1, FS_CardinalityType
<1>4. Cardinality(T) = Cardinality(I)
  <2> DEFINE f == [j \in I |-> L[j]]
  <2>1. f \in [I -> T]
    BY <1>2
  <2>2. \A j, m \in I : f[j] = f[m] => j = m
    BY <1>2
  <2>3. \A x \in T : \E j \in I : f[j] = x
    BY <1>2
  <2> HIDE DEF f, I, T
  <2>4. f \in Bijection(I, T)
    BY <2>1, <2>2, <2>3 DEF Bijection, Injection, Surjection, IsInjective
  <2>5. QED
    BY <1>3, <2>4, FS_Bijection DEF ExistsBijection
<1>5. i \in D /\ i \in Nat
  BY <1>1, <1>2
<1>6. ASSUME K[L[i]] <= k
      PROVE  i <= Cardinality(I)
  <2>1. \A j \in 1..i : j \in D /\ K[L[j]] <= k
    <3> SUFFICES ASSUME NEW j \in 1..i
                 PROVE  j \in D /\ K[L[j]] <= k
      OBVIOUS
    <3>1. j \in D
      BY <1>1, <1>5
    <3>2. CASE j = i
      BY <1>6, <3>1, <3>2
    <3>3. CASE j # i
      <4>1. j < i
        BY <1>5, <3>3
      <4>2. K[L[j]] <= K[L[i]]
        BY <1>2, <1>5, <3>1, <4>1
      <4>3. K[L[j]] \in Int /\ K[L[i]] \in Int
        BY <1>2, <1>5, <3>1
      <4>4. QED
        BY <1>6, <3>1, <4>2, <4>3
    <3>4. QED
      BY <3>2, <3>3
  <2>2. PICK J : J = 1..i
    OBVIOUS
  <2>3. IsFiniteSet(J) /\ Cardinality(J) = i
    BY <1>5, <2>2, FS_Interval
  <2>4. J \in SUBSET I
    BY <2>1, <2>2
  <2>5. QED
    BY <1>3, <2>3, <2>4, FS_Subset
<1>7. ASSUME ~(K[L[i]] <= k)
      PROVE  ~(i <= Cardinality(I))
  <2>1. \A j \in I : j \in 1..(i - 1)
    <3> SUFFICES ASSUME NEW j \in D, K[L[j]] <= k, ~(j \in 1..(i - 1))
                 PROVE  FALSE
      OBVIOUS
    <3>1. j = i \/ i < j
      BY <1>1, <1>5
    <3>2. i < j
      BY <1>7, <3>1
    <3>3. K[L[i]] <= K[L[j]]
      BY <1>2, <1>5, <3>2
    <3>4. K[L[j]] \in Int /\ K[L[i]] \in Int
      BY <1>2, <1>5
    <3>5. QED
      BY <1>7, <3>3, <3>4
  <2>2. PICK J : J = 1..(i - 1)
    OBVIOUS
  <2>3. IsFiniteSet(J) /\ Cardinality(J) = i - 1
    <3>1. i - 1 \in Int /\ i >= 1
      BY <1>1, <1>5
    <3>2. QED
      BY <1>5, <2>2, <3>1, FS_Interval
  <2>4. I \in SUBSET J
    BY <2>1, <2>2
  <2>5. Cardinality(I) <= i - 1
    BY <2>3, <2>4, FS_Subset
  <2>6. QED
    BY <1>3, <1>5, <2>5
<1>8. QED
  BY <1>4, <1>6, <1>7

\* If whatever is left out has n rows ahead of it that are not, the first n agree.
LEMMA FirstAgree ==
  ASSUME NEW M, IsFiniteSet(M), NEW A \in SUBSET M, NEW K, \A x \in M : K[x] \in Int,
         NEW LM, Lists(LM, M), \A i, j \in DOMAIN LM : i < j => K[LM[i]] <= K[LM[j]],
         NEW LA, Lists(LA, A), \A i, j \in DOMAIN LA : i < j => K[LA[i]] <= K[LA[j]],
         NEW n \in Nat, \A x \in M \ A : n <= Cardinality({a \in A : K[a] <= K[x]}),
         NEW i \in DOMAIN LM, i <= n
  PROVE  i \in DOMAIN LA /\ K[LA[i]] = K[LM[i]]
<1> DEFINE In(k) == {a \in A : K[a] <= k}
           Of(k) == {x \in M : K[x] <= k}
<1>1. IsFiniteSet(A) /\ Cardinality(A) \in Nat /\ Cardinality(M) \in Nat
  <2>1. IsFiniteSet(A)
    BY FS_Subset
  <2>2. QED
    BY <2>1, FS_CardinalityType
<1>2. \A k : /\ IsFiniteSet(In(k)) /\ Cardinality(In(k)) \in Nat
             /\ Cardinality(In(k)) <= Cardinality(A)
             /\ IsFiniteSet(Of(k)) /\ Cardinality(Of(k)) \in Nat
             /\ Cardinality(In(k)) <= Cardinality(Of(k))
  <2> SUFFICES ASSUME NEW k
               PROVE  /\ IsFiniteSet(In(k)) /\ Cardinality(In(k)) \in Nat
                      /\ Cardinality(In(k)) <= Cardinality(A)
                      /\ IsFiniteSet(Of(k)) /\ Cardinality(Of(k)) \in Nat
                      /\ Cardinality(In(k)) <= Cardinality(Of(k))
    OBVIOUS
  <2>1. PICK B, C : B = In(k) /\ C = Of(k)
    OBVIOUS
  <2>2. B \in SUBSET A /\ C \in SUBSET M /\ B \in SUBSET C
    BY <2>1
  <2>3. IsFiniteSet(B) /\ Cardinality(B) <= Cardinality(A)
    BY <1>1, <2>2, FS_Subset
  <2>4. IsFiniteSet(C)
    BY <2>2, FS_Subset
  <2>5. Cardinality(B) <= Cardinality(C)
    BY <2>2, <2>4, FS_Subset
  <2>6. QED
    BY <2>1, <2>3, <2>4, <2>5, FS_CardinalityType
<1>3. \A k \in Int : i <= Cardinality(In(k)) <=> i <= Cardinality(Of(k))
  <2> SUFFICES ASSUME NEW k \in Int
               PROVE  i <= Cardinality(In(k)) <=> i <= Cardinality(Of(k))
    OBVIOUS
  <2>1. PICK b \in Nat, c \in Nat : b = Cardinality(In(k)) /\ c = Cardinality(Of(k))
    BY <1>2
  <2>2. b <= c /\ i \in Nat
    <3>1. DOMAIN LM = 1..Cardinality(M)
      BY DEF Lists
    <3>2. i \in Nat
      BY <1>1, <3>1
    <3>3. Cardinality(In(k)) <= Cardinality(Of(k))
      BY <1>2
    <3>4. QED
      BY <2>1, <3>2, <3>3
  <2>3. CASE \E x \in M \ A : K[x] <= k
    <3>1. PICK x \in M \ A : K[x] <= k
      BY <2>3
    <3>2. PICK B, C : B = In(K[x]) /\ C = In(k)
      OBVIOUS
    <3>3. \A a \in A : K[a] <= K[x] => K[a] <= k
      BY <3>1
    <3>4. B \in SUBSET C
      BY <3>2, <3>3
    <3>5. Cardinality(B) <= Cardinality(C) /\ n <= Cardinality(B) /\ Cardinality(B) \in Nat
      <4>1. IsFiniteSet(C)
        BY <1>2, <3>2
      <4>2. Cardinality(B) <= Cardinality(C)
        BY <3>4, <4>1, FS_Subset
      <4>3. QED
        BY <1>2, <3>2, <4>2
    <3>6. n <= b
      BY <2>1, <3>2, <3>5
    <3>7. i <= b /\ i <= c
      BY <2>2, <3>6
    <3>8. QED
      BY <2>1, <3>7
  <2>4. CASE \A x \in M \ A : ~(K[x] <= k)
    <3>1. In(k) = Of(k)
      BY <2>4
    <3>2. QED
      BY <3>1
  <2>5. QED
    BY <2>3, <2>4
<1>4. LM[i] \in M /\ K[LM[i]] \in Int
  BY DEF Lists
<1>5. i <= Cardinality(Of(K[LM[i]]))
  <2>1. PICK k \in Int : k = K[LM[i]]
    BY <1>4
  <2>2. K[LM[i]] <= k
    BY <2>1
  <2>3. K[LM[i]] <= k <=> i <= Cardinality({x \in M : K[x] <= k})
    BY CountedUpTo
  <2>4. QED
    BY <2>1, <2>2, <2>3
<1>6. i <= Cardinality(In(K[LM[i]]))
  BY <1>3, <1>4, <1>5
<1>7. i \in DOMAIN LA
  <2>1. DOMAIN LA = 1..Cardinality(A) /\ DOMAIN LM = 1..Cardinality(M)
    BY DEF Lists
  <2>2. PICK c \in Nat : c = Cardinality(In(K[LM[i]]))
    BY <1>2
  <2>3. i <= c /\ c <= Cardinality(A)
    BY <1>2, <1>6, <2>2
  <2>4. QED
    BY <1>1, <2>1, <2>3
<1>8. LA[i] \in A /\ K[LA[i]] \in Int
  BY <1>7 DEF Lists
<1>9. \A k \in Int : K[LA[i]] <= k <=> i <= Cardinality(In(k))
  <2> SUFFICES ASSUME NEW k \in Int
               PROVE  K[LA[i]] <= k <=> i <= Cardinality({a \in A : K[a] <= k})
    OBVIOUS
  <2>1. \A x \in A : K[x] \in Int
    OBVIOUS
  <2>2. IsFiniteSet(A)
    BY <1>1
  <2>3. PICK B : B = A
    OBVIOUS
  <2>4. IsFiniteSet(B) /\ Lists(LA, B) /\ \A x \in B : K[x] \in Int
    BY <2>1, <2>2, <2>3
  <2>5. K[LA[i]] <= k <=> i <= Cardinality({a \in B : K[a] <= k})
    BY <1>7, <2>4, CountedUpTo
  <2>6. QED
    BY <2>3, <2>5
<1>10. \A k \in Int : K[LM[i]] <= k <=> i <= Cardinality(Of(k))
  <2> SUFFICES ASSUME NEW k \in Int
               PROVE  K[LM[i]] <= k <=> i <= Cardinality({a \in M : K[a] <= k})
    OBVIOUS
  <2>1. QED
    BY CountedUpTo
<1> HIDE DEF In, Of
<1>11. \A k \in Int : K[LA[i]] <= k <=> K[LM[i]] <= k
  BY <1>3, <1>9, <1>10
<1>12. K[LA[i]] <= K[LM[i]] /\ K[LM[i]] <= K[LA[i]]
  BY <1>4, <1>8, <1>11
<1>13. QED
  BY <1>4, <1>7, <1>8, <1>12

\* P has the members of L from off on, and at most lim of them.
IsPage(P, L, S, off, lim) ==
  /\ P \in Seq(S)
  /\ Len(P) = IF Len(L) <= off THEN 0 ELSE IF lim < Len(L) - off THEN lim ELSE Len(L) - off
  /\ \A i \in DOMAIN P : off + i \in DOMAIN L /\ i <= lim /\ P[i] = L[off + i]

LEMMA PageOfList ==
  ASSUME NEW L, NEW S, L \in Seq(S), NEW off \in Nat, NEW lim \in Nat
  PROVE  IsPage(First(SubSeq(L, off + 1, Len(L)), lim), L, S, off, lim)
<1> DEFINE T == SubSeq(L, off + 1, Len(L))
           P == First(T, lim)
<1>1. Len(L) \in Nat /\ DOMAIN L = 1..Len(L) /\ \A i \in 1..Len(L) : L[i] \in S
  BY LenProperties
<1>2. /\ T \in Seq(S) /\ Len(T) \in Nat /\ DOMAIN T = 1..Len(T)
      /\ Len(T) = IF Len(L) <= off THEN 0 ELSE Len(L) - off
      /\ \A i \in 1..Len(T) : T[i] = L[off + i]
  <2>1. CASE Len(L) <= off
    <3>1. T = <<>>
      BY <1>1, <2>1
    <3>2. QED
      BY <2>1, <3>1
  <2>2. CASE ~(Len(L) <= off)
    <3>n. PICK n \in Nat : n = Len(L)
      BY <1>1
    <3>m. PICK m \in Nat : m = off + 1
      OBVIOUS
    <3>1. m = off + 1 /\ n = Len(L) /\ m <= n /\ n - m + 1 = Len(L) - off
      BY <3>n, <3>m, <2>2
    <3>2. \A i \in m..n : L[i] \in S
      BY <1>1, <3>1
    <3>3. /\ SubSeq(L, m, n) \in Seq(S) /\ Len(SubSeq(L, m, n)) = n - m + 1
          /\ \A i \in 1..(n - m + 1) : SubSeq(L, m, n)[i] = L[m + i - 1]
      BY <3>1, <3>2, SubSeqProperties
    <3>4. T = SubSeq(L, m, n)
      BY <3>1
    <3>5. /\ T \in Seq(S) /\ Len(T) = Len(L) - off
          /\ \A i \in 1..(n - m + 1) : T[i] = L[m + i - 1]
      BY <3>1, <3>3, <3>4
    <3> HIDE DEF T
    <3>6. Len(T) \in Nat /\ DOMAIN T = 1..Len(T)
      BY <3>5, LenProperties
    <3>7. \A i \in 1..Len(T) : T[i] = L[off + i]
      <4> SUFFICES ASSUME NEW i \in 1..Len(T)
                   PROVE  T[i] = L[off + i]
        OBVIOUS
      <4>1. i \in 1..(n - m + 1) /\ m + i - 1 = off + i
        BY <3>1, <3>5, <3>6
      <4>2. QED
        BY <3>5, <4>1
    <3>8. QED
      BY <2>2, <3>5, <3>6, <3>7, SMTT(30)
  <2>3. QED
    BY <2>1, <2>2
<1> HIDE DEF T
<1>t. PICK t \in Nat : t = Len(T)
  BY <1>2
<1>3. PICK m \in Nat : m = (IF lim < Len(T) THEN lim ELSE Len(T)) /\ m <= t /\ m <= lim
  <2>1. CASE lim < t
    BY <1>t, <2>1
  <2>2. CASE ~(lim < t)
    BY <1>t, <2>2
  <2>3. QED
    BY <2>1, <2>2
<1>4. P = SubSeq(T, 1, m)
  BY <1>3 DEF First
<1>5. P \in Seq(S) /\ Len(P) = m /\ DOMAIN P = 1..m /\ \A i \in 1..m : P[i] = T[i]
  <2>1. CASE m = 0
    <3>1. P = <<>>
      BY <1>2, <1>4, <2>1
    <3>2. QED
      BY <2>1, <3>1
  <2>2. CASE m # 0
    <3>1. P \in Seq(S) /\ Len(P) = m /\ \A i \in 1..m : P[i] = T[i]
      BY <1>2, <1>3, <1>4, <2>2, SubSeqProperties
    <3>2. QED
      BY <3>1, LenProperties
  <2>3. QED
    BY <2>1, <2>2
<1> HIDE DEF P
<1>6. \A i \in DOMAIN P : off + i \in DOMAIN L /\ i <= lim /\ P[i] = L[off + i]
  <2> SUFFICES ASSUME NEW i \in 1..m
               PROVE  off + i \in DOMAIN L /\ i <= lim /\ P[i] = L[off + i]
    BY <1>5
  <2>1. i \in 1..Len(T) /\ i \in Nat /\ i <= lim /\ i <= t /\ 1 <= i
    BY <1>t, <1>3
  <2>2. P[i] = L[off + i]
    BY <1>2, <1>5, <2>1, SMTT(30)
  <2>3. PICK l \in Nat : l = Len(L)
    BY <1>1
  <2>4. t = IF l <= off THEN 0 ELSE l - off
    BY <1>2, <1>t, <2>3
  <2>5. off + i \in 1..l
    BY <2>1, <2>3, <2>4
  <2>6. QED
    BY <1>1, <2>1, <2>2, <2>3, <2>5
<1>7. Len(P) = IF Len(L) <= off THEN 0 ELSE IF lim < Len(L) - off THEN lim ELSE Len(L) - off
  <2>1. PICK l \in Nat : l = Len(L)
    BY <1>1
  <2>2. t = IF l <= off THEN 0 ELSE l - off
    BY <1>2, <1>t, <2>1
  <2>3. m = IF lim < t THEN lim ELSE t
    BY <1>t, <1>3
  <2>4. m = IF l <= off THEN 0 ELSE IF lim < l - off THEN lim ELSE l - off
    BY <2>2, <2>3
  <2>5. QED
    BY <1>5, <2>1, <2>4, SMTT(30)
<1>8. QED
  <2>1. IsPage(P, L, S, off, lim)
    BY <1>5, <1>6, <1>7 DEF IsPage
  <2>2. QED
    BY <2>1 DEF P, T

-----------------------------------------------------------------------------
(* The sorts of the model.                                                  *)

\* What SearchAssumption says of a store's rows.
RowSet(S) ==
  /\ IsFiniteSet(S)
  /\ \A r \in S : r.ts \in Nat /\ r.id \in Nat
  /\ \A r, q \in S : r.id = q.id => r = q

\* The orders as relations.  (A hypothesis that passes an operator hides the rest from the
\* prover, so each sort has a lemma that turns it into Places.)
RowOrder(S)    == {p \in S \X S : Before(p[1], p[2])}
ValueOrder(S)  == {p \in S \X S : Less(p[1], p[2])}
NumberOrder(S) == {p \in S \X S : p[1] < p[2]}

LEMMA RowsPlaced ==
  ASSUME NEW S, NEW L, L = InOrder(S, Before), NEW R, R = RowOrder(S)
  PROVE  Places(L, S, R)
<1>r. \A x, y \in S : <<x, y>> \in R <=> Before(x, y)
  BY DEF RowOrder
<1>1. \E V : L \in [1..Cardinality(S) -> V]
  <2> DEFINE at(k) == CHOOSE x \in S : Cardinality({y \in S : Before(y, x)}) = k - 1
  <2>1. L = [k \in 1..Cardinality(S) |-> at(k)]
    BY DEF InOrder
  <2> HIDE DEF at
  <2>2. L \in [1..Cardinality(S) -> {at(k) : k \in 1..Cardinality(S)}]
    BY <2>1
  <2>3. QED
    BY <2>2
<1>2. ASSUME NEW k \in 1..Cardinality(S), NEW x \in S,
             Cardinality({y \in S : <<y, x>> \in R}) = k - 1
      PROVE  L[k] \in S /\ Cardinality({y \in S : <<y, L[k]>> \in R}) = k - 1
  <2>1. \A z \in S : {y \in S : Before(y, z)} = {y \in S : <<y, z>> \in R}
    BY <1>r
  <2>2. L[k] = CHOOSE z \in S : Cardinality({y \in S : Before(y, z)}) = k - 1
    BY DEF InOrder
  <2>3. L[k] \in S /\ Cardinality({y \in S : Before(y, L[k])}) = k - 1
    BY <1>2, <2>1, <2>2
  <2>4. QED
    BY <2>1, <2>3
<1>3. QED
  BY <1>1, <1>2 DEF Places

LEMMA RowsAscend ==
  ASSUME NEW S, RowSet(S), NEW R, R = RowOrder(S), NEW L, Places(L, S, R)
  PROVE  Lists(L, S) /\ \A i, j \in DOMAIN L : i < j => Before(L[i], L[j])
<1>r. \A x, y \in S : <<x, y>> \in R <=> Before(x, y)
  BY DEF RowOrder
<1>1. Orders(R, S)
  <2>0. \A x \in S : x.ts \in Nat /\ x.id \in Nat
    BY DEF RowSet
  <2>1. \A x \in S : ~Before(x, x)
    BY <2>0 DEF Before, Earlier
  <2>2. ASSUME NEW x \in S, NEW y \in S, x # y
        PROVE  Before(x, y) \/ Before(y, x)
    <3>1. x.id # y.id
      BY <2>2 DEF RowSet
    <3>2. QED
      BY <2>0, <3>1 DEF Before, Earlier
  <2>3. ASSUME NEW x \in S, NEW y \in S, NEW z \in S, Before(x, y), Before(y, z)
        PROVE  Before(x, z)
    BY <2>0, <2>3 DEF Before, Earlier
  <2>4. QED
    BY <1>r, <2>1, <2>2, <2>3 DEF Orders
<1>3. Lists(L, S) /\ Ascends(L, R)
  BY <1>1, Sorting DEF RowSet
<1>4. ASSUME NEW i \in DOMAIN L, NEW j \in DOMAIN L, i < j
      PROVE  Before(L[i], L[j])
  <2>1. L[i] \in S /\ L[j] \in S
    BY <1>3 DEF Lists
  <2>2. <<L[i], L[j]>> \in R
    BY <1>3, <1>4 DEF Ascends
  <2>3. QED
    BY <1>r, <2>1, <2>2
<1>5. QED
  BY <1>3, <1>4

LEMMA ValuesPlaced ==
  ASSUME NEW S, NEW L, L = InOrder(S, Less), NEW R, R = ValueOrder(S)
  PROVE  Places(L, S, R)
<1>r. \A x, y \in S : <<x, y>> \in R <=> Less(x, y)
  BY DEF ValueOrder
<1>1. \E V : L \in [1..Cardinality(S) -> V]
  <2> DEFINE at(k) == CHOOSE x \in S : Cardinality({y \in S : Less(y, x)}) = k - 1
  <2>1. L = [k \in 1..Cardinality(S) |-> at(k)]
    BY DEF InOrder
  <2> HIDE DEF at
  <2>2. L \in [1..Cardinality(S) -> {at(k) : k \in 1..Cardinality(S)}]
    BY <2>1
  <2>3. QED
    BY <2>2
<1>2. ASSUME NEW k \in 1..Cardinality(S), NEW x \in S,
             Cardinality({y \in S : <<y, x>> \in R}) = k - 1
      PROVE  L[k] \in S /\ Cardinality({y \in S : <<y, L[k]>> \in R}) = k - 1
  <2>1. \A z \in S : {y \in S : Less(y, z)} = {y \in S : <<y, z>> \in R}
    BY <1>r
  <2>2. L[k] = CHOOSE z \in S : Cardinality({y \in S : Less(y, z)}) = k - 1
    BY DEF InOrder
  <2>3. L[k] \in S /\ Cardinality({y \in S : Less(y, L[k])}) = k - 1
    BY <1>2, <2>1, <2>2
  <2>4. QED
    BY <2>1, <2>3
<1>3. QED
  BY <1>1, <1>2 DEF Places

LEMMA ValuesAscend ==
  ASSUME NEW S, RowSet(S), \A r \in S : r.val \in Int,
         NEW R, R = ValueOrder(S), NEW L, Places(L, S, R)
  PROVE  Lists(L, S) /\ \A i, j \in DOMAIN L : i < j => L[i].val <= L[j].val
<1>r. \A x, y \in S : <<x, y>> \in R <=> Less(x, y)
  BY DEF ValueOrder
<1>1. Orders(R, S)
  <2>0. \A x \in S : x.val \in Int /\ x.id \in Nat
    BY DEF RowSet
  <2>1. \A x \in S : ~Less(x, x)
    BY <2>0 DEF Less
  <2>2. ASSUME NEW x \in S, NEW y \in S, x # y
        PROVE  Less(x, y) \/ Less(y, x)
    <3>1. x.id # y.id
      BY <2>2 DEF RowSet
    <3>2. QED
      BY <2>0, <3>1 DEF Less
  <2>3. ASSUME NEW x \in S, NEW y \in S, NEW z \in S, Less(x, y), Less(y, z)
        PROVE  Less(x, z)
    BY <2>0, <2>3 DEF Less
  <2>4. QED
    BY <1>r, <2>1, <2>2, <2>3 DEF Orders
<1>3. Lists(L, S) /\ Ascends(L, R)
  BY <1>1, Sorting DEF RowSet
<1>4. ASSUME NEW i \in DOMAIN L, NEW j \in DOMAIN L, i < j
      PROVE  L[i].val <= L[j].val
  <2>1. L[i] \in S /\ L[j] \in S /\ <<L[i], L[j]>> \in R
    BY <1>3, <1>4 DEF Ascends, Lists
  <2>2. Less(L[i], L[j]) /\ L[i].val \in Int /\ L[j].val \in Int
    BY <1>r, <2>1
  <2>3. QED
    BY <2>2 DEF Less
<1>5. QED
  BY <1>3, <1>4

LEMMA NumbersPlaced ==
  ASSUME NEW S, NEW L, L = InOrder(S, <), NEW R, R = NumberOrder(S)
  PROVE  Places(L, S, R)
<1>r. \A x, y \in S : <<x, y>> \in R <=> x < y
  BY DEF NumberOrder
<1>1. \E V : L \in [1..Cardinality(S) -> V]
  <2> DEFINE at(k) == CHOOSE x \in S : Cardinality({y \in S : y < x}) = k - 1
  <2>1. L = [k \in 1..Cardinality(S) |-> at(k)]
    BY DEF InOrder
  <2> HIDE DEF at
  <2>2. L \in [1..Cardinality(S) -> {at(k) : k \in 1..Cardinality(S)}]
    BY <2>1
  <2>3. QED
    BY <2>2
<1>2. ASSUME NEW k \in 1..Cardinality(S), NEW x \in S,
             Cardinality({y \in S : <<y, x>> \in R}) = k - 1
      PROVE  L[k] \in S /\ Cardinality({y \in S : <<y, L[k]>> \in R}) = k - 1
  <2>1. \A z \in S : {y \in S : y < z} = {y \in S : <<y, z>> \in R}
    BY <1>r
  <2>2. L[k] = CHOOSE z \in S : Cardinality({y \in S : y < z}) = k - 1
    BY DEF InOrder
  <2>3. L[k] \in S /\ Cardinality({y \in S : y < L[k]}) = k - 1
    BY <1>2, <2>1, <2>2
  <2>4. QED
    BY <2>1, <2>3
<1>3. QED
  BY <1>1, <1>2 DEF Places

LEMMA NumbersAscend ==
  ASSUME NEW S, IsFiniteSet(S), S \subseteq Int,
         NEW R, R = NumberOrder(S), NEW L, Places(L, S, R)
  PROVE  Lists(L, S)
<1>r. \A x, y \in S : <<x, y>> \in R <=> x < y
  BY DEF NumberOrder
<1>1. Orders(R, S)
  <2>1. \A x \in S : x \in Int
    OBVIOUS
  <2>2. \A x \in S : ~(x < x)
    BY <2>1
  <2>3. \A x, y \in S : x # y => x < y \/ y < x
    BY <2>1
  <2>4. \A x, y, z \in S : x < y /\ y < z => x < z
    BY <2>1
  <2>5. QED
    BY <1>r, <2>2, <2>3, <2>4 DEF Orders
<1>3. QED
  BY <1>1, Sorting

\* sortMessages keeps the messages and puts no later one ahead of an earlier one.
LEMMA MessagesAscend ==
  ASSUME NEW S, RowSet(S), NEW msgs, Lists(msgs, S), NEW M, M = SortMessages(msgs)
  PROVE  Lists(M, S) /\ \A i, j \in DOMAIN M : i < j => ~Earlier(M[j], M[i])
<1> DEFINE D == DOMAIN msgs
           Ahead(i, j) == Earlier(msgs[i], msgs[j]) \/ (msgs[i].ts = msgs[j].ts /\ i < j)
           L == InOrder(D, Ahead)
<1>0. \E V : L \in [1..Cardinality(D) -> V]
  <2> DEFINE at(k) == CHOOSE x \in D : Cardinality({y \in D : Ahead(y, x)}) = k - 1
  <2>1. L = [k \in 1..Cardinality(D) |-> at(k)]
    BY DEF InOrder
  <2> HIDE DEF at
  <2>2. L \in [1..Cardinality(D) -> {at(k) : k \in 1..Cardinality(D)}]
    BY <2>1
  <2>3. QED
    BY <2>2
<1> DEFINE R == {p \in D \X D : Ahead(p[1], p[2])}
<1>r. \A x, y \in D : <<x, y>> \in R <=> Ahead(x, y)
  OBVIOUS
<1>1. /\ Cardinality(S) \in Nat /\ D = 1..Cardinality(S)
      /\ IsFiniteSet(D) /\ Cardinality(D) = Cardinality(S)
  <2>1. Cardinality(S) \in Nat /\ D = 1..Cardinality(S)
    BY FS_CardinalityType DEF Lists, RowSet
  <2>2. QED
    BY <2>1, FS_Interval
<1>2. \A i \in D : i \in Nat /\ msgs[i] \in S /\ msgs[i].ts \in Nat
  BY <1>1 DEF Lists, RowSet
<1>3. Orders(R, D)
  <2> HIDE DEF R
  <2>1. \A x \in D : ~Ahead(x, x)
    BY <1>2 DEF Earlier
  <2>2. ASSUME NEW x \in D, NEW y \in D, x # y
        PROVE  Ahead(x, y) \/ Ahead(y, x)
    BY <1>2, <2>2 DEF Earlier
  <2>3. ASSUME NEW x \in D, NEW y \in D, NEW z \in D, Ahead(x, y), Ahead(y, z)
        PROVE  Ahead(x, z)
    BY <1>2, <2>3 DEF Earlier
  <2> HIDE DEF Ahead
  <2>4. QED
    BY <1>r, <2>1, <2>2, <2>3 DEF Orders
<1>4. Places(L, D, R)
  <2>1. ASSUME NEW k \in 1..Cardinality(D), NEW x \in D,
               Cardinality({y \in D : <<y, x>> \in R}) = k - 1
        PROVE  L[k] \in D /\ Cardinality({y \in D : <<y, L[k]>> \in R}) = k - 1
    <3>1. \A z \in D : {y \in D : Ahead(y, z)} = {y \in D : <<y, z>> \in R}
      <4> HIDE DEF R, L
      <4>1. QED
        BY <1>r
    <3>2. L[k] = CHOOSE z \in D : Cardinality({y \in D : Ahead(y, z)}) = k - 1
      BY DEF InOrder
    <3>3. L[k] \in D /\ Cardinality({y \in D : Ahead(y, L[k])}) = k - 1
      BY <2>1, <3>1, <3>2
    <3>4. QED
      BY <3>1, <3>3
  <2> HIDE DEF R, L
  <2>2. QED
    BY <1>0, <2>1 DEF Places
<1>5. M = [k \in DOMAIN L |-> msgs[L[k]]]
  BY DEF SortMessages
<1> HIDE DEF R, L
<1>6. Lists(L, D) /\ Ascends(L, R)
  <2> HIDE DEF D
  <2>1. QED
    BY <1>1, <1>3, <1>4, Sorting
<1>7. /\ DOMAIN L = D /\ \A i \in D : L[i] \in D
      /\ \A i, j \in D : L[i] = L[j] => i = j
      /\ \A x \in D : \E i \in D : L[i] = x
  <2>1. DOMAIN L = D
    BY <1>1, <1>6 DEF Lists
  <2>2. \A i \in D : L[i] \in D
    <3>1. L \in Seq(D) /\ Len(L) = Cardinality(D)
      BY <1>6 DEF Lists
    <3>2. \A i \in 1..Len(L) : L[i] \in D
      BY <3>1, LenProperties
    <3>3. QED
      BY <1>1, <3>1, <3>2
  <2>3. \A x \in D : \E i \in DOMAIN L : L[i] = x
    BY <1>6 DEF Lists
  <2>4. \A i, j \in DOMAIN L : L[i] = L[j] => i = j
    BY <1>6 DEF Lists
  <2>5. QED
    BY <2>1, <2>2, <2>3, <2>4
<1>8. M \in Seq(S) /\ Len(M) = Cardinality(S) /\ DOMAIN M = D
  <2>1. M \in [1..Cardinality(S) -> S]
    BY <1>1, <1>2, <1>5, <1>7
  <2>2. QED
    BY <1>1, <2>1
<1>9. \A i, j \in D : M[i] = M[j] => i = j
  BY <1>5, <1>7 DEF Lists
<1>10. \A x \in S : \E i \in D : M[i] = x
  <2> SUFFICES ASSUME NEW x \in S
               PROVE  \E i \in D : M[i] = x
    OBVIOUS
  <2>1. PICK k \in D : msgs[k] = x
    BY DEF Lists
  <2>2. PICK i \in D : L[i] = k
    BY <1>7
  <2>3. QED
    BY <1>5, <1>7, <2>1, <2>2
<1>11. Lists(M, S)
  BY <1>1, <1>8, <1>9, <1>10 DEF Lists
<1>12. ASSUME NEW i \in D, NEW j \in D, i < j
       PROVE  ~Earlier(M[j], M[i])
  <2>1. <<L[i], L[j]>> \in R /\ L[i] \in D /\ L[j] \in D
    BY <1>6, <1>7, <1>12 DEF Ascends
  <2>2. Ahead(L[i], L[j]) /\ M[i] = msgs[L[i]] /\ M[j] = msgs[L[j]]
    BY <1>5, <1>7, <1>r, <2>1
  <2>3. M[i].ts \in Nat /\ M[j].ts \in Nat
    BY <1>2, <2>1, <2>2
  <2>4. QED
    BY <2>2, <2>3 DEF Earlier
<1>13. QED
  BY <1>8, <1>11, <1>12

\* Lists of separate sets, one after the other.
LEMMA ListsJoin ==
  ASSUME NEW S, IsFiniteSet(S), NEW T, IsFiniteSet(T), S \cap T = {},
         NEW A, Lists(A, S), NEW B, Lists(B, T)
  PROVE  Lists(A \o B, S \cup T)
<1> DEFINE C == A \o B
           U == S \cup T
<1>1. PICK n \in Nat, m \in Nat : n = Cardinality(S) /\ m = Cardinality(T)
  BY FS_CardinalityType
<1>2. Cardinality(U) = n + m
  <2>1. Cardinality(S \cup T) = Cardinality(S) + Cardinality(T) - Cardinality(S \cap T)
    BY FS_Union
  <2>2. Cardinality(S \cap T) = 0
    BY FS_EmptySet
  <2>3. QED
    BY <1>1, <2>1, <2>2
<1>3. /\ A \in Seq(U) /\ Len(A) = n /\ DOMAIN A = 1..n /\ \A i \in 1..n : A[i] \in S
      /\ B \in Seq(U) /\ Len(B) = m /\ DOMAIN B = 1..m /\ \A i \in 1..m : B[i] \in T
  <2>1. /\ A \in [1..n -> S] /\ Len(A) = n /\ DOMAIN A = 1..n
        /\ B \in [1..m -> T] /\ Len(B) = m /\ DOMAIN B = 1..m
    BY <1>1 DEF Lists
  <2>2. A \in [1..n -> U] /\ B \in [1..m -> U]
    BY <2>1
  <2>3. QED
    BY <1>1, <2>1, <2>2
<1>4. /\ C \in Seq(U) /\ Len(C) = n + m
      /\ \A i \in 1..(n + m) : C[i] = IF i <= n THEN A[i] ELSE B[i - n]
  <2>1. /\ C \in Seq(U) /\ Len(C) = Len(A) + Len(B)
        /\ \A i \in 1..(Len(A) + Len(B)) : C[i] = IF i <= Len(A) THEN A[i] ELSE B[i - Len(A)]
    <3>1. A \in Seq(U) /\ B \in Seq(U)
      BY <1>3
    <3> HIDE DEF U
    <3>2. QED
      BY <3>1, ConcatProperties
  <2> HIDE DEF C
  <2>2. QED
    BY <1>3, <2>1
<1> HIDE DEF C
<1>5. DOMAIN C = 1..(n + m)
  BY <1>4, LenProperties
<1>6. \A i \in 1..(n + m) : \/ i \in 1..n /\ C[i] = A[i] /\ C[i] \in S
                            \/ i - n \in 1..m /\ C[i] = B[i - n] /\ C[i] \in T
  <2> SUFFICES ASSUME NEW i \in 1..(n + m)
               PROVE  \/ i \in 1..n /\ C[i] = A[i] /\ C[i] \in S
                      \/ i - n \in 1..m /\ C[i] = B[i - n] /\ C[i] \in T
    OBVIOUS
  <2>1. CASE i <= n
    <3>1. i \in 1..n /\ C[i] = A[i]
      BY <1>1, <1>4, <2>1
    <3>2. QED
      BY <1>3, <3>1
  <2>2. CASE ~(i <= n)
    <3>1. i - n \in 1..m /\ C[i] = B[i - n]
      BY <1>1, <1>4, <2>2
    <3>2. QED
      BY <1>3, <3>1
  <2>3. QED
    BY <2>1, <2>2
<1>7. ASSUME NEW i \in 1..(n + m), NEW j \in 1..(n + m), C[i] = C[j]
      PROVE  i = j
  <2>1. CASE C[i] \in S
    <3>1. i \in 1..n /\ j \in 1..n /\ A[i] = A[j]
      BY <1>6, <1>7, <2>1
    <3>2. QED
      BY <1>3, <3>1 DEF Lists
  <2>2. CASE C[i] \in T
    <3>1. i - n \in 1..m /\ j - n \in 1..m /\ B[i - n] = B[j - n]
      BY <1>6, <1>7, <2>2
    <3>2. i - n = j - n
      BY <1>3, <3>1 DEF Lists
    <3>3. QED
      BY <1>1, <3>2
  <2>3. QED
    BY <1>6, <2>1, <2>2
<1>8. ASSUME NEW x \in U
      PROVE  \E i \in 1..(n + m) : C[i] = x
  <2>1. CASE x \in S
    <3>1. PICK i \in 1..n : A[i] = x
      BY <1>3, <2>1 DEF Lists
    <3>2. i \in 1..(n + m) /\ i <= n
      BY <1>1, <3>1
    <3>3. QED
      BY <1>4, <3>1, <3>2
  <2>2. CASE x \in T
    <3>1. PICK i \in 1..m : B[i] = x
      BY <1>3, <2>2 DEF Lists
    <3>2. i + n \in 1..(n + m) /\ ~(i + n <= n) /\ i + n - n = i
      BY <1>1, <3>1
    <3>3. C[i + n] = x
      BY <1>4, <3>1, <3>2
    <3>4. QED
      BY <3>2, <3>3
  <2>3. QED
    BY <2>1, <2>2
<1>9. QED
  BY <1>1, <1>2, <1>4, <1>5, <1>7, <1>8 DEF Lists, C

\* The sequences of s list parts of a store that share no row; All is the parts together.
ListParts(s, P) ==
  /\ Len(s) \in Nat /\ DOMAIN s = 1..Len(s) /\ s = [i \in 1..Len(s) |-> s[i]]
  /\ \A i \in 1..Len(s) : P[i] \in SUBSET stored /\ Lists(s[i], P[i])
  /\ \A i, j \in 1..Len(s) : i # j => P[i] \cap P[j] = {}

All(P, n) == UNION {P[i] : i \in 1..n}

\* All lists of a sequence, one after the other.
LEMMA Flattened ==
  ASSUME IsFiniteSet(stored), NEW s, NEW P, ListParts(s, P)
  PROVE  Lists(FlattenSeq(s), All(P, Len(s)))
<1>0. PICK n \in Nat : n = Len(s)
  BY DEF ListParts
<1>p. /\ DOMAIN s = 1..n /\ s = [i \in 1..n |-> s[i]]
      /\ \A i \in 1..n : P[i] \in SUBSET stored /\ Lists(s[i], P[i])
      /\ \A i, j \in 1..n : i # j => P[i] \cap P[j] = {}
  BY <1>0 DEF ListParts
<1> DEFINE Step(k, f) == [i \in 1..k |-> IF i = 1 THEN s[i] ELSE f[i - 1] \o s[i]]
           Upto(k) == UNION {P[i] : i \in 1..k}
<1>1. CASE n = 0
  <2>1. s = <<>> /\ FlattenSeq(s) = <<>>
    BY <1>0, <1>1, <1>p DEF FlattenSeq
  <2>2. UNION {P[i] : i \in 1..n} = {}
    BY <1>1
  <2>3. Lists(<<>>, {})
    BY FS_EmptySet DEF Lists
  <2>4. QED
    BY <1>0, <2>1, <2>2, <2>3 DEF All
<1>2. CASE n # 0
  <2> DEFINE it == CHOOSE f : f = Step(n, f)
             T == {k \in Nat : \E f : f = Step(k, f)}
  <2>1. FlattenSeq(s) = it[n]
    BY <1>0, <1>2, <1>p DEF FlattenSeq
  <2>2. ASSUME NEW k \in 0..(n - 1), k \in T
        PROVE  k + 1 \in T
    <3>f. PICK f : f = Step(k, f)
      BY <2>2
    <3> DEFINE g == [i \in 1..(k + 1) |-> IF i <= k THEN f[i]
                                          ELSE IF i = 1 THEN s[i] ELSE f[i - 1] \o s[i]]
    <3>1. \A i \in 1..k : f[i] = IF i = 1 THEN s[i] ELSE f[i - 1] \o s[i]
      BY <3>f
    <3>2. \A i \in 1..(k + 1) : i # 1 => i - 1 \in 1..k /\ g[i - 1] = f[i - 1]
      OBVIOUS
    <3>3. \A i \in 1..(k + 1) : i <= k => i \in 1..k
      OBVIOUS
    <3>4. \A i \in 1..(k + 1) : g[i] = IF i = 1 THEN s[i] ELSE g[i - 1] \o s[i]
      BY <3>1, <3>2, <3>3
    <3>5. g = Step(k + 1, g)
      BY <3>4
    <3>6. k + 1 \in Nat
      OBVIOUS
    <3> HIDE DEF Step, g
    <3>7. \E h : h = Step(k + 1, h)
      BY <3>5
    <3>8. QED
      BY <3>6, <3>7
  <2>3. 0 \in T
    <3>1. \A f : Step(0, f) = <<>>
      OBVIOUS
    <3>2. QED
      BY <3>1
  <2>4. n \in T
    <3> HIDE DEF T
    <3>1. 0..n \subseteq T
      BY <2>2, <2>3, UpTo
    <3>2. QED
      BY <3>1
  <2>5. it = Step(n, it)
    <3> HIDE DEF Step
    <3>1. QED
      BY <2>4
  <2> HIDE DEF it, T
  <2>6. \A i \in 1..n : it[i] = IF i = 1 THEN s[i] ELSE it[i - 1] \o s[i]
    BY <2>5
  <2> DEFINE Good == {k \in 0..n : k = 0 \/ Lists(it[k], Upto(k))}
  <2>7. ASSUME NEW k \in 0..n
        PROVE  IsFiniteSet(Upto(k))
    <3>1. \A i \in 1..k : i \in 1..n
      OBVIOUS
    <3>2. PICK B : B = Upto(k)
      OBVIOUS
    <3>3. B \in SUBSET stored
      BY <1>p, <3>1, <3>2
    <3>4. QED
      BY <3>2, <3>3, FS_Subset
  <2>8. ASSUME NEW k \in 0..(n - 1), k \in Good
        PROVE  k + 1 \in Good
    <3>1. k + 1 \in 1..n /\ k \in 0..n /\ (k # 0 => k \in 1..n)
      OBVIOUS
    <3>2. CASE k = 0
      <4>1. it[1] = s[1] /\ 1 \in 1..n
        BY <2>6, <3>1, <3>2
      <4>2. Upto(1) = P[1]
        OBVIOUS
      <4>3. Lists(it[1], Upto(1))
        <5>1. Lists(s[1], P[1])
          BY <1>p, <4>1
        <5>2. QED
          BY <4>1, <4>2, <5>1
      <4>4. QED
        BY <3>1, <3>2, <4>3
    <3>3. CASE k # 0
      <4>0. k + 1 # 1 /\ k + 1 - 1 = k
        BY <3>3
      <4>1. it[k + 1] = it[k] \o s[k + 1] /\ Lists(it[k], Upto(k))
        <5>1. it[k + 1] = IF k + 1 = 1 THEN s[k + 1] ELSE it[k + 1 - 1] \o s[k + 1]
          BY <2>6, <3>1
        <5>3. it[k + 1] = it[k] \o s[k + 1]
          BY <4>0, <5>1
        <5>2. QED
          BY <2>8, <3>3, <5>3
      <4>2. Lists(s[k + 1], P[k + 1]) /\ P[k + 1] \in SUBSET stored
        BY <1>p, <3>1
      <4>3. Upto(k) \cap P[k + 1] = {} /\ Upto(k + 1) = Upto(k) \cup P[k + 1]
        <5>1. \A i \in 1..k : i \in 1..n /\ i # k + 1
          OBVIOUS
        <5>2. \A i \in 1..(k + 1) : i \in 1..k \/ i = k + 1
          OBVIOUS
        <5>3. \A i \in 1..k : i \in 1..(k + 1)
          OBVIOUS
        <5>4. Upto(k) \cap P[k + 1] = {}
          BY <1>p, <3>1, <5>1
        <5>5. Upto(k + 1) = Upto(k) \cup P[k + 1]
          BY <3>1, <5>2, <5>3
        <5>6. QED
          BY <5>4, <5>5
      <4>4. IsFiniteSet(Upto(k)) /\ IsFiniteSet(P[k + 1])
        BY <2>7, <3>1, <4>2, FS_Subset
      <4>5. PICK A, B, X, Y : A = Upto(k) /\ B = P[k + 1] /\ X = it[k] /\ Y = s[k + 1]
        OBVIOUS
      <4>6. Lists(X \o Y, A \cup B)
        BY <4>1, <4>2, <4>3, <4>4, <4>5, ListsJoin
      <4>7. Lists(it[k + 1], Upto(k + 1))
        BY <4>1, <4>3, <4>5, <4>6
      <4>8. QED
        BY <3>1, <4>7
    <3>4. QED
      BY <3>2, <3>3
  <2>9. 0 \in Good
    OBVIOUS
  <2> HIDE DEF Good
  <2>10. n \in Good
    <3>1. 0..n \subseteq Good
      BY <2>8, <2>9, UpTo
    <3>2. QED
      BY <3>1
  <2>11. QED
    BY <1>0, <1>2, <2>1, <2>10 DEF Good, All
<1>3. QED
  BY <1>1, <1>2

-----------------------------------------------------------------------------
(* The days of the request.                                                 *)

\* What the assumption says of a state.
StateOK ==
  /\ RowSet(stored) /\ \A r \in stored : r.val = Null \/ r.val \in Int
  /\ \A n \in 1..Cardinality(stored) : Scale % n = 0
  /\ req.from \in Int \cup {Null} /\ req.to \in Int \cup {Null}
  /\ req.limit \in Int /\ req.offset \in Nat /\ req.interval \in Nat \ {0}
  /\ req.metric \in {"count", "sum", "avg", "min", "max"}
  /\ SDayLen \in Nat \ {0} /\ DefaultLimit \in Nat \ {0}
  /\ PercentileCap \in Nat \ {0} /\ Scale \in Nat \ {0}

LEMMA StateIsOK == SearchTypeOK => StateOK
<1> SUFFICES ASSUME SearchTypeOK
             PROVE  StateOK
  OBVIOUS
<1>1. stored \in StoreRows /\ req \in Requests
  BY DEF SearchTypeOK
<1>2. /\ RowSet(stored) /\ \A r \in stored : r.val = Null \/ r.val \in Int
      /\ \A n \in 1..Cardinality(stored) : Scale % n = 0
  BY <1>1, SearchAssumption DEF RowSet
<1>3. /\ req.from \in Int \cup {Null} /\ req.to \in Int \cup {Null}
      /\ req.limit \in Int /\ req.offset \in Nat /\ req.interval \in Nat \ {0}
      /\ req.metric \in {"count", "sum", "avg", "min", "max"}
  BY <1>1, SearchAssumption
<1>4. /\ SDayLen \in Nat \ {0} /\ DefaultLimit \in Nat \ {0}
      /\ PercentileCap \in Nat \ {0} /\ Scale \in Nat \ {0}
  BY SearchAssumption
<1>5. QED
  BY <1>2, <1>3, <1>4 DEF StateOK

LEMMA Quotient ==
  ASSUME NEW a \in Int, NEW d \in Nat, d # 0
  PROVE  a \div d \in Int /\ (a \div d) * d <= a /\ a < (a \div d) * d + d
  OBVIOUS

LEMMA QuotientNat ==
  ASSUME NEW a \in Nat, NEW d \in Nat, d # 0
  PROVE  a \div d \in Nat
<1>1. PICK q \in Int : q = a \div d
  BY Quotient
<1>2. a < q * d + d
  BY <1>1, Quotient
<1>3. CASE q < 0
  <2>1. q * d + d <= 0
    BY <1>1, <1>3
  <2>2. QED
    BY <1>1, <1>2, <2>1
<1>4. QED
  BY <1>1, <1>3

LEMMA QuotientMonotone ==
  ASSUME NEW a \in Int, NEW b \in Int, a <= b, NEW d \in Nat, d # 0
  PROVE  a \div d <= b \div d
<1>1. PICK q \in Int, p \in Int : q = a \div d /\ p = b \div d
  BY Quotient
<1>2. q * d <= a /\ b < p * d + d
  BY <1>1, Quotient
<1>3. CASE p < q
  <2>1. (p + 1) * d <= q * d
    BY <1>1, <1>3
  <2>2. p * d + d <= q * d
    BY <1>1, <2>1
  <2>3. PICK x \in Int, y \in Int : x = p * d /\ y = q * d
    BY <1>1
  <2>4. QED
    BY <1>1, <1>2, <2>2, <2>3
<1>4. QED
  BY <1>1, <1>3

Day(r) == r.ts \div SDayLen
DaySet ==
  {d \in {r.ts \div SDayLen : r \in stored} :
     /\ req.from = Null \/ d >= req.from \div SDayLen
     /\ req.to = Null \/ d <= req.to \div SDayLen}

\* The rows of each listed day.
DayRows == [i \in DOMAIN DaysInRange |-> RowsOfDay(DaysInRange[i])]

LEMMA DaysPlaced == \A R : R = NumberOrder(DaySet) => Places(DaysInRange, DaySet, R)
<1> SUFFICES ASSUME NEW R, R = NumberOrder(DaySet)
             PROVE  Places(DaysInRange, DaySet, R)
  OBVIOUS
<1>1. PICK L, S : S = DaySet /\ L = InOrder(S, <)
  OBVIOUS
<1>2. DaysInRange = L
  BY <1>1 DEF DaysInRange, DaySet
<1>3. Places(L, S, R)
  BY <1>1, NumbersPlaced
<1>4. QED
  BY <1>1, <1>2, <1>3

LEMMA DaysListed == StateOK => IsFiniteSet(DaySet) /\ Lists(DaysInRange, DaySet)
<1> SUFFICES ASSUME StateOK
             PROVE  IsFiniteSet(DaySet) /\ Lists(DaysInRange, DaySet)
  OBVIOUS
<1>0. IsFiniteSet(stored) /\ \A r \in stored : Day(r) \in Nat
  <2>1. \A r \in stored : r.ts \in Nat
    BY DEF StateOK, RowSet
  <2>2. QED
    BY <2>1, QuotientNat DEF StateOK, RowSet, Day
<1>1. IsFiniteSet(DaySet)
  <2>1. PICK A, B, f : /\ A = {r \in stored : Day(r) \in DaySet} /\ B = DaySet
                       /\ f = [r \in A |-> Day(r)]
    OBVIOUS
  <2>2. f \in Surjection(A, B)
    <3>1. f \in [A -> B]
      BY <2>1
    <3>2. \A d \in B : \E r \in A : f[r] = d
      BY <2>1 DEF DaySet, Day
    <3>3. QED
      BY <3>1, <3>2 DEF Surjection
  <2>3. IsFiniteSet(A)
    BY <1>0, <2>1, FS_Subset
  <2>4. QED
    BY <2>1, <2>2, <2>3, FS_Surjection
<1>2. DaySet \subseteq Int
  BY <1>0 DEF DaySet, Day
<1>3. PICK S, L, R : S = DaySet /\ L = DaysInRange /\ R = NumberOrder(S)
  OBVIOUS
<1>4. Places(L, S, R)
  BY <1>3, DaysPlaced
<1>5. Lists(L, S)
  BY <1>1, <1>2, <1>3, <1>4, NumbersAscend
<1>6. QED
  BY <1>1, <1>3, <1>5

\* The listed days share no row, and between them they have every match.
DaysSplit ==
  /\ Len(DaysInRange) \in Nat /\ DOMAIN DaysInRange = 1..Len(DaysInRange)
  /\ \A i \in 1..Len(DaysInRange) :
       DayRows[i] = RowsOfDay(DaysInRange[i]) /\ DayRows[i] \in SUBSET Matching
  /\ \A i, j \in 1..Len(DaysInRange) : i # j => DayRows[i] \cap DayRows[j] = {}
  /\ \A r \in Matching : \E i \in 1..Len(DaysInRange) : r \in DayRows[i]

LEMMA DaysAreSplit == StateOK => DaysSplit
<1> SUFFICES ASSUME StateOK
             PROVE  DaysSplit
  OBVIOUS
<1> DEFINE D == 1..Cardinality(DaySet)
<1>1. /\ Cardinality(DaySet) \in Nat /\ Len(DaysInRange) = Cardinality(DaySet)
      /\ DOMAIN DaysInRange = D
      /\ \A i, j \in D : DaysInRange[i] = DaysInRange[j] => i = j
      /\ \A d \in DaySet : \E i \in D : DaysInRange[i] = d
  BY DaysListed, FS_CardinalityType DEF Lists
<1>2. \A i \in D : DayRows[i] = RowsOfDay(DaysInRange[i])
  BY <1>1 DEF DayRows
<1>3. \A i \in D : \A r : r \in DayRows[i] <=> r \in stored /\ Day(r) = DaysInRange[i] /\ Where(r)
  BY <1>2 DEF RowsOfDay, Day
<1>4. \A i \in D : DayRows[i] \in SUBSET Matching
  BY <1>3 DEF Matching
<1>5. \A i, j \in D : i # j => DayRows[i] \cap DayRows[j] = {}
  BY <1>1, <1>3
<1>6. ASSUME NEW r \in Matching
      PROVE  \E i \in D : r \in DayRows[i]
  <2>1. r \in stored /\ Where(r) /\ r.ts \in Nat
    BY DEF Matching, StateOK, RowSet
  <2>2. req.from # Null => req.from \in Int /\ req.from <= r.ts
    BY <2>1 DEF Where, StateOK
  <2>3. req.to # Null => req.to \in Int /\ r.ts <= req.to
    BY <2>1 DEF Where, StateOK
  <2>4. SDayLen \in Nat /\ SDayLen # 0 /\ r.ts \in Int
    BY <2>1 DEF StateOK
  <2>5. req.from # Null => req.from \div SDayLen <= Day(r)
    BY <2>2, <2>4, QuotientMonotone DEF Day
  <2>6. req.to # Null => Day(r) <= req.to \div SDayLen
    BY <2>3, <2>4, QuotientMonotone DEF Day
  <2>7. /\ Day(r) \in Int /\ (req.from # Null => req.from \div SDayLen \in Int)
        /\ (req.to # Null => req.to \div SDayLen \in Int)
    BY <2>2, <2>3, <2>4, Quotient DEF Day
  <2>8. Day(r) \in DaySet
    BY <2>1, <2>5, <2>6, <2>7 DEF DaySet, Day
  <2>9. PICK i \in D : DaysInRange[i] = Day(r)
    BY <1>1, <2>8
  <2>10. QED
    BY <1>3, <2>1, <2>9
<1>7. QED
  BY <1>1, <1>2, <1>4, <1>5, <1>6 DEF DaysSplit

-----------------------------------------------------------------------------
(* The page.                                                                *)

\* What a list leaves out, when only its first n are kept, has n rows ahead of it.
LEMMA FirstOfList ==
  ASSUME NEW S, IsFiniteSet(S), NEW K, \A x \in S : K[x] \in Int,
         NEW L, Lists(L, S), \A i, j \in DOMAIN L : i < j => K[L[i]] <= K[L[j]],
         NEW n \in Nat, NEW T, T = First(L, n), NEW A, A = Range(T)
  PROVE  /\ A \in SUBSET S /\ Lists(T, A)
         /\ \A x \in S \ A : n <= Cardinality({a \in A : K[a] <= K[x]})
<1>1. PICK l \in Nat : l = Cardinality(S)
  BY FS_CardinalityType
<1>2. /\ L \in Seq(S) /\ Len(L) = l /\ DOMAIN L = 1..l
      /\ \A i \in 1..l : L[i] \in S
      /\ \A i, j \in 1..l : L[i] = L[j] => i = j
      /\ \A x \in S : \E i \in 1..l : L[i] = x
  BY <1>1, LenProperties DEF Lists
<1>3. PICK m \in Nat : m = (IF n < l THEN n ELSE l) /\ m <= l
  <2>1. CASE n < l
    BY <1>1, <2>1
  <2>2. CASE ~(n < l)
    BY <1>1, <2>2
  <2>3. QED
    BY <2>1, <2>2
<1>4. T = SubSeq(L, 1, m)
  BY <1>2, <1>3 DEF First
<1>5. T \in Seq(S) /\ Len(T) = m /\ DOMAIN T = 1..m /\ \A i \in 1..m : T[i] = L[i]
  <2>1. CASE m = 0
    <3>1. T = <<>>
      BY <1>2, <1>4, <2>1
    <3>2. QED
      BY <2>1, <3>1
  <2>2. CASE m # 0
    <3>1. T \in Seq(S) /\ Len(T) = m /\ \A i \in 1..m : T[i] = L[i]
      BY <1>2, <1>3, <1>4, <2>2, SubSeqProperties
    <3>2. QED
      BY <3>1, LenProperties
  <2>3. QED
    BY <2>1, <2>2
<1>a. A = {T[i] : i \in 1..m}
  BY <1>5 DEF Range
<1>6. \A i \in 1..m : i \in 1..l
  BY <1>1, <1>3
<1>7. A \in SUBSET S
  BY <1>2, <1>5, <1>6, <1>a
<1>8. IsFiniteSet(A) /\ Cardinality(A) = m
  <2>1. PICK D : D = 1..m
    OBVIOUS
  <2>2. T \in Bijection(D, A)
    <3>1. T \in [D -> A]
      BY <1>5, <1>a, <2>1
    <3>2. \A i, j \in D : T[i] = T[j] => i = j
      <4>1. \A i, j \in 1..m : L[i] = L[j] => i = j
        BY <1>2, <1>6
      <4>2. QED
        BY <1>5, <2>1, <4>1
    <3>3. \A x \in A : \E i \in D : T[i] = x
      BY <1>5, <1>a, <2>1
    <3>4. QED
      BY <3>1, <3>2, <3>3 DEF Bijection, Injection, Surjection, IsInjective
  <2>3. IsFiniteSet(D) /\ Cardinality(D) = m
    <3>1. IsFiniteSet(1..m) /\ Cardinality(1..m) = IF 1 > m THEN 0 ELSE m - 1 + 1
      BY FS_Interval
    <3>2. QED
      BY <2>1, <3>1
  <2>4. QED
    BY <2>2, <2>3, FS_Bijection DEF ExistsBijection
<1>9. Lists(T, A)
  <2>1. \A i, j \in DOMAIN T : T[i] = T[j] => i = j
    <3>1. \A i, j \in 1..m : L[i] = L[j] => i = j
      BY <1>2, <1>6
    <3>2. QED
      BY <1>5, <3>1
  <2>2. T \in [1..m -> A]
    BY <1>5, <1>a
  <2>3. T \in Seq(A)
    BY <1>3, <2>2
  <2>4. \A x \in A : \E i \in DOMAIN T : T[i] = x
    BY <1>5, <1>a
  <2>5. Len(T) = Cardinality(A) /\ DOMAIN T = 1..Cardinality(A)
    BY <1>5, <1>8
  <2>6. QED
    BY <2>1, <2>3, <2>4, <2>5 DEF Lists
<1>10. ASSUME NEW x \in S \ A
       PROVE  n <= Cardinality({a \in A : K[a] <= K[x]})
  <2>1. PICK j \in 1..l : L[j] = x
    BY <1>2
  <2>2. ~(j \in 1..m)
    BY <1>5, <1>a, <2>1
  <2>3. j \in Nat /\ m < j /\ m = n
    BY <1>1, <1>3, <2>2
  <2>4. \A i \in 1..m : K[L[i]] <= K[x]
    <3> SUFFICES ASSUME NEW i \in 1..m
                 PROVE  K[L[i]] <= K[x]
      OBVIOUS
    <3>1. i < j /\ i \in DOMAIN L /\ j \in DOMAIN L
      BY <1>2, <1>6, <2>3
    <3>2. QED
      BY <2>1, <3>1
  <2>5. \A a \in A : K[a] <= K[x]
    BY <1>5, <1>a, <2>4
  <2>6. {a \in A : K[a] <= K[x]} = A
    BY <2>5
  <2>7. n <= Cardinality(A)
    BY <1>8, <2>3
  <2>8. QED
    BY <2>6, <2>7
<1>11. QED
  BY <1>7, <1>9, <1>10

\* The timestamps in the order of the request.
Rank == [r \in stored |-> IF req.order = "asc" THEN r.ts ELSE 0 - r.ts]

LEMMA RanksAreOrdered ==
  StateOK => /\ \A r \in stored : Rank[r] \in Int
             /\ \A r, q \in stored : Rank[r] = Rank[q] => r.ts = q.ts
             /\ \A r, q \in stored : Before(r, q) => Rank[r] <= Rank[q]
             /\ \A r, q \in stored : ~Earlier(q, r) => Rank[r] <= Rank[q]
<1> SUFFICES ASSUME StateOK
             PROVE  /\ \A r \in stored : Rank[r] \in Int
                    /\ \A r, q \in stored : Rank[r] = Rank[q] => r.ts = q.ts
                    /\ \A r, q \in stored : Before(r, q) => Rank[r] <= Rank[q]
                    /\ \A r, q \in stored : ~Earlier(q, r) => Rank[r] <= Rank[q]
  OBVIOUS
<1>1. \A r \in stored : r.ts \in Nat
  BY DEF StateOK, RowSet
<1>2. \A r \in stored : Rank[r] = IF req.order = "asc" THEN r.ts ELSE 0 - r.ts
  BY DEF Rank
<1>3. CASE req.order = "asc"
  BY <1>1, <1>2, <1>3 DEF Before, Earlier
<1>4. CASE req.order # "asc"
  BY <1>1, <1>2, <1>4 DEF Before, Earlier
<1>5. QED
  BY <1>3, <1>4

LEMMA RowSubset ==
  ASSUME NEW S, RowSet(S), NEW T \in SUBSET S
  PROVE  RowSet(T)
<1>1. IsFiniteSet(T)
  BY FS_Subset DEF RowSet
<1>2. QED
  BY <1>1 DEF RowSet

\* Any set of rows in the order of the request.
LEMMA RowsInOrder ==
  StateOK => \A S \in SUBSET stored :
    /\ Lists(InOrder(S, Before), S)
    /\ \A i, j \in DOMAIN InOrder(S, Before) :
         i < j => Rank[InOrder(S, Before)[i]] <= Rank[InOrder(S, Before)[j]]
<1> SUFFICES ASSUME StateOK, NEW S \in SUBSET stored
             PROVE  /\ Lists(InOrder(S, Before), S)
                    /\ \A i, j \in DOMAIN InOrder(S, Before) :
                         i < j => Rank[InOrder(S, Before)[i]] <= Rank[InOrder(S, Before)[j]]
  OBVIOUS
<1>0. PICK L : L = InOrder(S, Before)
  OBVIOUS
<1>1. PICK R : R = RowOrder(S)
  OBVIOUS
<1>2. Places(L, S, R)
  BY <1>0, <1>1, RowsPlaced
<1>3. RowSet(S)
  BY RowSubset DEF StateOK
<1>4. Lists(L, S) /\ \A i, j \in DOMAIN L : i < j => Before(L[i], L[j])
  BY <1>1, <1>2, <1>3, RowsAscend
<1>5. ASSUME NEW i \in DOMAIN L, NEW j \in DOMAIN L, i < j
      PROVE  Rank[L[i]] <= Rank[L[j]]
  <2>1. L \in Seq(S) /\ DOMAIN L = 1..Len(L)
    BY <1>4, LenProperties DEF Lists
  <2>2. L[i] \in stored /\ L[j] \in stored
    BY <2>1
  <2>3. QED
    BY <1>4, <1>5, <2>2, RanksAreOrdered
<1>6. QED
  BY <1>0, <1>4, <1>5

LEMMA LimitType == StateOK => Limit \in Nat /\ Limit # 0
  BY DEF StateOK, Limit

\* What a day answers is a part of its rows; the rest has n rows of it ahead.
DayCut(s, P, n) ==
  LET A == Range(s) IN
  /\ A \in SUBSET P /\ Lists(s, A)
  /\ \A x \in P \ A : n <= Cardinality({a \in A : Rank[a] <= Rank[x]})

LEMMA DaysAreCut ==
  ASSUME StateOK, NEW n \in Nat, NEW i \in DOMAIN DaysInRange
  PROVE  DayCut(SearchDay(DaysInRange[i], n), DayRows[i], n)
<1>1. PICK P, L, s : /\ P = DayRows[i] /\ L = InOrder(P, Before)
                     /\ s = SearchDay(DaysInRange[i], n)
  OBVIOUS
<1>2. P = RowsOfDay(DaysInRange[i]) /\ P \in SUBSET stored
  BY <1>1, DaysAreSplit DEF DaysSplit, Matching
<1>3. s = First(L, n)
  BY <1>1, <1>2 DEF SearchDay
<1>4. Lists(L, P) /\ \A j, k \in DOMAIN L : j < k => Rank[L[j]] <= Rank[L[k]]
  BY <1>1, <1>2, RowsInOrder
<1>5. IsFiniteSet(P)
  BY <1>2, FS_Subset DEF StateOK, RowSet
<1>6. \A x \in P : Rank[x] \in Int
  BY <1>2, RanksAreOrdered
<1>7. PICK A : A = Range(s)
  OBVIOUS
<1>8. /\ A \in SUBSET P /\ Lists(s, A)
      /\ \A x \in P \ A : n <= Cardinality({a \in A : Rank[a] <= Rank[x]})
  BY <1>3, <1>4, <1>5, <1>6, <1>7, FirstOfList
<1>9. QED
  BY <1>1, <1>7, <1>8 DEF DayCut

\* The messages before the page is cut from them.
Merged(n) ==
  SortMessages(FlattenSeq([i \in DOMAIN DaysInRange |-> SearchDay(DaysInRange[i], n)]))

LEMMA MergedDays ==
  ASSUME StateOK, NEW n \in Nat
  PROVE  \E A \in SUBSET Matching :
           /\ Lists(Merged(n), A)
           /\ \A i, j \in DOMAIN Merged(n) : i < j => Rank[Merged(n)[i]] <= Rank[Merged(n)[j]]
           /\ \A x \in Matching \ A : n <= Cardinality({a \in A : Rank[a] <= Rank[x]})
<1>1. PICK m \in Nat : m = Len(DaysInRange) /\ DOMAIN DaysInRange = 1..m
  BY DaysAreSplit DEF DaysSplit
<1>2. PICK s : s = [i \in 1..m |-> SearchDay(DaysInRange[i], n)]
  OBVIOUS
<1>3. PICK P : P = [i \in 1..m |-> Range(s[i])]
  OBVIOUS
<1>4. \A i \in 1..m : DayCut(s[i], DayRows[i], n)
  BY <1>1, <1>2, DaysAreCut
<1>5. /\ \A i \in 1..m : P[i] \in SUBSET DayRows[i] /\ Lists(s[i], P[i])
      /\ \A i \in 1..m : \A x \in DayRows[i] \ P[i] :
           n <= Cardinality({a \in P[i] : Rank[a] <= Rank[x]})
  BY <1>3, <1>4 DEF DayCut
<1>6. /\ \A i \in 1..m : DayRows[i] \in SUBSET Matching
      /\ \A i, j \in 1..m : i # j => DayRows[i] \cap DayRows[j] = {}
      /\ \A r \in Matching : \E i \in 1..m : r \in DayRows[i]
  BY <1>1, DaysAreSplit DEF DaysSplit
<1>7. IsFiniteSet(stored) /\ Matching \in SUBSET stored /\ IsFiniteSet(Matching)
  <2>1. IsFiniteSet(stored) /\ Matching \in SUBSET stored
    BY DEF StateOK, RowSet, Matching
  <2>2. QED
    BY <2>1, FS_Subset
<1>8. \A i \in 1..m : P[i] \in SUBSET stored /\ Lists(s[i], P[i])
  BY <1>5, <1>6, <1>7
<1>9. \A i, j \in 1..m : i # j => P[i] \cap P[j] = {}
  BY <1>5, <1>6
<1>10. Len(s) = m /\ ListParts(s, P)
  <2>1. s = [i \in 1..m |-> s[i]] /\ DOMAIN s = 1..m
    BY <1>2
  <2>2. Len(s) = m
    BY <1>1, <2>1
  <2>3. QED
    BY <1>8, <1>9, <2>1, <2>2 DEF ListParts
<1>11. PICK A, F, M : A = All(P, m) /\ F = FlattenSeq(s) /\ M = SortMessages(F)
  OBVIOUS
<1>12. Lists(F, A)
  BY <1>7, <1>10, <1>11, Flattened
<1>13. A \in SUBSET Matching /\ A \in SUBSET stored
  <2>1. \A i \in 1..m : P[i] \in SUBSET Matching
    BY <1>5, <1>6
  <2>2. A \in SUBSET Matching
    BY <1>11, <2>1 DEF All
  <2>3. QED
    BY <1>7, <2>2
<1>14. RowSet(A)
  BY <1>13, RowSubset DEF StateOK
<1>15. Lists(M, A) /\ \A i, j \in DOMAIN M : i < j => ~Earlier(M[j], M[i])
  BY <1>11, <1>12, <1>14, MessagesAscend
<1>16. ASSUME NEW i \in DOMAIN M, NEW j \in DOMAIN M, i < j
       PROVE  Rank[M[i]] <= Rank[M[j]]
  <2>1. M \in Seq(A) /\ DOMAIN M = 1..Len(M)
    BY <1>15, LenProperties DEF Lists
  <2>2. M[i] \in stored /\ M[j] \in stored
    BY <1>13, <2>1
  <2>3. QED
    BY <1>15, <1>16, <2>2, RanksAreOrdered
<1>17. ASSUME NEW x \in Matching \ A
       PROVE  n <= Cardinality({a \in A : Rank[a] <= Rank[x]})
  <2>1. PICK i \in 1..m : x \in DayRows[i]
    BY <1>6
  <2>2. x \notin P[i] /\ P[i] \in SUBSET A
    BY <1>11, <1>17, <2>1 DEF All
  <2>3. PICK B, C : /\ B = {a \in P[i] : Rank[a] <= Rank[x]}
                    /\ C = {a \in A : Rank[a] <= Rank[x]}
    OBVIOUS
  <2>4. n <= Cardinality(B)
    BY <1>5, <2>1, <2>2, <2>3
  <2>5. B \in SUBSET C /\ C \in SUBSET stored
    BY <1>13, <2>2, <2>3
  <2>6. IsFiniteSet(C)
    BY <1>7, <2>5, FS_Subset
  <2>7. Cardinality(B) <= Cardinality(C) /\ IsFiniteSet(B)
    BY <2>5, <2>6, FS_Subset
  <2>8. Cardinality(B) \in Nat /\ Cardinality(C) \in Nat
    BY <2>6, <2>7, FS_CardinalityType
  <2>9. n <= Cardinality(C)
    BY <2>4, <2>7, <2>8
  <2>10. QED
    BY <2>3, <2>9
<1>18. Merged(n) = M
  BY <1>1, <1>2, <1>11 DEF Merged
<1>19. QED
  BY <1>13, <1>15, <1>16, <1>17, <1>18

\* A page of the fan-out has as many messages as that page of the whole, with the same
\* timestamps in the same order, and no message twice.
LEMMA PagesAgree ==
  StateOK =>
    LET whole == InOrder(Matching, Before)
        want  == First(SubSeq(whole, req.offset + 1, Len(whole)), Limit)
    IN /\ Len(Page) = Len(want)
       /\ \A i \in DOMAIN want : Page[i].ts = want[i].ts
       /\ IsInjective(Page) /\ Range(Page) \subseteq Matching
<1> SUFFICES ASSUME StateOK
             PROVE  LET whole == InOrder(Matching, Before)
                        want  == First(SubSeq(whole, req.offset + 1, Len(whole)), Limit)
                    IN /\ Len(Page) = Len(want)
                       /\ \A i \in DOMAIN want : Page[i].ts = want[i].ts
                       /\ IsInjective(Page) /\ Range(Page) \subseteq Matching
  OBVIOUS
<1>1. PICK off \in Nat, lim \in Nat : off = req.offset /\ lim = Limit /\ lim # 0
  BY LimitType DEF StateOK
<1>2. PICK n \in Nat : n = off + lim
  BY <1>1
<1>3. PICK W, L : W = InOrder(Matching, Before) /\ L = Merged(n)
  OBVIOUS
<1>4. PICK want, P : /\ want = First(SubSeq(W, off + 1, Len(W)), lim)
                     /\ P = First(SubSeq(L, off + 1, Len(L)), lim)
  OBVIOUS
<1>5. Page = P
  BY <1>1, <1>2, <1>3, <1>4 DEF Page, Merged
<1>6. PICK A \in SUBSET Matching :
        /\ Lists(L, A)
        /\ \A i, j \in DOMAIN L : i < j => Rank[L[i]] <= Rank[L[j]]
        /\ \A x \in Matching \ A : n <= Cardinality({a \in A : Rank[a] <= Rank[x]})
  BY <1>3, MergedDays
<1>7. Matching \in SUBSET stored /\ IsFiniteSet(Matching)
  <2>1. IsFiniteSet(stored) /\ Matching \in SUBSET stored
    BY DEF StateOK, RowSet, Matching
  <2>2. QED
    BY <2>1, FS_Subset
<1>8. Lists(W, Matching) /\ \A i, j \in DOMAIN W : i < j => Rank[W[i]] <= Rank[W[j]]
  BY <1>3, <1>7, RowsInOrder
<1>9. \A x \in Matching : Rank[x] \in Int
  BY <1>7, RanksAreOrdered
<1>10. \A i \in DOMAIN W : i <= n => i \in DOMAIN L /\ Rank[L[i]] = Rank[W[i]]
  <2> SUFFICES ASSUME NEW i \in DOMAIN W, i <= n
               PROVE  i \in DOMAIN L /\ Rank[L[i]] = Rank[W[i]]
    OBVIOUS
  <2>1. QED
    BY <1>6, <1>7, <1>8, <1>9, FirstAgree
<1>11. PICK w \in Nat, l \in Nat :
         /\ w = Cardinality(Matching) /\ l = Cardinality(A) /\ l <= w
         /\ Len(W) = w /\ DOMAIN W = 1..w /\ Len(L) = l /\ DOMAIN L = 1..l
         /\ W \in Seq(Matching) /\ L \in Seq(A)
  <2>1. IsFiniteSet(A) /\ Cardinality(A) <= Cardinality(Matching)
    BY <1>7, FS_Subset
  <2>2. Cardinality(A) \in Nat /\ Cardinality(Matching) \in Nat
    BY <1>7, <2>1, FS_CardinalityType
  <2>3. QED
    BY <1>6, <1>8, <2>1, <2>2 DEF Lists
<1>12. /\ want \in Seq(Matching)
       /\ Len(want) = IF w <= off THEN 0 ELSE IF lim < w - off THEN lim ELSE w - off
       /\ \A i \in DOMAIN want : off + i \in DOMAIN W /\ i <= lim /\ want[i] = W[off + i]
  <2>1. IsPage(want, W, Matching, off, lim)
    BY <1>4, <1>11, PageOfList
  <2>2. QED
    BY <1>11, <2>1 DEF IsPage
<1>13. /\ P \in Seq(A)
       /\ Len(P) = IF l <= off THEN 0 ELSE IF lim < l - off THEN lim ELSE l - off
       /\ \A i \in DOMAIN P : off + i \in DOMAIN L /\ i <= lim /\ P[i] = L[off + i]
  <2>1. IsPage(P, L, A, off, lim)
    BY <1>4, <1>11, PageOfList
  <2>2. QED
    BY <1>11, <2>1 DEF IsPage
<1>14. w <= n => l = w
  <2>1. CASE w = 0
    BY <1>11, <2>1
  <2>2. CASE w # 0 /\ w <= n
    <3>1. w \in DOMAIN W
      BY <1>11, <2>2
    <3>2. w \in 1..l
      BY <1>10, <1>11, <2>2, <3>1
    <3>3. QED
      BY <1>11, <3>2
  <2>3. QED
    BY <2>1, <2>2
<1>15. ~(w <= n) => n <= l
  <2>1. CASE ~(w <= n)
    <3>1. n \in DOMAIN W /\ n <= n
      BY <1>1, <1>2, <1>11, <2>1
    <3>2. n \in 1..l
      BY <1>10, <1>11, <3>1
    <3>3. QED
      BY <1>11, <3>2
  <2>2. QED
    BY <2>1
<1>16. Len(P) = Len(want)
  <2>1. CASE w <= n
    BY <1>12, <1>13, <1>14, <2>1
  <2>2. CASE ~(w <= n)
    <3>1. Len(want) = lim
      <4>1. ~(w <= off) /\ lim < w - off
        BY <1>1, <1>2, <1>11, <2>2
      <4>2. QED
        BY <1>12, <4>1
    <3>2. Len(P) = lim
      <4>1. ~(l <= off) /\ (lim < l - off \/ lim = l - off)
        BY <1>1, <1>2, <1>11, <1>15, <2>2
      <4>2. QED
        BY <1>13, <4>1
    <3>3. QED
      BY <3>1, <3>2
  <2>3. QED
    BY <2>1, <2>2
<1>17. DOMAIN P = DOMAIN want /\ \A i \in DOMAIN P : i \in Nat /\ P[i] \in A
  BY <1>12, <1>13, <1>16, LenProperties
<1>18. ASSUME NEW i \in DOMAIN want
       PROVE  P[i].ts = want[i].ts
  <2>1. PICK j \in Nat : j = off + i
    BY <1>17
  <2>2. j \in DOMAIN W /\ j <= n /\ want[i] = W[j] /\ P[i] = L[j]
    BY <1>2, <1>12, <1>13, <1>17, <2>1
  <2>3. j \in DOMAIN L /\ Rank[L[j]] = Rank[W[j]]
    BY <1>10, <2>2
  <2>4. L[j] \in stored /\ W[j] \in stored
    BY <1>7, <1>11, <2>2, <2>3
  <2>5. QED
    BY <2>2, <2>3, <2>4, RanksAreOrdered
<1>19. IsInjective(P)
  <2> SUFFICES ASSUME NEW i \in DOMAIN P, NEW j \in DOMAIN P, P[i] = P[j]
               PROVE  i = j
    BY DEF IsInjective
  <2>1. off + i \in DOMAIN L /\ off + j \in DOMAIN L /\ L[off + i] = L[off + j]
    BY <1>13
  <2>2. off + i = off + j
    BY <1>6, <2>1 DEF Lists
  <2>3. QED
    BY <1>17, <2>2
<1>20. Range(P) \subseteq Matching
  BY <1>17 DEF Range
<1>21. W = InOrder(Matching, Before) /\ want = First(SubSeq(W, req.offset + 1, Len(W)), Limit)
  BY <1>1, <1>3, <1>4
<1>22. QED
  BY <1>5, <1>16, <1>18, <1>19, <1>20, <1>21

-----------------------------------------------------------------------------
(* Folds over the days: what FoldLeft computes is what a function of the set *)
(* of days says, when that function satisfies the equation of the fold.      *)

LEMMA MaxIsGreatest ==
  ASSUME NEW n \in Nat, NEW s \in SUBSET (1..n), s # {}
  PROVE  Max(s) \in s /\ \A x \in s : x <= Max(s)
<1> DEFINE U == {u \in Nat : \A x \in s : x <= u}
<1>1. n \in U
  OBVIOUS
<1>2. PICK u \in U : \A w \in U : u <= w
  <2>1. U \subseteq Nat /\ U # {}
    BY <1>1
  <2> HIDE DEF U
  <2>2. QED
    BY <2>1, LeastOf
<1>3. u \in s
  <2> SUFFICES ASSUME u \notin s
               PROVE  FALSE
    OBVIOUS
  <2>1. PICK y \in s : TRUE
    OBVIOUS
  <2>2. \A x \in s : x \in Nat /\ x <= u /\ x # u
    BY <1>2
  <2>3. u \in Nat /\ u # 0
    BY <1>2, <2>1, <2>2
  <2>4. \A x \in s : x <= u - 1
    BY <2>2, <2>3
  <2>5. u - 1 \in U
    BY <2>3, <2>4
  <2>6. u <= u - 1
    BY <1>2, <2>5
  <2>7. QED
    BY <2>3, <2>6
<1>4. \A x \in s : x \in Nat /\ x <= u
  BY <1>2
<1>5. \E x \in s : \A y \in s : x >= y
  BY <1>3, <1>4
<1>6. Max(s) \in s /\ \A y \in s : Max(s) >= y
  BY <1>5 DEF Max
<1>7. QED
  BY <1>4, <1>6

LEMMA MaxOfPrefix ==
  ASSUME NEW k \in Nat, k # 0
  PROVE  Max(1..k) = k /\ (1..k) \ {k} = 1..(k - 1)
<1>1. PICK s : s = 1..k
  OBVIOUS
<1>0. k \in 1..k
  OBVIOUS
<1>2. k \in s /\ s # {} /\ s \in SUBSET (1..k)
  BY <1>0, <1>1
<1>3. Max(s) \in s /\ \A x \in s : x <= Max(s)
  BY <1>2, MaxIsGreatest
<1>4. Max(s) = k
  BY <1>1, <1>2, <1>3
<1>5. (1..k) \ {k} = 1..(k - 1)
  OBVIOUS
<1>6. QED
  BY <1>1, <1>4, <1>5

\* it and h agree on the first days if one more day does not part them.
Follows(it, h, n) ==
  /\ it[{}] = h[{}]
  /\ \A k \in 1..n : it[1..(k - 1)] = h[1..(k - 1)] => it[1..k] = h[1..k]

LEMMA FollowsToTheEnd ==
  ASSUME NEW n \in Nat, NEW it, NEW h, Follows(it, h, n)
  PROVE  it[1..n] = h[1..n]
<1> DEFINE T == {k \in Nat : it[1..k] = h[1..k]}
<1>1. 0 \in T
  <2>1. 1..0 = {}
    OBVIOUS
  <2>2. QED
    BY <2>1 DEF Follows
<1>2. ASSUME NEW k \in 0..(n - 1), k \in T
      PROVE  k + 1 \in T
  <2>1. PICK j \in Nat : j = k + 1
    OBVIOUS
  <2>2. j \in 1..n /\ j - 1 = k
    BY <2>1
  <2>3. it[1..k] = h[1..k]
    BY <1>2
  <2>4. it[1..(j - 1)] = h[1..(j - 1)]
    BY <2>2, <2>3
  <2>5. it[1..j] = h[1..j]
    BY <2>2, <2>4 DEF Follows
  <2>6. QED
    BY <2>1, <2>5
<1> HIDE DEF T
<1>3. 0..n \subseteq T
  BY <1>1, <1>2, UpTo
<1>4. n \in T
  BY <1>3
<1>5. QED
  BY <1>4 DEF T

\* The rows of some of the days.
DaysDomain == DOMAIN DaysInRange
Picked(s) == UNION {DayRows[i] : i \in s}

PickedOK ==
  /\ Picked({}) = {} /\ Picked(DaysDomain) = Matching
  /\ IsFiniteSet(Matching) /\ Matching \in SUBSET stored
  /\ \A s \in SUBSET DaysDomain : Picked(s) \in SUBSET Matching /\ IsFiniteSet(Picked(s))
  /\ \A s \in SUBSET DaysDomain : \A m \in s :
       /\ Picked(s) = Picked(s \ {m}) \cup DayRows[m]
       /\ Picked(s \ {m}) \cap DayRows[m] = {}
       /\ IsFiniteSet(DayRows[m]) /\ DayRows[m] \in SUBSET Matching
       /\ RowsOfDay(DaysInRange[m]) = DayRows[m]

LEMMA PickedIsOK == StateOK => PickedOK
<1> SUFFICES ASSUME StateOK
             PROVE  PickedOK
  OBVIOUS
<1> DEFINE D == DaysDomain
<1>1. /\ D = 1..Len(DaysInRange)
      /\ \A i \in D : DayRows[i] = RowsOfDay(DaysInRange[i]) /\ DayRows[i] \in SUBSET Matching
      /\ \A i, j \in D : i # j => DayRows[i] \cap DayRows[j] = {}
      /\ \A r \in Matching : \E i \in D : r \in DayRows[i]
  BY DaysAreSplit DEF DaysSplit, DaysDomain
<1>2. IsFiniteSet(Matching) /\ Matching \in SUBSET stored
  <2>1. IsFiniteSet(stored) /\ Matching \in SUBSET stored
    BY DEF StateOK, RowSet, Matching
  <2>2. QED
    BY <2>1, FS_Subset
<1> HIDE DEF D
<1>3. Picked({}) = {} /\ Picked(D) = Matching
  <2>1. Picked({}) = {}
    BY DEF Picked
  <2>2. Picked(D) \subseteq Matching
    BY <1>1 DEF Picked
  <2>3. Matching \subseteq Picked(D)
    BY <1>1 DEF Picked
  <2>4. QED
    BY <2>1, <2>2, <2>3
<1>4. ASSUME NEW s \in SUBSET D
      PROVE  Picked(s) \in SUBSET Matching /\ IsFiniteSet(Picked(s))
  <2>1. Picked(s) \in SUBSET Matching
    BY <1>1 DEF Picked
  <2>2. QED
    BY <1>2, <2>1, FS_Subset
<1>5. ASSUME NEW s \in SUBSET D, NEW m \in s
      PROVE  /\ Picked(s) = Picked(s \ {m}) \cup DayRows[m]
             /\ Picked(s \ {m}) \cap DayRows[m] = {}
             /\ IsFiniteSet(DayRows[m]) /\ DayRows[m] \in SUBSET Matching
             /\ RowsOfDay(DaysInRange[m]) = DayRows[m]
  <2>1. Picked(s) = Picked(s \ {m}) \cup DayRows[m]
    BY DEF Picked
  <2>2. Picked(s \ {m}) \cap DayRows[m] = {}
    BY <1>1 DEF Picked
  <2>3. DayRows[m] \in SUBSET Matching /\ RowsOfDay(DaysInRange[m]) = DayRows[m]
    BY <1>1
  <2>4. IsFiniteSet(DayRows[m])
    BY <1>2, <2>3, FS_Subset
  <2>5. QED
    BY <2>1, <2>2, <2>3, <2>4
<1>6. QED
  BY <1>2, <1>3, <1>4, <1>5 DEF PickedOK, D

\* Days in order, and the last of them.
LEMMA LastDay ==
  StateOK => /\ Len(DaysInRange) \in Nat /\ DaysDomain = 1..Len(DaysInRange)
             /\ \A s \in SUBSET DaysDomain : s # {} => Max(s) \in s
<1> SUFFICES ASSUME StateOK
             PROVE  /\ Len(DaysInRange) \in Nat /\ DaysDomain = 1..Len(DaysInRange)
                    /\ \A s \in SUBSET DaysDomain : s # {} => Max(s) \in s
  BY Zenon
<1>1. PICK n \in Nat : n = Len(DaysInRange) /\ DaysDomain = 1..n
  BY DaysAreSplit DEF DaysSplit, DaysDomain
<1>2. \A s \in SUBSET (1..n) : s # {} => Max(s) \in s
  BY MaxIsGreatest
<1>3. QED
  BY <1>1, <1>2

\* it and h agree on some of the days if they do on those but the last.
Stepwise(it, h) ==
  /\ it[{}] = h[{}]
  /\ \A s \in SUBSET DaysDomain :
       s # {} /\ it[s \ {Max(s)}] = h[s \ {Max(s)}] => it[s] = h[s]

LEMMA FoldsAgree ==
  ASSUME StateOK, NEW it, NEW h, Stepwise(it, h)
  PROVE  it[DaysDomain] = h[DaysDomain]
<1>1. PICK n \in Nat : DaysDomain = 1..n
  BY LastDay
<1>2. ASSUME NEW k \in 1..n, it[1..(k - 1)] = h[1..(k - 1)]
      PROVE  it[1..k] = h[1..k]
  <2>1. Max(1..k) = k /\ (1..k) \ {k} = 1..(k - 1)
    BY MaxOfPrefix
  <2>2. 1..k \in SUBSET DaysDomain /\ k \in 1..k
    BY <1>1
  <2>3. PICK s, t : s = 1..k /\ t = 1..(k - 1)
    OBVIOUS
  <2>4. s \in SUBSET DaysDomain /\ s # {} /\ s \ {Max(s)} = t /\ it[t] = h[t]
    BY <1>2, <2>1, <2>2, <2>3
  <2>5. it[s] = h[s]
    BY <2>4 DEF Stepwise
  <2>6. QED
    BY <2>3, <2>5
<1>3. Follows(it, h, n)
  BY <1>2 DEF Follows, Stepwise
<1>4. QED
  BY <1>1, <1>3, FollowsToTheEnd

\* The total counts every match.
LEMMA TotalCounts == StateOK => TotalFound = Cardinality(Matching)
<1> SUFFICES ASSUME StateOK
             PROVE  TotalFound = Cardinality(Matching)
  OBVIOUS
<1> DEFINE D == DaysDomain
           Step(f) == [s \in SUBSET D |-> IF s = {} THEN 0
                         ELSE CountDay(f[s \ {Max(s)}], DaysInRange[Max(s)])]
           it == CHOOSE f : f = Step(f)
           h == [s \in SUBSET D |-> Cardinality(Picked(s))]
<1>1. TotalFound = it[D]
  BY DEF TotalFound, FoldLeft, MapThenFoldSet, DaysDomain
<1>2. PICK n \in Nat : D = 1..n /\ \A s \in SUBSET D : s # {} => Max(s) \in s
  BY LastDay
<1> HIDE DEF D
<1>3. ASSUME NEW s \in SUBSET D, s # {}
      PROVE  h[s] = CountDay(h[s \ {Max(s)}], DaysInRange[Max(s)])
  <2>1. PICK m \in s : m = Max(s)
    BY <1>2, <1>3
  <2>2. PICK A, B, C : A = Picked(s \ {m}) /\ B = DayRows[m] /\ C = Picked(s)
    OBVIOUS
  <2>3. /\ C = A \cup B /\ A \cap B = {} /\ IsFiniteSet(A) /\ IsFiniteSet(B)
        /\ RowsOfDay(DaysInRange[m]) = B
    BY <2>2, PickedIsOK DEF PickedOK, D
  <2>4. Cardinality(C) = Cardinality(A) + Cardinality(B)
    <3>1. Cardinality(A \cup B) = Cardinality(A) + Cardinality(B) - Cardinality(A \cap B)
      BY <2>3, FS_Union
    <3>2. Cardinality(A \cap B) = 0 /\ Cardinality(A) \in Nat /\ Cardinality(B) \in Nat
      BY <2>3, FS_EmptySet, FS_CardinalityType
    <3>3. QED
      BY <2>3, <3>1, <3>2
  <2>5. h[s] = Cardinality(C) /\ h[s \ {m}] = Cardinality(A)
    BY <2>2
  <2> HIDE DEF h
  <2>6. QED
    BY <2>1, <2>3, <2>4, <2>5 DEF CountDay
<1>4. h[{}] = 0
  BY PickedIsOK, FS_EmptySet DEF PickedOK
<1>5. h = [s \in SUBSET D |-> h[s]]
  OBVIOUS
<1> HIDE DEF h
<1>6. h = Step(h)
  BY <1>3, <1>4, <1>5
<1>7. it = Step(it)
  <2> HIDE DEF Step
  <2>1. QED
    BY <1>6
<1> HIDE DEF it
<1>8. /\ it[{}] = 0
      /\ \A s \in SUBSET D : s # {} =>
           it[s] = CountDay(it[s \ {Max(s)}], DaysInRange[Max(s)])
  BY <1>7
<1>9. Stepwise(it, h)
  BY <1>3, <1>4, <1>8 DEF Stepwise, D
<1>10. it[D] = h[D]
  BY <1>9, FoldsAgree DEF D
<1>11. h[D] = Cardinality(Matching)
  BY PickedIsOK DEF PickedOK, h, D
<1>12. QED
  BY <1>1, <1>10, <1>11

\* Pages agree and the total counts every match: searching day by day answers what one
\* search over all the days would (search.go:128-176).
THEOREM PagesOfUnion == SearchTypeOK => PageOfUnion
<1> SUFFICES ASSUME SearchTypeOK
             PROVE  PageOfUnion
  OBVIOUS
<1>1. StateOK
  BY StateIsOK
<1>2. TotalFound = Cardinality(Matching)
  BY <1>1, TotalCounts
<1>3. QED
  BY <1>1, <1>2, PagesAgree DEF PageOfUnion

-----------------------------------------------------------------------------
(* The histogram.                                                           *)

LEMMA QuotientIs ==
  ASSUME NEW a \in Int, NEW d \in Nat, d # 0, NEW q \in Int
  PROVE  a \div d = q <=> q * d <= a /\ a < q * d + d
<1>1. PICK p \in Int : p = a \div d /\ p * d <= a /\ a < p * d + d
  BY Quotient
<1>2. ASSUME q * d <= a, a < q * d + d, p < q
      PROVE  FALSE
  <2>1. (p + 1) * d <= q * d
    BY <1>1, <1>2
  <2>2. p * d + d <= q * d
    BY <1>1, <2>1
  <2>3. PICK x \in Int, y \in Int : x = p * d /\ y = q * d
    BY <1>1
  <2>4. QED
    BY <1>1, <1>2, <2>2, <2>3
<1>3. ASSUME q * d <= a, a < q * d + d, q < p
      PROVE  FALSE
  <2>1. (q + 1) * d <= p * d
    BY <1>1, <1>3
  <2>2. q * d + d <= p * d
    BY <1>1, <2>1
  <2>3. PICK x \in Int, y \in Int : x = p * d /\ y = q * d
    BY <1>1
  <2>4. QED
    BY <1>1, <1>3, <2>2, <2>3
<1>4. QED
  BY <1>1, <1>2, <1>3

LEMMA FactorIs ==
  ASSUME NEW p \in Int, NEW q \in Int, NEW d \in Nat, d # 0, p * d = q * d
  PROVE  p = q
  OBVIOUS

\* The rows of a bucket are those of its interval.
LEMMA BucketInterval ==
  ASSUME StateOK, NEW r \in stored, NEW z \in stored
  PROVE  Bucket(r) = Bucket(z) <=> Bucket(z) <= r.ts /\ r.ts < Bucket(z) + req.interval
<1>1. PICK d \in Nat, a \in Int, c \in Int : d = req.interval /\ d # 0 /\ a = r.ts /\ c = z.ts
  BY DEF StateOK, RowSet
<1>2. PICK q \in Int, p \in Int : q = c \div d /\ p = a \div d
  BY <1>1, Quotient
<1>3. Bucket(r) = p * d /\ Bucket(z) = q * d
  BY <1>1, <1>2 DEF Bucket
<1>4. p = q <=> q * d <= a /\ a < q * d + d
  BY <1>1, <1>2, QuotientIs
<1>5. p * d = q * d <=> p = q
  BY <1>1, <1>2, FactorIs
<1>6. QED
  BY <1>1, <1>3, <1>4, <1>5

InBucket(S, b) == {r \in S : Bucket(r) = b}
BucketsOf(S) == {Bucket(r) : r \in S}
BucketCounts(S) == [b \in BucketsOf(S) |-> Cardinality(InBucket(S, b))]

\* Adding rows to the counts of others gives the counts of both.
LEMMA CountsAdd ==
  ASSUME NEW A, NEW B, IsFiniteSet(A), IsFiniteSet(B), A \cap B = {},
         NEW d, RowsOfDay(d) = B
  PROVE  HistogramDay(BucketCounts(A), d) = BucketCounts(A \cup B)
<1> DEFINE counts == BucketCounts(A)
<1>1. DOMAIN counts = BucketsOf(A)
  BY DEF BucketCounts
<1>2. BucketsOf(A \cup B) = BucketsOf(A) \cup BucketsOf(B)
  BY DEF BucketsOf
<1>3. ASSUME NEW b \in BucketsOf(A \cup B)
      PROVE  (IF b \in DOMAIN counts THEN counts[b] ELSE 0) + Cardinality(InBucket(B, b))
               = Cardinality(InBucket(A \cup B, b))
  <2>1. PICK X, Y, Z : X = InBucket(A, b) /\ Y = InBucket(B, b) /\ Z = InBucket(A \cup B, b)
    OBVIOUS
  <2>2. X \in SUBSET A /\ Y \in SUBSET B /\ Z = X \cup Y /\ X \cap Y = {}
    BY <2>1 DEF InBucket
  <2>3. IsFiniteSet(X) /\ IsFiniteSet(Y)
    <3>1. IsFiniteSet(X)
      BY <2>2, FS_Subset
    <3>2. IsFiniteSet(Y)
      BY <2>2, FS_Subset
    <3>3. QED
      BY <3>1, <3>2
  <2>4. Cardinality(X \cup Y) = Cardinality(X) + Cardinality(Y) - Cardinality(X \cap Y)
    BY <2>3, FS_Union
  <2>5. Cardinality(X \cap Y) = 0 /\ Cardinality(X) \in Nat /\ Cardinality(Y) \in Nat
    BY <2>2, <2>3, FS_EmptySet, FS_CardinalityType
  <2>6. Cardinality(Z) = Cardinality(X) + Cardinality(Y)
    BY <2>2, <2>4, <2>5
  <2>7. (IF b \in DOMAIN counts THEN counts[b] ELSE 0) = Cardinality(X)
    <3>1. CASE b \in BucketsOf(A)
      BY <1>1, <2>1, <3>1 DEF BucketCounts
    <3>2. CASE b \notin BucketsOf(A)
      <4>1. X = {}
        BY <2>1, <3>2 DEF InBucket, BucketsOf
      <4>2. QED
        BY <1>1, <3>2, <4>1, FS_EmptySet
    <3>3. QED
      BY <3>1, <3>2
  <2>8. QED
    BY <2>1, <2>6, <2>7
<1> HIDE DEF counts
<1>4. HistogramDay(counts, d) =
        [b \in DOMAIN counts \cup BucketsOf(B) |->
           (IF b \in DOMAIN counts THEN counts[b] ELSE 0) + Cardinality(InBucket(B, b))]
  BY DEF HistogramDay, BucketsOf, InBucket
<1>5. HistogramDay(counts, d) = [b \in BucketsOf(A \cup B) |-> Cardinality(InBucket(A \cup B, b))]
  BY <1>1, <1>2, <1>3, <1>4
<1>6. QED
  BY <1>5 DEF BucketCounts, counts

LEMMA HistogramCounts == StateOK => Histogram = BucketCounts(Matching)
<1> SUFFICES ASSUME StateOK
             PROVE  Histogram = BucketCounts(Matching)
  OBVIOUS
<1> DEFINE D == DaysDomain
           Step(f) == [s \in SUBSET D |-> IF s = {} THEN <<>>
                         ELSE HistogramDay(f[s \ {Max(s)}], DaysInRange[Max(s)])]
           it == CHOOSE f : f = Step(f)
           h == [s \in SUBSET D |-> BucketCounts(Picked(s))]
<1>1. Histogram = it[D]
  BY DEF Histogram, FoldLeft, MapThenFoldSet, DaysDomain
<1>2. \A s \in SUBSET D : s # {} => Max(s) \in s
  BY LastDay
<1> HIDE DEF D
<1>3. ASSUME NEW s \in SUBSET D, s # {}
      PROVE  h[s] = HistogramDay(h[s \ {Max(s)}], DaysInRange[Max(s)])
  <2>1. PICK m \in s : m = Max(s)
    BY <1>2, <1>3
  <2>2. PICK A, B, C : A = Picked(s \ {m}) /\ B = DayRows[m] /\ C = Picked(s)
    OBVIOUS
  <2>3. /\ C = A \cup B /\ A \cap B = {} /\ IsFiniteSet(A) /\ IsFiniteSet(B)
        /\ RowsOfDay(DaysInRange[m]) = B
    BY <2>2, PickedIsOK DEF PickedOK, D
  <2>4. HistogramDay(BucketCounts(A), DaysInRange[m]) = BucketCounts(C)
    BY <2>3, CountsAdd
  <2>5. h[s] = BucketCounts(C) /\ h[s \ {m}] = BucketCounts(A)
    BY <2>2
  <2> HIDE DEF h
  <2>6. QED
    BY <2>1, <2>4, <2>5
<1>4. h[{}] = <<>>
  <2>1. Picked({}) = {}
    BY PickedIsOK DEF PickedOK
  <2>2. BucketsOf({}) = {}
    BY DEF BucketsOf
  <2>3. BucketCounts({}) = [b \in {} |-> Cardinality(InBucket({}, b))]
    BY <2>2 DEF BucketCounts
  <2>4. BucketCounts({}) = <<>>
    BY <2>3
  <2>5. QED
    BY <2>1, <2>4
<1>5. h = [s \in SUBSET D |-> h[s]]
  OBVIOUS
<1> HIDE DEF h
<1>6. h = Step(h)
  BY <1>3, <1>4, <1>5
<1>7. it = Step(it)
  <2> HIDE DEF Step
  <2>1. QED
    BY <1>6
<1> HIDE DEF it
<1>8. /\ it[{}] = <<>>
      /\ \A s \in SUBSET D : s # {} =>
           it[s] = HistogramDay(it[s \ {Max(s)}], DaysInRange[Max(s)])
  BY <1>7
<1>9. Stepwise(it, h)
  BY <1>3, <1>4, <1>8 DEF Stepwise, D
<1>10. it[D] = h[D]
  BY <1>9, FoldsAgree DEF D
<1>11. h[D] = BucketCounts(Matching)
  BY PickedIsOK DEF PickedOK, h, D
<1>12. QED
  BY <1>1, <1>10, <1>11

LEMMA HistogramOfUnion == StateOK => BucketsOfUnion
<1> SUFFICES ASSUME StateOK
             PROVE  BucketsOfUnion
  OBVIOUS
<1>1. Histogram = BucketCounts(Matching)
  BY HistogramCounts
<1>2. DOMAIN Histogram = {Bucket(r) : r \in Matching}
  BY <1>1 DEF BucketCounts, BucketsOf
<1>3. ASSUME NEW b \in DOMAIN Histogram
      PROVE  Histogram[b]
               = Cardinality({r \in Matching : b <= r.ts /\ r.ts < b + req.interval})
  <2>1. PICK z \in Matching : b = Bucket(z)
    BY <1>2
  <2>2. \A r \in Matching : r \in stored
    BY DEF Matching
  <2>3. \A r \in Matching : Bucket(r) = b <=> b <= r.ts /\ r.ts < b + req.interval
    BY <2>1, <2>2, BucketInterval
  <2>4. InBucket(Matching, b) = {r \in Matching : b <= r.ts /\ r.ts < b + req.interval}
    BY <2>3 DEF InBucket
  <2>5. Histogram[b] = Cardinality(InBucket(Matching, b))
    BY <1>1, <1>2, <1>3 DEF BucketCounts, BucketsOf
  <2>6. QED
    BY <2>4, <2>5
<1>4. QED
  BY <1>2, <1>3 DEF BucketsOfUnion

-----------------------------------------------------------------------------
(* Sums, least and greatest values.                                         *)

\* f and g agree on some of S if they do on those but one.
Peels(f, g, S) ==
  /\ f[{}] = g[{}]
  /\ \A T \in SUBSET S :
       T # {} /\ f[T \ {Some(T)}] = g[T \ {Some(T)}] => f[T] = g[T]

LEMMA PeelsToTheEnd ==
  ASSUME NEW S, IsFiniteSet(S), NEW f, NEW g, Peels(f, g, S)
  PROVE  f[S] = g[S]
<1> DEFINE Small == {k \in Nat : \A T \in SUBSET S : Cardinality(T) <= k => f[T] = g[T]}
<1>1. \A T \in SUBSET S : IsFiniteSet(T) /\ Cardinality(T) \in Nat
  <2> HIDE DEF Small
  <2> SUFFICES ASSUME NEW T \in SUBSET S
               PROVE  IsFiniteSet(T) /\ Cardinality(T) \in Nat
    OBVIOUS
  <2>1. IsFiniteSet(T)
    BY FS_Subset
  <2>2. QED
    BY <2>1, FS_CardinalityType
<1>2. 0 \in Small
  <2>1. \A T \in SUBSET S : Cardinality(T) <= 0 => T = {}
    BY <1>1, FS_EmptySet
  <2>2. QED
    BY <2>1 DEF Peels
<1>3. ASSUME NEW k \in Nat, k \in Small
      PROVE  k + 1 \in Small
  <2> SUFFICES ASSUME NEW T \in SUBSET S, Cardinality(T) <= k + 1
               PROVE  f[T] = g[T]
    OBVIOUS
  <2>1. CASE T = {}
    BY <2>1 DEF Peels
  <2>2. CASE T # {}
    <3>1. Some(T) \in T
      BY <2>2 DEF Some
    <3>2. Cardinality(T \ {Some(T)}) = Cardinality(T) - 1
      BY <1>1, <3>1, FS_RemoveElement
    <3>3. T \ {Some(T)} \in SUBSET S /\ Cardinality(T \ {Some(T)}) <= k
      BY <1>1, <3>2
    <3>4. f[T \ {Some(T)}] = g[T \ {Some(T)}]
      BY <1>3, <3>3
    <3>5. QED
      BY <2>2, <3>4 DEF Peels
  <2>3. QED
    BY <2>1, <2>2
<1> HIDE DEF Small
<1>4. 0..Cardinality(S) \subseteq Small
  BY <1>1, <1>2, <1>3, UpTo
<1>5. Cardinality(S) \in Small
  BY <1>1, <1>4
<1>6. QED
  BY <1>1, <1>5 DEF Small

\* What rows add to a sum, and what they take from it.
Gains == [r \in stored |-> IF r.val # Null /\ r.val >= 0 THEN r.val ELSE 0]
Losses == [r \in stored |-> IF r.val # Null /\ r.val < 0 THEN 0 - r.val ELSE 0]
Net(S) == Total(Gains, S) - Total(Losses, S)

GainsOK ==
  \A r \in stored : /\ Gains[r] \in Nat /\ Losses[r] \in Nat
                    /\ (r.val # Null => r.val \in Int /\ Gains[r] - Losses[r] = r.val)

LEMMA GainsAreOK == StateOK => GainsOK
<1> SUFFICES ASSUME StateOK, NEW r \in stored
             PROVE  /\ Gains[r] \in Nat /\ Losses[r] \in Nat
                    /\ (r.val # Null => r.val \in Int /\ Gains[r] - Losses[r] = r.val)
  BY DEF GainsOK
<1>1. r.val = Null \/ r.val \in Int
  BY DEF StateOK
<1>2. /\ Gains[r] = IF r.val # Null /\ r.val >= 0 THEN r.val ELSE 0
      /\ Losses[r] = IF r.val # Null /\ r.val < 0 THEN 0 - r.val ELSE 0
  BY DEF Gains, Losses
<1>3. CASE r.val = Null
  BY <1>2, <1>3
<1>4. CASE r.val # Null
  BY <1>1, <1>2, <1>4
<1>5. QED
  BY <1>3, <1>4

LEMMA NetType ==
  ASSUME StateOK, NEW S \in SUBSET stored
  PROVE  IsFiniteSet(S) /\ Total(Gains, S) \in Nat /\ Total(Losses, S) \in Nat /\ Net(S) \in Int
<1>1. IsFiniteSet(stored)
  BY DEF StateOK, RowSet
<1>2. \A r \in stored : Gains[r] \in Nat
  BY GainsAreOK DEF GainsOK
<1>3. \A r \in stored : Losses[r] \in Nat
  BY GainsAreOK DEF GainsOK
<1>4. Total(Gains, S) \in Nat
  BY <1>1, <1>2, TotalType
<1>5. Total(Losses, S) \in Nat
  BY <1>1, <1>3, TotalType
<1>6. IsFiniteSet(S)
  BY <1>1, FS_Subset
<1>7. QED
  BY <1>4, <1>5, <1>6 DEF Net

LEMMA NetUnion ==
  ASSUME StateOK, NEW S \in SUBSET stored, NEW T \in SUBSET stored, S \cap T = {}
  PROVE  Net(S \cup T) = Net(S) + Net(T)
<1>1. \A r \in S \cup T : Gains[r] \in Nat
  BY GainsAreOK DEF GainsOK
<1>2. \A r \in S \cup T : Losses[r] \in Nat
  BY GainsAreOK DEF GainsOK
<1>3. IsFiniteSet(S) /\ Total(Gains, S) \in Nat /\ Total(Losses, S) \in Nat
  BY NetType
<1>4. IsFiniteSet(T) /\ Total(Gains, T) \in Nat /\ Total(Losses, T) \in Nat
  BY NetType
<1>5. Total(Gains, S \cup T) = Total(Gains, S) + Total(Gains, T)
  BY <1>1, <1>3, <1>4, TotalUnion
<1>6. Total(Losses, S \cup T) = Total(Losses, S) + Total(Losses, T)
  BY <1>2, <1>3, <1>4, TotalUnion
<1>7. QED
  BY <1>3, <1>4, <1>5, <1>6 DEF Net

LEMMA NetSplit ==
  ASSUME StateOK, NEW S \in SUBSET stored, NEW r \in S, r.val # Null
  PROVE  Net(S) = r.val + Net(S \ {r})
<1>1. \A x \in S : Gains[x] \in Nat
  BY GainsAreOK DEF GainsOK
<1>2. \A x \in S : Losses[x] \in Nat
  BY GainsAreOK DEF GainsOK
<1>3. IsFiniteSet(S)
  BY NetType
<1>4. Total(Gains, S) = Gains[r] + Total(Gains, S \ {r})
  BY <1>1, <1>3, TotalSplit
<1>5. Total(Losses, S) = Losses[r] + Total(Losses, S \ {r})
  BY <1>2, <1>3, TotalSplit
<1>6. PICK R : R = S \ {r}
  OBVIOUS
<1>7. Total(Gains, R) \in Nat /\ Total(Losses, R) \in Nat
  BY <1>6, NetType
<1>8. /\ Gains[r] \in Nat /\ Losses[r] \in Nat /\ r.val \in Int
      /\ Gains[r] - Losses[r] = r.val
  BY GainsAreOK DEF GainsOK
<1>9. QED
  BY <1>4, <1>5, <1>6, <1>7, <1>8 DEF Net

\* The model's sum over rows is their gains less their losses.
LEMMA SumIsNet ==
  ASSUME StateOK, NEW S \in SUBSET stored
  PROVE  SumOf(S) = Net(Valued(S))
<1> DEFINE W == Valued(S)
           Step(f) == [T \in SUBSET W |-> IF T = {} THEN 0
                         ELSE (CHOOSE x \in T : TRUE).val + f[T \ {CHOOSE x \in T : TRUE}]]
           it == CHOOSE f : f = Step(f)
           g == [T \in SUBSET W |-> Net(T)]
<1>1. SumOf(S) = it[W]
  BY DEF SumOf, MapThenSumSet, MapThenFoldSet
<1>2. W \in SUBSET stored /\ \A r \in W : r.val # Null
  BY DEF Valued
<1> HIDE DEF W
<1>3. ASSUME NEW T \in SUBSET W, T # {}
      PROVE  g[T] = Some(T).val + g[T \ {Some(T)}]
  <2>1. PICK r \in T : r = Some(T)
    BY <1>3 DEF Some
  <2>2. T \in SUBSET stored /\ r.val # Null
    BY <1>2
  <2>3. Net(T) = r.val + Net(T \ {r})
    BY <2>2, NetSplit
  <2>4. g[T] = Net(T) /\ g[T \ {r}] = Net(T \ {r})
    OBVIOUS
  <2> HIDE DEF g
  <2>5. QED
    BY <2>1, <2>3, <2>4
<1>4. g[{}] = 0
  BY TotalEmpty DEF Net
<1>5. g = [T \in SUBSET W |-> g[T]]
  OBVIOUS
<1> HIDE DEF g
<1>6. g = Step(g)
  BY <1>3, <1>4, <1>5 DEF Some
<1>7. it = Step(it)
  <2> HIDE DEF Step
  <2>1. QED
    BY <1>6
<1> HIDE DEF it
<1>8. it[{}] = 0 /\ \A T \in SUBSET W : T # {} => it[T] = Some(T).val + it[T \ {Some(T)}]
  BY <1>7 DEF Some
<1>9. Peels(it, g, W)
  BY <1>3, <1>4, <1>8 DEF Peels
<1>10. IsFiniteSet(W)
  BY <1>2, NetType
<1>11. it[W] = g[W]
  BY <1>9, <1>10, PeelsToTheEnd
<1>12. QED
  BY <1>1, <1>11 DEF g, W

LEMMA SumsAdd ==
  ASSUME StateOK, NEW S \in SUBSET stored, NEW T \in SUBSET stored, S \cap T = {}
  PROVE  /\ SumOf(S) \in Int /\ SumOf(T) \in Int
         /\ SumOf(S \cup T) = SumOf(S) + SumOf(T)
<1>1. Valued(S) \in SUBSET stored /\ Valued(T) \in SUBSET stored /\ Valued(S) \cap Valued(T) = {}
  BY DEF Valued
<1>2. Valued(S \cup T) = Valued(S) \cup Valued(T)
  BY DEF Valued
<1>3. Net(Valued(S) \cup Valued(T)) = Net(Valued(S)) + Net(Valued(T))
  BY <1>1, NetUnion
<1>4. Net(Valued(S)) \in Int /\ Net(Valued(T)) \in Int
  BY <1>1, NetType
<1>5. SumOf(S) = Net(Valued(S)) /\ SumOf(T) = Net(Valued(T))
  BY SumIsNet
<1>6. S \cup T \in SUBSET stored
  OBVIOUS
<1>7. SumOf(S \cup T) = Net(Valued(S \cup T))
  BY <1>6, SumIsNet
<1>8. QED
  BY <1>2, <1>3, <1>4, <1>5, <1>7

LEMMA SumOfNone == StateOK => SumOf({}) = 0
<1> SUFFICES ASSUME StateOK
             PROVE  SumOf({}) = 0
  OBVIOUS
<1>1. {} \in SUBSET stored
  OBVIOUS
<1>2. SumOf({}) = Net(Valued({}))
  BY <1>1, SumIsNet
<1>3. Valued({}) = {}
  BY DEF Valued
<1>4. QED
  BY <1>2, <1>3, TotalEmpty DEF Net

\* A finite set of numbers has a least and a greatest.
LEMMA Extremes ==
  ASSUME NEW V, IsFiniteSet(V), V \subseteq Int, V # {}
  PROVE  /\ Min(V) \in V /\ \A x \in V : Min(V) <= x
         /\ Max(V) \in V /\ \A x \in V : x <= Max(V)
<1> DEFINE Q == {T \in SUBSET V : T = {} \/ /\ \E m \in T : \A x \in T : m <= x
                                            /\ \E m \in T : \A x \in T : m >= x}
<1>1. ASSUME NEW T \in SUBSET V, NEW y \in V \ T, T \in Q
      PROVE  T \cup {y} \in Q
  <2>1. CASE T = {}
    <3>1. T \cup {y} = {y} /\ y <= y /\ y >= y
      BY <2>1
    <3>2. QED
      BY <3>1
  <2>2. CASE T # {}
    <3>1. PICK m \in T : \A x \in T : m <= x
      BY <1>1, <2>2
    <3>2. PICK w \in T : \A x \in T : w >= x
      BY <1>1, <2>2
    <3>3. m \in Int /\ w \in Int /\ y \in Int /\ \A x \in T : x \in Int
      OBVIOUS
    <3>4. \E z \in T \cup {y} : \A x \in T \cup {y} : z <= x
      <4>1. CASE m <= y
        BY <3>1, <4>1
      <4>2. CASE ~(m <= y)
        <5>1. \A x \in T \cup {y} : y <= x
          BY <3>1, <3>3, <4>2
        <5>2. QED
          BY <5>1
      <4>3. QED
        BY <4>1, <4>2
    <3>5. \E z \in T \cup {y} : \A x \in T \cup {y} : z >= x
      <4>1. CASE w >= y
        BY <3>2, <4>1
      <4>2. CASE ~(w >= y)
        <5>1. \A x \in T \cup {y} : y >= x
          BY <3>2, <3>3, <4>2
        <5>2. QED
          BY <5>1
      <4>3. QED
        BY <4>1, <4>2
    <3>6. QED
      BY <3>4, <3>5
  <2>3. QED
    BY <2>1, <2>2
<1>2. {} \in Q
  OBVIOUS
<1> HIDE DEF Q
<1>3. SUBSET V \subseteq Q
  BY <1>1, <1>2, OverSubsets
<1>4. V \in Q
  BY <1>3
<1>5. (\E m \in V : \A x \in V : m <= x) /\ (\E m \in V : \A x \in V : m >= x)
  BY <1>4 DEF Q
<1>6. Min(V) \in V /\ \A x \in V : Min(V) <= x
  BY <1>5 DEF Min
<1>7. Max(V) \in V /\ \A x \in V : Max(V) >= x
  BY <1>5 DEF Max
<1>8. \A x \in V : x \in Int
  OBVIOUS
<1>9. QED
  BY <1>6, <1>7, <1>8

\* The values of some rows, and those of more.
LEMMA ValuesFinite ==
  ASSUME StateOK, NEW S \in SUBSET stored
  PROVE  IsFiniteSet(Values(S)) /\ Values(S) \subseteq Int /\ (Values(S) = {} <=> Valued(S) = {})
<1>1. PICK A, B, f : A = Valued(S) /\ B = Values(S) /\ f = [r \in A |-> r.val]
  OBVIOUS
<1>2. f \in Surjection(A, B)
  <2>1. f \in [A -> B]
    BY <1>1 DEF Values
  <2>2. \A v \in B : \E r \in A : f[r] = v
    BY <1>1 DEF Values
  <2>3. QED
    BY <2>1, <2>2 DEF Surjection
<1>3. A \in SUBSET stored
  BY <1>1 DEF Valued
<1>4. IsFiniteSet(A)
  BY <1>3, NetType
<1>5. IsFiniteSet(B)
  BY <1>2, <1>4, FS_Surjection
<1>6. B \subseteq Int
  BY <1>1, <1>3 DEF Values, Valued, StateOK
<1>7. QED
  BY <1>1, <1>5, <1>6 DEF Values

LEMMA ExtremesOfMore ==
  ASSUME StateOK, NEW S \in SUBSET stored, NEW T \in SUBSET stored,
         Valued(S) # {}, Valued(T) # {}
  PROVE  /\ Min(Values(S)) \in Int /\ Min(Values(T)) \in Int
         /\ Max(Values(S)) \in Int /\ Max(Values(T)) \in Int
         /\ Min(Values(S \cup T)) = IF Min(Values(T)) < Min(Values(S)) THEN Min(Values(T))
                                    ELSE Min(Values(S))
         /\ Max(Values(S \cup T)) = IF Max(Values(T)) > Max(Values(S)) THEN Max(Values(T))
                                    ELSE Max(Values(S))
<1>1. PICK A, B, C : A = Values(S) /\ B = Values(T) /\ C = Values(S \cup T)
  OBVIOUS
<1>2. C = A \cup B
  BY <1>1 DEF Values, Valued
<1>3. IsFiniteSet(A) /\ A \subseteq Int /\ A # {}
  BY <1>1, ValuesFinite
<1>4. IsFiniteSet(B) /\ B \subseteq Int /\ B # {}
  BY <1>1, ValuesFinite
<1>5. S \cup T \in SUBSET stored
  OBVIOUS
<1>6. IsFiniteSet(C) /\ C \subseteq Int /\ C # {}
  BY <1>1, <1>2, <1>3, <1>5, ValuesFinite
<1>7. /\ Min(A) \in A /\ \A x \in A : Min(A) <= x
      /\ Max(A) \in A /\ \A x \in A : x <= Max(A)
  BY <1>3, Extremes
<1>8. /\ Min(B) \in B /\ \A x \in B : Min(B) <= x
      /\ Max(B) \in B /\ \A x \in B : x <= Max(B)
  BY <1>4, Extremes
<1>9. /\ Min(C) \in C /\ \A x \in C : Min(C) <= x
      /\ Max(C) \in C /\ \A x \in C : x <= Max(C)
  BY <1>6, Extremes
<1>10. PICK a \in Int, b \in Int, c \in Int : a = Min(A) /\ b = Min(B) /\ c = Min(C)
  BY <1>3, <1>4, <1>6, <1>7, <1>8, <1>9
<1>11. c <= a /\ c <= b /\ (c \in A \/ c \in B) /\ (c \in A => a <= c) /\ (c \in B => b <= c)
  BY <1>2, <1>7, <1>8, <1>9, <1>10
<1>12. c = IF b < a THEN b ELSE a
  BY <1>10, <1>11
<1>13. PICK p \in Int, q \in Int, s \in Int : p = Max(A) /\ q = Max(B) /\ s = Max(C)
  BY <1>3, <1>4, <1>6, <1>7, <1>8, <1>9
<1>14. p <= s /\ q <= s /\ (s \in A \/ s \in B) /\ (s \in A => s <= p) /\ (s \in B => s <= q)
  BY <1>2, <1>7, <1>8, <1>9, <1>13
<1>15. s = IF q > p THEN q ELSE p
  BY <1>13, <1>14
<1>16. QED
  BY <1>1, <1>10, <1>12, <1>13, <1>15

-----------------------------------------------------------------------------
(* The accumulators.                                                        *)

\* The accumulators after each day.
DayByDay(g) ==
  /\ g[0] = <<>>
  /\ \A k \in 1..Len(DaysInRange) : g[k] = AccumulateDay(g[k - 1], DaysInRange[k])

LEMMA AccumulatorsDayByDay ==
  StateOK => \E g : DayByDay(g) /\ Accumulators = g[Len(DaysInRange)]
<1> SUFFICES ASSUME StateOK
             PROVE  \E g : DayByDay(g) /\ Accumulators = g[Len(DaysInRange)]
  OBVIOUS
<1> DEFINE D == DaysDomain
           Step(X, f) == [s \in SUBSET X |-> IF s = {} THEN <<>>
                            ELSE AccumulateDay(f[s \ {Max(s)}], DaysInRange[Max(s)])]
           it == CHOOSE f : f = Step(D, f)
           T == {k \in Nat : \E f : f = Step(1..k, f)}
<1>1. Accumulators = it[D]
  BY DEF Accumulators, FoldLeft, MapThenFoldSet, DaysDomain
<1>2. PICK n \in Nat : n = Len(DaysInRange) /\ D = 1..n
  BY LastDay
<1> HIDE DEF D
<1>3. 0 \in T
  <2>1. PICK f : f = [s \in SUBSET (1..0) |-> <<>>]
    OBVIOUS
  <2>2. \A s \in SUBSET (1..0) : s = {}
    OBVIOUS
  <2>3. f = Step(1..0, f)
    BY <2>1, <2>2
  <2> HIDE DEF Step
  <2>4. QED
    BY <2>3
<1>4. ASSUME NEW k \in 0..(n - 1), k \in T
      PROVE  k + 1 \in T
  <2>1. PICK f : f = Step(1..k, f)
    BY <1>4
  <2>2. PICK j \in Nat : j = k + 1
    OBVIOUS
  <2>3. PICK X, Y : X = 1..k /\ Y = 1..j
    OBVIOUS
  <2>4. Y = X \cup {j} /\ j \notin X
    BY <2>2, <2>3
  <2>5. \A s \in SUBSET Y : s # {} => Max(s) \in s /\ (j \in s => Max(s) = j)
    <3> SUFFICES ASSUME NEW s \in SUBSET Y, s # {}
                 PROVE  Max(s) \in s /\ (j \in s => Max(s) = j)
      OBVIOUS
    <3>1. s \in SUBSET (1..j)
      BY <2>3
    <3>2. PICK m : m = Max(s) /\ m \in s /\ \A x \in s : x <= m
      BY <3>1, MaxIsGreatest
    <3>3. m \in 1..j
      BY <3>1, <3>2
    <3>4. j \in s => m = j
      BY <3>2, <3>3
    <3>5. QED
      BY <3>2, <3>4
  <2>6. \A s \in SUBSET X : f[s] = IF s = {} THEN <<>>
                              ELSE AccumulateDay(f[s \ {Max(s)}], DaysInRange[Max(s)])
    BY <2>1, <2>3
  <2>7. PICK g : g = [s \in SUBSET Y |-> IF j \notin s THEN f[s]
                        ELSE AccumulateDay(f[s \ {j}], DaysInRange[j])]
    OBVIOUS
  <2>8. ASSUME NEW s \in SUBSET Y
        PROVE  g[s] = IF s = {} THEN <<>>
                      ELSE AccumulateDay(g[s \ {Max(s)}], DaysInRange[Max(s)])
    <3>1. CASE s = {}
      <4>1. g[s] = f[s] /\ s \in SUBSET X
        BY <2>7, <3>1
      <4>2. QED
        BY <2>6, <3>1, <4>1
    <3>2. CASE s # {} /\ j \notin s
      <4>1. s \in SUBSET X /\ s \ {Max(s)} \in SUBSET Y /\ j \notin s \ {Max(s)}
        BY <2>4, <3>2
      <4>2. g[s] = f[s] /\ g[s \ {Max(s)}] = f[s \ {Max(s)}]
        BY <2>7, <3>2, <4>1
      <4>3. QED
        BY <2>6, <3>2, <4>1, <4>2
    <3>3. CASE j \in s
      <4>1. Max(s) = j /\ s \ {j} \in SUBSET Y /\ j \notin s \ {j}
        BY <2>5, <3>3
      <4>2. g[s] = AccumulateDay(f[s \ {j}], DaysInRange[j]) /\ g[s \ {j}] = f[s \ {j}]
        BY <2>7, <3>3, <4>1
      <4>3. QED
        BY <3>3, <4>1, <4>2
    <3>4. QED
      BY <3>1, <3>2, <3>3
  <2>9. g = [s \in SUBSET Y |-> g[s]]
    BY <2>7
  <2>10. g = Step(Y, g)
    BY <2>8, <2>9
  <2>11. k + 1 \in Nat /\ Y = 1..(k + 1)
    BY <2>2, <2>3
  <2> HIDE DEF Step
  <2>12. \E h : h = Step(1..(k + 1), h)
    BY <2>10, <2>11
  <2>13. QED
    BY <2>11, <2>12
<1>5. n \in T
  <2> HIDE DEF T
  <2>1. 0..n \subseteq T
    BY <1>3, <1>4, UpTo
  <2>2. QED
    BY <2>1
<1>6. it = Step(D, it)
  <2> HIDE DEF Step
  <2>1. \E f : f = Step(D, f)
    BY <1>2, <1>5
  <2>2. QED
    BY <2>1
<1> HIDE DEF it, T
<1>7. \A s \in SUBSET D : it[s] = IF s = {} THEN <<>>
                             ELSE AccumulateDay(it[s \ {Max(s)}], DaysInRange[Max(s)])
  BY <1>6
<1>8. PICK g : g = [k \in 0..n |-> it[1..k]]
  OBVIOUS
<1>9. g[0] = <<>>
  <2>1. 1..0 = {} /\ {} \in SUBSET D
    OBVIOUS
  <2>2. it[{}] = <<>>
    BY <1>7, <2>1
  <2>3. QED
    BY <1>8, <2>1, <2>2
<1>10. ASSUME NEW k \in 1..n
       PROVE  g[k] = AccumulateDay(g[k - 1], DaysInRange[k])
  <2>1. Max(1..k) = k /\ (1..k) \ {k} = 1..(k - 1)
    BY MaxOfPrefix
  <2>2. 1..k \in SUBSET D /\ k \in 1..k
    BY <1>2
  <2>3. PICK s, t : s = 1..k /\ t = 1..(k - 1)
    OBVIOUS
  <2>4. s \in SUBSET D /\ s # {} /\ s \ {Max(s)} = t /\ Max(s) = k
    BY <2>1, <2>2, <2>3
  <2>5. it[s] = AccumulateDay(it[t], DaysInRange[k])
    BY <1>7, <2>4
  <2>6. k \in 0..n /\ k - 1 \in 0..n
    OBVIOUS
  <2>7. g[k] = it[s] /\ g[k - 1] = it[t]
    BY <1>8, <2>3, <2>6
  <2>8. QED
    BY <2>5, <2>7
<1>11. Accumulators = g[n]
  BY <1>1, <1>2, <1>8
<1>12. QED
  BY <1>2, <1>9, <1>10, <1>11 DEF DayByDay

\* The average of n rows times n is their sum, as Scale can be divided by n.
LEMMA AverageTimesCount ==
  ASSUME NEW n \in Nat, n # 0, NEW m \in Nat, m % n = 0, NEW x \in Int
  PROVE  (m * x) \div n \in Int /\ ((m * x) \div n) * n = m * x
<1>1. PICK c \in Int : c = m \div n /\ m = c * n
  OBVIOUS
<1>2. PICK p \in Int : p = c * x
  BY <1>1
<1>3. PICK a \in Int : a = m * x
  OBVIOUS
<1>4. a = p * n
  BY <1>1, <1>2, <1>3
<1>5. PICK b \in Int : b = p * n
  BY <1>2
<1>6. a \div n = p <=> p * n <= a /\ a < p * n + n
  BY <1>2, <1>3, QuotientIs
<1>7. p * n <= a /\ a < p * n + n
  BY <1>3, <1>4, <1>5
<1>8. a \div n = p
  BY <1>6, <1>7
<1>9. QED
  BY <1>2, <1>3, <1>4, <1>8

DayValueOK(S) ==
  /\ DayValue(S) \in Int /\ Cardinality(S) \in Nat
  /\ req.metric = "count" => DayValue(S) = Scale * Cardinality(S)
  /\ req.metric = "sum" => DayValue(S) = Scale * SumOf(S)
  /\ req.metric = "avg" /\ Valued(S) = S =>
       DayValue(S) * Cardinality(S) = Scale * SumOf(S)
  /\ req.metric = "min" /\ Valued(S) # {} => DayValue(S) = Scale * Min(Values(S))
  /\ req.metric = "max" /\ Valued(S) # {} => DayValue(S) = Scale * Max(Values(S))

\* What a day answers for a group.
LEMMA DayValueIsOK ==
  ASSUME StateOK, NEW S \in SUBSET stored
  PROVE  DayValueOK(S)
<1>1. /\ req.metric \in {"count", "sum", "avg", "min", "max"} /\ Scale \in Nat
      /\ \A n \in 1..Cardinality(stored) : Scale % n = 0
  BY DEF StateOK
<1>2. IsFiniteSet(S) /\ Cardinality(S) \in Nat /\ IsFiniteSet(stored)
  <2>1. IsFiniteSet(S) /\ IsFiniteSet(stored)
    BY NetType DEF StateOK, RowSet
  <2>2. QED
    BY <2>1, FS_CardinalityType
<1>3. Valued(S) \in SUBSET S /\ Valued(S) \in SUBSET stored
  BY DEF Valued
<1>4. PICK V : V = Valued(S)
  OBVIOUS
<1>5. IsFiniteSet(V) /\ Cardinality(V) \in Nat /\ Cardinality(V) <= Cardinality(stored)
  <2>1. IsFiniteSet(V) /\ Cardinality(V) <= Cardinality(stored)
    BY <1>2, <1>3, <1>4, FS_Subset
  <2>2. QED
    BY <2>1, FS_CardinalityType
<1>6. SumOf(S) \in Int
  BY <1>3, SumIsNet, NetType
<1>7. Valued(S) = {} => SumOf(S) = 0
  BY SumIsNet, TotalEmpty DEF Net
<1>8. Valued(S) # {} => Min(Values(S)) \in Int /\ Max(Values(S)) \in Int
  BY ExtremesOfMore
<1>9. PICK c \in Nat, x \in Int, m \in Nat : c = Cardinality(S) /\ x = SumOf(S) /\ m = Scale
  BY <1>1, <1>2, <1>6
<1>10. CASE req.metric = "count"
  <2>1. DayValue(S) = m * c
    <3>1. DayValue(S) = Scale * Cardinality(S)
      BY <1>10 DEF DayValue
    <3>2. QED
      BY <1>9, <3>1
  <2>2. m * c \in Int
    BY <1>9
  <2>3. QED
    BY <1>9, <1>10, <2>1, <2>2 DEF DayValueOK
<1>11. CASE req.metric # "count" /\ Valued(S) = {}
  <2>1. DayValue(S) = 0 /\ x = 0 /\ m * x = 0
    <3>1. DayValue(S) = 0
      BY <1>11 DEF DayValue
    <3>2. x = 0
      BY <1>7, <1>9, <1>11
    <3>3. QED
      BY <1>9, <3>1, <3>2
  <2>2. Valued(S) = S => c = 0
    BY <1>9, <1>11, FS_EmptySet
  <2>3. QED
    BY <1>9, <1>11, <2>1, <2>2 DEF DayValueOK
<1>12. CASE req.metric = "sum" /\ Valued(S) # {}
  <2>1. DayValue(S) = m * x
    BY <1>9, <1>12 DEF DayValue
  <2>2. m * x \in Int
    BY <1>9
  <2>3. QED
    BY <1>9, <1>12, <2>1, <2>2 DEF DayValueOK
<1>13. CASE req.metric = "avg" /\ Valued(S) # {}
  <2>1. PICK n \in Nat : n = Cardinality(V) /\ n # 0 /\ n \in 1..Cardinality(stored)
    <3>1. Cardinality(V) # 0
      BY <1>4, <1>5, <1>13, FS_EmptySet
    <3>2. Cardinality(stored) \in Nat
      BY <1>2, FS_CardinalityType
    <3>3. QED
      BY <1>5, <3>1, <3>2
  <2>2. DayValue(S) = (m * x) \div n
    BY <1>4, <1>9, <1>13, <2>1 DEF DayValue
  <2>3. m % n = 0
    BY <1>1, <1>9, <2>1
  <2>4. (m * x) \div n \in Int /\ ((m * x) \div n) * n = m * x
    BY <1>9, <2>1, <2>3, AverageTimesCount
  <2>5. Valued(S) = S => n = c
    BY <1>4, <1>9, <2>1
  <2>6. QED
    BY <1>9, <1>13, <2>2, <2>4, <2>5 DEF DayValueOK
<1>14. CASE req.metric = "min" /\ Valued(S) # {}
  <2>1. PICK y \in Int : y = Min(Values(S))
    BY <1>8, <1>14
  <2>2. DayValue(S) = m * y
    BY <1>9, <1>14, <2>1 DEF DayValue
  <2>3. m * y \in Int
    BY <1>9, <2>1
  <2>4. QED
    BY <1>9, <1>14, <2>1, <2>2, <2>3 DEF DayValueOK
<1>15. CASE req.metric = "max" /\ Valued(S) # {}
  <2>1. PICK y \in Int : y = Max(Values(S))
    BY <1>8, <1>15
  <2>2. DayValue(S) = m * y
    BY <1>9, <1>15, <2>1 DEF DayValue
  <2>3. m * y \in Int
    BY <1>9, <2>1
  <2>4. QED
    BY <1>9, <1>15, <2>1, <2>2, <2>3 DEF DayValueOK
<1>16. QED
  BY <1>1, <1>10, <1>11, <1>12, <1>13, <1>14, <1>15

Accums == [sum : Int, count : Int, mm : Int, hasMM : BOOLEAN]

Accumulated(b, a, v, c) ==
  /\ b \in Accums /\ b.count = a.count + c /\ b.hasMM = TRUE
  /\ b.sum = a.sum + (IF req.metric = "avg" THEN v * c ELSE v)
  /\ b.mm = IF \/ ~a.hasMM
               \/ req.metric = "min" /\ v < a.mm
               \/ req.metric = "max" /\ v > a.mm
            THEN v ELSE a.mm

LEMMA AccumulateIs ==
  ASSUME NEW a \in Accums, NEW v \in Int, NEW c \in Nat
  PROVE  Accumulated(Accumulate(a, v, c), a, v, c)
<1>1. PICK y \in Int : y = IF req.metric = "avg" THEN v * c ELSE v
  <2>1. v * c \in Int
    OBVIOUS
  <2>2. QED
    BY <2>1
<1>2. a.sum \in Int /\ a.count \in Int /\ a.mm \in Int /\ a.hasMM \in BOOLEAN
  BY DEF Accums
<1>3. PICK z \in Int : z = IF \/ ~a.hasMM
                              \/ req.metric = "min" /\ v < a.mm
                              \/ req.metric = "max" /\ v > a.mm
                           THEN v ELSE a.mm
  BY <1>2
<1>4. Accumulate(a, v, c) = [a EXCEPT !.sum = a.sum + y, !.count = a.count + c,
                                      !.mm = z, !.hasMM = TRUE]
  BY <1>1, <1>3 DEF Accumulate
<1>5. a.sum + y \in Int /\ a.count + c \in Int
  BY <1>1, <1>2
<1>6. PICK s \in Int, t \in Int : s = a.sum + y /\ t = a.count + c
  BY <1>5
<1>7. PICK b : b = [a EXCEPT !.sum = s, !.count = t, !.mm = z, !.hasMM = TRUE]
  OBVIOUS
<1>8. b \in Accums /\ b.sum = s /\ b.count = t /\ b.mm = z /\ b.hasMM = TRUE
  BY <1>3, <1>6, <1>7 DEF Accums
<1>9. Accumulate(a, v, c) = b
  BY <1>4, <1>6, <1>7
<1>10. QED
  BY <1>1, <1>3, <1>6, <1>8, <1>9 DEF Accumulated

\* The accumulator a has the sums of the rows U.
Sums(a, U) ==
  /\ a \in Accums /\ a.count = Cardinality(U)
  /\ req.metric = "count" => a.sum = Scale * Cardinality(U)
  /\ req.metric = "sum" => a.sum = Scale * SumOf(U)
  /\ req.metric = "avg" /\ Valued(U) = U => a.sum = Scale * SumOf(U)

\* It has their least or greatest value.
Best(a, U) ==
  /\ Valued(U) # {}
  /\ req.metric = "min" => a.mm = Scale * Min(Values(U))
  /\ req.metric = "max" => a.mm = Scale * Max(Values(U))

LEMMA SumsStep ==
  ASSUME StateOK, NEW U \in SUBSET stored, NEW S \in SUBSET stored, U \cap S = {},
         NEW a, Sums(a, U)
  PROVE  Sums(Accumulate(a, DayValue(S), Cardinality(S)), U \cup S)
<1>1. DayValueOK(S) /\ a \in Accums
  BY DayValueIsOK DEF Sums
<1>2. PICK v \in Int, c \in Nat, u \in Nat, m \in Nat :
        v = DayValue(S) /\ c = Cardinality(S) /\ u = Cardinality(U) /\ m = Scale
  <2>1. IsFiniteSet(U)
    BY NetType
  <2>2. Cardinality(U) \in Nat /\ Scale \in Nat
    BY <2>1, FS_CardinalityType DEF StateOK
  <2>3. QED
    BY <1>1, <2>2 DEF DayValueOK
<1>3. PICK b : b = Accumulate(a, v, c)
  OBVIOUS
<1>4. /\ b \in Accums /\ b.count = a.count + c
      /\ b.sum = a.sum + (IF req.metric = "avg" THEN v * c ELSE v)
  <2>1. Accumulated(b, a, v, c)
    BY <1>1, <1>2, <1>3, AccumulateIs
  <2>2. QED
    BY <2>1 DEF Accumulated
<1>5. Cardinality(U \cup S) = u + c
  <2>1. IsFiniteSet(U)
    BY NetType
  <2>2. IsFiniteSet(S)
    BY NetType
  <2>3. Cardinality(U \cup S) = Cardinality(U) + Cardinality(S) - Cardinality(U \cap S)
    BY <2>1, <2>2, FS_Union
  <2>4. Cardinality(U \cap S) = 0
    BY FS_EmptySet
  <2>5. QED
    BY <1>2, <2>3, <2>4
<1>6. PICK x \in Int, y \in Int :
        x = SumOf(U) /\ y = SumOf(S) /\ SumOf(U \cup S) = x + y
  BY SumsAdd
<1>7. /\ m * (u + c) = m * u + m * c /\ m * (x + y) = m * x + m * y
      /\ m * u \in Int /\ m * c \in Int /\ m * x \in Int /\ m * y \in Int /\ v * c \in Int
  BY <1>2, <1>6
<1>8. b.count = u + c
  BY <1>2, <1>4 DEF Sums
<1>9. req.metric = "count" => b.sum = m * (u + c)
  BY <1>1, <1>2, <1>4, <1>7 DEF Sums, DayValueOK
<1>10. req.metric = "sum" => b.sum = m * (x + y)
  BY <1>1, <1>2, <1>4, <1>6, <1>7 DEF Sums, DayValueOK
<1>11. ASSUME req.metric = "avg", Valued(U \cup S) = U \cup S
       PROVE  b.sum = m * (x + y)
  <2>1. Valued(U) = U /\ Valued(S) = S
    BY <1>11 DEF Valued
  <2>2. a.sum = m * x /\ v * c = m * y
    BY <1>1, <1>2, <1>6, <1>11, <2>1 DEF Sums, DayValueOK
  <2>3. QED
    BY <1>4, <1>7, <1>11, <2>2
<1>12. QED
  BY <1>2, <1>3, <1>4, <1>5, <1>6, <1>8, <1>9, <1>10, <1>11 DEF Sums

LEMMA BestStep ==
  ASSUME StateOK, NEW U \in SUBSET stored, NEW S \in SUBSET stored,
         NEW a \in Accums, Valued(S) # {}, IF a.hasMM THEN Best(a, U) ELSE U = {}
  PROVE  Best(Accumulate(a, DayValue(S), Cardinality(S)), U \cup S)
<1>1. PICK v \in Int, c \in Nat, m \in Nat :
        /\ v = DayValue(S) /\ c = Cardinality(S) /\ m = Scale /\ m # 0
        /\ req.metric = "min" => v = m * Min(Values(S))
        /\ req.metric = "max" => v = m * Max(Values(S))
  BY DayValueIsOK DEF StateOK, DayValueOK
<1>2. PICK b : b = Accumulate(a, v, c)
  OBVIOUS
<1>3. b.mm = IF \/ ~a.hasMM
                \/ req.metric = "min" /\ v < a.mm
                \/ req.metric = "max" /\ v > a.mm
             THEN v ELSE a.mm
  <2>1. Accumulated(b, a, v, c)
    BY <1>1, <1>2, AccumulateIs
  <2>2. QED
    BY <2>1 DEF Accumulated
<1>4. Valued(U \cup S) # {}
  BY DEF Valued
<1>5. CASE ~a.hasMM
  <2>1. U \cup S = S /\ b.mm = v
    BY <1>3, <1>5
  <2>2. QED
    BY <1>1, <1>2, <1>4, <2>1 DEF Best
<1>6. CASE a.hasMM
  <2>1. Best(a, U) /\ Valued(U) # {}
    BY <1>6 DEF Best
  <2>2. /\ Min(Values(U)) \in Int /\ Min(Values(S)) \in Int
        /\ Max(Values(U)) \in Int /\ Max(Values(S)) \in Int
        /\ Min(Values(U \cup S)) = IF Min(Values(S)) < Min(Values(U)) THEN Min(Values(S))
                                   ELSE Min(Values(U))
        /\ Max(Values(U \cup S)) = IF Max(Values(S)) > Max(Values(U)) THEN Max(Values(S))
                                   ELSE Max(Values(U))
    BY <2>1, ExtremesOfMore
  <2>3. CASE req.metric = "min"
    <3>1. PICK x \in Int, y \in Int : x = Min(Values(U)) /\ y = Min(Values(S))
      BY <2>2
    <3>2. a.mm = m * x /\ v = m * y
      BY <1>1, <2>1, <2>3, <3>1 DEF Best
    <3>3. m * y < m * x <=> y < x
      BY <1>1, <3>1
    <3>4. b.mm = IF y < x THEN v ELSE a.mm
      BY <1>3, <1>6, <2>3, <3>2, <3>3
    <3>5. Min(Values(U \cup S)) = IF y < x THEN y ELSE x
      BY <2>2, <3>1
    <3>6. b.mm = m * Min(Values(U \cup S))
      BY <3>2, <3>4, <3>5
    <3>7. QED
      BY <1>1, <1>2, <1>4, <2>3, <3>6 DEF Best
  <2>4. CASE req.metric = "max"
    <3>1. PICK x \in Int, y \in Int : x = Max(Values(U)) /\ y = Max(Values(S))
      BY <2>2
    <3>2. a.mm = m * x /\ v = m * y
      BY <1>1, <2>1, <2>4, <3>1 DEF Best
    <3>3. m * y > m * x <=> y > x
      BY <1>1, <3>1
    <3>4. b.mm = IF y > x THEN v ELSE a.mm
      BY <1>3, <1>6, <2>4, <3>2, <3>3
    <3>5. Max(Values(U \cup S)) = IF y > x THEN y ELSE x
      BY <2>2, <3>1
    <3>6. b.mm = m * Max(Values(U \cup S))
      BY <3>2, <3>4, <3>5
    <3>7. QED
      BY <1>1, <1>2, <1>4, <2>4, <3>6 DEF Best
  <2>5. CASE req.metric # "min" /\ req.metric # "max"
    BY <1>4, <2>5 DEF Best
  <2>6. QED
    BY <2>3, <2>4, <2>5
<1>7. QED
  BY <1>5, <1>6

OfKey(S, k) == {r \in S : Key(r) = k}
AccAt(acc, k) == IF k \in DOMAIN acc THEN acc[k] ELSE NoAccum

\* Every one of the first i days that answers for the group has a value for it.
Answered(i, k) ==
  \A j \in 1..i : k \in DayKeys(DaysInRange[j]) => Valued(OfKey(DayRows[j], k)) # {}

\* After the first i days the accumulator of a group stands for its rows of those days.
Stands(acc, i, k) ==
  LET a == AccAt(acc, k)
      U == OfKey(Picked(1..i), k)
  IN /\ Sums(a, U) /\ (k \in DOMAIN acc <=> a.hasMM)
     /\ ~a.hasMM => U = {}
     /\ a.hasMM /\ Answered(i, k) => Best(a, U)

LEMMA NothingStands ==
  ASSUME StateOK, NEW k
  PROVE  Stands(<<>>, 0, k)
<1>1. AccAt(<<>>, k) = NoAccum /\ k \notin DOMAIN <<>>
  BY DEF AccAt
<1>2. OfKey(Picked(1..0), k) = {}
  <2>1. 1..0 = {}
    OBVIOUS
  <2>2. QED
    BY <2>1, PickedIsOK DEF PickedOK, OfKey
<1>3. NoAccum \in Accums /\ NoAccum.sum = 0 /\ NoAccum.count = 0 /\ NoAccum.hasMM = FALSE
  BY DEF NoAccum, Accums
<1>4. Scale * 0 = 0
  BY DEF StateOK
<1>5. Sums(NoAccum, {})
  BY <1>3, <1>4, FS_EmptySet, SumOfNone DEF Sums
<1>6. QED
  BY <1>1, <1>2, <1>3, <1>5 DEF Stands

\* A day without an answer for the group has no row of it.
LEMMA NoAnswerNoRow ==
  ASSUME NEW d, NEW k, k \notin DayKeys(d)
  PROVE  OfKey(RowsOfDay(d), k) = {}
  BY DEF DayKeys, OfKey, Key

LEMMA DayStands ==
  ASSUME StateOK, NEW i \in Nat, i + 1 \in DaysDomain, NEW acc, NEW k, Stands(acc, i, k)
  PROVE  Stands(AccumulateDay(acc, DaysInRange[i + 1]), i + 1, k)
<1>1. PICK j \in Nat : j = i + 1
  OBVIOUS
<1>2. PICK d, B, W : d = DaysInRange[j] /\ B = DayRows[j] /\ W = Picked(1..i)
  OBVIOUS
<1>3. PICK S, U, a : S = OfKey(B, k) /\ U = OfKey(W, k) /\ a = AccAt(acc, k)
  OBVIOUS
<1>4. /\ Picked(1..j) = W \cup B /\ W \cap B = {} /\ RowsOfDay(d) = B
      /\ W \in SUBSET stored /\ B \in SUBSET stored
  <2>1. PICK s, t : s = 1..j /\ t = 1..i
    OBVIOUS
  <2>2. j \in s /\ t = s \ {j} /\ s \in SUBSET DaysDomain /\ t \in SUBSET DaysDomain
    <3>1. PICK n \in Nat : DaysDomain = 1..n
      BY LastDay
    <3>2. j \in 1..n
      BY <1>1, <3>1
    <3>3. QED
      BY <1>1, <2>1, <3>1, <3>2
  <2>3. PickedOK
    BY PickedIsOK
  <2>4. Picked(s) = Picked(t) \cup B /\ Picked(t) \cap B = {} /\ RowsOfDay(d) = B
    BY <1>2, <2>2, <2>3 DEF PickedOK
  <2>5. Picked(t) \in SUBSET Matching /\ B \in SUBSET Matching /\ Matching \in SUBSET stored
    BY <1>2, <2>2, <2>3 DEF PickedOK
  <2>6. QED
    BY <1>2, <2>1, <2>4, <2>5
<1>5. /\ OfKey(Picked(1..j), k) = U \cup S /\ U \cap S = {}
      /\ U \in SUBSET stored /\ S \in SUBSET stored
  BY <1>3, <1>4 DEF OfKey
<1>6. /\ Sums(a, U) /\ a \in Accums /\ (k \in DOMAIN acc <=> a.hasMM)
      /\ (~a.hasMM => U = {}) /\ (a.hasMM /\ Answered(i, k) => Best(a, U))
  BY <1>2, <1>3 DEF Stands, Sums
<1>7. PICK v, c, b : v = DayValue(S) /\ c = Cardinality(S) /\ b = Accumulate(a, v, c)
  OBVIOUS
<1>8. v \in Int /\ c \in Nat
  BY <1>5, <1>7, DayValueIsOK DEF DayValueOK
<1>9. PICK new : new = AccumulateDay(acc, d)
  OBVIOUS
<1>10. /\ k \in DOMAIN new <=> k \in DOMAIN acc \/ k \in DayKeys(d)
       /\ AccAt(new, k) = IF k \in DayKeys(d) THEN b ELSE a
  <2>1. new = [x \in DOMAIN acc \cup DayKeys(d) |->
                 IF x \in DayKeys(d)
                 THEN Accumulate(AccAt(acc, x), DayValue(OfKey(B, x)), Cardinality(OfKey(B, x)))
                 ELSE AccAt(acc, x)]
    BY <1>4, <1>9 DEF AccumulateDay, AccAt, OfKey
  <2>2. DOMAIN new = DOMAIN acc \cup DayKeys(d)
    BY <2>1
  <2>3. CASE k \in DayKeys(d)
    BY <1>3, <1>7, <2>1, <2>2, <2>3 DEF AccAt
  <2>4. CASE k \notin DayKeys(d) /\ k \in DOMAIN acc
    BY <1>3, <2>1, <2>2, <2>4 DEF AccAt
  <2>5. CASE k \notin DayKeys(d) /\ k \notin DOMAIN acc
    BY <1>3, <2>2, <2>5 DEF AccAt
  <2>6. QED
    BY <2>3, <2>4, <2>5
<1>11. Answered(j, k) => Answered(i, k) /\ (k \in DayKeys(d) => Valued(S) # {})
  <2> SUFFICES ASSUME Answered(j, k)
               PROVE  Answered(i, k) /\ (k \in DayKeys(d) => Valued(S) # {})
    OBVIOUS
  <2>1. \A x \in 1..i : x \in 1..j
    BY <1>1
  <2>2. j \in 1..j
    BY <1>1
  <2>3. QED
    BY <1>2, <1>3, <2>1, <2>2 DEF Answered
<1>12. CASE k \in DayKeys(d)
  <2>1. Sums(b, U \cup S)
    BY <1>5, <1>6, <1>7, SumsStep
  <2>2. b.hasMM = TRUE
    <3>1. Accumulated(b, a, v, c)
      BY <1>6, <1>7, <1>8, AccumulateIs
    <3>2. QED
      BY <3>1 DEF Accumulated
  <2>3. Answered(j, k) => Best(b, U \cup S)
    <3> SUFFICES ASSUME Answered(j, k)
                 PROVE  Best(b, U \cup S)
      OBVIOUS
    <3>1. Valued(S) # {}
      BY <1>11, <1>12
    <3>2. IF a.hasMM THEN Best(a, U) ELSE U = {}
      BY <1>6, <1>11
    <3>3. QED
      BY <1>5, <1>6, <1>7, <3>1, <3>2, BestStep
  <2>4. Stands(new, j, k)
    BY <1>5, <1>10, <1>12, <2>1, <2>2, <2>3 DEF Stands
  <2>5. QED
    BY <1>1, <1>2, <1>9, <2>4
<1>13. CASE k \notin DayKeys(d)
  <2>1. S = {}
    BY <1>3, <1>4, <1>13, NoAnswerNoRow
  <2>2. U \cup S = U
    BY <2>1
  <2>3. Stands(new, j, k)
    BY <1>5, <1>6, <1>10, <1>11, <1>13, <2>2 DEF Stands
  <2>4. QED
    BY <1>1, <1>2, <1>9, <2>3
<1>14. QED
  BY <1>12, <1>13

LEMMA AccumulatorsStand ==
  StateOK => \A k : Stands(Accumulators, Len(DaysInRange), k)
<1> SUFFICES ASSUME StateOK
             PROVE  \A k : Stands(Accumulators, Len(DaysInRange), k)
  OBVIOUS
<1>1. PICK n \in Nat : n = Len(DaysInRange) /\ DaysDomain = 1..n
  BY LastDay
<1>2. PICK g : DayByDay(g) /\ Accumulators = g[n]
  BY <1>1, AccumulatorsDayByDay
<1> DEFINE T == {i \in 0..n : \A k : Stands(g[i], i, k)}
<1>3. 0 \in T
  BY <1>2, NothingStands DEF DayByDay
<1>4. ASSUME NEW i \in 0..(n - 1), i \in T
      PROVE  i + 1 \in T
  <2>1. i \in Nat /\ i + 1 \in 1..n /\ i + 1 \in 0..n /\ i + 1 - 1 = i
    OBVIOUS
  <2>2. PICK j \in Nat : j = i + 1 /\ j \in 1..n /\ j - 1 = i
    BY <2>1
  <2>3. g[j] = AccumulateDay(g[j - 1], DaysInRange[j])
    BY <1>1, <1>2, <2>2 DEF DayByDay
  <2>4. g[i + 1] = AccumulateDay(g[i], DaysInRange[i + 1])
    BY <2>2, <2>3
  <2>5. ASSUME NEW k
        PROVE  Stands(g[i + 1], i + 1, k)
    <3>1. Stands(g[i], i, k)
      BY <1>4
    <3>2. i + 1 \in DaysDomain
      BY <1>1, <2>1
    <3>3. PICK acc : acc = g[i]
      OBVIOUS
    <3>4. Stands(acc, i, k)
      BY <3>1, <3>3
    <3>5. Stands(AccumulateDay(acc, DaysInRange[i + 1]), i + 1, k)
      BY <2>1, <3>2, <3>4, DayStands
    <3>6. QED
      BY <2>4, <3>3, <3>5
  <2>6. QED
    BY <2>1, <2>5
<1> HIDE DEF T
<1>5. 0..n \subseteq T
  BY <1>3, <1>4, UpTo
<1>6. n \in T
  BY <1>5
<1>7. QED
  BY <1>1, <1>2, <1>6 DEF T

LEMMA TablesOfUnion == StateOK => AggregatesOfUnion
<1> SUFFICES ASSUME StateOK, NEW k \in DOMAIN Accumulators
             PROVE  LET S == {r \in Matching : Key(r) = k}
                        v == Value(Accumulators[k])
                    IN CASE req.metric = "count" -> v[1] = v[2] * Cardinality(S)
                         [] req.metric = "sum"   -> v[1] = v[2] * SumOf(S)
                         [] req.metric = "avg"   ->
                              S # {} /\ Valued(S) = S => v[1] * Cardinality(S) = v[2] * SumOf(S)
                         [] req.metric = "min"   -> ValuedDays(k) => v[1] = v[2] * Min(Values(S))
                         [] req.metric = "max"   -> ValuedDays(k) => v[1] = v[2] * Max(Values(S))
  BY DEF AggregatesOfUnion
<1>1. PICK n \in Nat : n = Len(DaysInRange) /\ DaysDomain = 1..n
  BY LastDay
<1>2. PICK a, S : a = Accumulators[k] /\ S = OfKey(Matching, k)
  OBVIOUS
<1>3. AccAt(Accumulators, k) = a /\ Picked(1..n) = Matching
  BY <1>1, <1>2, PickedIsOK DEF AccAt, PickedOK
<1>4. Stands(Accumulators, n, k)
  BY <1>1, AccumulatorsStand
<1>5. Sums(a, S) /\ a.hasMM /\ (Answered(n, k) => Best(a, S))
  BY <1>2, <1>3, <1>4 DEF Stands
<1>6. ValuedDays(k) => Answered(n, k)
  <2>1. DOMAIN DaysInRange = 1..n
    BY <1>1 DEF DaysDomain
  <2>2. \A j \in 1..n : RowsOfDay(DaysInRange[j]) = DayRows[j]
    BY <2>1 DEF DayRows
  <2>3. QED
    BY <2>1, <2>2 DEF ValuedDays, Answered, Valued, OfKey
<1>7. S \in SUBSET stored /\ IsFiniteSet(S) /\ Cardinality(S) \in Nat /\ SumOf(S) \in Int
  <2>1. S \in SUBSET stored
    BY <1>2, PickedIsOK DEF PickedOK, OfKey
  <2>2. IsFiniteSet(S)
    BY <2>1, NetType
  <2>3. Valued(S) \in SUBSET stored
    BY <2>1 DEF Valued
  <2>4. SumOf(S) \in Int
    BY <2>1, <2>3, SumIsNet, NetType
  <2>5. QED
    BY <2>1, <2>2, <2>4, FS_CardinalityType
<1>8. PICK v : v = Value(a)
  OBVIOUS
<1>9. Scale \in Nat /\ req.metric \in {"count", "sum", "avg", "min", "max"}
  BY DEF StateOK
<1>10. CASE req.metric = "count"
  <2>1. v[1] = a.sum /\ v[2] = Scale
    BY <1>8, <1>10 DEF Value
  <2>2. v[1] = v[2] * Cardinality(S)
    BY <1>5, <1>10, <2>1 DEF Sums
  <2>3. QED
    BY <1>2, <1>8, <1>10, <2>2 DEF OfKey
<1>11. CASE req.metric = "sum"
  <2>1. v[1] = a.sum /\ v[2] = Scale
    BY <1>8, <1>11 DEF Value
  <2>2. v[1] = v[2] * SumOf(S)
    BY <1>5, <1>11, <2>1 DEF Sums
  <2>3. QED
    BY <1>2, <1>8, <1>11, <2>2 DEF OfKey
<1>12. CASE req.metric = "avg"
  <2>1. ASSUME S # {}, Valued(S) = S
        PROVE  v[1] * Cardinality(S) = v[2] * SumOf(S)
    <3>1. PICK c \in Nat, x \in Int, m \in Nat : c = Cardinality(S) /\ x = SumOf(S) /\ m = Scale
      BY <1>7, <1>9
    <3>2. c # 0
      BY <1>7, <2>1, <3>1, FS_EmptySet
    <3>3. a.count = c /\ a.sum = m * x
      BY <1>5, <1>12, <2>1, <3>1 DEF Sums
    <3>4. v[1] = m * x /\ v[2] = m * c
      BY <1>8, <1>12, <3>1, <3>2, <3>3 DEF Value
    <3>5. (m * x) * c = (m * c) * x
      BY <3>1
    <3>6. QED
      BY <3>1, <3>4, <3>5
  <2>2. QED
    BY <1>2, <1>8, <1>12, <2>1 DEF OfKey
<1>13. CASE req.metric = "min"
  <2>1. v[1] = a.mm /\ v[2] = Scale
    BY <1>8, <1>13 DEF Value
  <2>2. ValuedDays(k) => v[1] = v[2] * Min(Values(S))
    BY <1>5, <1>6, <1>13, <2>1 DEF Best
  <2>3. QED
    BY <1>2, <1>8, <1>13, <2>2 DEF OfKey
<1>14. CASE req.metric = "max"
  <2>1. v[1] = a.mm /\ v[2] = Scale
    BY <1>8, <1>14 DEF Value
  <2>2. ValuedDays(k) => v[1] = v[2] * Max(Values(S))
    BY <1>5, <1>6, <1>14, <2>1 DEF Best
  <2>3. QED
    BY <1>2, <1>8, <1>14, <2>2 DEF OfKey
<1>15. QED
  BY <1>9, <1>10, <1>11, <1>12, <1>13, <1>14

\* Histograms and tables merged from days say what one over all the days would
\* (logstore.go:57-58, search.go:242-300, aggregate.go:59-205).
THEOREM DaysAddUp == SearchTypeOK => ChartsOfUnion
  BY StateIsOK, HistogramOfUnion, TablesOfUnion DEF ChartsOfUnion

-----------------------------------------------------------------------------
(* Percentiles.                                                             *)

\* Below the cap a day gives all its rows.
LEMMA WholeDay ==
  ASSUME StateOK, Cardinality(Matching) <= PercentileCap, NEW i \in DaysDomain
  PROVE  Range(SearchDay(DaysInRange[i], PercentileCap)) = DayRows[i]
<1>c. PICK c \in Nat : c = PercentileCap
  BY DEF StateOK
<1>1. PICK P, A, s :
        P = DayRows[i] /\ s = SearchDay(DaysInRange[i], c) /\ A = Range(s)
  OBVIOUS
<1>2. DayCut(s, P, c)
  BY <1>1, DaysAreCut DEF DaysDomain
<1>3. A \in SUBSET P /\ \A x \in P \ A : c <= Cardinality({a \in A : Rank[a] <= Rank[x]})
  BY <1>1, <1>2 DEF DayCut
<1>4. IsFiniteSet(Matching) /\ P \in SUBSET Matching
  BY <1>1, PickedIsOK, DaysAreSplit DEF PickedOK, DaysSplit, DaysDomain
<1>5. ASSUME NEW x \in P \ A
      PROVE  FALSE
  <2>1. PICK B : B = {a \in A : Rank[a] <= Rank[x]}
    OBVIOUS
  <2>2. PICK M : M = Matching \ {x}
    OBVIOUS
  <2>3. B \in SUBSET M
    BY <1>3, <1>4, <1>5, <2>1, <2>2
  <2>4. IsFiniteSet(M) /\ Cardinality(M) = Cardinality(Matching) - 1
    BY <1>4, <2>2, FS_RemoveElement
  <2>5. Cardinality(B) <= Cardinality(M) /\ IsFiniteSet(B)
    BY <2>3, <2>4, FS_Subset
  <2>6. Cardinality(B) \in Nat /\ Cardinality(Matching) \in Nat
    BY <1>4, <2>5, FS_CardinalityType
  <2>7. c <= Cardinality(B)
    BY <1>3, <2>1
  <2>8. QED
    BY <1>c, <2>4, <2>5, <2>6, <2>7
<1>d. A = P
  BY <1>3, <1>5
<1>6. QED
  BY <1>c, <1>1, <1>d

LEMMA ScannedIsAll ==
  StateOK /\ Cardinality(Matching) <= PercentileCap => Scanned = Valued(Matching)
<1> SUFFICES ASSUME StateOK, Cardinality(Matching) <= PercentileCap
             PROVE  Scanned = Valued(Matching)
  OBVIOUS
<1> DEFINE D == DaysDomain
           Step(f) == [s \in SUBSET D |-> IF s = {} THEN {}
                         ELSE ScanDay(f[s \ {Max(s)}], DaysInRange[Max(s)])]
           it == CHOOSE f : f = Step(f)
           h == [s \in SUBSET D |-> Valued(Picked(s))]
<1>1. Scanned = it[D]
  BY DEF Scanned, FoldLeft, MapThenFoldSet, DaysDomain
<1>2. \A s \in SUBSET D : s # {} => Max(s) \in s
  BY LastDay
<1>c. PICK cap \in Nat : cap = PercentileCap /\ Cardinality(Matching) <= cap
  BY DEF StateOK
<1> HIDE DEF D
<1>3. ASSUME NEW s \in SUBSET D, s # {}
      PROVE  h[s] = ScanDay(h[s \ {Max(s)}], DaysInRange[Max(s)])
  <2>1. PICK m \in s : m = Max(s)
    BY <1>2, <1>3
  <2>2. PICK A, B, C : A = Picked(s \ {m}) /\ B = DayRows[m] /\ C = Picked(s)
    OBVIOUS
  <2>3. /\ C = A \cup B /\ A \cap B = {}
        /\ A \in SUBSET Matching /\ B \in SUBSET Matching /\ IsFiniteSet(Matching)
    <3>1. s \ {m} \in SUBSET D
      OBVIOUS
    <3>2. PickedOK
      BY PickedIsOK
    <3>3. QED
      BY <2>2, <3>1, <3>2 DEF PickedOK, D
  <2>4. Range(SearchDay(DaysInRange[m], PercentileCap)) = B
    BY <2>2, WholeDay DEF D
  <2>5. Valued(C) = Valued(A) \cup Valued(B)
    BY <2>3 DEF Valued
  <2>6. Cardinality(Valued(A)) >= PercentileCap => Valued(A) = Valued(A) \cup Valued(B)
    <3> SUFFICES ASSUME Cardinality(Valued(A)) >= PercentileCap
                 PROVE  Valued(A) = Valued(A) \cup Valued(B)
      OBVIOUS
    <3>1. PICK V : V = Valued(A)
      OBVIOUS
    <3>2. V \in SUBSET Matching /\ V \in SUBSET A
      BY <2>3, <3>1 DEF Valued
    <3>3. /\ IsFiniteSet(V) /\ Cardinality(V) <= Cardinality(Matching)
          /\ (Cardinality(Matching) = Cardinality(V) => Matching = V)
      BY <2>3, <3>2, FS_Subset
    <3>4. Cardinality(V) \in Nat /\ Cardinality(Matching) \in Nat
      BY <2>3, <3>3, FS_CardinalityType
    <3>5. Matching = V
      BY <1>c, <3>1, <3>3, <3>4
    <3>6. B = {}
      BY <2>3, <3>2, <3>5
    <3>7. QED
      BY <3>6 DEF Valued
  <2>7. ScanDay(Valued(A), DaysInRange[m]) = Valued(C)
    BY <2>4, <2>5, <2>6 DEF ScanDay
  <2>8. h[s] = Valued(C) /\ h[s \ {m}] = Valued(A)
    BY <2>2
  <2> HIDE DEF h
  <2>9. QED
    BY <2>1, <2>7, <2>8
<1>4. h[{}] = {}
  BY PickedIsOK DEF PickedOK, Valued
<1>5. h = [s \in SUBSET D |-> h[s]]
  OBVIOUS
<1> HIDE DEF h
<1>6. h = Step(h)
  BY <1>3, <1>4, <1>5
<1>7. it = Step(it)
  <2> HIDE DEF Step
  <2>1. QED
    BY <1>6
<1> HIDE DEF it
<1>8. /\ it[{}] = {}
      /\ \A s \in SUBSET D : s # {} =>
           it[s] = ScanDay(it[s \ {Max(s)}], DaysInRange[Max(s)])
  BY <1>7
<1>9. Stepwise(it, h)
  BY <1>3, <1>4, <1>8 DEF Stepwise, D
<1>10. it[D] = h[D]
  BY <1>9, FoldsAgree DEF D
<1>11. h[D] = Valued(Matching)
  BY PickedIsOK DEF PickedOK, h, D
<1>12. QED
  BY <1>1, <1>10, <1>11

\* The rank Percentile computes.
CodeRank(n, p) == (p * n + 99) \div 100

\* q is the least number of n rows that makes at least p per cent of them.
IsRank(q, n, p) ==
  /\ q \in 1..n /\ 100 * q >= p * n
  /\ \A c \in Nat : 100 * c >= p * n => q <= c

LEMMA RankOfPercentile ==
  ASSUME NEW n \in Nat, n # 0, NEW p \in {50, 90, 95, 99}
  PROVE  IsRank(CodeRank(n, p), n, p)
<1>q. PICK q : q = CodeRank(n, p) /\ q = (p * n + 99) \div 100
  BY DEF CodeRank
<1>1. PICK z \in Nat : z = p * n
  OBVIOUS
<1>2. 50 * n <= z /\ z <= 99 * n
  <2>1. CASE p = 50
    BY <1>1, <2>1
  <2>2. CASE p = 90
    BY <1>1, <2>2
  <2>3. CASE p = 95
    BY <1>1, <2>3
  <2>4. CASE p = 99
    BY <1>1, <2>4
  <2>5. QED
    BY <2>1, <2>2, <2>3, <2>4
<1>3. q \in Int /\ q * 100 <= z + 99 /\ z + 99 < q * 100 + 100
  BY <1>q, <1>1, Quotient
<1>4. q \in 1..n /\ 100 * q >= z
  BY <1>1, <1>2, <1>3
<1>5. \A c \in Nat : 100 * c >= z => q <= c
  BY <1>1, <1>3
<1>6. IsRank(q, n, p)
  BY <1>1, <1>4, <1>5 DEF IsRank
<1>7. QED
  BY <1>q, <1>6

\* v is the least value of S that at least p per cent of its values do not exceed.
Nearest(v, S, p) ==
  LET UpToVal(x) == 100 * Cardinality({r \in S : r.val <= x})
  IN /\ v \in Values(S) /\ UpToVal(v) >= p * Cardinality(S)
     /\ \A x \in Values(S) : UpToVal(x) >= p * Cardinality(S) => v <= x

LEMMA PercentileIsNearest ==
  ASSUME StateOK, NEW S \in SUBSET stored, S # {}, \A r \in S : r.val # Null,
         NEW p \in {50, 90, 95, 99}
  PROVE  Nearest(Percentile(Sorted(S), p), S, p)
<1>1. PICK n \in Nat : n = Cardinality(S) /\ n # 0 /\ IsFiniteSet(S)
  <2>1. IsFiniteSet(S)
    BY NetType
  <2>2. QED
    BY <2>1, FS_CardinalityType, FS_EmptySet
<1>2. RowSet(S) /\ \A r \in S : r.val \in Int
  <2>1. RowSet(S)
    BY RowSubset DEF StateOK
  <2>2. QED
    BY <2>1 DEF StateOK
<1>3. PICK L : L = InOrder(S, Less)
  OBVIOUS
<1>4. Lists(L, S) /\ \A i, j \in DOMAIN L : i < j => L[i].val <= L[j].val
  <2>1. PICK R : R = ValueOrder(S)
    OBVIOUS
  <2>2. Places(L, S, R)
    BY <1>3, <2>1, ValuesPlaced
  <2>3. QED
    BY <1>2, <2>1, <2>2, ValuesAscend
<1>5. DOMAIN L = 1..n /\ \A i \in 1..n : L[i] \in S
  BY <1>1, <1>4, LenProperties DEF Lists
<1>6. PICK vals : vals = [i \in DOMAIN L |-> L[i].val]
  OBVIOUS
<1>7. Sorted(S) = vals
  BY <1>3, <1>6 DEF Sorted
<1>8. Len(vals) = n /\ \A i \in 1..n : vals[i] = L[i].val
  BY <1>1, <1>5, <1>6
<1>9. PICK q : q = CodeRank(n, p) /\ q = (p * n + 99) \div 100
  BY DEF CodeRank
<1>10. q \in 1..n /\ 100 * q >= p * n /\ \A c \in Nat : 100 * c >= p * n => q <= c
  <2>1. IsRank(CodeRank(n, p), n, p)
    BY <1>1, RankOfPercentile
  <2>2. IsRank(q, n, p)
    BY <1>9, <2>1
  <2>3. QED
    BY <2>2 DEF IsRank
<1>11. PICK v : v = L[q].val /\ v \in Int
  BY <1>2, <1>5, <1>10
<1>12. Percentile(Sorted(S), p) = v
  <2>1. PICK idx : idx = q - 1
    OBVIOUS
  <2>2. idx \in Int /\ ~(idx < 0) /\ ~(idx >= n) /\ 1 + idx = q
    BY <1>1, <1>10, <2>1
  <2>3. Percentile(vals, p) = vals[1 + (IF idx < 0 THEN 0 ELSE IF idx >= n THEN n - 1 ELSE idx)]
    BY <1>8, <1>9, <2>1 DEF Percentile
  <2>4. Percentile(vals, p) = vals[q]
    BY <2>2, <2>3
  <2>5. QED
    BY <1>7, <1>8, <1>10, <1>11, <2>4
<1>13. PICK K : K = [r \in S |-> r.val]
  OBVIOUS
<1>14. /\ \A r \in S : K[r] = r.val /\ K[r] \in Int
       /\ \A i, j \in DOMAIN L : i < j => K[L[i]] <= K[L[j]]
  BY <1>2, <1>4, <1>5, <1>13
<1>15. \A x \in Int : v <= x <=> q <= Cardinality({r \in S : r.val <= x})
  <2> SUFFICES ASSUME NEW x \in Int
               PROVE  v <= x <=> q <= Cardinality({r \in S : r.val <= x})
    OBVIOUS
  <2>1. \A r \in S : K[r] \in Int
    BY <1>14
  <2>2. \A i, j \in DOMAIN L : i < j => K[L[i]] <= K[L[j]]
    BY <1>14
  <2>3. q \in DOMAIN L
    BY <1>5, <1>10
  <2>4. K[L[q]] <= x <=> q <= Cardinality({r \in S : K[r] <= x})
    BY <1>1, <1>4, <2>1, <2>2, <2>3, CountedUpTo
  <2>5. {r \in S : K[r] <= x} = {r \in S : r.val <= x}
    BY <1>14
  <2>6. K[L[q]] = v
    BY <1>5, <1>10, <1>11, <1>14
  <2>7. QED
    BY <2>4, <2>5, <2>6
<1>16. \A x : Cardinality({r \in S : r.val <= x}) \in Nat
  <2> SUFFICES ASSUME NEW x
               PROVE  Cardinality({r \in S : r.val <= x}) \in Nat
    OBVIOUS
  <2>1. PICK B : B = {r \in S : r.val <= x}
    OBVIOUS
  <2>2. B \in SUBSET S
    BY <2>1
  <2>3. IsFiniteSet(B)
    BY <1>1, <2>2, FS_Subset
  <2>4. QED
    BY <2>1, <2>3, FS_CardinalityType
<1>17. v \in Values(S)
  BY <1>2, <1>5, <1>10, <1>11 DEF Values, Valued
<1>18. 100 * Cardinality({r \in S : r.val <= v}) >= p * n
  <2>1. PICK c \in Nat : c = Cardinality({r \in S : r.val <= v})
    BY <1>16
  <2>2. v <= v
    BY <1>11
  <2>3. q <= c
    BY <1>11, <1>15, <2>1, <2>2
  <2>4. PICK z \in Int : z = p * n
    OBVIOUS
  <2>5. 100 * q >= z /\ q \in Int
    BY <1>10, <2>4
  <2>6. 100 * c >= z
    BY <2>1, <2>3, <2>4, <2>5
  <2>7. QED
    BY <2>1, <2>4, <2>6
<1>19. ASSUME NEW x \in Values(S), 100 * Cardinality({r \in S : r.val <= x}) >= p * n
       PROVE  v <= x
  <2>1. x \in Int
    BY <1>2 DEF Values, Valued
  <2>2. q <= Cardinality({r \in S : r.val <= x})
    BY <1>10, <1>16, <1>19
  <2>3. QED
    BY <1>15, <2>1, <2>2
<1>20. Nearest(v, S, p)
  BY <1>1, <1>17, <1>18, <1>19 DEF Nearest
<1>21. QED
  BY <1>12, <1>20

\* Below the cap a percentile is the least value that at least p per cent of the group's
\* values do not exceed (aggregate.go:207-290).
THEOREM PercentilesAreNearest == SearchTypeOK => NearestRank
<1> SUFFICES ASSUME SearchTypeOK, Cardinality(Matching) <= PercentileCap,
                    NEW p \in {50, 90, 95, 99}, NEW k \in DOMAIN Percentiles(p)
             PROVE  LET S == {r \in Valued(Matching) : Key(r) = k}
                        v == Percentiles(p)[k]
                        UpToVal(x) == 100 * Cardinality({r \in S : r.val <= x})
                    IN /\ v \in Values(S) /\ UpToVal(v) >= p * Cardinality(S)
                       /\ \A x \in Values(S) : UpToVal(x) >= p * Cardinality(S) => v <= x
  BY DEF NearestRank
<1>1. StateOK
  BY StateIsOK
<1>2. Scanned = Valued(Matching)
  BY <1>1, ScannedIsAll
<1>3. PICK S : S = {r \in Valued(Matching) : Key(r) = k}
  OBVIOUS
<1>4. k \in {Key(r) : r \in Scanned} /\ Percentiles(p)[k] = Percentile(Sorted(S), p)
  BY <1>2, <1>3 DEF Percentiles
<1>5. S # {} /\ S \in SUBSET stored /\ \A r \in S : r.val # Null
  BY <1>2, <1>3, <1>4 DEF Valued, Matching
<1>6. PICK v : v = Percentile(Sorted(S), p)
  OBVIOUS
<1>7. Nearest(v, S, p)
  BY <1>1, <1>5, <1>6, PercentileIsNearest
<1>8. QED
  BY <1>3, <1>4, <1>6, <1>7 DEF Nearest

-----------------------------------------------------------------------------
(* The compiler.  Trees are taken by their height.                          *)

LEMMA LevelsGrow ==
  /\ Len(Levels) \in Nat /\ DOMAIN Levels = 1..Len(Levels)
  /\ Below(1) = {} /\ Exprs = Below(Len(Levels) + 1)
  /\ \A n \in 1..Len(Levels) :
       /\ Below(n + 1) = Below(n) \cup Levels[n] /\ Below(n) \subseteq Exprs
       /\ \A k \in 1..n : Below(k) \subseteq Below(n)
<1>1. PICK l \in Nat : l = Len(Levels) /\ DOMAIN Levels = 1..l
  BY CompilerAssumption
<1>2. Below(1) = {}
  BY DEF Below
<1>3. Exprs = Below(l + 1)
  BY <1>1 DEF Exprs, Below
<1>4. ASSUME NEW n \in 1..l
      PROVE  /\ Below(n + 1) = Below(n) \cup Levels[n] /\ Below(n) \subseteq Exprs
             /\ \A k \in 1..n : Below(k) \subseteq Below(n)
  <2>1. 1..((n + 1) - 1) = (1..(n - 1)) \cup {n}
    OBVIOUS
  <2>2. Below(n + 1) = Below(n) \cup Levels[n]
    BY <2>1 DEF Below
  <2>3. Below(n) \subseteq Exprs
    BY <1>1 DEF Below, Exprs
  <2>4. \A k \in 1..n : Below(k) \subseteq Below(n)
    BY DEF Below
  <2>5. QED
    BY <2>2, <2>3, <2>4
<1>5. QED
  BY <1>1, <1>2, <1>3, <1>4, SMTT(30)

LEMMA AllBelow == Exprs = Below(Len(Levels) + 1)
  BY LevelsGrow, SMTT(30)

\* Induction over trees.
LEMMA OverTrees ==
  ASSUME NEW Q, \A n \in DOMAIN Levels : Below(n) \subseteq Q => Levels[n] \subseteq Q
  PROVE  Exprs \subseteq Q
<1>1. PICK l \in Nat : l = Len(Levels) /\ DOMAIN Levels = 1..l
  BY LevelsGrow
<1>2. PICK B : B = {k \in 0..l : Below(k + 1) \subseteq Q}
  OBVIOUS
<1>3. 0 \in B
  BY <1>2, LevelsGrow
<1>4. ASSUME NEW k \in 0..(l - 1), k \in B
      PROVE  k + 1 \in B
  <2>1. k + 1 \in 1..l /\ k + 1 \in 0..l
    OBVIOUS
  <2>2. Below((k + 1) + 1) = Below(k + 1) \cup Levels[k + 1]
    BY <1>1, <2>1, LevelsGrow
  <2>3. QED
    BY <1>1, <1>2, <1>4, <2>1, <2>2
<1>5. 0..l \subseteq B
  BY <1>3, <1>4, UpTo
<1>6. l \in B
  BY <1>5
<1>7. QED
  BY <1>1, <1>2, <1>6, AllBelow

\* f(e) is determined by what f is for the operands of e.
ByOperands(G, V) ==
  /\ \A e \in Exprs : \A f \in [Exprs -> V] : G[<<e, f>>] \in V
  /\ \A n \in DOMAIN Levels : \A e \in Levels[n] : \A f, g \in [Exprs -> V] :
       (\A x \in Below(n) : f[x] = g[x]) => G[<<e, f>>] = G[<<e, g>>]

\* h is one step ahead of f: right for the trees below n + 1 if f is below n.
OneAhead(f, h, G, V, n) ==
  /\ h \in [Exprs -> V]
  /\ \A e \in Exprs : h[e] = IF e \in Below(n) THEN f[e] ELSE G[<<e, f>>]

Solves(f, G, V, n) == f \in [Exprs -> V] /\ \A e \in Below(n) : f[e] = G[<<e, f>>]

LEMMA OneLevel ==
  ASSUME NEW G, NEW V, ByOperands(G, V), NEW n \in 1..Len(Levels), NEW f, Solves(f, G, V, n)
  PROVE  \E h : Solves(h, G, V, n + 1)
<1>1. f \in [Exprs -> V] /\ Below(n) \subseteq Exprs /\ Below(n + 1) = Below(n) \cup Levels[n]
  BY LevelsGrow DEF Solves
<1>2. PICK h : h = [e \in Exprs |-> IF e \in Below(n) THEN f[e] ELSE G[<<e, f>>]]
  OBVIOUS
<1>3. OneAhead(f, h, G, V, n)
  BY <1>1, <1>2 DEF OneAhead, ByOperands
<1>4. ASSUME NEW k \in 1..n, NEW e \in Levels[k]
      PROVE  G[<<e, h>>] = G[<<e, f>>]
  <2>1. k \in DOMAIN Levels /\ Below(k) \subseteq Below(n)
    BY LevelsGrow
  <2>2. \A x \in Below(k) : h[x] = f[x]
    BY <1>1, <1>3, <2>1 DEF OneAhead
  <2>3. QED
    BY <1>1, <1>3, <2>1, <2>2 DEF OneAhead, ByOperands
<1>5. ASSUME NEW e \in Below(n + 1)
      PROVE  h[e] = G[<<e, h>>]
  <2>1. PICK k \in 1..n : e \in Levels[k]
    BY DEF Below
  <2>2. G[<<e, h>>] = G[<<e, f>>]
    BY <1>4, <2>1
  <2>3. e \in Exprs
    BY <2>1, LevelsGrow DEF Exprs
  <2>4. h[e] = G[<<e, f>>]
    BY <1>3, <2>3 DEF OneAhead, Solves
  <2>5. QED
    BY <2>2, <2>4
<1>6. QED
  BY <1>3, <1>5 DEF Solves, OneAhead

LEMMA Recursion ==
  ASSUME NEW G, NEW V, V # {}, ByOperands(G, V)
  PROVE  \E h \in [Exprs -> V] : h = [e \in Exprs |-> G[<<e, h>>]]
<1>1. PICK l \in Nat : l = Len(Levels)
  BY LevelsGrow
<1>2. PICK B : B = {k \in 0..l : \E f : Solves(f, G, V, k + 1)}
  OBVIOUS
<1>3. 0 \in B
  <2>1. PICK v \in V : TRUE
    OBVIOUS
  <2>2. Solves([e \in Exprs |-> v], G, V, 1)
    BY LevelsGrow DEF Solves
  <2>3. QED
    BY <1>2, <2>2
<1>4. ASSUME NEW k \in 0..(l - 1), k \in B
      PROVE  k + 1 \in B
  <2>1. k + 1 \in 1..Len(Levels) /\ k + 1 \in 0..l
    BY <1>1
  <2>2. PICK f : Solves(f, G, V, k + 1)
    BY <1>2, <1>4
  <2>3. PICK n \in 1..Len(Levels) : n = k + 1
    BY <2>1
  <2>4. \E h : Solves(h, G, V, n + 1)
    BY <2>2, <2>3, OneLevel
  <2>5. QED
    BY <1>2, <2>1, <2>3, <2>4
<1>5. 0..l \subseteq B
  BY <1>3, <1>4, UpTo
<1>6. PICK h : Solves(h, G, V, l + 1)
  BY <1>2, <1>5
<1>7. h \in [Exprs -> V] /\ \A e \in Exprs : h[e] = G[<<e, h>>]
  BY <1>1, <1>6, AllBelow DEF Solves
<1>8. QED
  BY <1>7


SqlValues == {True, False, Unknown}

LEMMA OperandsBelow ==
  \A n \in DOMAIN Levels : \A e \in Levels[n] :
    TreeOK(e, Below(n)) /\ Below(n) \subseteq Exprs /\ e \in Exprs
  BY CompilerAssumption, LevelsGrow DEF Exprs

LEMMA ThreeValues ==
  /\ \A b : Sql(b) \in SqlValues
  /\ \A a : SqlNot(a) \in SqlValues
  /\ \A a, b : SqlAnd(a, b) \in SqlValues /\ SqlOr(a, b) \in SqlValues
<1>1. \A b : Sql(b) \in SqlValues
  BY DEF Sql, SqlValues
<1>2. \A a : SqlNot(a) \in SqlValues
  BY DEF SqlNot, SqlValues
<1>3. \A a, b : SqlAnd(a, b) \in SqlValues /\ SqlOr(a, b) \in SqlValues
  BY DEF SqlAnd, SqlOr, SqlValues
<1>4. QED
  BY <1>1, <1>2, <1>3

\* Emit is a value of SQL, whatever its operands are.
LEMMA EmitIsValue ==
  ASSUME NEW e, NEW S, TreeOK(e, S), NEW m, NEW f
  PROVE  Emit(e, m, f) \in SqlValues
<1>1. True \in SqlValues /\ Unknown \in SqlValues
  BY DEF SqlValues
<1>2. \A v, g, rel, b : Compare(v, g, rel, b) \in SqlValues
  BY <1>1, ThreeValues DEF Compare
<1>3. \A v, g : RangeSql(v, g, e) \in SqlValues
  BY ThreeValues DEF RangeSql
<1>4. CASE e.op \in {"all", "term"}
  BY <1>1, <1>4, ThreeValues DEF Emit
<1>5. CASE e.op \in {"and", "or", "not"}
  BY <1>5, ThreeValues DEF Emit
<1>6. CASE e.op \in {"eq", "exists"}
  BY <1>1, <1>6, ThreeValues DEF Emit
<1>7. CASE e.op \in {"cmp", "range"}
  BY <1>2, <1>3, <1>7 DEF Emit
<1>8. QED
  BY <1>4, <1>5, <1>6, <1>7 DEF TreeOK

\* It depends on its operands only.
LEMMA EmitByOperands ==
  ASSUME NEW e, NEW S, TreeOK(e, S), NEW m, NEW f, NEW g, \A x \in S : f[x] = g[x]
  PROVE  Emit(e, m, f) = Emit(e, m, g)
<1>1. CASE e.op \in {"and", "or"}
  <2>1. f[e.l] = g[e.l] /\ f[e.r] = g[e.r]
    BY <1>1 DEF TreeOK
  <2>2. QED
    BY <1>1, <2>1 DEF Emit
<1>2. CASE e.op = "not"
  <2>1. f[e.e] = g[e.e]
    BY <1>2 DEF TreeOK
  <2>2. QED
    BY <1>2, <2>1 DEF Emit
<1>3. CASE e.op \in {"all", "term", "eq", "exists", "cmp", "range"}
  BY <1>3 DEF Emit
<1>4. QED
  BY <1>1, <1>2, <1>3 DEF TreeOK

LEMMA MeaningByOperands ==
  ASSUME NEW e, NEW S, TreeOK(e, S), NEW m, NEW f, NEW g, \A x \in S : f[x] = g[x]
  PROVE  Meaning(e, m, f) = Meaning(e, m, g)
<1>1. CASE e.op \in {"and", "or"}
  <2>1. f[e.l] = g[e.l] /\ f[e.r] = g[e.r]
    BY <1>1 DEF TreeOK
  <2>2. QED
    BY <1>1, <2>1 DEF Meaning
<1>2. CASE e.op = "not"
  <2>1. f[e.e] = g[e.e]
    BY <1>2 DEF TreeOK
  <2>2. QED
    BY <1>2, <2>1 DEF Meaning
<1>3. CASE e.op \in {"all", "term", "eq", "exists", "cmp", "range"}
  BY <1>3 DEF Meaning
<1>4. QED
  BY <1>1, <1>2, <1>3 DEF TreeOK

LEMMA MeaningIsBoolean ==
  ASSUME NEW e, NEW S, TreeOK(e, S), NEW m, NEW f, \A x \in S : f[x] \in BOOLEAN
  PROVE  Meaning(e, m, f) \in BOOLEAN
<1>1. CASE e.op \in {"and", "or", "not"}
  BY <1>1 DEF Meaning, TreeOK
<1>2. CASE e.op = "all"
  BY <1>2 DEF Meaning
<1>3. CASE e.op = "term" \/ (e.op = "eq" /\ e.field = "message")
  <2>1. Meaning(e, m, f) = (e.val \in m.words)
    BY <1>3 DEF Meaning
  <2>2. (e.val \in m.words) \in BOOLEAN
    OBVIOUS
  <2>3. QED
    BY <2>1, <2>2
<1>4. CASE e.op = "eq" /\ e.field # "message"
  <2>1. Meaning(e, m, f) = (m.fields[e.field] = e.val)
    BY <1>4 DEF Meaning
  <2>2. QED
    BY <2>1
<1>5. CASE e.op = "exists"
  <2>1. Meaning(e, m, f) = (m.fields[e.field] # NoValue)
    BY <1>5 DEF Meaning
  <2>2. QED
    BY <2>1
<1>6. CASE e.op = "cmp"
  <2>1. PICK x, y : x = m.fields[e.field].v /\ y = e.val
    OBVIOUS
  <2>2. Meaning(e, m, f) = Holds(e.rel, x, y)
    BY <1>6, <2>1 DEF Meaning
  <2>3. Holds(">", x, y) = (x > y) /\ Holds("<", x, y) = (x < y)
    BY DEF Holds
  <2>4. Holds(">=", x, y) = (x >= y) /\ Holds("<=", x, y) = (x <= y)
    BY DEF Holds
  <2>5. (x > y) \in BOOLEAN /\ (x < y) \in BOOLEAN
    OBVIOUS
  <2>6. (x >= y) \in BOOLEAN /\ (x <= y) \in BOOLEAN
    OBVIOUS
  <2>7. QED
    BY <1>6, <2>2, <2>3, <2>4, <2>5, <2>6 DEF TreeOK
<1>7. CASE e.op = "range"
  BY <1>7 DEF Meaning
<1>8. QED
  BY <1>1, <1>2, <1>3, <1>4, <1>5, <1>6, <1>7 DEF TreeOK

LEMMA NamedByOperands ==
  ASSUME NEW e, NEW S, TreeOK(e, S), NEW f, NEW g, \A x \in S : f[x] = g[x]
  PROVE  Named(e, f) = Named(e, g)
<1>1. CASE e.op \in {"and", "or"}
  <2>1. f[e.l] = g[e.l] /\ f[e.r] = g[e.r]
    BY <1>1 DEF TreeOK
  <2>2. QED
    BY <1>1, <2>1 DEF Named
<1>2. CASE e.op = "not"
  <2>1. f[e.e] = g[e.e]
    BY <1>2 DEF TreeOK
  <2>2. QED
    BY <1>2, <2>1 DEF Named
<1>3. CASE e.op \in {"all", "term", "eq", "exists", "cmp", "range"}
  BY <1>3 DEF Named
<1>4. QED
  BY <1>1, <1>2, <1>3 DEF TreeOK

Fields == {e.field : e \in Exprs}

LEMMA NamedAreFields ==
  ASSUME NEW e \in Exprs, NEW S, TreeOK(e, S), NEW f, \A x \in S : f[x] \in SUBSET Fields
  PROVE  Named(e, f) \in SUBSET Fields
<1>1. CASE e.op \in {"and", "or", "not"}
  BY <1>1 DEF Named, TreeOK
<1>2. CASE e.op \in {"eq", "cmp", "range"}
  BY <1>2 DEF Named, Fields
<1>3. CASE e.op \in {"all", "term", "exists"}
  BY <1>3 DEF Named
<1>4. QED
  BY <1>1, <1>2, <1>3 DEF TreeOK

\* Each of the three recursive functions satisfies its equation.
LEMMA WalkIs ==
  ASSUME NEW m
  PROVE  Walk(m) = [e \in Exprs |-> Emit(e, m, Walk(m))]
<1>1. PICK G : G = [p \in Exprs \X [Exprs -> SqlValues] |-> Emit(p[1], m, p[2])]
  OBVIOUS
<1>2. \A e \in Exprs : \A f \in [Exprs -> SqlValues] : G[<<e, f>>] = Emit(e, m, f)
  BY <1>1
<1>3. ByOperands(G, SqlValues)
  <2>1. ASSUME NEW e \in Exprs, NEW f \in [Exprs -> SqlValues]
        PROVE  G[<<e, f>>] \in SqlValues
    <3>1. PICK n \in DOMAIN Levels : e \in Levels[n]
      BY DEF Exprs
    <3>2. QED
      BY <1>2, <3>1, OperandsBelow, EmitIsValue
  <2>2. ASSUME NEW n \in DOMAIN Levels, NEW e \in Levels[n],
               NEW f \in [Exprs -> SqlValues], NEW g \in [Exprs -> SqlValues],
               \A x \in Below(n) : f[x] = g[x]
        PROVE  G[<<e, f>>] = G[<<e, g>>]
    <3>1. TreeOK(e, Below(n)) /\ e \in Exprs
      BY OperandsBelow
    <3>2. Emit(e, m, f) = Emit(e, m, g)
      BY <2>2, <3>1, EmitByOperands
    <3>3. QED
      BY <1>2, <3>1, <3>2
  <2>3. QED
    BY <2>1, <2>2 DEF ByOperands
<1>4. PICK h \in [Exprs -> SqlValues] : h = [e \in Exprs |-> G[<<e, h>>]]
  <2>1. SqlValues # {}
    BY DEF SqlValues
  <2>2. QED
    BY <1>3, <2>1, Recursion
<1>5. h = [e \in Exprs |-> Emit(e, m, h)]
  BY <1>2, <1>4
<1>6. QED
  BY <1>5 DEF Walk

LEMMA MeansIs ==
  ASSUME NEW m
  PROVE  Means(m) = [e \in Exprs |-> Meaning(e, m, Means(m))]
<1>1. PICK G : G = [p \in Exprs \X [Exprs -> BOOLEAN] |-> Meaning(p[1], m, p[2])]
  OBVIOUS
<1>2. \A e \in Exprs : \A f \in [Exprs -> BOOLEAN] : G[<<e, f>>] = Meaning(e, m, f)
  BY <1>1
<1>3. ByOperands(G, BOOLEAN)
  <2>1. ASSUME NEW e \in Exprs, NEW f \in [Exprs -> BOOLEAN]
        PROVE  G[<<e, f>>] \in BOOLEAN
    <3>1. PICK n \in DOMAIN Levels : e \in Levels[n]
      BY DEF Exprs
    <3>2. TreeOK(e, Below(n)) /\ \A x \in Below(n) : f[x] \in BOOLEAN
      BY <3>1, OperandsBelow
    <3>3. QED
      BY <1>2, <3>2, MeaningIsBoolean
  <2>2. ASSUME NEW n \in DOMAIN Levels, NEW e \in Levels[n],
               NEW f \in [Exprs -> BOOLEAN], NEW g \in [Exprs -> BOOLEAN],
               \A x \in Below(n) : f[x] = g[x]
        PROVE  G[<<e, f>>] = G[<<e, g>>]
    <3>1. TreeOK(e, Below(n)) /\ e \in Exprs
      BY OperandsBelow
    <3>2. Meaning(e, m, f) = Meaning(e, m, g)
      BY <2>2, <3>1, MeaningByOperands
    <3>3. QED
      BY <1>2, <3>1, <3>2
  <2>3. QED
    BY <2>1, <2>2 DEF ByOperands
<1>4. PICK h \in [Exprs -> BOOLEAN] : h = [e \in Exprs |-> G[<<e, h>>]]
  BY <1>3, Recursion
<1>5. h = [e \in Exprs |-> Meaning(e, m, h)]
  BY <1>2, <1>4
<1>6. QED
  BY <1>5 DEF Means

LEMMA NamesIs == Names = [e \in Exprs |-> Named(e, Names)]
<1> DEFINE V == SUBSET Fields
<1>1. PICK G : G = [p \in Exprs \X [Exprs -> V] |-> Named(p[1], p[2])]
  OBVIOUS
<1>2. \A e \in Exprs : \A f \in [Exprs -> V] : G[<<e, f>>] = Named(e, f)
  BY <1>1
<1>3. ByOperands(G, V)
  <2>1. ASSUME NEW e \in Exprs, NEW f \in [Exprs -> V]
        PROVE  G[<<e, f>>] \in V
    <3>1. PICK n \in DOMAIN Levels : e \in Levels[n]
      BY DEF Exprs
    <3>2. TreeOK(e, Below(n)) /\ \A x \in Below(n) : f[x] \in SUBSET Fields
      BY <3>1, OperandsBelow
    <3>3. Named(e, f) \in SUBSET Fields
      BY <3>2, NamedAreFields
    <3>4. QED
      BY <1>2, <3>3
  <2>2. ASSUME NEW n \in DOMAIN Levels, NEW e \in Levels[n],
               NEW f \in [Exprs -> V], NEW g \in [Exprs -> V],
               \A x \in Below(n) : f[x] = g[x]
        PROVE  G[<<e, f>>] = G[<<e, g>>]
    <3>1. TreeOK(e, Below(n)) /\ e \in Exprs
      BY OperandsBelow
    <3>2. Named(e, f) = Named(e, g)
      BY <2>2, <3>1, NamedByOperands
    <3>3. QED
      BY <1>2, <3>1, <3>2
  <2>3. QED
    BY <2>1, <2>2 DEF ByOperands
<1>4. PICK h \in [Exprs -> V] : h = [e \in Exprs |-> G[<<e, h>>]]
  <2>1. V # {}
    OBVIOUS
  <2> HIDE DEF V
  <2>2. QED
    BY <1>3, <2>1, Recursion
<1>5. h = [e \in Exprs |-> Named(e, h)]
  BY <1>2, <1>4
<1>6. QED
  BY <1>5 DEF Names


\* What w, the SQL of the trees, t, their meaning, and N, their fields, say of e.
Sound(e, m, w, t, N) ==
  /\ w[e] \in SqlValues /\ t[e] \in BOOLEAN
  /\ (\A f \in N[e] : m.fields[f] # NoValue) => (w[e] = True <=> t[e])
  /\ w[e] = Unknown => \E f \in N[e] \ Columns : m.fields[f] = NoValue

StepOf(e, m, w, t, N) ==
  w[e] = Emit(e, m, w) /\ t[e] = Meaning(e, m, t) /\ N[e] = Named(e, N)

LEMMA SqlIs ==
  /\ \A b \in BOOLEAN : (Sql(b) = True <=> b) /\ Sql(b) # Unknown /\ Sql(b) \in SqlValues
  /\ True # False /\ True # Unknown /\ False # Unknown
  BY DEF Sql, True, False, Unknown, SqlValues

LEMMA HoldsIs ==
  \A x, y : /\ Holds(">", x, y) = (x > y) /\ Holds("<", x, y) = (x < y)
            /\ Holds(">=", x, y) = (x >= y) /\ Holds("<=", x, y) = (x <= y)
  BY DEF Holds

\* A value that is there, as it is compared.
LEMMA CompareIs ==
  ASSUME NEW e, NEW m, FieldsOK(e, m), e.op \in {"cmp", "range"},
         NEW v, v = m.fields[e.field], v # NoValue, NEW rel, NEW b
  PROVE  /\ ValueOf(m, e.field) = v
         /\ Compare(v, e.field, rel, b) = Sql(Holds(rel, v.v, b))
<1>1. ValueOf(m, e.field) = v
  BY DEF ValueOf
<1>2. v.kind \in {"num", "text"} /\ (e.field \notin Columns => v.kind = "num")
  BY DEF FieldsOK
<1>3. v # NULL
  BY <1>2 DEF NULL
<1>4. (IF e.field \in Columns THEN v.v ELSE Real(v)) = v.v
  BY <1>2 DEF Real
<1>5. QED
  BY <1>1, <1>3, <1>4 DEF Compare

\* A value that is not there.
LEMMA CompareMissing ==
  ASSUME NEW e, NEW m, m.fields[e.field] = NoValue
  PROVE  /\ e.field \in Columns => ValueOf(m, e.field) = Text(0) /\ Text(0) # NULL
         /\ e.field \notin Columns => ValueOf(m, e.field) = NULL
  BY DEF ValueOf, Text, NULL

LEMMA PlainLeaf ==
  ASSUME NEW e, NEW m, NEW w, NEW t, NEW N, StepOf(e, m, w, t, N),
         \/ e.op \in {"all", "term"}
         \/ e.op = "eq" /\ e.field = "message"
  PROVE  Sound(e, m, w, t, N)
<1>1. CASE e.op = "all"
  <2>1. w[e] = True /\ t[e] = TRUE
    BY <1>1 DEF StepOf, Emit, Meaning
  <2>2. QED
    BY <2>1, SqlIs DEF Sound, SqlValues
<1>2. CASE e.op # "all"
  <2>1. w[e] = Sql(e.val \in m.words) /\ t[e] = (e.val \in m.words)
    BY <1>2 DEF StepOf, Emit, Meaning
  <2>b. (e.val \in m.words) \in BOOLEAN
    OBVIOUS
  <2>2. PICK b \in BOOLEAN : b = (e.val \in m.words)
    BY <2>b
  <2>3. w[e] = Sql(b) /\ t[e] = b
    BY <2>1, <2>2
  <2>4. QED
    BY <2>3, SqlIs DEF Sound
<1>3. QED
  BY <1>1, <1>2

LEMMA FieldLeaf ==
  ASSUME NEW e, NEW m, NEW w, NEW t, NEW N, StepOf(e, m, w, t, N), FieldsOK(e, m),
         e.op = "eq" /\ e.field # "message"
  PROVE  Sound(e, m, w, t, N)
<1>1. PICK v : v = m.fields[e.field]
  OBVIOUS
<1>2. N[e] = {e.field}
  BY DEF StepOf, Named
<1>3. t[e] = (v = e.val)
  BY <1>1 DEF StepOf, Meaning
<1>4. w[e] = IF ValueOf(m, e.field) = NULL THEN Unknown ELSE Sql(ValueOf(m, e.field) = e.val)
  BY DEF StepOf, Emit
<1>5. t[e] \in BOOLEAN
  BY <1>3
<1>6. CASE v = NoValue
  <2>1. w[e] \in SqlValues
    BY <1>4, SqlIs DEF SqlValues
  <2>2. e.field \in Columns => w[e] # Unknown
    <3>1. PICK b \in BOOLEAN : b = (ValueOf(m, e.field) = e.val)
      OBVIOUS
    <3>2. e.field \in Columns => w[e] = Sql(b)
      BY <1>1, <1>4, <1>6, <3>1, CompareMissing
    <3>3. QED
      BY <3>2, SqlIs
  <2>3. QED
    BY <1>1, <1>2, <1>5, <1>6, <2>1, <2>2 DEF Sound
<1>7. CASE v # NoValue
  <2>1. ValueOf(m, e.field) = v /\ v.kind \in {"num", "text"}
    BY <1>1, <1>7 DEF ValueOf, FieldsOK
  <2>2. v # NULL
    BY <2>1 DEF NULL
  <2>3. PICK b \in BOOLEAN : b = (v = e.val)
    OBVIOUS
  <2>4. w[e] = Sql(b) /\ t[e] = b
    BY <1>3, <1>4, <2>1, <2>2, <2>3
  <2>5. QED
    BY <2>4, SqlIs DEF Sound
<1>8. QED
  BY <1>6, <1>7

LEMMA ExistsLeaf ==
  ASSUME NEW e, NEW m, NEW w, NEW t, NEW N, StepOf(e, m, w, t, N), FieldsOK(e, m),
         e.op = "exists"
  PROVE  Sound(e, m, w, t, N)
<1>1. PICK v : v = m.fields[e.field]
  OBVIOUS
<1>2. PICK b \in BOOLEAN : b = (v # NoValue)
  OBVIOUS
<1>3. t[e] = b
  BY <1>1, <1>2 DEF StepOf, Meaning
<1>4. w[e] = IF e.field \in Columns THEN Sql(ValueOf(m, e.field) # Text(0))
             ELSE Sql(ValueOf(m, e.field) # NULL)
  BY DEF StepOf, Emit
<1>5. v # NoValue => v.kind \in {"num", "text"} /\ v # Text(0) /\ ValueOf(m, e.field) = v
  BY <1>1 DEF FieldsOK, ValueOf
<1>6. v # NoValue => v # NULL
  BY <1>5 DEF NULL
<1>7. w[e] = Sql(b)
  <2>1. CASE v = NoValue
    BY <1>1, <1>2, <1>4, <2>1, CompareMissing
  <2>2. CASE v # NoValue
    BY <1>2, <1>4, <1>5, <1>6, <2>2
  <2>3. QED
    BY <2>1, <2>2
<1>8. QED
  BY <1>3, <1>7, SqlIs DEF Sound

LEMMA CompareLeaf ==
  ASSUME NEW e, NEW m, NEW w, NEW t, NEW N, StepOf(e, m, w, t, N), FieldsOK(e, m),
         e.op = "cmp", NEW S, TreeOK(e, S)
  PROVE  Sound(e, m, w, t, N)
<1>1. PICK v : v = m.fields[e.field]
  OBVIOUS
<1>2. N[e] = {e.field}
  BY DEF StepOf, Named
<1>3. PICK x, y : x = v.v /\ y = e.val
  OBVIOUS
<1>4. PICK b : b = Holds(e.rel, x, y)
  OBVIOUS
<1>5. b \in BOOLEAN
  <2>1. (x > y) \in BOOLEAN /\ (x < y) \in BOOLEAN
    OBVIOUS
  <2>2. (x >= y) \in BOOLEAN /\ (x <= y) \in BOOLEAN
    OBVIOUS
  <2>3. e.rel \in {">", "<", ">=", "<="}
    BY DEF TreeOK
  <2>4. b \in {(x > y), (x < y), (x >= y), (x <= y)}
    BY <1>4, <2>3, HoldsIs
  <2>5. QED
    BY <2>1, <2>2, <2>4
<1>6. t[e] = b
  BY <1>1, <1>3, <1>4 DEF StepOf, Meaning
<1>7. w[e] = Compare(ValueOf(m, e.field), e.field, e.rel, e.val)
  BY DEF StepOf, Emit
<1>8. CASE v # NoValue
  <2>1. w[e] = Sql(b)
    BY <1>1, <1>3, <1>4, <1>7, <1>8, CompareIs
  <2>2. QED
    BY <1>5, <1>6, <2>1, SqlIs DEF Sound
<1>9. CASE v = NoValue
  <2>1. w[e] \in SqlValues
    BY EmitIsValue DEF StepOf
  <2>2. e.field \in Columns => w[e] # Unknown
    <3>1. PICK c : c = Holds(e.rel, Text(0).v, y)
      OBVIOUS
    <3>2. e.field \in Columns => w[e] = Sql(c)
      BY <1>1, <1>3, <1>7, <1>9, <3>1, CompareMissing DEF Compare
    <3>3. Sql(c) # Unknown
      BY DEF Sql, True, False, Unknown
    <3>4. QED
      BY <3>2, <3>3
  <2>3. QED
    BY <1>1, <1>2, <1>5, <1>6, <1>9, <2>1, <2>2 DEF Sound
<1>10. QED
  BY <1>8, <1>9

LEMMA AndIs ==
  \A a, b \in SqlValues :
    /\ SqlAnd(a, b) = True <=> a = True /\ b = True
    /\ SqlOr(a, b) = True <=> a = True \/ b = True
    /\ SqlNot(a) = True <=> a = False
    /\ SqlAnd(a, b) = Unknown => a = Unknown \/ b = Unknown
    /\ SqlOr(a, b) = Unknown => a = Unknown \/ b = Unknown
    /\ SqlNot(a) = Unknown => a = Unknown
  BY DEF SqlAnd, SqlOr, SqlNot, SqlValues, True, False, Unknown

\* One end of a range: open, or compared with x.
EndSql(open, rel, x, b) == IF open THEN True ELSE Sql(Holds(rel, x, b))

LEMMA EndIs ==
  ASSUME NEW open \in BOOLEAN, NEW rel \in {">", "<", ">=", "<="}, NEW x, NEW b
  PROVE  /\ EndSql(open, rel, x, b) \in SqlValues /\ EndSql(open, rel, x, b) # Unknown
         /\ EndSql(open, rel, x, b) = True <=> open \/ Holds(rel, x, b)
  BY DEF EndSql, Sql, SqlValues, True, False, Unknown

LEMMA RangeLeaf ==
  ASSUME NEW e, NEW m, NEW w, NEW t, NEW N, StepOf(e, m, w, t, N), FieldsOK(e, m),
         e.op = "range", NEW S, TreeOK(e, S)
  PROVE  Sound(e, m, w, t, N)
<1>1. PICK v : v = m.fields[e.field]
  OBVIOUS
<1>2. N[e] = {e.field}
  BY DEF StepOf, Named
<1>3. PICK x, lo, hi : x = v.v /\ lo = e.lo /\ hi = e.hi
  OBVIOUS
<1>4. PICK p \in {">", ">="} : p = IF e.incLo THEN ">=" ELSE ">"
  OBVIOUS
<1>5. PICK q \in {"<", "<="} : q = IF e.incHi THEN "<=" ELSE "<"
  OBVIOUS
<1>6. t[e] <=> (lo = Open \/ Holds(p, x, lo)) /\ (hi = Open \/ Holds(q, x, hi))
  <2>1. t[e] <=> /\ lo = Open \/ (IF e.incLo THEN x >= lo ELSE x > lo)
                 /\ hi = Open \/ (IF e.incHi THEN x <= hi ELSE x < hi)
    BY <1>1, <1>3 DEF StepOf, Meaning
  <2>2. Holds(p, x, lo) <=> IF e.incLo THEN x >= lo ELSE x > lo
    BY <1>4, HoldsIs
  <2>3. Holds(q, x, hi) <=> IF e.incHi THEN x <= hi ELSE x < hi
    BY <1>5, HoldsIs
  <2>4. QED
    BY <2>1, <2>2, <2>3
<1>7. t[e] \in BOOLEAN
  BY DEF StepOf, Meaning
<1>7a. PICK o1, o2 \in BOOLEAN : o1 = (lo = Open) /\ o2 = (hi = Open)
  OBVIOUS
<1>8. w[e] = RangeSql(ValueOf(m, e.field), e.field, e)
  BY DEF StepOf, Emit
<1>9. CASE v # NoValue
  <2>1. PICK a, b : a = EndSql(o1, p, x, lo) /\ b = EndSql(o2, q, x, hi)
    OBVIOUS
  <2>2. w[e] = SqlAnd(a, b)
    <3>1. ValueOf(m, e.field) = v
      BY <1>1, <1>9, CompareIs
    <3>2. Compare(v, e.field, p, lo) = Sql(Holds(p, x, lo))
      BY <1>1, <1>3, <1>9, CompareIs
    <3>3. Compare(v, e.field, q, hi) = Sql(Holds(q, x, hi))
      BY <1>1, <1>3, <1>9, CompareIs
    <3>4. QED
      BY <1>3, <1>4, <1>5, <1>8, <1>7a, <2>1, <3>1, <3>2, <3>3 DEF RangeSql, EndSql
  <2>3. a \in SqlValues /\ a # Unknown /\ (a = True <=> o1 \/ Holds(p, x, lo))
    BY <2>1, EndIs
  <2>4. b \in SqlValues /\ b # Unknown /\ (b = True <=> o2 \/ Holds(q, x, hi))
    BY <2>1, EndIs
  <2>5. w[e] \in SqlValues /\ w[e] # Unknown /\ (w[e] = True <=> t[e])
    <3>1. w[e] \in SqlValues /\ w[e] # Unknown /\ (w[e] = True <=> a = True /\ b = True)
      BY <2>2, <2>3, <2>4, AndIs, ThreeValues
    <3>2. t[e] <=> (o1 \/ Holds(p, x, lo)) /\ (o2 \/ Holds(q, x, hi))
      BY <1>6, <1>7a
    <3>3. t[e] <=> a = True /\ b = True
      BY <2>3, <2>4, <3>2
    <3>4. QED
      BY <3>1, <3>3
  <2>6. QED
    BY <1>7, <2>5 DEF Sound
<1>10. CASE v = NoValue
  <2>1. w[e] \in SqlValues
    BY EmitIsValue DEF StepOf
  <2>2. e.field \in Columns => w[e] # Unknown
    <3>1. PICK z : z = Text(0).v
      OBVIOUS
    <3>2. PICK a, b : a = EndSql(o1, p, z, lo) /\ b = EndSql(o2, q, z, hi)
      OBVIOUS
    <3>3. a \in SqlValues /\ a # Unknown /\ b \in SqlValues /\ b # Unknown
      BY <3>2, EndIs
    <3>4. e.field \in Columns => w[e] = SqlAnd(a, b)
      BY <1>1, <1>3, <1>4, <1>5, <1>8, <1>7a, <1>10, <3>1, <3>2, CompareMissing
         DEF RangeSql, EndSql, Compare
    <3>5. QED
      BY <3>3, <3>4, AndIs
  <2>3. QED
    BY <1>1, <1>2, <1>7, <1>10, <2>1, <2>2 DEF Sound
<1>11. QED
  BY <1>9, <1>10


LEMMA NodeIs ==
  ASSUME NEW e, NEW m, NEW w, NEW t, NEW N, StepOf(e, m, w, t, N), NEW S, TreeOK(e, S),
         e.op \in {"and", "or", "not"}, \A x \in S : Sound(x, m, w, t, N)
  PROVE  Sound(e, m, w, t, N)
<1>1. CASE e.op \in {"and", "or"}
  <2>1. PICK a, b : a = w[e.l] /\ b = w[e.r]
    OBVIOUS
  <2>2. Sound(e.l, m, w, t, N) /\ Sound(e.r, m, w, t, N)
    BY <1>1 DEF TreeOK
  <2>3. a \in SqlValues /\ b \in SqlValues /\ t[e.l] \in BOOLEAN /\ t[e.r] \in BOOLEAN
    BY <2>1, <2>2 DEF Sound
  <2>4. N[e] = N[e.l] \cup N[e.r]
    BY <1>1 DEF StepOf, Named
  <2>5. w[e] \in SqlValues
    BY EmitIsValue DEF StepOf
  <2>6. /\ (\A f \in N[e] : m.fields[f] # NoValue) =>
             (a = True <=> t[e.l]) /\ (b = True <=> t[e.r])
        /\ a = Unknown \/ b = Unknown => \E f \in N[e] \ Columns : m.fields[f] = NoValue
    BY <2>1, <2>2, <2>4 DEF Sound
  <2>7. CASE e.op = "and"
    <3>1. w[e] = SqlAnd(a, b) /\ t[e] = (t[e.l] /\ t[e.r])
      BY <2>1, <2>7 DEF StepOf, Emit, Meaning
    <3>2. (w[e] = True <=> a = True /\ b = True) /\ (w[e] = Unknown => a = Unknown \/ b = Unknown)
      BY <2>3, <3>1, AndIs
    <3>3. QED
      BY <2>3, <2>5, <2>6, <3>1, <3>2 DEF Sound
  <2>8. CASE e.op = "or"
    <3>1. w[e] = SqlOr(a, b) /\ t[e] = (t[e.l] \/ t[e.r])
      BY <2>1, <2>8 DEF StepOf, Emit, Meaning
    <3>2. (w[e] = True <=> a = True \/ b = True) /\ (w[e] = Unknown => a = Unknown \/ b = Unknown)
      BY <2>3, <3>1, AndIs
    <3>3. QED
      BY <2>3, <2>5, <2>6, <3>1, <3>2 DEF Sound
  <2>9. QED
    BY <1>1, <2>7, <2>8
<1>2. CASE e.op = "not"
  <2>1. PICK a : a = w[e.e]
    OBVIOUS
  <2>2. Sound(e.e, m, w, t, N)
    BY <1>2 DEF TreeOK
  <2>3. a \in SqlValues /\ t[e.e] \in BOOLEAN
    BY <2>1, <2>2 DEF Sound
  <2>4. w[e] = SqlNot(a) /\ t[e] = ~t[e.e] /\ N[e] = N[e.e]
    BY <1>2, <2>1 DEF StepOf, Emit, Meaning, Named
  <2>5. w[e] \in SqlValues
    BY EmitIsValue DEF StepOf
  <2>6. (w[e] = True <=> a = False) /\ (w[e] = Unknown => a = Unknown)
    BY <2>3, <2>4, AndIs
  <2>7. a = Unknown => \E f \in N[e] \ Columns : m.fields[f] = NoValue
    BY <2>1, <2>2, <2>4 DEF Sound
  <2>8. (\A f \in N[e] : m.fields[f] # NoValue) => (a = True <=> t[e.e]) /\ a # Unknown
    BY <2>1, <2>2, <2>4, <2>7 DEF Sound
  <2>9. a # Unknown => (a = False <=> ~(a = True))
    BY <2>3, SqlIs DEF SqlValues
  <2>10. QED
    BY <2>3, <2>4, <2>5, <2>6, <2>7, <2>8, <2>9 DEF Sound
<1>3. QED
  BY <1>1, <1>2

LEMMA TreesAreSound ==
  ASSUME NEW m \in Messages
  PROVE  \A e \in Exprs : Sound(e, m, Walk(m), Means(m), Names)
<1>1. PICK w, t, N : w = Walk(m) /\ t = Means(m) /\ N = Names
  OBVIOUS
<1>2. \A e \in Exprs : StepOf(e, m, w, t, N)
  <2>1. \A e \in Exprs : w[e] = Emit(e, m, w)
    BY <1>1, WalkIs
  <2>2. \A e \in Exprs : t[e] = Meaning(e, m, t)
    BY <1>1, MeansIs
  <2>3. \A e \in Exprs : N[e] = Named(e, N)
    BY <1>1, NamesIs
  <2>4. QED
    BY <2>1, <2>2, <2>3 DEF StepOf
<1>3. PICK Q : Q = {e \in Exprs : Sound(e, m, w, t, N)}
  OBVIOUS
<1>4. ASSUME NEW n \in DOMAIN Levels, Below(n) \subseteq Q, NEW e \in Levels[n]
      PROVE  e \in Q
  <2>1. TreeOK(e, Below(n)) /\ e \in Exprs
    BY OperandsBelow
  <2>2. FieldsOK(e, m) /\ StepOf(e, m, w, t, N)
    BY <1>2, <2>1, CompilerAssumption
  <2>3. \A x \in Below(n) : Sound(x, m, w, t, N)
    BY <1>3, <1>4
  <2>4. CASE e.op \in {"all", "term"}
    BY <1>3, <2>1, <2>2, <2>4, PlainLeaf
  <2>5. CASE e.op = "eq"
    BY <1>3, <2>1, <2>2, <2>5, PlainLeaf, FieldLeaf
  <2>6. CASE e.op = "exists"
    BY <1>3, <2>1, <2>2, <2>6, ExistsLeaf
  <2>7. CASE e.op = "cmp"
    BY <1>3, <2>1, <2>2, <2>7, CompareLeaf
  <2>8. CASE e.op = "range"
    BY <1>3, <2>1, <2>2, <2>8, RangeLeaf
  <2>9. CASE e.op \in {"and", "or", "not"}
    BY <1>3, <2>1, <2>2, <2>3, <2>9, NodeIs
  <2>10. QED
    BY <2>1, <2>4, <2>5, <2>6, <2>7, <2>8, <2>9 DEF TreeOK
<1>5. Exprs \subseteq Q
  BY <1>4, OverTrees
<1>6. QED
  BY <1>1, <1>3, <1>5

\* Whatever the tree, on a message that has the fields it names its SQL selects
\* what it means, and the SQL is NULL only where a field that is no column is
\* missing (compile.go:33-90).
THEOREM CompilerIsRight == CompilerTypeOK => SqlMeansTheQuery
<1>1. SUFFICES ASSUME expr \in Exprs, NEW m \in Messages
               PROVE  /\ (\A f \in Names[expr] : m.fields[f] # NoValue) =>
                           (Selected(expr, m) <=> Means(m)[expr])
                      /\ Walk(m)[expr] = Unknown =>
                           \E f \in Names[expr] \ Columns : m.fields[f] = NoValue
  BY DEF CompilerTypeOK, SqlMeansTheQuery
<1>2. Sound(expr, m, Walk(m), Means(m), Names)
  BY <1>1, TreesAreSound
<1>3. QED
  BY <1>2 DEF Sound, Selected

=============================================================================
