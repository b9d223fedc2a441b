------------------------- MODULE PromptQueueProofs -------------------------
(***************************************************************************)
(* Lemmas about the queue algorithms of PromptQueue, for queues of any     *)
(* length over any set of ids.                                             *)
(***************************************************************************)
EXTENDS PromptQueue, TLAPS, FunctionTheorems, FiniteSetTheorems, WellFoundedInduction,
        SequenceTheorems

(* A non-empty finite set of naturals has a least element: the basis of    *)
(* the Min in SendNowSlot.                                                 *)
LEMMA LeastNat ==
  ASSUME NEW S \in SUBSET Nat, IsFiniteSet(S), S # {}
  PROVE  \E m \in S : \A n \in S : m <= n
<1> DEFINE Upto(m) == {n \in S : n <= m}
           T == {Upto(m) : m \in S}
<1>1. T \subseteq FiniteSubsetsOf(S) /\ T # {}
  <2>1. ASSUME NEW m \in S PROVE Upto(m) \in FiniteSubsetsOf(S)
    <3>1. Upto(m) \in SUBSET S
      OBVIOUS
    <3>2. IsFiniteSet(Upto(m))
      BY <3>1, FS_Subset
    <3> QED  BY <3>1, <3>2 DEF FiniteSubsetsOf
  <2> QED  BY <2>1
<1>2. IsWellFoundedOn(StrictSubsetOrdering(S), FiniteSubsetsOf(S))
  BY FS_StrictSubsetOrderingWellFounded
<1>3. PICK x \in T : \A y \in T : ~ (<<y, x>> \in StrictSubsetOrdering(S))
  <2> HIDE DEF T
  <2> QED  BY <1>1, <1>2, WFMin
<1>4. PICK m \in S : x = Upto(m)
  BY <1>3
<1>5. ASSUME NEW n \in S PROVE m <= n
  <2>1. SUFFICES ASSUME n < m PROVE FALSE
    <3>1. m \in Nat /\ n \in Nat
      OBVIOUS
    <3> QED  BY <3>1
  <2>2. Upto(n) \subseteq Upto(m)
    <3>1. ASSUME NEW i \in S, i <= n PROVE i <= m
      <4>1. i \in Nat /\ m \in Nat /\ n \in Nat
        OBVIOUS
      <4> QED  BY <2>1, <3>1, <4>1
    <3> QED  BY <3>1
  <2>3. m \in Upto(m) /\ m \notin Upto(n)
    <3>1. m \in Nat /\ n \in Nat
      OBVIOUS
    <3>2. m <= m /\ ~ (m <= n)
      BY <2>1, <3>1
    <3> QED  BY <3>2
  <2>4. Upto(n) # Upto(m)
    BY <2>3
  <2>5. <<Upto(n), Upto(m)>> \in StrictSubsetOrdering(S)
    <3>1. Upto(n) \in SUBSET S /\ Upto(m) \in SUBSET S
      OBVIOUS
    <3> HIDE DEF Upto
    <3> QED  BY <2>2, <2>4, <3>1 DEF StrictSubsetOrdering
  <2>6. Upto(n) \in T
    OBVIOUS
  <2> QED  BY <1>3, <1>4, <2>5, <2>6
<1> QED  BY <1>5

(* The positions of a finite index set are ranked without gaps, so the     *)
(* k-th smallest one exists and grows with k.                              *)
LEMMA NthFacts ==
  ASSUME NEW n \in Nat, NEW I \in SUBSET (1 .. n)
  PROVE  /\ IsFiniteSet(I) /\ Cardinality(I) \in Nat
         /\ \A k \in 1 .. Cardinality(I) :
              /\ Nth(I, k) \in I
              /\ Cardinality({j \in I : j < Nth(I, k)}) = k - 1
         /\ \A i \in I : \E k \in 1 .. Cardinality(I) : Nth(I, k) = i
         /\ \A k, l \in 1 .. Cardinality(I) : k < l => Nth(I, k) < Nth(I, l)
<1> DEFINE Below(i) == {j \in I : j < i}
           c == Cardinality(I)
           rank == [i \in I |-> Cardinality(Below(i))]
<1>1. IsFiniteSet(I) /\ c \in Nat
  <2>1. IsFiniteSet(1 .. n)
    BY FS_Interval
  <2>2. IsFiniteSet(I)
    BY <2>1, FS_Subset
  <2> QED  BY <2>2, FS_CardinalityType
<1>2. ASSUME NEW i \in I
      PROVE  IsFiniteSet(Below(i)) /\ Cardinality(Below(i)) \in 0 .. c - 1
  <2>1. Below(i) \in SUBSET I
    OBVIOUS
  <2>2. IsFiniteSet(Below(i)) /\ Cardinality(Below(i)) <= c
        /\ (c = Cardinality(Below(i)) => I = Below(i))
    BY <1>1, <2>1, FS_Subset
  <2>3. i \notin Below(i)
    OBVIOUS
  <2>4. Cardinality(Below(i)) \in Nat
    BY <2>2, FS_CardinalityType
  <2>5. c # Cardinality(Below(i))
    BY <2>2, <2>3
  <2> HIDE DEF Below, c
  <2> QED  BY <1>1, <2>2, <2>4, <2>5
<1>3. ASSUME NEW i \in I, NEW j \in I, i < j
      PROVE  Cardinality(Below(i)) < Cardinality(Below(j))
  <2>1. Below(i) \cup {i} \in SUBSET Below(j)
    <3>1. \A x \in I : x < i => x < j
      BY <1>3
    <3> QED  BY <1>3, <3>1
  <2>2. i \notin Below(i)
    OBVIOUS
  <2>3. Cardinality(Below(i) \cup {i}) = Cardinality(Below(i)) + 1
    BY <1>2, <2>2, FS_AddElement
  <2>4. Cardinality(Below(i) \cup {i}) <= Cardinality(Below(j))
    BY <1>2, <2>1, FS_Subset
  <2>5. Cardinality(Below(i)) \in Nat /\ Cardinality(Below(j)) \in Nat
    BY <1>2, FS_CardinalityType
  <2> HIDE DEF Below
  <2> QED  BY <2>3, <2>4, <2>5
<1>4. rank \in Injection(I, 0 .. c - 1)
  <2>1. rank \in [I -> 0 .. c - 1]
    BY <1>2
  <2>2. ASSUME NEW i \in I, NEW j \in I, rank[i] = rank[j] PROVE i = j
    <3>1. rank[i] = Cardinality(Below(i)) /\ rank[j] = Cardinality(Below(j))
      OBVIOUS
    <3>2. Cardinality(Below(i)) \in Nat /\ Cardinality(Below(j)) \in Nat
      BY <1>2, FS_CardinalityType
    <3>3. i \in Nat /\ j \in Nat
      OBVIOUS
    <3> HIDE DEF Below, rank, c
    <3>4. Cardinality(Below(i)) = Cardinality(Below(j))
      BY <2>2, <3>1, Zenon
    <3>5. ASSUME i < j PROVE FALSE
      <4>1. Cardinality(Below(i)) < Cardinality(Below(j))
        BY <1>3, <3>5
      <4> QED  BY <3>2, <3>4, <4>1
    <3>6. ASSUME j < i PROVE FALSE
      <4>1. Cardinality(Below(j)) < Cardinality(Below(i))
        BY <1>3, <3>6
      <4> QED  BY <3>2, <3>4, <4>1
    <3> QED  BY <3>3, <3>5, <3>6
  <2> HIDE DEF rank
  <2> QED  BY <2>1, <2>2 DEF Injection, IsInjective
<1>5. rank \in Surjection(I, 0 .. c - 1)
  <2>1. IsFiniteSet(0 .. c - 1) /\ Cardinality(0 .. c - 1) = c
    <3>1. /\ IsFiniteSet(0 .. c - 1)
          /\ Cardinality(0 .. c - 1) = IF 0 > c - 1 THEN 0 ELSE (c - 1) - 0 + 1
      <4>1. c - 1 \in Int
        BY <1>1
      <4> HIDE DEF c
      <4> QED  BY <4>1, FS_Interval
    <3> HIDE DEF c
    <3> QED  BY <1>1, <3>1
  <2> HIDE DEF rank
  <2> QED  BY <1>4, <2>1, FS_Injection
<1>6. ASSUME NEW k \in 1 .. c
      PROVE  Nth(I, k) \in I /\ Cardinality(Below(Nth(I, k))) = k - 1
  <2>1. k - 1 \in 0 .. c - 1
    <3> HIDE DEF c
    <3> QED  BY <1>1
  <2>2. PICK m \in I : rank[m] = k - 1
    <3> HIDE DEF rank
    <3> QED  BY <1>5, <2>1 DEF Surjection
  <2>3. \E i \in I : Cardinality({j \in I : j < i}) = k - 1
    BY <2>2
  <2> QED  BY <2>3 DEF Nth
<1>7. ASSUME NEW i \in I PROVE \E k \in 1 .. c : Nth(I, k) = i
  <2>1. Cardinality(Below(i)) + 1 \in 1 .. c /\ (Cardinality(Below(i)) + 1) - 1 = Cardinality(Below(i))
    <3> HIDE DEF Below, c
    <3> QED  BY <1>1, <1>2
  <2> DEFINE k == Cardinality(Below(i)) + 1
             i2 == Nth(I, k)
  <2>2. i2 \in I /\ Cardinality(Below(i2)) = Cardinality(Below(i))
    <3>1. k \in 1 .. c
      BY <2>1
    <3> HIDE DEF k, Below
    <3>2. i2 \in I /\ Cardinality(Below(i2)) = k - 1
      BY <1>6, <3>1
    <3> QED  BY <2>1, <3>2 DEF k
  <2>3. i2 = i
    <3>1. rank[i2] = rank[i]
      BY <2>2
    <3> HIDE DEF rank, i2
    <3> QED  BY <1>4, <2>2, <3>1 DEF Injection, IsInjective
  <2> QED  BY <2>1, <2>3
<1>8. ASSUME NEW k \in 1 .. c, NEW l \in 1 .. c, k < l
      PROVE  Nth(I, k) < Nth(I, l)
  <2> DEFINE a == Nth(I, k)
             b == Nth(I, l)
  <2>1. a \in I /\ b \in I /\ Cardinality(Below(a)) = k - 1 /\ Cardinality(Below(b)) = l - 1
    BY <1>6
  <2>2. a \in Nat /\ b \in Nat
    <3>1. \A x \in I : x \in Nat
      OBVIOUS
    <3> HIDE DEF a, b
    <3> QED  BY <2>1, <3>1
  <2>3. k \in Nat /\ l \in Nat
    <3> HIDE DEF c
    <3> QED  BY <1>1
  <2> HIDE DEF a, b, Below
  <2>4. a # b
    BY <1>8, <2>1, <2>3
  <2>5. ~ (b < a)
    <3>1. ASSUME b < a PROVE FALSE
      <4>1. Cardinality(Below(b)) < Cardinality(Below(a))
        BY <1>3, <2>1, <3>1
      <4> QED  BY <1>8, <2>1, <2>3, <4>1
    <3> QED  BY <3>1
  <2> QED  BY <2>2, <2>4, <2>5 DEF a, b
<1> QED  BY <1>1, <1>6, <1>7, <1>8

(* What a sweep keeps: the members of K, each once if it was there once,   *)
(* in the order they had, and the front if the front is one of them.       *)
LEMMA KeepFacts ==
  ASSUME NEW T, NEW s \in Seq(T), NEW K
  PROVE  /\ Keep(s, K) \in Seq(T)
         /\ Items(Keep(s, K)) = Items(s) \cap K
         /\ Distinct(s) => Distinct(Keep(s, K))
         /\ s # <<>> /\ s[1] \in K => Keep(s, K) # <<>> /\ Keep(s, K)[1] = s[1]
<1> DEFINE I == Positions(s, K)
           c == Cardinality(I)
           r == Keep(s, K)
<1>1. Len(s) \in Nat /\ DOMAIN s = 1 .. Len(s) /\ \A i \in 1 .. Len(s) : s[i] \in T
  OBVIOUS
<1>2. I \in SUBSET (1 .. Len(s)) /\ \A i \in 1 .. Len(s) : i \in I <=> s[i] \in K
  BY <1>1 DEF Positions
<1>3. /\ IsFiniteSet(I) /\ c \in Nat
      /\ \A k \in 1 .. c : Nth(I, k) \in I
      /\ \A k \in 1 .. c : Cardinality({j \in I : j < Nth(I, k)}) = k - 1
      /\ \A i \in I : \E k \in 1 .. c : Nth(I, k) = i
      /\ \A k, l \in 1 .. c : k < l => Nth(I, k) < Nth(I, l)
  <2> HIDE DEF I
  <2> QED  BY <1>1, <1>2, NthFacts
<1>4. r = [k \in 1 .. c |-> s[Nth(I, k)]]
  BY DEF Keep
<1> HIDE DEF I, c, r
<1>5. r \in Seq(T) /\ Len(r) = c /\ DOMAIN r = 1 .. c
  <2>1. \A k \in 1 .. c : s[Nth(I, k)] \in T
    BY <1>1, <1>2, <1>3
  <2> QED  BY <1>3, <1>4, <2>1
<1>6. Items(r) = Items(s) \cap K
  <2>1. Items(r) = {s[Nth(I, k)] : k \in 1 .. c}
    BY <1>4, <1>5 DEF Items
  <2>2. ASSUME NEW x \in Items(r) PROVE x \in Items(s) \cap K
    <3>1. PICK k \in 1 .. c : x = s[Nth(I, k)]
      BY <2>1
    <3> QED  BY <1>1, <1>2, <1>3, <3>1 DEF Items
  <2>3. ASSUME NEW x \in Items(s) \cap K PROVE x \in Items(r)
    <3>1. PICK i \in 1 .. Len(s) : x = s[i]
      BY <1>1 DEF Items
    <3>2. i \in I
      BY <1>2, <3>1
    <3>3. PICK k \in 1 .. c : Nth(I, k) = i
      BY <1>3, <3>2
    <3> QED  BY <2>1, <3>1, <3>3
  <2> QED  BY <2>2, <2>3
<1>7. ASSUME Distinct(s) PROVE Distinct(r)
  <2>1. SUFFICES ASSUME NEW k \in 1 .. c, NEW l \in 1 .. c, r[k] = r[l] PROVE k = l
    BY <1>5 DEF Distinct
  <2>2. Nth(I, k) = Nth(I, l)
    BY <1>1, <1>2, <1>3, <1>4, <1>7, <2>1 DEF Distinct
  <2>3. Nth(I, k) \in Nat /\ Nth(I, l) \in Nat /\ k \in Nat /\ l \in Nat
    <3>1. \A i \in I : i \in Nat
      BY <1>1, <1>2
    <3>2. Nth(I, k) \in I /\ Nth(I, l) \in I
      BY <1>3
    <3> QED  BY <1>3, <3>1, <3>2
  <2>4. ~ (k < l) /\ ~ (l < k)
    BY <1>3, <2>2, <2>3
  <2> QED  BY <2>3, <2>4
<1>8. ASSUME s # <<>>, s[1] \in K PROVE r # <<>> /\ r[1] = s[1]
  <2>1. 1 \in 1 .. Len(s)
    BY <1>1, <1>8
  <2>2. PICK k \in 1 .. c : Nth(I, k) = 1
    BY <1>2, <1>3, <1>8, <2>1
  <2>3. k = 1
    <3>1. 1 \in 1 .. c /\ k \in Nat
      BY <1>3
    <3>2. Nth(I, 1) \in 1 .. Len(s)
      BY <1>2, <1>3, <3>1
    <3>3. ~ (1 < k)
      <4>1. 1 < k => Nth(I, 1) < 1
        BY <1>3, <2>2, <3>1
      <4> QED  BY <3>2, <4>1
    <3> QED  BY <3>1, <3>3
  <2> QED  BY <1>4, <1>5, <2>2, <2>3
<1> QED  BY <1>5, <1>6, <1>7, <1>8 DEF r

(* VecDeque::insert: x takes slot k + 1, the others keep their order.      *)
LEMMA InsertSlotAt ==
  ASSUME NEW T, NEW s \in Seq(T), NEW k \in 0 .. Len(s), NEW x \in T
  PROVE  /\ InsertSlot(s, k, x) \in Seq(T)
         /\ Len(InsertSlot(s, k, x)) = Len(s) + 1
         /\ \A i \in 1 .. Len(s) + 1 :
              InsertSlot(s, k, x)[i] = IF i <= k THEN s[i]
                                       ELSE IF i = k + 1 THEN x ELSE s[i - 1]
<1> DEFINE a == SubSeq(s, 1, k)
           b == SubSeq(s, k + 1, Len(s))
           c == a \o <<x>>
<1>1. Len(s) \in Nat /\ k \in Nat /\ k <= Len(s)
  OBVIOUS
<1>2. /\ a \in Seq(T) /\ Len(a) = k /\ \A i \in 1 .. k : a[i] = s[i]
      OBVIOUS
<1>3. /\ b \in Seq(T) /\ Len(b) = Len(s) - k
      /\ \A i \in 1 .. Len(s) - k : b[i] = s[k + i]
      OBVIOUS
<1>4. InsertSlot(s, k, x) = c \o b
  <2>1. (k + 1) - 1 = k
    OBVIOUS
  <2> QED  BY <2>1, Zenon DEF InsertSlot, InsertAt
<1> HIDE DEF a, b
<1>5. /\ c \in Seq(T) /\ Len(c) = k + 1
      /\ \A i \in 1 .. k + 1 : c[i] = IF i <= k THEN s[i] ELSE x
  BY <1>1, <1>2
<1> HIDE DEF c
<1>6. /\ c \o b \in Seq(T) /\ Len(c \o b) = Len(c) + Len(b)
      /\ \A i \in 1 .. Len(c) + Len(b) :
            (c \o b)[i] = IF i <= Len(c) THEN c[i] ELSE b[i - Len(c)]
  BY <1>3, <1>5, ConcatProperties
<1>7. Len(c) + Len(b) = Len(s) + 1
  BY <1>1, <1>3, <1>5
<1>8. ASSUME NEW i \in 1 .. Len(s) + 1
      PROVE  (c \o b)[i] = IF i <= k THEN s[i] ELSE IF i = k + 1 THEN x ELSE s[i - 1]
  <2>1. CASE i <= k + 1
    BY <1>1, <1>5, <1>6, <1>7, <2>1
  <2>2. CASE ~ (i <= k + 1)
    <3>1. (c \o b)[i] = b[i - (k + 1)]
      BY <1>1, <1>5, <1>6, <1>7, <2>2
    <3>2. i - (k + 1) \in 1 .. Len(s) - k /\ k + (i - (k + 1)) = i - 1
      BY <1>1, <2>2
    <3>3. b[i - (k + 1)] = s[i - 1]
      BY <1>3, <3>2
    <3> QED  BY <1>1, <2>2, <3>1, <3>3
  <2> QED  BY <2>1, <2>2
<1> QED  BY <1>4, <1>6, <1>7, <1>8

(* An insertion adds x, keeps a queue without repetition one, and leaves   *)
(* the front alone unless the slot is the front's.                         *)
LEMMA InsertSlotFacts ==
  ASSUME NEW T, NEW s \in Seq(T), NEW k \in 0 .. Len(s), NEW x \in T
  PROVE  /\ InsertSlot(s, k, x) \in Seq(T)
         /\ InsertSlot(s, k, x) # <<>>
         /\ Items(InsertSlot(s, k, x)) = Items(s) \cup {x}
         /\ Distinct(s) /\ x \notin Items(s) => Distinct(InsertSlot(s, k, x))
         /\ k > 0 => InsertSlot(s, k, x)[1] = s[1]
<1> DEFINE r == InsertSlot(s, k, x)
<1>1. Len(s) \in Nat /\ DOMAIN s = 1 .. Len(s) /\ k \in Nat /\ k <= Len(s)
  OBVIOUS
<1>2. /\ r \in Seq(T) /\ Len(r) = Len(s) + 1 /\ DOMAIN r = 1 .. Len(s) + 1
      /\ \A i \in 1 .. Len(s) + 1 :
           r[i] = IF i <= k THEN s[i] ELSE IF i = k + 1 THEN x ELSE s[i - 1]
  <2>1. /\ r \in Seq(T) /\ Len(r) = Len(s) + 1
        /\ \A i \in 1 .. Len(s) + 1 :
             r[i] = IF i <= k THEN s[i] ELSE IF i = k + 1 THEN x ELSE s[i - 1]
    BY InsertSlotAt
  <2> HIDE DEF r
  <2> QED  BY <2>1
<1> HIDE DEF r
<1>3. r # <<>>
  BY <1>1, <1>2
<1>4. Items(r) = Items(s) \cup {x}
  <2>1. ASSUME NEW y \in Items(r) PROVE y \in Items(s) \cup {x}
    <3>1. PICK i \in 1 .. Len(s) + 1 : y = r[i]
      BY <1>2 DEF Items
    <3>2. i \in Nat
      BY <1>1
    <3>3. CASE i <= k
      <4>1. i \in 1 .. Len(s) /\ r[i] = s[i]
        BY <1>1, <1>2, <3>2, <3>3
      <4>2. i \in DOMAIN s
        BY <1>1, <4>1
      <4> QED  BY <3>1, <4>1, <4>2, Zenon DEF Items
    <3>4. CASE i = k + 1
      BY <1>1, <1>2, <3>1, <3>4
    <3>5. CASE ~ (i <= k + 1)
      <4>1. i - 1 \in 1 .. Len(s) /\ r[i] = s[i - 1]
        BY <1>1, <1>2, <3>2, <3>5
      <4> QED  BY <1>1, <3>1, <4>1 DEF Items
    <3> QED  BY <1>1, <3>2, <3>3, <3>4, <3>5
  <2>2. ASSUME NEW y \in Items(s) PROVE y \in Items(r)
    <3>1. PICK i \in 1 .. Len(s) : y = s[i]
      BY <1>1 DEF Items
    <3>2. CASE i <= k
      <4>1. i \in 1 .. Len(s) + 1 /\ r[i] = s[i]
        BY <1>1, <1>2, <3>2
      <4> QED  BY <1>2, <3>1, <4>1 DEF Items
    <3>3. CASE ~ (i <= k)
      <4>1. i + 1 \in 1 .. Len(s) + 1 /\ r[i + 1] = s[(i + 1) - 1] /\ (i + 1) - 1 = i
        BY <1>1, <1>2, <3>3
      <4> QED  BY <1>2, <3>1, <4>1 DEF Items
    <3> QED  BY <3>2, <3>3
  <2>3. x \in Items(r)
    <3>1. k + 1 \in 1 .. Len(s) + 1 /\ r[k + 1] = x
      BY <1>1, <1>2
    <3> QED  BY <1>2, <3>1 DEF Items
  <2> QED  BY <2>1, <2>2, <2>3
<1>5. ASSUME Distinct(s), x \notin Items(s) PROVE Distinct(r)
  <2>1. SUFFICES ASSUME NEW i \in 1 .. Len(s) + 1, NEW j \in 1 .. Len(s) + 1, r[i] = r[j]
                 PROVE  i = j
    BY <1>2 DEF Distinct
  <2>2. \A m \in 1 .. Len(s) : s[m] # x
    BY <1>1, <1>5 DEF Items
  <2>3. \A m, n \in 1 .. Len(s) : s[m] = s[n] => m = n
    BY <1>1, <1>5 DEF Distinct
  <2>4. \A m \in 1 .. Len(s) + 1 :
           /\ m < k + 1 => m \in 1 .. Len(s) /\ r[m] = s[m]
           /\ m > k + 1 => m - 1 \in 1 .. Len(s) /\ r[m] = s[m - 1]
           /\ m = k + 1 => r[m] = x
    <3>1. SUFFICES ASSUME NEW m \in 1 .. Len(s) + 1
                   PROVE  /\ m < k + 1 => m \in 1 .. Len(s) /\ r[m] = s[m]
                          /\ m > k + 1 => m - 1 \in 1 .. Len(s) /\ r[m] = s[m - 1]
                          /\ m = k + 1 => r[m] = x
      OBVIOUS
    <3>2. r[m] = IF m <= k THEN s[m] ELSE IF m = k + 1 THEN x ELSE s[m - 1]
      BY <1>2
    <3>3. m \in Nat /\ m >= 1 /\ m <= Len(s) + 1
      BY <1>1
    <3>4. ASSUME m < k + 1 PROVE m \in 1 .. Len(s) /\ r[m] = s[m]
      BY <1>1, <3>2, <3>3, <3>4
    <3>5. ASSUME m > k + 1 PROVE m - 1 \in 1 .. Len(s) /\ r[m] = s[m - 1]
      BY <1>1, <3>2, <3>3, <3>5
    <3>6. ASSUME m = k + 1 PROVE r[m] = x
      BY <1>1, <3>2, <3>3, <3>6
    <3> QED  BY <3>4, <3>5, <3>6
  <2>5. i \in Nat /\ j \in Nat
    BY <1>1
  <2>6. CASE i < k + 1 /\ j < k + 1
    BY <2>1, <2>3, <2>4, <2>6
  <2>7. CASE i < k + 1 /\ j > k + 1
    <3>1. s[i] = s[j - 1] /\ i \in 1 .. Len(s) /\ j - 1 \in 1 .. Len(s)
      BY <2>1, <2>4, <2>7
    <3>2. i = j - 1
      BY <2>3, <3>1
    <3> QED  BY <1>1, <2>5, <2>7, <3>2
  <2>8. CASE i > k + 1 /\ j < k + 1
    <3>1. s[i - 1] = s[j] /\ j \in 1 .. Len(s) /\ i - 1 \in 1 .. Len(s)
      BY <2>1, <2>4, <2>8
    <3>2. i - 1 = j
      BY <2>3, <3>1
    <3> QED  BY <1>1, <2>5, <2>8, <3>2
  <2>9. CASE i > k + 1 /\ j > k + 1
    <3>1. s[i - 1] = s[j - 1] /\ j - 1 \in 1 .. Len(s) /\ i - 1 \in 1 .. Len(s)
      BY <2>1, <2>4, <2>9
    <3>2. i - 1 = j - 1
      BY <2>3, <3>1
    <3> QED  BY <2>5, <3>2
  <2>10. CASE i = k + 1 \/ j = k + 1
    <3>1. r[i] = x /\ r[j] = x
      BY <2>1, <2>4, <2>10
    <3>2. i = k + 1 /\ j = k + 1
      BY <1>1, <2>2, <2>4, <2>5, <3>1
    <3> QED  BY <3>2
  <2> QED  BY <1>1, <2>5, <2>6, <2>7, <2>8, <2>9, <2>10
<1>6. ASSUME k > 0 PROVE r[1] = s[1]
  BY <1>1, <1>2, <1>6
<1> QED  BY <1>2, <1>3, <1>4, <1>5, <1>6 DEF r

(* The slot of a send-now prompt is inside the queue and never ahead of    *)
(* the turn in flight.                                                     *)
LEMMA SendNowSlotFacts ==
  ASSUME NEW T, NEW s \in Seq(T), NEW run, NEW now
  PROVE  /\ FrontSlot(s, run) \in 0 .. Len(s)
         /\ SendNowSlot(s, run, now) \in FrontSlot(s, run) .. Len(s)
<1> DEFINE S == {k \in FrontSlot(s, run) .. Len(s) : k = Len(s) \/ s[k + 1] \notin now}
<1>1. Len(s) \in Nat /\ (s # <<>> => Len(s) > 0)
  OBVIOUS
<1>2. FrontSlot(s, run) \in 0 .. Len(s)
  BY <1>1 DEF FrontSlot
<1>3. S \in SUBSET (0 .. Len(s)) /\ Len(s) \in S
  BY <1>1, <1>2
<1>4. IsFiniteSet(S)
  <2>1. IsFiniteSet(0 .. Len(s))
    BY <1>1, FS_Interval
  <2> HIDE DEF S
  <2> QED  BY <1>3, <2>1, FS_Subset
<1>5. \E m \in S : \A n \in S : m <= n
  <2>1. S \in SUBSET Nat /\ S # {}
    BY <1>1, <1>3
  <2> HIDE DEF S
  <2> QED  BY <1>4, <2>1, LeastNat
<1>6. Min(S) \in S
  <2> HIDE DEF S
  <2> QED  BY <1>5 DEF Min
<1> QED  BY <1>2, <1>6 DEF SendNowSlot

(* Joining two queues. *)
LEMMA ConcatFacts ==
  ASSUME NEW T, NEW s \in Seq(T), NEW t \in Seq(T)
  PROVE  /\ s \o t \in Seq(T)
         /\ Items(s \o t) = Items(s) \cup Items(t)
         /\ Distinct(s) /\ Distinct(t) /\ Items(s) \cap Items(t) = {} => Distinct(s \o t)
         /\ s # <<>> => s \o t # <<>> /\ (s \o t)[1] = s[1]
<1> DEFINE r == s \o t
<1>1. /\ Len(s) \in Nat /\ Len(t) \in Nat
      /\ DOMAIN s = 1 .. Len(s) /\ DOMAIN t = 1 .. Len(t)
      /\ (s # <<>> => Len(s) > 0)
  OBVIOUS
<1>2. /\ r \in Seq(T) /\ DOMAIN r = 1 .. Len(s) + Len(t)
      /\ \A i \in 1 .. Len(s) + Len(t) : r[i] = IF i <= Len(s) THEN s[i] ELSE t[i - Len(s)]
  <2>1. /\ r \in Seq(T) /\ Len(r) = Len(s) + Len(t)
        /\ \A i \in 1 .. Len(s) + Len(t) :
              r[i] = IF i <= Len(s) THEN s[i] ELSE t[i - Len(s)]
    BY ConcatProperties
  <2> HIDE DEF r
  <2> QED  BY <2>1
<1> HIDE DEF r
<1>3. Items(r) = Items(s) \cup Items(t)
  <2>1. ASSUME NEW y \in Items(r) PROVE y \in Items(s) \cup Items(t)
    <3>1. PICK i \in 1 .. Len(s) + Len(t) : y = r[i]
      BY <1>2 DEF Items
    <3>2. CASE i <= Len(s)
      <4>1. i \in 1 .. Len(s) /\ r[i] = s[i]
        BY <1>1, <1>2, <3>2
      <4> QED  BY <1>1, <3>1, <4>1 DEF Items
    <3>3. CASE ~ (i <= Len(s))
      <4>1. i - Len(s) \in 1 .. Len(t) /\ r[i] = t[i - Len(s)]
        BY <1>1, <1>2, <3>3
      <4> QED  BY <1>1, <3>1, <4>1 DEF Items
    <3> QED  BY <3>2, <3>3
  <2>2. ASSUME NEW y \in Items(s) PROVE y \in Items(r)
    <3>1. PICK i \in 1 .. Len(s) : y = s[i]
      BY <1>1 DEF Items
    <3>2. i \in 1 .. Len(s) + Len(t) /\ r[i] = s[i]
      BY <1>1, <1>2
    <3> QED  BY <1>2, <3>1, <3>2 DEF Items
  <2>3. ASSUME NEW y \in Items(t) PROVE y \in Items(r)
    <3>1. PICK i \in 1 .. Len(t) : y = t[i]
      BY <1>1 DEF Items
    <3>2. i + Len(s) \in 1 .. Len(s) + Len(t) /\ (i + Len(s)) - Len(s) = i
          /\ ~ (i + Len(s) <= Len(s))
      BY <1>1
    <3>3. r[i + Len(s)] = t[i]
      BY <1>2, <3>2
    <3> QED  BY <1>2, <3>1, <3>2, <3>3 DEF Items
  <2> QED  BY <2>1, <2>2, <2>3
<1>4. ASSUME Distinct(s), Distinct(t), Items(s) \cap Items(t) = {} PROVE Distinct(r)
  <2>1. SUFFICES ASSUME NEW i \in 1 .. Len(s) + Len(t), NEW j \in 1 .. Len(s) + Len(t),
                        r[i] = r[j]
                 PROVE  i = j
    BY <1>2 DEF Distinct
  <2>2. \A m, n \in 1 .. Len(s) : s[m] = s[n] => m = n
    BY <1>1, <1>4 DEF Distinct
  <2>3. \A m, n \in 1 .. Len(t) : t[m] = t[n] => m = n
    BY <1>1, <1>4 DEF Distinct
  <2>4. \A m \in 1 .. Len(s), n \in 1 .. Len(t) : s[m] # t[n]
    BY <1>1, <1>4 DEF Items
  <2>5. \A m \in 1 .. Len(s) + Len(t) :
           /\ m <= Len(s) => m \in 1 .. Len(s) /\ r[m] = s[m]
           /\ ~ (m <= Len(s)) => m - Len(s) \in 1 .. Len(t) /\ r[m] = t[m - Len(s)]
    <3>1. SUFFICES ASSUME NEW m \in 1 .. Len(s) + Len(t)
                   PROVE  /\ m <= Len(s) => m \in 1 .. Len(s) /\ r[m] = s[m]
                          /\ ~ (m <= Len(s)) => /\ m - Len(s) \in 1 .. Len(t)
                                                /\ r[m] = t[m - Len(s)]
      OBVIOUS
    <3>2. r[m] = IF m <= Len(s) THEN s[m] ELSE t[m - Len(s)]
      BY <1>2
    <3>3. m \in Nat /\ m >= 1 /\ m <= Len(s) + Len(t)
      BY <1>1
    <3>4. ASSUME m <= Len(s) PROVE m \in 1 .. Len(s) /\ r[m] = s[m]
      BY <1>1, <3>2, <3>3, <3>4
    <3>5. ASSUME ~ (m <= Len(s)) PROVE m - Len(s) \in 1 .. Len(t) /\ r[m] = t[m - Len(s)]
      BY <1>1, <3>2, <3>3, <3>5
    <3> QED  BY <3>4, <3>5
  <2>6. i \in Nat /\ j \in Nat
    BY <1>1
  <2>8. CASE i <= Len(s) /\ j <= Len(s)
    <3>1. i \in 1 .. Len(s) /\ j \in 1 .. Len(s) /\ s[i] = s[j]
      BY <2>1, <2>5, <2>8
    <3> QED  BY <2>2, <3>1
  <2>9. CASE ~ (i <= Len(s)) /\ ~ (j <= Len(s))
    <3>1. /\ i - Len(s) \in 1 .. Len(t) /\ j - Len(s) \in 1 .. Len(t)
          /\ t[i - Len(s)] = t[j - Len(s)]
      BY <2>1, <2>5, <2>9
    <3>2. i - Len(s) = j - Len(s)
      BY <2>3, <3>1
    <3> QED  BY <1>1, <2>6, <3>2
  <2>10. CASE i <= Len(s) /\ ~ (j <= Len(s))
    <3>1. i \in 1 .. Len(s) /\ j - Len(s) \in 1 .. Len(t) /\ s[i] = t[j - Len(s)]
      BY <2>1, <2>5, <2>10
    <3> QED  BY <2>4, <3>1
  <2>11. CASE ~ (i <= Len(s)) /\ j <= Len(s)
    <3>1. j \in 1 .. Len(s) /\ i - Len(s) \in 1 .. Len(t) /\ s[j] = t[i - Len(s)]
      BY <2>1, <2>5, <2>11
    <3> QED  BY <2>4, <3>1
  <2> QED  BY <2>8, <2>9, <2>10, <2>11
<1>5. ASSUME s # <<>> PROVE r # <<>> /\ r[1] = s[1]
  BY <1>1, <1>2, <1>5
<1> QED  BY <1>2, <1>3, <1>4, <1>5 DEF r

(* Appending one id. *)
LEMMA AppendFacts ==
  ASSUME NEW T, NEW s \in Seq(T), NEW x \in T
  PROVE  /\ Append(s, x) \in Seq(T)
         /\ Append(s, x) # <<>>
         /\ Items(Append(s, x)) = Items(s) \cup {x}
         /\ Distinct(s) /\ x \notin Items(s) => Distinct(Append(s, x))
         /\ s # <<>> => Append(s, x)[1] = s[1]
<1>1. /\ Len(s) \in Nat /\ DOMAIN s = 1 .. Len(s) /\ (s # <<>> => Len(s) > 0)
      /\ Append(s, x) \in Seq(T) /\ DOMAIN Append(s, x) = 1 .. Len(s) + 1
      /\ \A i \in 1 .. Len(s) : Append(s, x)[i] = s[i]
      /\ Append(s, x)[Len(s) + 1] = x
  OBVIOUS
<1> DEFINE r == Append(s, x)
<1>2. r # <<>>
  BY <1>1
<1> HIDE DEF r
<1>3. Items(r) = Items(s) \cup {x}
  <2>1. \A i \in 1 .. Len(s) + 1 : i \in 1 .. Len(s) \/ i = Len(s) + 1
    BY <1>1
  <2>2. 1 .. Len(s) \subseteq 1 .. Len(s) + 1 /\ Len(s) + 1 \in 1 .. Len(s) + 1
    BY <1>1
  <2> QED  BY <1>1, <2>1, <2>2 DEF r, Items
<1>4. ASSUME Distinct(s), x \notin Items(s) PROVE Distinct(r)
  BY <1>1, <1>4 DEF r, Distinct, Items
<1> QED  BY <1>1, <1>2, <1>3, <1>4 DEF r

(* Dropping the first n ids. *)
LEMMA SuffixFacts ==
  ASSUME NEW T, NEW s \in Seq(T), NEW n \in Nat, n <= Len(s)
  PROVE  /\ SubSeq(s, n + 1, Len(s)) \in Seq(T)
         /\ Items(SubSeq(s, n + 1, Len(s))) \subseteq Items(s)
         /\ Distinct(s) => Distinct(SubSeq(s, n + 1, Len(s)))
         /\ Distinct(s) /\ n > 0 => s[1] \notin Items(SubSeq(s, n + 1, Len(s)))
<1> DEFINE r == SubSeq(s, n + 1, Len(s))
<1>1. Len(s) \in Nat /\ DOMAIN s = 1 .. Len(s)
  OBVIOUS
<1>2. r \in Seq(T) /\ DOMAIN r = 1 .. Len(s) - n /\ \A i \in 1 .. Len(s) - n : r[i] = s[n + i]
  OBVIOUS
<1> HIDE DEF r
<1>3. \A i \in 1 .. Len(s) - n : n + i \in 1 .. Len(s)
  BY <1>1
<1>4. Items(r) \subseteq Items(s)
  BY <1>1, <1>2, <1>3 DEF Items
<1>5. ASSUME Distinct(s) PROVE Distinct(r)
  <2>1. SUFFICES ASSUME NEW i \in 1 .. Len(s) - n, NEW j \in 1 .. Len(s) - n, r[i] = r[j]
                 PROVE  i = j
    BY <1>2 DEF Distinct
  <2>2. n + i = n + j
    BY <1>1, <1>2, <1>3, <1>5, <2>1 DEF Distinct
  <2> QED  BY <1>1, <2>2
<1>6. ASSUME Distinct(s), n > 0, s[1] \in Items(r) PROVE FALSE
  <2>1. PICK i \in 1 .. Len(s) - n : s[1] = s[n + i]
    BY <1>2, <1>6 DEF Items
  <2>2. 1 \in 1 .. Len(s) /\ n + i # 1
    BY <1>1, <1>6
  <2> QED  BY <1>1, <1>3, <1>6, <2>1, <2>2 DEF Distinct
<1> QED  BY <1>2, <1>4, <1>5, <1>6 DEF r

(* A reorder permutes the queue: nothing is lost or duplicated, and a      *)
(* front that is not one of the rows stays in front.                       *)
LEMMA ReorderFacts ==
  ASSUME NEW T, NEW s \in Seq(T), NEW rows, NEW order \in Seq(T), Distinct(s), Distinct(order)
  PROVE  /\ Reorder(s, rows, order) \in Seq(T)
         /\ Items(Reorder(s, rows, order)) = Items(s)
         /\ Distinct(Reorder(s, rows, order))
         /\ s # <<>> /\ s[1] \notin rows =>
              Reorder(s, rows, order) # <<>> /\ Reorder(s, rows, order)[1] = s[1]
<1> DEFINE a == Keep(s, Items(s) \ rows)
           b == Keep(order, Items(s) \cap rows)
           c == Keep(s, (Items(s) \cap rows) \ Items(order))
           ab == a \o b
<1>1. /\ a \in Seq(T) /\ Items(a) = Items(s) \ rows /\ Distinct(a)
      /\ s # <<>> /\ s[1] \notin rows => a # <<>> /\ a[1] = s[1]
  <2>1. /\ a \in Seq(T) /\ Items(a) = Items(s) \cap (Items(s) \ rows) /\ Distinct(a)
        /\ s # <<>> /\ s[1] \in Items(s) \ rows => a # <<>> /\ a[1] = s[1]
    BY KeepFacts, ZenonT(30)
  <2>2. s # <<>> => s[1] \in Items(s)
    <3>1. s # <<>> => 1 \in DOMAIN s
      OBVIOUS
    <3> QED  BY <3>1, Zenon DEF Items
  <2> HIDE DEF a
  <2> QED  BY <2>1, <2>2
<1>2. b \in Seq(T) /\ Items(b) = Items(order) \cap Items(s) \cap rows /\ Distinct(b)
  <2>1. b \in Seq(T) /\ Items(b) = Items(order) \cap (Items(s) \cap rows) /\ Distinct(b)
    BY KeepFacts
  <2> HIDE DEF b
  <2> QED  BY <2>1
<1>3. c \in Seq(T) /\ Items(c) = (Items(s) \cap rows) \ Items(order) /\ Distinct(c)
  <2>1. /\ c \in Seq(T) /\ Distinct(c)
        /\ Items(c) = Items(s) \cap ((Items(s) \cap rows) \ Items(order))
    BY KeepFacts
  <2> HIDE DEF c
  <2> QED  BY <2>1
<1>4. Reorder(s, rows, order) = ab \o c
  BY DEF Reorder
<1> HIDE DEF a, b, c
<1>5. /\ ab \in Seq(T) /\ Items(ab) = Items(a) \cup Items(b) /\ Distinct(ab)
      /\ a # <<>> => ab # <<>> /\ ab[1] = a[1]
  <2>1. Items(a) \cap Items(b) = {}
    BY <1>1, <1>2
  <2> QED  BY <1>1, <1>2, <2>1, ConcatFacts
<1> HIDE DEF ab
<1>6. /\ ab \o c \in Seq(T) /\ Items(ab \o c) = Items(ab) \cup Items(c) /\ Distinct(ab \o c)
      /\ ab # <<>> => ab \o c # <<>> /\ (ab \o c)[1] = ab[1]
  <2>1. Items(ab) \cap Items(c) = {}
    BY <1>1, <1>2, <1>3, <1>5
  <2> QED  BY <1>3, <1>5, <2>1, ConcatFacts
<1>7. Items(ab) \cup Items(c) = Items(s)
  BY <1>1, <1>2, <1>3, <1>5
<1> QED  BY <1>1, <1>4, <1>5, <1>6, <1>7
=============================================================================
