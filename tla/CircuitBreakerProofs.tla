----------------------- MODULE CircuitBreakerProofs -----------------------
(***************************************************************************)
(* Safety of a breaker for every number of callers, every configuration    *)
(* and every width of its counter.  The window counts exactly whatever the *)
(* interleaving; what check() and record() rely on beyond that is proved   *)
(* for as long as no two operations have overlapped.                       *)
(***************************************************************************)
EXTENDS CircuitBreaker, TLAPS, FunctionTheorems, FiniteSetTheorems, WellFoundedInduction,
        SequenceTheorems

USE DEF vars, history

-----------------------------------------------------------------------------
(* The window *)

(* The failures of a sequence are counted over a finite set. *)
LEMMA FailuresFacts ==
  ASSUME NEW T, NEW s \in Seq(T)
  PROVE  /\ IsFiniteSet({i \in DOMAIN s : s[i].failed})
         /\ FailuresIn(s) \in Nat
<1> DEFINE F == {i \in DOMAIN s : s[i].failed}
<1>1. IsFiniteSet(DOMAIN s)
  BY FS_Interval
<1>2. F \in SUBSET DOMAIN s
  OBVIOUS
<1> HIDE DEF F
<1>3. IsFiniteSet(F)
  BY <1>1, <1>2, FS_Subset
<1>4. Cardinality(F) \in Nat
  BY <1>3, FS_CardinalityType
<1> QED  BY <1>3, <1>4 DEF F, FailuresIn

(* A new sample counts when it is a failure. *)
LEMMA FailuresAppend ==
  ASSUME NEW T, NEW s \in Seq(T), NEW e \in T
  PROVE  FailuresIn(Append(s, e)) = FailuresIn(s) + (IF e.failed THEN 1 ELSE 0)
<1> DEFINE F == {i \in DOMAIN s : s[i].failed}
           A == {i \in DOMAIN Append(s, e) : Append(s, e)[i].failed}
<1>1. A = IF e.failed THEN F \cup {Len(s) + 1} ELSE F
  OBVIOUS
<1>2. IsFiniteSet(F) /\ Len(s) + 1 \notin F /\ Cardinality(F) \in Nat
  BY FailuresFacts DEF FailuresIn
<1> HIDE DEF F, A
<1>3. Cardinality(F \cup {Len(s) + 1}) = Cardinality(F) + 1
  BY <1>2, FS_AddElement
<1>4. Cardinality(A) = Cardinality(F) + (IF e.failed THEN 1 ELSE 0)
  BY <1>1, <1>2, <1>3
<1> QED  BY <1>4 DEF F, A, FailuresIn

(* Cutting a sequence in two splits its failures. *)
LEMMA FailuresSplit ==
  ASSUME NEW T, NEW s \in Seq(T), NEW k \in 1 .. Len(s) + 1
  PROVE  /\ SubSeq(s, 1, k - 1) \in Seq(T) /\ SubSeq(s, k, Len(s)) \in Seq(T)
         /\ FailuresIn(s) = FailuresIn(SubSeq(s, 1, k - 1)) + FailuresIn(SubSeq(s, k, Len(s)))
<1> DEFINE p == SubSeq(s, 1, k - 1)
           q == SubSeq(s, k, Len(s))
           F == {i \in DOMAIN s : s[i].failed}
           P == {i \in DOMAIN p : p[i].failed}
           Q == {i \in DOMAIN q : q[i].failed}
           R == {i \in k .. Len(s) : s[i].failed}
<1>0. Len(s) \in Nat /\ k \in Nat /\ k >= 1 /\ k <= Len(s) + 1
  OBVIOUS
<1>1. /\ p \in Seq(T) /\ Len(p) = k - 1 /\ \A i \in 1 .. k - 1 : p[i] = s[i]
      /\ q \in Seq(T) /\ Len(q) = Len(s) - k + 1 /\ \A i \in 1 .. Len(s) - k + 1 : q[i] = s[i + k - 1]
  BY <1>0
<1>2. F = P \cup R /\ P \cap R = {}
  <2>1. DOMAIN s = 1 .. Len(s) /\ DOMAIN p = 1 .. k - 1
    BY <1>1
  <2> HIDE DEF p, q
  <2> QED  BY <1>0, <1>1, <2>1
<1>3. IsFiniteSet(F) /\ IsFiniteSet(P) /\ IsFiniteSet(Q)
  <2> HIDE DEF p, q
  <2> QED  BY <1>1, FailuresFacts
<1>4. ExistsBijection(Q, R)
  <2> DEFINE f == [i \in Q |-> i + k - 1]
  <2>1. DOMAIN q = 1 .. Len(s) - k + 1
    BY <1>1
  <2>2. Q = {i \in 1 .. Len(s) - k + 1 : s[i + k - 1].failed}
    BY <1>1, <2>1
  <2> HIDE DEF p, q, P, F
  <2>3. \A i \in Q : i \in Nat /\ i + k - 1 \in R
    BY <1>0, <2>2
  <2>4. \A j \in R : j \in Nat /\ j - k + 1 \in Q /\ (j - k + 1) + k - 1 = j
    BY <1>0, <2>2
  <2> HIDE DEF Q, R
  <2>5. f \in [Q -> R]
    BY <2>3
  <2>6. \A a, b \in Q : f[a] = f[b] => a = b
    BY <1>0, <2>3
  <2>7. \A j \in R : \E i \in Q : f[i] = j
    BY <2>4
  <2> HIDE DEF f
  <2>8. f \in Bijection(Q, R)
    BY <2>5, <2>6, <2>7, Fun_IsBij
  <2> QED  BY <2>8 DEF ExistsBijection
<1> HIDE DEF F, P, Q, R, p, q
<1>5. IsFiniteSet(R) /\ Cardinality(R) = Cardinality(Q)
  BY <1>3, <1>4, FS_Bijection
<1>6. Cardinality(F) = Cardinality(P) + Cardinality(Q)
  <2>1. Cardinality(F) = Cardinality(P) + Cardinality(R) - Cardinality(P \cap R)
    BY <1>2, <1>3, <1>5, FS_Union
  <2>2. Cardinality(P \cap R) = 0
    BY <1>2, FS_EmptySet
  <2>3. Cardinality(P) \in Nat /\ Cardinality(R) \in Nat
    BY <1>3, <1>5, FS_CardinalityType
  <2> QED  BY <1>5, <2>1, <2>2, <2>3
<1>7. FailuresIn(s) = Cardinality(F) /\ FailuresIn(p) = Cardinality(P) /\ FailuresIn(q) = Cardinality(Q)
  BY DEF F, P, Q, FailuresIn
<1> QED  BY <1>1, <1>6, <1>7 DEF p, q

(* A non-empty set of positions has a least element. *)
LEMMA LeastPosition ==
  ASSUME NEW n \in Nat, NEW S \in SUBSET (1 .. n), S # {}
  PROVE  Min(S) \in S
<1> DEFINE R == OpToRel(<, Nat)
<1>1. S \subseteq Nat /\ S # {}
  OBVIOUS
<1>2. IsWellFoundedOn(R, Nat)
  BY NatLessThanWellFounded
<1>3. \A x, y \in Nat : <<y, x>> \in R <=> y < x
  BY DEF OpToRel
<1> HIDE DEF R
<1>4. PICK m \in S : \A y \in S : ~ (<<y, m>> \in R)
  BY <1>1, <1>2, WFMin
<1>5. \A y \in S : m <= y
  <2> SUFFICES ASSUME NEW y \in S PROVE m <= y
    OBVIOUS
  <2>1. ~(y < m)
    BY <1>1, <1>3, <1>4
  <2> QED  BY <1>1, <2>1
<1> QED  BY <1>4, <1>5 DEF Min

(* A window of samples. *)
Windows == [entries : Seq(Samples), failures : Nat]

(* Its count is exact and it is within its cap. *)
WindowOk(w) == w \in Windows /\ CountsExactly(w) /\ Len(w.entries) <= MaxEntries

(* A single sample counts when it is a failure. *)
LEMMA FailuresOne ==
  ASSUME NEW T, NEW s \in Seq(T), Len(s) = 1
  PROVE  FailuresIn(s) = IF s[1].failed THEN 1 ELSE 0
<1>1. {i \in DOMAIN s : s[i].failed} = IF s[1].failed THEN {1} ELSE {}
  <2>1. DOMAIN s = {1}
    OBVIOUS
  <2> QED  BY <2>1
<1> QED  BY <1>1, FS_Singleton, FS_EmptySet DEF FailuresIn

(* push keeps the count exact and the window within its cap. *)
LEMMA PushExact ==
  ASSUME NEW w, WindowOk(w), NEW failed \in BOOLEAN, NEW age \in 0 .. SampleCap
  PROVE  WindowOk(Push(w, failed, age))
<1> DEFINE e == [age |-> age, failed |-> failed]
           s == w.entries
           full == Len(s) >= MaxEntries
           r == IF full THEN Tail(s) ELSE s
           n == Push(w, failed, age)
<1>1. e \in Samples /\ e.failed = failed /\ s \in Seq(Samples) /\ w.failures = FailuresIn(s)
      /\ w.failures \in Nat /\ Len(s) <= MaxEntries /\ MaxEntries \in Nat /\ MaxEntries > 0
  BY WindowAssumption DEF Samples, WindowOk, Windows, CountsExactly
<1>2. n = [entries |-> Append(r, e),
           failures |-> w.failures - (IF full /\ s[1].failed THEN 1 ELSE 0) + (IF failed THEN 1 ELSE 0)]
  BY DEF Push
<1>3. /\ r \in Seq(Samples) /\ Len(r) < MaxEntries
      /\ FailuresIn(r) = w.failures - (IF full /\ s[1].failed THEN 1 ELSE 0)
      /\ FailuresIn(r) \in Nat
  <2>1. CASE full
    <3>1. s # <<>> /\ Len(s) \in Nat /\ Len(s) >= 1
      BY <1>1, <2>1
    <3>2. /\ Tail(s) = SubSeq(s, 2, Len(s)) /\ s[1] \in Samples
          /\ SubSeq(s, 1, 1) \in Seq(Samples) /\ Len(SubSeq(s, 1, 1)) = 1 /\ SubSeq(s, 1, 1)[1] = s[1]
      <4>1. s[1] \in Samples
        BY <1>1, <3>1
      <4>2. Tail(s) = SubSeq(s, 2, Len(s))
        <5> DEFINE a == Tail(s)
                   b == SubSeq(s, 2, Len(s))
        <5>1. /\ a \in Seq(Samples) /\ Len(a) = Len(s) - 1 /\ \A i \in 1 .. Len(s) - 1 : a[i] = s[i + 1]
              /\ b \in Seq(Samples) /\ Len(b) = Len(s) - 1 /\ \A i \in 1 .. Len(s) - 1 : b[i] = s[i + 1]
          BY <1>1, <3>1
        <5> HIDE DEF a, b
        <5>2. a = b
          BY <3>1, <5>1, SeqEqual
        <5> QED  BY <5>2 DEF a, b
      <4>3. SubSeq(s, 1, 1) \in Seq(Samples) /\ Len(SubSeq(s, 1, 1)) = 1 /\ SubSeq(s, 1, 1)[1] = s[1]
        BY <1>1, <3>1
      <4> QED  BY <4>1, <4>2, <4>3
    <3>3. FailuresIn(s) = FailuresIn(SubSeq(s, 1, 1)) + FailuresIn(Tail(s))
      <4>1. FailuresIn(s) = FailuresIn(SubSeq(s, 1, 2 - 1)) + FailuresIn(SubSeq(s, 2, Len(s)))
        BY <1>1, <3>1, FailuresSplit
      <4>2. 2 - 1 = 1
        OBVIOUS
      <4> HIDE DEF s
      <4> QED  BY <3>2, <4>1, <4>2
    <3>6. FailuresIn(SubSeq(s, 1, 1)) = IF s[1].failed THEN 1 ELSE 0
      BY <3>2, FailuresOne
    <3>7. Tail(s) \in Seq(Samples) /\ Len(Tail(s)) = Len(s) - 1
      BY <1>1, <3>1
    <3>8. FailuresIn(Tail(s)) \in Nat
      BY <3>7, FailuresFacts
    <3>9. r = Tail(s) /\ (full <=> TRUE)
      BY <2>1
    <3> HIDE DEF s, r, full
    <3>10. Len(r) < MaxEntries
      BY <1>1, <3>1, <3>7, <3>9
    <3>11. FailuresIn(s) = (IF s[1].failed THEN 1 ELSE 0) + FailuresIn(r)
      BY <3>3, <3>6, <3>9
    <3> QED  BY <1>1, <3>7, <3>8, <3>9, <3>10, <3>11
  <2>2. CASE ~full
    <3>1. Len(s) < MaxEntries
      BY <1>1, <2>2
    <3> QED  BY <1>1, <2>2, <3>1
  <2> QED  BY <2>1, <2>2
<1> HIDE DEF r, e, full, n
<1>4. FailuresIn(Append(r, e)) = FailuresIn(r) + (IF failed THEN 1 ELSE 0)
  BY <1>1, <1>3, FailuresAppend
<1>5. Append(r, e) \in Seq(Samples) /\ Len(Append(r, e)) = Len(r) + 1
  BY <1>1, <1>3
<1> QED  BY <1>1, <1>2, <1>3, <1>4, <1>5 DEF n, WindowOk, Windows, CountsExactly

(* A new or closed breaker's window. *)
LEMMA EmptyExact == WindowOk(EmptyWindow)
<1>1. FailuresIn(<<>>) = 0
  <2>1. {i \in DOMAIN <<>> : <<>>[i].failed} = {}
    OBVIOUS
  <2> QED  BY <2>1, FS_EmptySet DEF FailuresIn
<1>2. MaxEntries \in Nat /\ <<>> \in Seq(Samples) /\ Len(<<>>) = 0
  BY WindowAssumption
<1> QED  BY <1>1, <1>2 DEF WindowOk, Windows, CountsExactly, EmptyWindow

(* evict keeps the count exact. *)
LEMMA EvictExact ==
  ASSUME NEW w, WindowOk(w), NEW now \in Nat
  PROVE  WindowOk(Evict(w, now))
<1> DEFINE s == w.entries
           live == {i \in DOMAIN s : s[i].age - now <= WindowDuration}
           first == IF live = {} THEN Len(s) + 1 ELSE Min(live)
           old == SubSeq(s, 1, first - 1)
           rest == SubSeq(s, first, Len(s))
<1>1. s \in Seq(Samples) /\ w.failures = FailuresIn(s) /\ Len(s) <= MaxEntries /\ Len(s) \in Nat
      /\ MaxEntries \in Nat
  BY WindowAssumption DEF WindowOk, Windows, CountsExactly
<1>2. first \in 1 .. Len(s) + 1
  <2>1. live \in SUBSET (1 .. Len(s))
    BY <1>1
  <2> HIDE DEF live
  <2>2. live # {} => Min(live) \in 1 .. Len(s)
    BY <1>1, <2>1, LeastPosition
  <2> QED  BY <1>1, <2>2
<1>3. Evict(w, now) = [entries |-> rest, failures |-> w.failures - FailuresIn(old)]
  BY DEF Evict
<1> HIDE DEF first, live
<1>4. /\ old \in Seq(Samples) /\ rest \in Seq(Samples)
      /\ FailuresIn(s) = FailuresIn(old) + FailuresIn(rest)
  BY <1>1, <1>2, FailuresSplit
<1>5. Len(rest) <= MaxEntries
  BY <1>1, <1>2
<1> HIDE DEF s, old, rest
<1>6. FailuresIn(old) \in Nat /\ FailuresIn(rest) \in Nat
  BY <1>4, FailuresFacts
<1> QED  BY <1>1, <1>3, <1>4, <1>5, <1>6 DEF WindowOk, Windows, CountsExactly

-----------------------------------------------------------------------------
(* Numbers, places and types *)

(* The counter's modulus, and the ages' caps. *)
LEMMA Bounds ==
  /\ Slots \in Nat /\ Slots >= 1
  /\ 2^Width \in Nat /\ 2^Width > Slots + 1
  /\ OpenDuration \in Nat /\ AgeCap \in Nat /\ OpenDuration <= AgeCap
  /\ SampleCap \in Nat /\ AgeCap = OpenDuration + MaxLag /\ MaxLag \in Nat
  BY BreakerAssumption, WindowAssumption DEF Slots, AgeCap, SampleCap

(* Counting modulo 2^Width. *)
LEMMA Modulo ==
  ASSUME NEW m \in Nat, m > 1
  PROVE  /\ \A n \in Nat : n % m \in 0 .. m - 1
         /\ \A n \in 0 .. m - 1 : n % m = n /\ (n + m) % m = n
<1>1. \A n \in Nat : n % m \in 0 .. m - 1
  OBVIOUS
<1>2. \A n \in 0 .. m - 1 : n % m = n
  OBVIOUS
<1>3. \A n \in 0 .. m - 1 : (n + m) % m = n
  OBVIOUS
<1> QED  BY <1>1, <1>2, <1>3

(* The slot counter goes up and down by one modulo 2^Width. *)
LEMMA Counter ==
  ASSUME NEW n \in 0 .. 2^Width - 1
  PROVE  /\ (n + 1) % 2^Width \in 0 .. 2^Width - 1
         /\ (n + 2^Width - 1) % 2^Width \in 0 .. 2^Width - 1
         /\ n <= Slots => (n + 1) % 2^Width = n + 1
         /\ n >= 1 => (n + 2^Width - 1) % 2^Width = n - 1
<1> DEFINE m == 2^Width
<1>1. m \in Nat /\ m > Slots + 1 /\ Slots \in Nat /\ m > 1
  BY Bounds
<1>2. n \in 0 .. m - 1
  OBVIOUS
<1> HIDE DEF m
<1>3. n + 1 \in Nat /\ n + m - 1 \in Nat /\ n \in Nat
  BY <1>1, <1>2
<1>4. (n + 1) % m \in 0 .. m - 1 /\ (n + m - 1) % m \in 0 .. m - 1
  BY <1>1, <1>3, Modulo
<1>5. ASSUME n <= Slots PROVE (n + 1) % m = n + 1
  <2>1. n + 1 \in 0 .. m - 1
    BY <1>1, <1>3, <1>5
  <2> QED  BY <1>1, <2>1, Modulo
<1>6. ASSUME n >= 1 PROVE (n + m - 1) % m = n - 1
  <2>1. n - 1 \in 0 .. m - 1 /\ n + m - 1 = (n - 1) + m
    BY <1>1, <1>2, <1>3, <1>6
  <2>2. ((n - 1) + m) % m = n - 1
    BY <1>1, <2>1, Modulo
  <2> QED  BY <2>1, <2>2
<1> QED  BY <1>4, <1>5, <1>6 DEF m

(* Ages saturate. *)
LEMMA OlderFacts ==
  ASSUME NEW cap \in Nat, NEW a \in 0 .. cap
  PROVE  /\ Older(a, cap) \in 0 .. cap /\ a <= Older(a, cap)
         /\ \A b \in 0 .. cap : a <= b => Older(a, cap) <= Older(b, cap)
  BY DEF Older

(* What a caller keeps. *)
Locals == [now : 0 .. AgeCap, claimed : 0 .. AgeCap, failed : BOOLEAN]

(* A caller's step moves it to a place of its own and leaves the others    *)
(* where they are.                                                         *)
LEMMA LeaveFacts ==
  ASSUME TypeOK, NEW c \in Callers, NEW p \in Places, Leave(c, p)
  PROVE  /\ pc' \in [Callers -> Places] /\ loc' \in [Callers -> Locals]
         /\ pc'[c] = p /\ loc'[c] = NoLocals
         /\ \A d \in Callers \ {c} : pc'[d] = pc[d] /\ loc'[d] = loc[d]
<1>1. NoLocals \in Locals
  BY Bounds DEF NoLocals, Locals
<1>2. pc \in [Callers -> Places] /\ loc \in [Callers -> Locals]
  BY DEF TypeOK, Locals
<1>3. pc' = [pc EXCEPT ![c] = p] /\ loc' = [loc EXCEPT ![c] = NoLocals]
  BY DEF Leave, Goto
<1> QED  BY <1>1, <1>2, <1>3

(* The same for a step that keeps some of the locals. *)
LEMMA GotoFacts ==
  ASSUME TypeOK, NEW c \in Callers, NEW p \in Places, Goto(c, p)
  PROVE  /\ pc' \in [Callers -> Places] /\ pc'[c] = p
         /\ \A d \in Callers \ {c} : pc'[d] = pc[d]
  BY DEF TypeOK, Goto

(* An operation is suspended for at most MaxLag ticks after its reading of *)
(* the clock.                                                              *)
LagBounded == \A c \in Callers : Busy(c) => loc[c].now <= MaxLag

(* Time passing leaves the outcomes as they are. *)
LEMMA TickWindow ==
  ASSUME TypeOK, WindowExact, Tick
  PROVE  WindowOk(win')
<1> DEFINE s == win.entries
           t == [i \in DOMAIN s |-> [s[i] EXCEPT !.age = Older(@, SampleCap)]]
<1>1. win \in Windows /\ s \in Seq(Samples) /\ win.failures = FailuresIn(s) /\ win.failures \in Nat
      /\ Len(s) <= MaxEntries
  BY DEF TypeOK, Windows, WindowExact, CountsExactly
<1>2. win' = [entries |-> t, failures |-> win.failures]
  <2>1. win' = [win EXCEPT !.entries = t]
    BY DEF Tick, OlderSamples
  <2>2. \A w \in Windows : \A e : [w EXCEPT !.entries = e] = [entries |-> e, failures |-> w.failures]
    BY DEF Windows
  <2> HIDE DEF t
  <2> QED  BY <1>1, <2>1, <2>2
<1>3. \A e \in Samples : LET f == [e EXCEPT !.age = Older(@, SampleCap)]
                         IN  f \in Samples /\ f.failed = e.failed
  <2> SUFFICES ASSUME NEW e \in Samples
               PROVE  LET f == [e EXCEPT !.age = Older(@, SampleCap)]
                      IN  f \in Samples /\ f.failed = e.failed
    OBVIOUS
  <2>1. e.age \in 0 .. SampleCap /\ e.failed \in BOOLEAN
    BY DEF Samples
  <2>2. Older(e.age, SampleCap) \in 0 .. SampleCap
    BY <2>1, Bounds, OlderFacts
  <2> QED  BY <2>1, <2>2 DEF Samples
<1>4. t \in Seq(Samples) /\ Len(t) = Len(s) /\ DOMAIN t = DOMAIN s
      /\ \A i \in DOMAIN s : t[i].failed = s[i].failed
  <2>1. DOMAIN s = 1 .. Len(s) /\ Len(s) \in Nat /\ \A i \in 1 .. Len(s) : s[i] \in Samples
    BY <1>1
  <2>2. \A i \in 1 .. Len(s) : t[i] \in Samples /\ t[i].failed = s[i].failed
    BY <1>3, <2>1
  <2>3. t \in [1 .. Len(s) -> Samples]
    BY <2>1, <2>2
  <2> HIDE DEF s
  <2>4. DOMAIN t = 1 .. Len(s)
    BY <2>1
  <2> HIDE DEF t
  <2>5. t \in Seq(Samples) /\ Len(t) = Len(s)
    BY <2>1, <2>3, <2>4
  <2> QED  BY <2>1, <2>2, <2>4, <2>5
<1> HIDE DEF t
<1>5. FailuresIn(t) = FailuresIn(s)
  <2>1. {i \in DOMAIN t : t[i].failed} = {i \in DOMAIN s : s[i].failed}
    BY <1>4
  <2> QED  BY <2>1 DEF FailuresIn
<1> HIDE DEF s
<1> QED  BY <1>1, <1>2, <1>4, <1>5 DEF WindowOk, Windows, CountsExactly

(* Every step of a caller, of error_rate and of the clock keeps the types, *)
(* and the window exact.                                                   *)
LEMMA WinNext ==
  ASSUME TypeOK, WindowExact, LagBounded, Next
  PROVE  TypeOK' /\ WindowExact'
<1> DEFINE Numbers == /\ state' \in {"closed", "open", "halfopen"}
                      /\ openAge' \in 0 .. AgeCap /\ claimAge' \in 0 .. AgeCap
                      /\ tripAge' \in 0 .. AgeCap
                      /\ probes' \in 0 .. 2^Width - 1
                      /\ fast' \in BOOLEAN /\ overlap' \in BOOLEAN
           Moved == pc' \in [Callers -> Places] /\ loc' \in [Callers -> Locals]
           G == Numbers /\ Moved /\ WindowOk(win')
<1>0. /\ state \in {"closed", "open", "halfopen"}
      /\ openAge \in 0 .. AgeCap /\ claimAge \in 0 .. AgeCap /\ tripAge \in 0 .. AgeCap
      /\ probes \in 0 .. 2^Width - 1 /\ fast \in BOOLEAN /\ overlap \in BOOLEAN
      /\ pc \in [Callers -> Places] /\ loc \in [Callers -> Locals]
      /\ 0 \in 0 .. AgeCap /\ 0 \in 0 .. 2^Width - 1
  BY Bounds DEF TypeOK, Locals
<1>w. WindowOk(win)
  BY DEF TypeOK, WindowExact, WindowOk, Windows
<1>p. /\ (probes + 1) % 2^Width \in 0 .. 2^Width - 1
      /\ (probes + 2^Width - 1) % 2^Width \in 0 .. 2^Width - 1
  BY <1>0, Counter
<1>b. \A c \in Callers : Begin(c) => overlap' \in BOOLEAN /\ tripAge' \in 0 .. AgeCap
  BY <1>0 DEF Begin
<1>1. ASSUME NEW c \in Callers, Check(c) PROVE G
  <2>1. PICK p \in Places : Leave(c, p)
    BY <1>1 DEF Check, Places, Resting
  <2>2. Moved
    BY <2>1, LeaveFacts
  <2> QED  BY <1>0, <1>w, <1>b, <1>1, <2>2 DEF Check
<1>2. ASSUME NEW c \in Callers,
             \/ CheckElapsed(c) \/ CheckCas(c) \/ CheckMirror(c) \/ CheckAgain(c) \/ Abandon(c)
             \/ TripState(c) \/ TripStamp(c) \/ TripProbes(c) \/ TripMirror(c)
             \/ CloseState(c) \/ CloseProbes(c) \/ CloseMirror(c)
      PROVE  G
  <2>1. PICK p \in Places : Leave(c, p)
    <3>1. CASE CheckElapsed(c) \/ CheckCas(c) \/ CheckMirror(c) \/ CheckAgain(c) \/ Abandon(c)
      BY <3>1 DEF CheckElapsed, CheckCas, CheckMirror, CheckAgain, Abandon, Places, Resting
    <3>2. CASE \/ TripState(c) \/ TripStamp(c) \/ TripProbes(c) \/ TripMirror(c)
               \/ CloseState(c) \/ CloseProbes(c) \/ CloseMirror(c)
      BY <3>2 DEF TripState, TripStamp, TripProbes, TripMirror, CloseState, CloseProbes, CloseMirror,
         Places, Resting
    <3> QED  BY <1>2, <3>1, <3>2
  <2>2. Moved
    BY <2>1, LeaveFacts
  <2>3. Numbers /\ UNCHANGED win
    BY <1>0, <1>2 DEF CheckElapsed, CheckCas, CheckMirror, CheckAgain, Abandon, TripState, TripStamp,
       TripProbes, TripMirror, CloseState, CloseProbes, CloseMirror
  <2> QED  BY <1>w, <2>2, <2>3
<1>3. ASSUME NEW c \in Callers, CloseWindow(c) PROVE G
  <2>1. Leave(c, "close_probes") /\ win' = EmptyWindow
    BY <1>3 DEF CloseWindow
  <2>2. Moved
    BY <2>1, LeaveFacts DEF Places
  <2>3. WindowOk(EmptyWindow)
    BY EmptyExact
  <2> QED  BY <1>0, <1>3, <2>1, <2>2, <2>3 DEF CloseWindow
<1>4. ASSUME NEW c \in Callers, ProbeClaim(c) \/ ProbeStamp(c) \/ ProbeUndo(c) PROVE G
  <2>1. PICK p \in Places : Goto(c, p)
    BY <1>4 DEF ProbeClaim, ProbeStamp, ProbeUndo, Places, Resting
  <2>2. pc' \in [Callers -> Places]
    BY <2>1, GotoFacts
  <2>3. \A l \in Locals : [l EXCEPT !.now = 0] \in Locals
    BY <1>0 DEF Locals
  <2>4. loc[c] \in Locals /\ loc[c].now \in 0 .. AgeCap
    BY <1>0 DEF Locals
  <2>5. loc' \in [Callers -> Locals]
    <3>1. loc' = loc \/ loc' = [loc EXCEPT ![c] = [loc[c] EXCEPT !.now = 0]]
      BY <1>4 DEF ProbeClaim, ProbeStamp, ProbeUndo
    <3> QED  BY <1>0, <2>3, <2>4, <3>1
  <2>6. Numbers /\ UNCHANGED win
    BY <1>0, <1>4, <1>p, <2>4 DEF ProbeClaim, ProbeStamp, ProbeUndo
  <2> QED  BY <1>w, <2>2, <2>5, <2>6
<1>5. ASSUME NEW c \in Callers, ProbeLease(c) \/ ProbeTake(c) PROVE G
  <2>1. loc[c] \in Locals /\ loc[c].now \in 0 .. AgeCap
    BY <1>0 DEF Locals
  <2>2. Numbers /\ UNCHANGED win
    BY <1>0, <1>5, <2>1 DEF ProbeLease, ProbeTake, Leave
  <2>3. \A l \in Locals, n \in 0 .. AgeCap : [l EXCEPT !.claimed = n] \in Locals
    BY DEF Locals
  <2>4. CASE Leave(c, "idle")
    <3>1. Moved
      BY <2>4, LeaveFacts DEF Places, Resting
    <3> QED  BY <1>w, <2>2, <3>1
  <2>5. CASE ~Leave(c, "idle")
    <3>1. PICK p \in Places, n \in 0 .. AgeCap : Goto(c, p) /\ loc' = [loc EXCEPT ![c] = [loc[c] EXCEPT !.claimed = n]]
      BY <1>0, <1>5, <2>5 DEF ProbeLease, ProbeTake, Places, Resting
    <3>2. pc' \in [Callers -> Places]
      BY <3>1, GotoFacts
    <3>3. loc' \in [Callers -> Locals]
      BY <1>0, <2>1, <2>3, <3>1
    <3> QED  BY <1>w, <2>2, <3>2, <3>3
  <2> QED  BY <2>4, <2>5
<1>6. ASSUME NEW c \in Callers, NEW failed \in BOOLEAN, Record(c, failed) PROVE G
  <2>1. CASE Enabled
    <3>1. PICK p \in Places : Goto(c, p)
      BY <1>0, <1>6, <2>1 DEF Record, Places
    <3>2. pc' \in [Callers -> Places]
      BY <3>1, GotoFacts
    <3>3. [NoLocals EXCEPT !.failed = failed] \in Locals
      BY <1>0 DEF NoLocals, Locals
    <3>4. loc' \in [Callers -> Locals]
      BY <1>0, <1>6, <2>1, <3>3 DEF Record
    <3> QED  BY <1>0, <1>w, <1>b, <1>6, <2>1, <3>2, <3>4 DEF Record
  <2>2. CASE ~Enabled
    <3>1. Leave(c, "idle")
      BY <1>6, <2>2 DEF Record
    <3>2. Moved
      BY <3>1, LeaveFacts DEF Places, Resting
    <3> QED  BY <1>0, <1>w, <1>6, <2>2, <3>2 DEF Record
  <2> QED  BY <2>1, <2>2
<1>7. ASSUME NEW c \in Callers, Sample(c) PROVE G
  <2>1. loc[c].now \in 0 .. AgeCap /\ loc[c].failed \in BOOLEAN
    BY <1>0 DEF Locals
  <2>2. Busy(c) /\ SampleCap = WindowDuration + MaxLag + 1 /\ WindowDuration \in Nat /\ MaxLag \in Nat
    BY <1>7, WindowAssumption, Bounds DEF Sample, Busy, Resting, SampleCap
  <2>3. loc[c].now \in 0 .. SampleCap /\ loc[c].now \in Nat
    BY <2>1, <2>2 DEF LagBounded
  <2>4. WindowOk(Push(win, loc[c].failed, loc[c].now))
    BY <1>w, <2>1, <2>3, PushExact
  <2>5. WindowOk(Evict(Push(win, loc[c].failed, loc[c].now), loc[c].now))
    BY <2>3, <2>4, EvictExact
  <2>6. PICK p \in Places : Leave(c, p)
    BY <1>7 DEF Sample, Places, Resting
  <2>7. Moved
    BY <2>6, LeaveFacts
  <2>8. Numbers /\ win' = Evict(Push(win, loc[c].failed, loc[c].now), loc[c].now)
    BY <1>0, <1>7 DEF Sample
  <2> QED  BY <2>5, <2>7, <2>8
<1>8. ASSUME ErrorRate PROVE G
  <2>1. WindowOk(Evict(win, 0))
    BY <1>w, EvictExact
  <2> QED  BY <1>0, <1>8, <2>1 DEF ErrorRate
<1>9. ASSUME Tick PROVE G
  <2>1. WindowOk(win')
    BY <1>9, TickWindow
  <2>2. \A a \in 0 .. AgeCap : Older(a, AgeCap) \in 0 .. AgeCap
    BY Bounds, OlderFacts
  <2>3. \A l \in Locals, n \in 0 .. AgeCap, m \in 0 .. AgeCap :
          [l EXCEPT !.now = n, !.claimed = m] \in Locals
    BY DEF Locals
  <2>4. \A l \in Locals : l.now \in 0 .. AgeCap /\ l.claimed \in 0 .. AgeCap
    BY DEF Locals
  <2>5. loc' \in [Callers -> Locals]
    <3>1. \A c \in Callers : loc[c] \in Locals
      BY <1>0
    <3>2. ASSUME NEW c \in Callers
          PROVE  [loc[c] EXCEPT !.now = Older(loc[c].now, AgeCap),
                                !.claimed = IF pc[c] = "probe_take"
                                            THEN Older(loc[c].claimed, AgeCap) ELSE loc[c].claimed] \in Locals
      <4>1. Older(loc[c].now, AgeCap) \in 0 .. AgeCap
        BY <2>2, <2>4, <3>1
      <4>2. (IF pc[c] = "probe_take" THEN Older(loc[c].claimed, AgeCap) ELSE loc[c].claimed) \in 0 .. AgeCap
        BY <2>2, <2>4, <3>1
      <4> QED  BY <2>3, <3>1, <4>1, <4>2
    <3> QED  BY <1>9, <3>1, <3>2 DEF Tick
  <2>6. Numbers
    BY <1>0, <1>9, <2>2 DEF Tick
  <2> QED  BY <1>0, <1>9, <2>1, <2>5, <2>6 DEF Tick
<1> HIDE DEF G
<1>10. G
  BY <1>1, <1>2, <1>3, <1>4, <1>5, <1>6, <1>7, <1>8, <1>9, Zenon DEF Next, Operate, Finish
<1> QED
  BY <1>10 DEF G, TypeOK, WindowExact, WindowOk, Windows, CountsExactly, Locals

-----------------------------------------------------------------------------
(* Operations that do not overlap *)

(* What is_open() and the slot counter say is what the state says. *)
Settled ==
  /\ fast <=> state = "open"
  /\ probes <= IF state = "halfopen" THEN Slots ELSE 0

(* At most one operation is under way. *)
Alone == \A c, d \in Callers : Busy(c) /\ Busy(d) => c = d

(* What an operation that is alone knows at each of its places. *)
PlaceFacts(c) ==
  /\ pc[c] \in {"check_open", "check_cas", "sample_open"} => state = "open" /\ Settled
  /\ pc[c] = "check_cas" => openAge >= OpenDuration
  /\ pc[c] = "check_mirror" => state = "halfopen" /\ probes = 0
  /\ pc[c] # "check_again"
  /\ pc[c] \in {"probe", "probe_stamp", "close"} => state = "halfopen" /\ Settled
  /\ pc[c] = "probe_stamp" => Cardinality(Probing) < probes
  /\ pc[c] = "probe_undo" => state = "halfopen" /\ ~fast /\ probes = Slots + 1
  /\ pc[c] \in {"probe_lease", "probe_take"} => state = "halfopen" /\ ~fast /\ probes = Slots
  /\ pc[c] = "probe_take" => claimAge = loc[c].claimed /\ claimAge >= OpenDuration
  /\ pc[c] = "sample" => state = "closed" /\ Settled
  /\ pc[c] = "trip" => state # "open" /\ Settled
  /\ pc[c] \in {"trip_stamp", "trip_probes", "trip_mirror"} => state = "open"
  /\ pc[c] \in {"close_window", "close_probes", "close_mirror"} => state = "closed" /\ ~fast
  /\ pc[c] \in {"trip_mirror", "close_mirror"} => probes = 0

(* The breaker is half-open a full cool-down after the last trip, which    *)
(* the stamp of an open breaker is not older than.                         *)
Cooled ==
  /\ state = "halfopen" => tripAge >= OpenDuration
  /\ state = "open" => openAge <= tripAge \/ \E c \in Callers : pc[c] = "trip_stamp"

(* No probe on the wire is younger than the last claim, the trip of an     *)
(* open breaker or the operation under way.                                *)
Aged ==
  \A d \in Callers : pc[d] = "probing" =>
    /\ claimAge <= loc[d].now
    /\ state = "open" => tripAge <= loc[d].now
    /\ \A c \in Callers : Busy(c) => loc[c].now <= loc[d].now

(* The probes within a lease hold slots, all counted while half-open. *)
Slotted ==
  /\ IsFiniteSet(Probing) /\ Cardinality(Probing) <= Slots
  /\ state = "halfopen" => Cardinality(Probing) <= probes

(* The invariant of operations that do not overlap. *)
SeqInv ==
  ~overlap => /\ Alone /\ Cooled /\ Aged /\ Slotted
              /\ \A c \in Callers : PlaceFacts(c)
              /\ Quiet => Settled

(* Every other caller stays where it is. *)
Others(c) == \A d \in Callers \ {c} : pc'[d] = pc[d] /\ loc'[d] = loc[d]

(* The probes on the wire change with the step of one caller. *)
LEMMA ProbingStep ==
  ASSUME NEW c \in Callers, Others(c), IsFiniteSet(Probing)
  PROVE  /\ pc'[c] # "probing" => /\ IsFiniteSet(Probing') /\ Cardinality(Probing') <= Cardinality(Probing)
                                  /\ Cardinality(Probing') \in Nat
         /\ IsFiniteSet(Probing') /\ Cardinality(Probing') <= Cardinality(Probing) + 1
         /\ Cardinality(Probing') \in Nat /\ Cardinality(Probing) \in Nat
<1>1. Probing' \subseteq Probing \cup {c}
  BY DEF Probing, Others
<1>2. pc'[c] # "probing" => Probing' \subseteq Probing
  BY DEF Probing, Others
<1> HIDE DEF Others
<1>3. IsFiniteSet(Probing \cup {c}) /\ Cardinality(Probing \cup {c}) <= Cardinality(Probing) + 1
      /\ Cardinality(Probing) \in Nat /\ Cardinality(Probing \cup {c}) \in Nat
  <2>1. Cardinality(Probing) \in Nat
    BY FS_CardinalityType
  <2>2. IsFiniteSet(Probing \cup {c}) /\ Cardinality(Probing \cup {c}) =
          IF c \in Probing THEN Cardinality(Probing) ELSE Cardinality(Probing) + 1
    BY FS_AddElement
  <2> QED  BY <2>1, <2>2
<1>4. IsFiniteSet(Probing') /\ Cardinality(Probing') <= Cardinality(Probing \cup {c})
  <2> DEFINE P == Probing'
  <2>1. P \in SUBSET (Probing \cup {c})
    BY <1>1
  <2> HIDE DEF P
  <2>2. IsFiniteSet(P) /\ Cardinality(P) <= Cardinality(Probing \cup {c})
    BY <1>3, <2>1, FS_Subset
  <2> QED  BY <2>2 DEF P
<1>5. pc'[c] # "probing" => Cardinality(Probing') <= Cardinality(Probing)
  <2> SUFFICES ASSUME pc'[c] # "probing" PROVE Cardinality(Probing') <= Cardinality(Probing)
    OBVIOUS
  <2> DEFINE P == Probing'
  <2>1. P \in SUBSET Probing
    BY <1>2
  <2> HIDE DEF P
  <2>2. Cardinality(P) <= Cardinality(Probing)
    BY <2>1, FS_Subset
  <2> QED  BY <2>2 DEF P
<1>6. Cardinality(Probing') \in Nat
  <2> DEFINE P == Probing'
  <2>1. IsFiniteSet(P)
    BY <1>4
  <2> HIDE DEF P
  <2>2. Cardinality(P) \in Nat
    BY <2>1, FS_CardinalityType
  <2> QED  BY <2>2 DEF P
<1> QED  BY <1>3, <1>4, <1>5, <1>6

(* A step of the only operation under way: what it leaves to check. *)
LEMMA SeqStep ==
  ASSUME TypeOK, TypeOK', SeqInv, ~overlap, NEW c \in Callers, Others(c),
         \A d \in Callers \ {c} : ~Busy(d),
         loc'[c].now = 0 \/ (Busy(c) /\ loc'[c].now = loc[c].now),
         claimAge' = claimAge \/ (Busy(c) /\ claimAge' = loc[c].now),
         state' = "open" => tripAge' = 0 \/ (state = "open" /\ tripAge' = tripAge),
         pc'[c] = "probing" => state' = "halfopen" /\ claimAge' = loc'[c].now,
         PlaceFacts(c)', pc'[c] \in Resting => Settled', Cooled', Slotted'
  PROVE  SeqInv'
<1>0. /\ Aged /\ Alone /\ Resting = {"idle", "inflight", "probing"}
      /\ \A d \in Callers : loc[d].now \in Nat
  BY DEF SeqInv, Resting, TypeOK
<1>1. \A d \in Callers \ {c} : ~Busy(d)' /\ pc'[d] \in Resting
  BY DEF Others, Busy
<1>2. Alone'
  BY <1>1 DEF Alone
<1>3. \A d \in Callers : PlaceFacts(d)'
  <2>1. ASSUME NEW d \in Callers \ {c} PROVE PlaceFacts(d)'
    <3>1. pc'[d] \in {"idle", "inflight", "probing"}
      BY <1>1 DEF Resting
    <3> QED  BY <3>1 DEF PlaceFacts
  <2> QED  BY <2>1
<1>4. Quiet' => Settled'
  BY DEF Quiet, Busy
<1>5. Aged'
  <2> SUFFICES ASSUME NEW d \in Callers, pc'[d] = "probing"
               PROVE  /\ claimAge' <= loc'[d].now
                      /\ state' = "open" => tripAge' <= loc'[d].now
                      /\ \A e \in Callers : Busy(e)' => loc'[e].now <= loc'[d].now
    BY DEF Aged
  <2>1. CASE d = c
    <3>1. ~Busy(c)' /\ loc'[c].now \in Nat /\ claimAge' = loc'[c].now
      BY <2>1 DEF Busy, Resting, TypeOK
    <3> QED  BY <1>1, <2>1, <3>1
  <2>2. CASE d # c
    <3>1. pc[d] = "probing" /\ loc'[d] = loc[d] /\ loc[d].now \in Nat
      BY <1>0, <2>2 DEF Others
    <3>2. /\ claimAge <= loc[d].now
          /\ state = "open" => tripAge <= loc[d].now
          /\ Busy(c) => loc[c].now <= loc[d].now
      BY <1>0, <3>1 DEF Aged
    <3>3. loc'[c].now <= loc[d].now
      BY <1>0, <3>1, <3>2
    <3>4. claimAge' <= loc[d].now
      BY <3>2
    <3>5. state' = "open" => tripAge' <= loc[d].now
      BY <3>1, <3>2
    <3> QED  BY <1>1, <3>1, <3>3, <3>4, <3>5
  <2> QED  BY <2>1, <2>2
<1> QED  BY <1>2, <1>3, <1>4, <1>5 DEF SeqInv

(* An operation that is alone finds the others at rest. *)
LEMMA AloneFacts ==
  ASSUME SeqInv, ~overlap, NEW c \in Callers, Busy(c)
  PROVE  \A d \in Callers \ {c} : ~Busy(d)
  BY DEF SeqInv, Alone

(* A step that ends an operation, or resets its locals on the way. *)
LEMMA LeaveStep ==
  ASSUME TypeOK, TypeOK', SeqInv, ~overlap, NEW c \in Callers, NEW p \in Places, Leave(c, p),
         \A d \in Callers \ {c} : ~Busy(d), p # "probing", claimAge' = claimAge,
         state' = "open" => tripAge' = 0 \/ (state = "open" /\ tripAge' = tripAge),
         state' = "halfopen" => Cardinality(Probing) <= probes',
         pc'[c] = p => PlaceFacts(c)', p \in Resting => Settled', Cooled'
  PROVE  SeqInv'
<1>1. Others(c) /\ pc'[c] = p /\ loc'[c].now = 0
  BY LeaveFacts DEF Others, NoLocals
<1>2. /\ IsFiniteSet(Probing) /\ Cardinality(Probing) <= Slots /\ Slots \in Nat
      /\ state' = "halfopen" => probes' \in Nat
  BY Bounds DEF SeqInv, Slotted, TypeOK
<1>3. /\ IsFiniteSet(Probing') /\ Cardinality(Probing') <= Cardinality(Probing)
      /\ Cardinality(Probing') \in Nat /\ Cardinality(Probing) \in Nat
  BY <1>1, <1>2, ProbingStep
<1>4. Slotted'
  BY <1>2, <1>3 DEF Slotted
<1> QED  BY <1>1, <1>4, SeqStep

(* check, check_open and the load of record. *)
LEMMA CheckSeq ==
  ASSUME TypeOK, TypeOK', SeqInv, NEW c \in Callers, ~overlap',
         Check(c) \/ CheckElapsed(c) \/ CheckCas(c) \/ CheckMirror(c) \/ CheckAgain(c)
  PROVE  SeqInv'
<1>o. ~overlap
  BY DEF Check, CheckElapsed, CheckCas, CheckMirror, CheckAgain, Begin, TypeOK
<1>s. Cooled /\ Aged /\ Slotted /\ PlaceFacts(c) /\ Alone /\ (Quiet => Settled)
  BY <1>o DEF SeqInv
<1>l. \A d \in Callers : loc[d].now \in Nat
  BY Bounds DEF TypeOK
<1>0. /\ Cooled /\ Aged /\ Slotted /\ PlaceFacts(c) /\ Alone /\ (Quiet => Settled)
      /\ state \in {"closed", "open", "halfopen"} /\ probes \in Nat /\ probes' \in Nat
      /\ openAge \in Nat /\ tripAge \in Nat /\ OpenDuration \in Nat /\ fast \in BOOLEAN
      /\ pc \in [Callers -> Places] /\ Slots \in Nat /\ Slots >= 1
      /\ \A d \in Callers : loc[d].now \in Nat
  BY <1>s, <1>l, Bounds DEF TypeOK
<1>1. ASSUME Check(c) PROVE SeqInv'
  <2>1. Quiet
    BY <1>1 DEF Check, Begin, Quiet, Busy, Resting
  <2>2. /\ UNCHANGED <<state, openAge, probes, claimAge, fast>> /\ tripAge' = tripAge
        /\ pc[c] = "idle"
    BY <1>1 DEF Check, Begin
  <2>3. PICK p \in {"inflight", "check_open", "probe"} :
          /\ Leave(c, p)
          /\ (p = "check_open" => state = "open") /\ (p = "probe" => state = "halfopen")
    BY <1>0, <1>1 DEF Check
  <2>4. p \in Places /\ p # "probing"
    BY <2>3 DEF Places, Resting
  <2>5. Others(c)
    BY <2>3, <2>4, LeaveFacts DEF Others
  <2>6. Settled /\ Settled'
    BY <1>0, <2>1, <2>2 DEF Settled
  <2>7. Cooled'
    BY <1>0, <2>1, <2>2 DEF Cooled, Quiet, Busy, Resting
  <2>8. pc'[c] = p => PlaceFacts(c)'
    BY <2>2, <2>3, <2>6 DEF PlaceFacts
  <2>9. state' = "halfopen" => Cardinality(Probing) <= probes'
    BY <1>0, <2>2 DEF Slotted
  <2>10. \A d \in Callers \ {c} : ~Busy(d)
    BY <2>1 DEF Quiet
  <2> QED  BY <1>o, <2>2, <2>3, <2>4, <2>6, <2>7, <2>8, <2>9, <2>10, LeaveStep
<1>2. ASSUME CheckElapsed(c) PROVE SeqInv'
  <2>1. /\ UNCHANGED <<state, openAge, probes, claimAge, fast, tripAge>> /\ pc[c] = "check_open"
        /\ Leave(c, IF openAge >= OpenDuration THEN "check_cas" ELSE "idle")
    BY <1>2 DEF CheckElapsed
  <2> DEFINE p == IF openAge >= OpenDuration THEN "check_cas" ELSE "idle"
  <2>2. p \in Places /\ p # "probing"
    BY DEF Places, Resting
  <2>3. state = "open" /\ Settled /\ Settled' /\ Busy(c)
    BY <1>0, <2>1 DEF PlaceFacts, Settled, Busy, Resting
  <2>4. \A d \in Callers \ {c} : ~Busy(d)
    BY <1>o, <2>3, AloneFacts
  <2>5. Cooled'
    <3>1. \A e \in Callers : pc[e] # "trip_stamp"
      BY <2>1, <2>4 DEF Busy, Resting
    <3> QED  BY <1>0, <2>1, <2>3, <3>1 DEF Cooled
  <2>6. pc'[c] = p => PlaceFacts(c)'
    BY <2>1, <2>3 DEF PlaceFacts
  <2> HIDE DEF p
  <2> QED  BY <1>o, <2>1, <2>2, <2>3, <2>4, <2>5, <2>6, LeaveStep DEF p
<1>3. ASSUME CheckCas(c) PROVE SeqInv'
  <2>1. /\ UNCHANGED <<openAge, probes, claimAge, fast, tripAge>> /\ pc[c] = "check_cas"
        /\ Busy(c)
    BY <1>3 DEF CheckCas, Busy, Resting
  <2>2. state = "open" /\ Settled /\ openAge >= OpenDuration
    BY <1>0, <2>1 DEF PlaceFacts
  <2>3. state' = "halfopen" /\ Leave(c, "check_mirror")
    BY <1>3, <2>2 DEF CheckCas
  <2>4. \A d \in Callers \ {c} : ~Busy(d)
    BY <1>o, <2>1, AloneFacts
  <2>5. tripAge >= OpenDuration
    <3>1. \A e \in Callers : pc[e] # "trip_stamp"
      BY <2>1, <2>4 DEF Busy, Resting
    <3> QED  BY <1>0, <2>2, <3>1 DEF Cooled
  <2>6. Probing = {}
    <3>1. ASSUME NEW d \in Callers, pc[d] = "probing" PROVE loc[d].now >= OpenDuration
      BY <1>0, <2>2, <2>5, <3>1 DEF Aged
    <3>2. ASSUME NEW d \in Callers, pc[d] = "probing" PROVE ~(loc[d].now < OpenDuration)
      BY <1>0, <3>1, <3>2
    <3> QED  BY <3>2 DEF Probing
  <2>7. Cardinality(Probing) = 0 /\ probes' = 0
    BY <1>0, <2>1, <2>2, <2>6, FS_EmptySet DEF Settled
  <2>8. Cooled'
    BY <2>1, <2>3, <2>5 DEF Cooled
  <2>9. pc'[c] = "check_mirror" => PlaceFacts(c)'
    BY <2>3, <2>7 DEF PlaceFacts
  <2>10. "check_mirror" \in Places /\ "check_mirror" \notin Resting
    BY DEF Places, Resting
  <2> QED  BY <1>o, <2>1, <2>3, <2>4, <2>7, <2>8, <2>9, <2>10, LeaveStep
<1>4. ASSUME CheckMirror(c) PROVE SeqInv'
  <2>1. /\ UNCHANGED <<state, openAge, probes, claimAge, tripAge>> /\ pc[c] = "check_mirror"
        /\ Busy(c) /\ fast' = FALSE /\ Leave(c, "probe")
    BY <1>4 DEF CheckMirror, Busy, Resting
  <2>2. state = "halfopen" /\ probes = 0
    BY <1>0, <2>1 DEF PlaceFacts
  <2>3. Settled'
    BY <1>0, <2>1, <2>2 DEF Settled
  <2>4. \A d \in Callers \ {c} : ~Busy(d)
    BY <1>o, <2>1, AloneFacts
  <2>5. Cooled'
    BY <1>0, <2>1, <2>2 DEF Cooled
  <2>6. pc'[c] = "probe" => PlaceFacts(c)'
    BY <2>1, <2>2, <2>3 DEF PlaceFacts
  <2>7. Cardinality(Probing) <= probes'
    BY <1>0, <2>1, <2>2 DEF Slotted
  <2>8. "probe" \in Places /\ "probe" \notin Resting
    BY DEF Places, Resting
  <2> QED  BY <1>o, <2>1, <2>2, <2>3, <2>4, <2>5, <2>6, <2>7, <2>8, LeaveStep
<1>5. ~CheckAgain(c)
  BY <1>0 DEF CheckAgain, PlaceFacts
<1> QED  BY <1>1, <1>2, <1>3, <1>4, <1>5

(* try_half_open_probe. *)
LEMMA ProbeSeq ==
  ASSUME TypeOK, TypeOK', SeqInv, NEW c \in Callers, ~overlap',
         ProbeClaim(c) \/ ProbeStamp(c) \/ ProbeUndo(c) \/ ProbeLease(c) \/ ProbeTake(c)
  PROVE  SeqInv'
<1>o. ~overlap /\ Busy(c)
  BY DEF ProbeClaim, ProbeStamp, ProbeUndo, ProbeLease, ProbeTake, Busy, Resting
<1>s. /\ Cooled /\ Aged /\ Slotted /\ PlaceFacts(c) /\ Alone
  BY <1>o DEF SeqInv
<1>r. probes \in 0 .. 2^Width - 1 /\ probes \in Nat
  BY Bounds DEF TypeOK
<1>l. loc \in [Callers -> Locals] /\ \A d \in Callers : loc[d].now \in Nat
  <2>1. loc \in [Callers -> Locals]
    BY DEF TypeOK, Locals
  <2>2. \A l \in Locals : l.now \in Nat
    BY DEF Locals
  <2> QED  BY <2>1, <2>2
<1>n. /\ state \in {"closed", "open", "halfopen"} /\ claimAge \in Nat /\ tripAge \in Nat
      /\ OpenDuration \in Nat /\ fast \in BOOLEAN
      /\ pc \in [Callers -> Places] /\ Slots \in Nat /\ Slots >= 1
  BY Bounds DEF TypeOK
<1>f. IsFiniteSet(Probing) /\ Cardinality(Probing) <= Slots
  BY <1>s DEF Slotted
<1>0. /\ Cooled /\ Aged /\ Slotted /\ PlaceFacts(c) /\ Alone
      /\ state \in {"closed", "open", "halfopen"} /\ probes \in 0 .. 2^Width - 1 /\ probes \in Nat
      /\ claimAge \in Nat /\ tripAge \in Nat /\ OpenDuration \in Nat /\ fast \in BOOLEAN
      /\ pc \in [Callers -> Places] /\ Slots \in Nat /\ Slots >= 1
      /\ loc \in [Callers -> Locals] /\ \A d \in Callers : loc[d].now \in Nat
      /\ IsFiniteSet(Probing) /\ Cardinality(Probing) <= Slots
  BY <1>s, <1>r, <1>l, <1>n, <1>f
<1>a. \A d \in Callers \ {c} : ~Busy(d)
  BY <1>o, AloneFacts
<1>c. Cardinality(Probing) \in Nat
  BY <1>0, FS_CardinalityType
<1>1. ASSUME ProbeClaim(c) PROVE SeqInv'
  <2>1. /\ UNCHANGED <<state, openAge, claimAge, fast, tripAge>> /\ pc[c] = "probe"
        /\ probes' = (probes + 1) % 2^Width
        /\ pc' = [pc EXCEPT ![c] = IF SlotFree(probes) THEN "probe_stamp" ELSE "probe_undo"]
        /\ loc' = [loc EXCEPT ![c] = [loc[c] EXCEPT !.now = 0]]
    BY <1>1 DEF ProbeClaim, Goto
  <2>2. state = "halfopen" /\ Settled /\ probes <= Slots /\ ~fast
    BY <1>0, <2>1 DEF PlaceFacts, Settled
  <2>3. probes' = probes + 1
    BY <1>0, <2>1, <2>2, Counter
  <2>4. \A l \in Locals : [l EXCEPT !.now = 0].now = 0
    BY DEF Locals
  <2>5. Others(c) /\ loc'[c].now = 0 /\ pc'[c] \in {"probe_stamp", "probe_undo"}
        /\ pc'[c] = IF SlotFree(probes) THEN "probe_stamp" ELSE "probe_undo"
    BY <1>0, <2>1, <2>4 DEF Others
  <2>6. /\ IsFiniteSet(Probing') /\ Cardinality(Probing') <= Cardinality(Probing)
        /\ Cardinality(Probing') \in Nat
    BY <1>0, <2>5, ProbingStep
  <2>7. Cardinality(Probing) <= probes
    BY <1>0, <2>2 DEF Slotted
  <2>8. Slotted'
    BY <1>0, <1>c, <2>3, <2>6, <2>7 DEF Slotted
  <2>9. PlaceFacts(c)'
    <3>1. CASE SlotFree(probes)
      <4>1. probes < Slots /\ pc'[c] = "probe_stamp" /\ Cardinality(Probing') < probes'
        BY <1>0, <1>c, <2>3, <2>5, <2>6, <2>7, <3>1 DEF SlotFree
      <4>2. Settled' /\ state' = "halfopen"
        BY <1>0, <2>1, <2>2, <2>3, <4>1 DEF Settled
      <4> QED  BY <4>1, <4>2 DEF PlaceFacts
    <3>2. CASE ~SlotFree(probes)
      <4>1. probes = Slots /\ pc'[c] = "probe_undo"
        BY <1>0, <2>2, <2>5, <3>2 DEF SlotFree
      <4> QED  BY <2>1, <2>2, <2>3, <4>1 DEF PlaceFacts
    <3> QED  BY <3>1, <3>2
  <2>10. Cooled'
    BY <1>0, <2>1, <2>2 DEF Cooled
  <2>11. pc'[c] \notin Resting /\ pc'[c] # "probing" /\ state' # "open" /\ claimAge' = claimAge
    BY <2>1, <2>2, <2>5 DEF Resting
  <2> QED  BY <1>o, <1>a, <2>5, <2>8, <2>9, <2>10, <2>11, SeqStep
<1>2. ASSUME ProbeStamp(c) PROVE SeqInv'
  <2>1. /\ UNCHANGED <<state, openAge, probes, fast, tripAge, loc>> /\ pc[c] = "probe_stamp"
        /\ claimAge' = loc[c].now /\ pc' = [pc EXCEPT ![c] = "probing"]
    BY <1>2 DEF ProbeStamp, Goto
  <2>2. state = "halfopen" /\ Settled /\ Cardinality(Probing) < probes /\ probes <= Slots
    BY <1>0, <2>1 DEF PlaceFacts, Settled
  <2>3. Others(c) /\ pc'[c] = "probing"
    BY <1>0, <2>1 DEF Others
  <2>4. /\ IsFiniteSet(Probing') /\ Cardinality(Probing') <= Cardinality(Probing) + 1
        /\ Cardinality(Probing') \in Nat
    BY <1>0, <2>3, ProbingStep
  <2>5. Slotted'
    BY <1>0, <1>c, <2>1, <2>2, <2>4 DEF Slotted
  <2>6. PlaceFacts(c)'
    BY <2>3 DEF PlaceFacts
  <2>7. Settled' /\ Cooled'
    BY <1>0, <2>1, <2>2 DEF Settled, Cooled
  <2>8. state' = "halfopen" /\ claimAge' = loc'[c].now /\ loc'[c].now = loc[c].now
    BY <2>1, <2>2
  <2> QED  BY <1>o, <1>a, <2>1, <2>3, <2>5, <2>6, <2>7, <2>8, SeqStep
<1>3. ASSUME ProbeUndo(c) PROVE SeqInv'
  <2>1. /\ UNCHANGED <<state, openAge, claimAge, fast, tripAge, loc>> /\ pc[c] = "probe_undo"
        /\ probes' = (probes + 2^Width - 1) % 2^Width
        /\ pc' = [pc EXCEPT ![c] = "probe_lease"]
    BY <1>3 DEF ProbeUndo, Goto
  <2>2. state = "halfopen" /\ ~fast /\ probes = Slots + 1
    BY <1>0, <2>1 DEF PlaceFacts
  <2>3. probes' = Slots
    <3>1. probes >= 1 /\ probes - 1 = Slots
      BY <1>0, <2>2
    <3>2. (probes + 2^Width - 1) % 2^Width = probes - 1
      BY <1>0, <3>1, Counter
    <3> QED  BY <2>1, <3>1, <3>2
  <2>4. Others(c) /\ pc'[c] = "probe_lease"
    BY <1>0, <2>1 DEF Others
  <2>5. /\ IsFiniteSet(Probing') /\ Cardinality(Probing') <= Cardinality(Probing)
        /\ Cardinality(Probing') \in Nat
    BY <1>0, <2>4, ProbingStep
  <2>6. Slotted'
    BY <1>0, <1>c, <2>3, <2>5 DEF Slotted
  <2>7. PlaceFacts(c)'
    BY <2>1, <2>2, <2>3, <2>4 DEF PlaceFacts
  <2>8. Cooled'
    BY <1>0, <2>1, <2>2 DEF Cooled
  <2>9. state' # "open" /\ claimAge' = claimAge /\ loc'[c].now = loc[c].now /\ pc'[c] \notin Resting
        /\ pc'[c] # "probing"
    BY <2>1, <2>2, <2>4 DEF Resting
  <2> QED  BY <1>o, <1>a, <2>4, <2>6, <2>7, <2>8, <2>9, SeqStep
<1>4. ASSUME ProbeLease(c) PROVE SeqInv'
  <2>1. /\ UNCHANGED <<state, openAge, probes, claimAge, fast, tripAge>> /\ pc[c] = "probe_lease"
    BY <1>4 DEF ProbeLease
  <2>2. state = "halfopen" /\ ~fast /\ probes = Slots
    BY <1>0, <2>1 DEF PlaceFacts
  <2>3. Settled' /\ Cooled' /\ state' # "open" /\ claimAge' = claimAge
    BY <1>0, <2>1, <2>2 DEF Settled, Cooled
  <2>4. CASE ~LeaseOver(c)
    <3>1. Leave(c, "idle")
      BY <1>4, <2>4 DEF ProbeLease
    <3>2. "idle" \in Places /\ Cardinality(Probing) <= probes'
      BY <1>0, <2>1, <2>2 DEF Places, Resting
    <3>3. pc'[c] = "idle" => PlaceFacts(c)'
      BY DEF PlaceFacts
    <3> QED  BY <1>o, <1>a, <2>3, <3>1, <3>2, <3>3, LeaveStep
  <2>5. CASE LeaseOver(c)
    <3>1. loc' = [loc EXCEPT ![c] = [loc[c] EXCEPT !.claimed = claimAge]] /\ pc' = [pc EXCEPT ![c] = "probe_take"]
      BY <1>4, <2>5 DEF ProbeLease, Goto
    <3>2. \A l \in Locals : LET n == [l EXCEPT !.claimed = claimAge] IN n.now = l.now /\ n.claimed = claimAge
      BY DEF Locals
    <3>3. Others(c) /\ pc'[c] = "probe_take" /\ loc'[c].now = loc[c].now /\ loc'[c].claimed = claimAge
      BY <1>0, <3>1, <3>2 DEF Others
    <3>4. /\ IsFiniteSet(Probing') /\ Cardinality(Probing') <= Cardinality(Probing)
          /\ Cardinality(Probing') \in Nat
      BY <1>0, <3>3, ProbingStep
    <3>5. Slotted'
      BY <1>0, <1>c, <2>1, <2>2, <3>4 DEF Slotted
    <3>6. claimAge >= OpenDuration
      BY <1>0, <2>5 DEF LeaseOver
    <3>7. PlaceFacts(c)'
      BY <2>1, <2>2, <3>3, <3>6 DEF PlaceFacts
    <3>8. pc'[c] \notin Resting /\ pc'[c] # "probing"
      BY <3>3 DEF Resting
    <3> QED  BY <1>o, <1>a, <2>3, <3>3, <3>5, <3>7, <3>8, SeqStep
  <2> QED  BY <2>4, <2>5
<1>5. ASSUME ProbeTake(c) PROVE SeqInv'
  <2>1. /\ UNCHANGED <<state, openAge, probes, fast, tripAge>> /\ pc[c] = "probe_take"
    BY <1>5 DEF ProbeTake
  <2>2. /\ state = "halfopen" /\ ~fast /\ probes = Slots
        /\ claimAge = loc[c].claimed /\ claimAge >= OpenDuration
    BY <1>0, <2>1 DEF PlaceFacts
  <2>3. claimAge' = loc[c].now /\ pc' = [pc EXCEPT ![c] = "probing"]
        /\ loc' = [loc EXCEPT ![c] = [loc[c] EXCEPT !.claimed = 0]]
    BY <1>5, <2>2 DEF ProbeTake, Goto
  <2>4. \A l \in Locals : [l EXCEPT !.claimed = 0].now = l.now
    BY DEF Locals
  <2>5. Others(c) /\ pc'[c] = "probing" /\ loc'[c].now = loc[c].now
    BY <1>0, <2>3, <2>4 DEF Others
  <2>6. Probing = {}
    <3>1. ASSUME NEW d \in Callers, pc[d] = "probing" PROVE ~(loc[d].now < OpenDuration)
      BY <1>0, <2>2, <3>1 DEF Aged
    <3> QED  BY <3>1 DEF Probing
  <2>7. IsFiniteSet(Probing') /\ Cardinality(Probing') <= 1 /\ Cardinality(Probing') \in Nat
    <3>1. Cardinality(Probing) = 0
      BY <2>6, FS_EmptySet
    <3> QED  BY <1>0, <2>5, <3>1, ProbingStep
  <2>8. Slotted'
    BY <1>0, <2>1, <2>2, <2>7 DEF Slotted
  <2>9. PlaceFacts(c)'
    BY <2>5 DEF PlaceFacts
  <2>10. Settled' /\ Cooled' /\ state' = "halfopen"
    BY <1>0, <2>1, <2>2 DEF Settled, Cooled
  <2> QED  BY <1>o, <1>a, <2>3, <2>5, <2>8, <2>9, <2>10, SeqStep
<1> QED  BY <1>1, <1>2, <1>3, <1>4, <1>5

(* record, trip and close. *)
LEMMA RecordSeq ==
  ASSUME TypeOK, TypeOK', SeqInv, NEW c \in Callers, ~overlap',
         \/ Sample(c)
         \/ TripState(c) \/ TripStamp(c) \/ TripProbes(c) \/ TripMirror(c)
         \/ CloseState(c) \/ CloseWindow(c) \/ CloseProbes(c) \/ CloseMirror(c)
  PROVE  SeqInv'
<1>o. ~overlap /\ Busy(c)
  BY DEF Sample, TripState, TripStamp, TripProbes, TripMirror, CloseState, CloseWindow, CloseProbes,
     CloseMirror, Busy, Resting
<1>s. Cooled /\ Slotted /\ PlaceFacts(c)
  BY <1>o DEF SeqInv
<1>n. /\ probes \in Nat /\ tripAge \in Nat /\ openAge \in Nat /\ Slots \in Nat
      /\ pc \in [Callers -> Places]
  BY Bounds DEF TypeOK
<1>0. /\ Cooled /\ Slotted /\ PlaceFacts(c)
      /\ probes \in Nat /\ tripAge \in Nat /\ openAge \in Nat /\ Slots \in Nat
      /\ pc \in [Callers -> Places]
  BY <1>s, <1>n
<1>a. \A d \in Callers \ {c} : ~Busy(d)
  BY <1>o, AloneFacts
<1>b. \A p \in {"idle", "trip", "trip_stamp", "trip_probes", "trip_mirror", "close_window",
                "close_probes", "close_mirror"} :
        p \in Places /\ p # "probing" /\ (p \in Resting => p = "idle")
  BY DEF Places, Resting
<1>t. \A e \in Callers : pc[e] = "trip_stamp" => e = c
  BY <1>a DEF Busy, Resting
<1>1. ASSUME Sample(c) PROVE SeqInv'
  <2>1. /\ UNCHANGED <<state, openAge, probes, claimAge, fast, tripAge>>
        /\ pc[c] \in {"sample", "sample_open"}
    BY <1>1 DEF Sample
  <2>2. PICK p \in {"idle", "trip"} : Leave(c, p) /\ (p = "trip" => pc[c] = "sample")
    BY <1>1 DEF Sample
  <2>3. Settled /\ Settled' /\ state # "halfopen" /\ (pc[c] = "sample" => state = "closed")
    BY <1>0, <2>1 DEF PlaceFacts, Settled
  <2>4. Cooled'
    BY <1>0, <1>t, <2>1, <2>3 DEF Cooled
  <2>5. pc'[c] = p => PlaceFacts(c)'
    BY <2>1, <2>2, <2>3 DEF PlaceFacts
  <2> QED  BY <1>o, <1>a, <1>b, <2>1, <2>2, <2>3, <2>4, <2>5, LeaveStep
<1>2. ASSUME TripState(c) PROVE SeqInv'
  <2>1. /\ UNCHANGED <<openAge, probes, claimAge, fast>> /\ pc[c] = "trip"
        /\ state' = "open" /\ tripAge' = 0 /\ Leave(c, "trip_stamp")
    BY <1>2 DEF TripState
  <2>2. pc'[c] = "trip_stamp"
    BY <1>b, <2>1, LeaveFacts
  <2>3. Cooled'
    BY <2>1, <2>2 DEF Cooled
  <2>4. PlaceFacts(c)'
    BY <2>1, <2>2 DEF PlaceFacts
  <2> QED  BY <1>o, <1>a, <1>b, <2>1, <2>3, <2>4, LeaveStep
<1>3. ASSUME TripStamp(c) PROVE SeqInv'
  <2>1. /\ UNCHANGED <<state, probes, claimAge, fast, tripAge>> /\ pc[c] = "trip_stamp"
        /\ openAge' = 0 /\ Leave(c, "trip_probes")
    BY <1>3 DEF TripStamp
  <2>2. pc'[c] = "trip_probes"
    BY <1>b, <2>1, LeaveFacts
  <2>3. state = "open"
    BY <1>0, <2>1 DEF PlaceFacts
  <2>4. Cooled'
    BY <1>0, <2>1, <2>3 DEF Cooled
  <2>5. PlaceFacts(c)'
    BY <2>1, <2>2, <2>3 DEF PlaceFacts
  <2> QED  BY <1>o, <1>a, <1>b, <2>1, <2>3, <2>4, <2>5, LeaveStep
<1>4. ASSUME TripProbes(c) PROVE SeqInv'
  <2>1. /\ UNCHANGED <<state, openAge, claimAge, fast, tripAge>> /\ pc[c] = "trip_probes"
        /\ probes' = 0 /\ Leave(c, "trip_mirror")
    BY <1>4 DEF TripProbes
  <2>2. pc'[c] = "trip_mirror"
    BY <1>b, <2>1, LeaveFacts
  <2>3. state = "open"
    BY <1>0, <2>1 DEF PlaceFacts
  <2>4. Cooled'
    BY <1>0, <1>t, <2>1, <2>3 DEF Cooled
  <2>5. PlaceFacts(c)'
    BY <2>1, <2>2, <2>3 DEF PlaceFacts
  <2> QED  BY <1>o, <1>a, <1>b, <2>1, <2>3, <2>4, <2>5, LeaveStep
<1>5. ASSUME TripMirror(c) PROVE SeqInv'
  <2>1. /\ UNCHANGED <<state, openAge, claimAge, probes, tripAge>> /\ pc[c] = "trip_mirror"
        /\ fast' = TRUE /\ Leave(c, "idle")
    BY <1>5 DEF TripMirror
  <2>2. state = "open" /\ probes = 0
    BY <1>0, <2>1 DEF PlaceFacts
  <2>3. Cooled' /\ Settled'
    BY <1>0, <1>t, <2>1, <2>2 DEF Cooled, Settled
  <2>4. pc'[c] = "idle" => PlaceFacts(c)'
    BY DEF PlaceFacts
  <2> QED  BY <1>o, <1>a, <1>b, <2>1, <2>2, <2>3, <2>4, LeaveStep
<1>6. ASSUME CloseState(c) PROVE SeqInv'
  <2>1. /\ UNCHANGED <<openAge, probes, claimAge, fast, tripAge>> /\ pc[c] = "close"
        /\ state' = "closed" /\ Leave(c, "close_window")
    BY <1>6 DEF CloseState
  <2>2. ~fast
    BY <1>0, <2>1 DEF PlaceFacts, Settled
  <2>3. Cooled'
    BY <2>1 DEF Cooled
  <2>4. pc'[c] = "close_window" => PlaceFacts(c)'
    BY <2>1, <2>2 DEF PlaceFacts
  <2> QED  BY <1>o, <1>a, <1>b, <2>1, <2>3, <2>4, LeaveStep
<1>7. ASSUME CloseWindow(c) PROVE SeqInv'
  <2>1. /\ UNCHANGED <<state, openAge, probes, claimAge, fast, tripAge>> /\ pc[c] = "close_window"
        /\ Leave(c, "close_probes")
    BY <1>7 DEF CloseWindow
  <2>2. state = "closed" /\ ~fast
    BY <1>0, <2>1 DEF PlaceFacts
  <2>3. Cooled'
    BY <2>1, <2>2 DEF Cooled
  <2>4. pc'[c] = "close_probes" => PlaceFacts(c)'
    BY <2>1, <2>2 DEF PlaceFacts
  <2> QED  BY <1>o, <1>a, <1>b, <2>1, <2>2, <2>3, <2>4, LeaveStep
<1>8. ASSUME CloseProbes(c) PROVE SeqInv'
  <2>1. /\ UNCHANGED <<state, openAge, claimAge, fast, tripAge>> /\ pc[c] = "close_probes"
        /\ probes' = 0 /\ Leave(c, "close_mirror")
    BY <1>8 DEF CloseProbes
  <2>2. state = "closed" /\ ~fast
    BY <1>0, <2>1 DEF PlaceFacts
  <2>3. Cooled'
    BY <2>1, <2>2 DEF Cooled
  <2>4. pc'[c] = "close_mirror" => PlaceFacts(c)'
    BY <2>1, <2>2 DEF PlaceFacts
  <2> QED  BY <1>o, <1>a, <1>b, <2>1, <2>2, <2>3, <2>4, LeaveStep
<1>9. ASSUME CloseMirror(c) PROVE SeqInv'
  <2>1. /\ UNCHANGED <<state, openAge, probes, claimAge, tripAge>> /\ pc[c] = "close_mirror"
        /\ fast' = FALSE /\ Leave(c, "idle")
    BY <1>9 DEF CloseMirror
  <2>2. state = "closed" /\ probes = 0
    BY <1>0, <2>1 DEF PlaceFacts
  <2>3. Cooled' /\ Settled'
    BY <2>1, <2>2 DEF Cooled, Settled
  <2>4. pc'[c] = "idle" => PlaceFacts(c)'
    BY DEF PlaceFacts
  <2> QED  BY <1>o, <1>a, <1>b, <2>1, <2>2, <2>3, <2>4, LeaveStep
<1> QED  BY <1>1, <1>2, <1>3, <1>4, <1>5, <1>6, <1>7, <1>8, <1>9

(* A request ends: it is recorded, or it is lost. *)
LEMMA FinishSeq ==
  ASSUME TypeOK, TypeOK', SeqInv, NEW c \in Callers, ~overlap', Finish(c)
  PROVE  SeqInv'
<1>p. pc[c] \in {"inflight", "probing"} /\ pc[c] \in Resting
  BY DEF Finish, Abandon, Record, Resting
<1>1. ASSUME NEW failed \in BOOLEAN, Record(c, failed), Enabled PROVE SeqInv'
  <2>1. /\ UNCHANGED <<state, openAge, probes, claimAge, fast>> /\ Begin(c)
        /\ loc' = [loc EXCEPT ![c] = [NoLocals EXCEPT !.failed = failed]]
        /\ Goto(c, CASE state = "closed"   -> "sample"
                     [] state = "open"     -> "sample_open"
                     [] state = "halfopen" -> IF failed THEN "trip" ELSE "close")
    BY <1>1 DEF Record
  <2>2. ~overlap /\ Quiet /\ tripAge' = tripAge
    BY <1>p, <2>1 DEF Begin, Quiet, Busy, TypeOK
  <2>0. /\ Cooled /\ Slotted /\ Settled /\ IsFiniteSet(Probing)
        /\ state \in {"closed", "open", "halfopen"} /\ probes \in Nat /\ Slots \in Nat
        /\ Cardinality(Probing) <= Slots /\ (state = "halfopen" => Cardinality(Probing) <= probes)
        /\ loc \in [Callers -> Locals]
    BY <2>2, Bounds DEF SeqInv, TypeOK, Slotted, Locals
  <2>3. PICK p \in {"sample", "sample_open", "trip", "close"} :
          /\ Goto(c, p)
          /\ (p = "sample" => state = "closed") /\ (p = "sample_open" => state = "open")
          /\ (p \in {"trip", "close"} => state = "halfopen")
    BY <2>0, <2>1
  <2>4. p \in Places /\ p \notin Resting /\ p # "probing"
    BY DEF Places, Resting
  <2>5. [NoLocals EXCEPT !.failed = failed].now = 0
    BY DEF NoLocals
  <2>6. Others(c) /\ pc'[c] = p /\ loc'[c].now = 0
    BY <2>0, <2>1, <2>3, <2>4, <2>5, GotoFacts DEF Others
  <2>7. Settled' /\ Cooled'
    BY <2>0, <2>1, <2>2 DEF Settled, Cooled, Quiet, Busy, Resting
  <2>8. PlaceFacts(c)'
    BY <2>1, <2>3, <2>6, <2>7 DEF PlaceFacts
  <2>9. /\ IsFiniteSet(Probing') /\ Cardinality(Probing') <= Cardinality(Probing)
        /\ Cardinality(Probing') \in Nat /\ Cardinality(Probing) \in Nat
    BY <2>0, <2>4, <2>6, ProbingStep
  <2>10. Slotted'
    BY <2>0, <2>1, <2>9 DEF Slotted
  <2>11. \A d \in Callers \ {c} : ~Busy(d)
    BY <2>2 DEF Quiet
  <2> QED  BY <2>1, <2>2, <2>4, <2>6, <2>7, <2>8, <2>10, <2>11, SeqStep
<1>2. ASSUME Leave(c, "idle"), UNCHANGED <<state, openAge, probes, claimAge, fast, win, history>>
      PROVE  SeqInv'
  <2>0. /\ ~overlap /\ Alone /\ Cooled /\ Aged /\ Slotted /\ (Quiet => Settled)
        /\ \A d \in Callers : PlaceFacts(d)
    BY <1>2 DEF SeqInv
  <2>1. Others(c) /\ pc'[c] = "idle"
    BY <1>2, LeaveFacts DEF Others, Places, Resting
  <2>2. \A d \in Callers : (Busy(d)' <=> Busy(d)) /\ (Busy(d) => d # c)
    BY <1>p, <2>1 DEF Busy, Others, Resting
  <2>3. /\ IsFiniteSet(Probing') /\ Cardinality(Probing') <= Cardinality(Probing)
        /\ Cardinality(Probing') \in Nat /\ Cardinality(Probing) \in Nat
    BY <2>0, <2>1, ProbingStep DEF Slotted
  <2>4. Slots \in Nat /\ probes \in Nat
    BY Bounds DEF TypeOK
  <2>5. Slotted'
    BY <1>2, <2>0, <2>3, <2>4 DEF Slotted
  <2>6. Alone' /\ (Quiet' => Settled')
    BY <1>2, <2>0, <2>2 DEF Alone, Quiet, Settled
  <2>7. Cooled'
    BY <1>p, <1>2, <2>0, <2>1 DEF Cooled, Others
  <2>8. Aged'
    <3> SUFFICES ASSUME NEW d \in Callers, pc'[d] = "probing"
                 PROVE  /\ claimAge' <= loc'[d].now
                        /\ state' = "open" => tripAge' <= loc'[d].now
                        /\ \A e \in Callers : Busy(e)' => loc'[e].now <= loc'[d].now
      BY DEF Aged
    <3>1. d # c /\ pc[d] = "probing" /\ loc'[d] = loc[d]
      BY <2>1 DEF Others
    <3>2. /\ claimAge <= loc[d].now
          /\ state = "open" => tripAge <= loc[d].now
          /\ \A e \in Callers : Busy(e) => loc[e].now <= loc[d].now
      BY <2>0, <3>1 DEF Aged
    <3>3. \A e \in Callers : Busy(e)' => Busy(e) /\ loc'[e] = loc[e]
      BY <2>1, <2>2 DEF Others
    <3> QED  BY <1>2, <3>1, <3>2, <3>3
  <2>9. ASSUME NEW d \in Callers PROVE PlaceFacts(d)'
    <3>1. CASE d = c
      BY <2>1, <3>1 DEF PlaceFacts
    <3>2. CASE d # c
      <4>1. pc'[d] = pc[d] /\ loc'[d] = loc[d] /\ (Settled => Settled')
        BY <1>2, <2>1, <3>2 DEF Others, Settled
      <4>2. PlaceFacts(d)
        BY <2>0
      <4>3. pc[d] = "probe_stamp" => Cardinality(Probing') < probes
        BY <2>3, <2>4, <4>2 DEF PlaceFacts
      <4> QED  BY <1>2, <4>1, <4>2, <4>3 DEF PlaceFacts
    <3> QED  BY <3>1, <3>2
  <2> QED  BY <2>5, <2>6, <2>7, <2>8, <2>9 DEF SeqInv
<1>3. ASSUME Abandon(c) PROVE SeqInv'
  BY <1>2, <1>3 DEF Abandon
<1>4. ASSUME NEW failed \in BOOLEAN, Record(c, failed), ~Enabled PROVE SeqInv'
  BY <1>2, <1>4 DEF Record
<1> QED  BY <1>1, <1>3, <1>4 DEF Finish

(* Time passes for everyone alike. *)
LEMMA TickSeq ==
  ASSUME TypeOK, TypeOK', SeqInv, ~overlap', Tick
  PROVE  SeqInv'
<1>1. /\ UNCHANGED <<state, probes, fast, pc, overlap>> /\ ~overlap
      /\ openAge' = Older(openAge, AgeCap) /\ claimAge' = Older(claimAge, AgeCap)
      /\ tripAge' = Older(tripAge, AgeCap)
  BY DEF Tick
<1>0. /\ Alone /\ Cooled /\ Aged /\ Slotted /\ (Quiet => Settled)
      /\ \A c \in Callers : PlaceFacts(c)
  BY <1>1 DEF SeqInv
<1>2. /\ openAge \in 0 .. AgeCap /\ claimAge \in 0 .. AgeCap /\ tripAge \in 0 .. AgeCap
      /\ AgeCap \in Nat /\ OpenDuration \in Nat /\ Slots \in Nat /\ probes \in Nat
  BY Bounds DEF TypeOK
<1>l. loc \in [Callers -> Locals]
  BY DEF TypeOK, Locals
<1>3. \A l \in Locals : l.now \in 0 .. AgeCap /\ l.claimed \in 0 .. AgeCap
  BY DEF Locals
<1>4. \A a \in 0 .. AgeCap : /\ Older(a, AgeCap) \in 0 .. AgeCap /\ a <= Older(a, AgeCap)
                             /\ \A b \in 0 .. AgeCap : a <= b => Older(a, AgeCap) <= Older(b, AgeCap)
  BY <1>2, OlderFacts
<1>5. \A c \in Callers : ~(pc[c] \in {"idle", "inflight"}) =>
        /\ loc'[c].now = Older(loc[c].now, AgeCap)
        /\ pc[c] = "probe_take" => loc'[c].claimed = Older(loc[c].claimed, AgeCap)
  <2> SUFFICES ASSUME NEW c \in Callers, ~(pc[c] \in {"idle", "inflight"})
               PROVE  /\ loc'[c].now = Older(loc[c].now, AgeCap)
                      /\ pc[c] = "probe_take" => loc'[c].claimed = Older(loc[c].claimed, AgeCap)
    OBVIOUS
  <2>1. loc'[c] = [loc[c] EXCEPT !.now = Older(loc[c].now, AgeCap),
                                 !.claimed = IF pc[c] = "probe_take"
                                             THEN Older(loc[c].claimed, AgeCap) ELSE loc[c].claimed]
    BY DEF Tick
  <2>2. \A l \in Locals : \A n, m : LET k == [l EXCEPT !.now = n, !.claimed = m] IN k.now = n /\ k.claimed = m
    BY DEF Locals
  <2> QED  BY <1>l, <2>1, <2>2
<1>6. \A c \in Callers : Busy(c) \/ pc[c] = "probing" => ~(pc[c] \in {"idle", "inflight"})
  BY DEF Busy, Resting
<1>7. \A c \in Callers : Busy(c)' <=> Busy(c)
  BY <1>1 DEF Busy
<1>8. Alone' /\ (Quiet' => Settled') /\ (Settled => Settled')
  BY <1>0, <1>1, <1>7 DEF Alone, Quiet, Settled
<1>9. Cooled'
  <2>1. tripAge' >= tripAge /\ (openAge <= tripAge => openAge' <= tripAge')
    BY <1>1, <1>2, <1>4
  <2>2. tripAge' \in Nat
    BY <1>1, <1>2, <1>4
  <2> QED  BY <1>0, <1>1, <1>2, <2>1, <2>2 DEF Cooled
<1>10. Aged'
  <2> SUFFICES ASSUME NEW d \in Callers, pc[d] = "probing"
               PROVE  /\ claimAge' <= loc'[d].now
                      /\ state = "open" => tripAge' <= loc'[d].now
                      /\ \A c \in Callers : Busy(c) => loc'[c].now <= loc'[d].now
    BY <1>1, <1>7 DEF Aged
  <2>1. loc[d].now \in 0 .. AgeCap /\ loc'[d].now = Older(loc[d].now, AgeCap)
    BY <1>l, <1>3, <1>5, <1>6
  <2>2. claimAge' <= loc'[d].now
    BY <1>0, <1>1, <1>2, <1>4, <2>1 DEF Aged
  <2>3. state = "open" => tripAge' <= loc'[d].now
    BY <1>0, <1>1, <1>2, <1>4, <2>1 DEF Aged
  <2>4. ASSUME NEW c \in Callers, Busy(c) PROVE loc'[c].now <= loc'[d].now
    <3>1. loc[c].now \in 0 .. AgeCap /\ loc'[c].now = Older(loc[c].now, AgeCap)
      BY <1>l, <1>3, <1>5, <1>6, <2>4
    <3>2. loc[c].now <= loc[d].now
      BY <1>0, <2>4 DEF Aged
    <3> QED  BY <1>4, <2>1, <3>1, <3>2
  <2> QED  BY <2>2, <2>3, <2>4
<1>11. /\ IsFiniteSet(Probing') /\ Cardinality(Probing') <= Cardinality(Probing)
       /\ Cardinality(Probing') \in Nat /\ Cardinality(Probing) \in Nat
  <2> DEFINE P == Probing'
  <2>1. P \in SUBSET Probing
    <3>1. ASSUME NEW c \in Callers, pc[c] = "probing", loc'[c].now < OpenDuration
          PROVE  loc[c].now < OpenDuration
      <4>1. loc[c].now \in 0 .. AgeCap /\ loc'[c].now = Older(loc[c].now, AgeCap)
        BY <1>l, <1>3, <1>5, <1>6, <3>1
      <4>2. loc[c].now <= loc'[c].now /\ loc'[c].now \in 0 .. AgeCap
        BY <1>4, <4>1
      <4> QED  BY <1>2, <3>1, <4>1, <4>2
    <3> QED  BY <1>1, <3>1 DEF Probing
  <2>2. IsFiniteSet(Probing)
    BY <1>0 DEF Slotted
  <2> HIDE DEF P
  <2>3. IsFiniteSet(P) /\ Cardinality(P) <= Cardinality(Probing)
    BY <2>1, <2>2, FS_Subset
  <2>4. Cardinality(P) \in Nat /\ Cardinality(Probing) \in Nat
    BY <2>2, <2>3, FS_CardinalityType
  <2> QED  BY <2>3, <2>4 DEF P
<1>12. Slotted'
  BY <1>0, <1>1, <1>2, <1>11 DEF Slotted
<1>13. ASSUME NEW c \in Callers PROVE PlaceFacts(c)'
  <2>1. PlaceFacts(c)
    BY <1>0
  <2>2. pc[c] = "probe_stamp" => Cardinality(Probing') < probes
    BY <1>2, <1>11, <2>1 DEF PlaceFacts
  <2>3. pc[c] = "check_cas" => openAge' >= OpenDuration
    <3>1. openAge' >= openAge /\ openAge' \in Nat
      BY <1>1, <1>2, <1>4
    <3> QED  BY <1>2, <2>1, <3>1 DEF PlaceFacts
  <2>4. pc[c] = "probe_take" => claimAge' = loc'[c].claimed /\ claimAge' >= OpenDuration
    <3>1. claimAge' >= claimAge /\ claimAge' \in Nat
      BY <1>1, <1>2, <1>4
    <3> QED  BY <1>1, <1>2, <1>5, <2>1, <3>1 DEF PlaceFacts
  <2> QED  BY <1>1, <1>8, <2>1, <2>2, <2>3, <2>4 DEF PlaceFacts
<1> QED  BY <1>8, <1>9, <1>10, <1>12, <1>13 DEF SeqInv

(* Nothing but the window changes. *)
LEMMA SeqStutters ==
  ASSUME SeqInv, UNCHANGED <<state, openAge, probes, claimAge, fast, pc, loc, overlap, tripAge>>
  PROVE  SeqInv'
<1>1. Probing' = Probing
  BY DEF Probing
<1>2. SeqInv' <=> SeqInv
  BY <1>1 DEF SeqInv, Alone, Cooled, Aged, Slotted, PlaceFacts, Settled, Quiet, Busy
<1> QED  BY <1>2

(* The steps keep the suspension bounded. *)
LEMMA LagNext ==
  ASSUME TypeOK, LagBounded, Next
  PROVE  LagBounded'
<1>0. /\ pc \in [Callers -> Places] /\ loc \in [Callers -> Locals] /\ MaxLag \in Nat
      /\ NoLocals.now = 0
  BY Bounds DEF TypeOK, Locals, NoLocals
<1>1. ASSUME NEW c \in Callers, Others(c),
             pc'[c] \in Resting \/ loc'[c].now = 0 \/ (Busy(c) /\ loc'[c].now = loc[c].now)
      PROVE  LagBounded'
  BY <1>0, <1>1 DEF LagBounded, Others, Busy
<1>2. ASSUME NEW c \in Callers, NEW p \in Places, Leave(c, p) PROVE LagBounded'
  <2>1. Others(c) /\ loc'[c].now = 0
    BY <1>0, <1>2, LeaveFacts DEF Others
  <2> QED  BY <1>1, <2>1
<1>3. ASSUME NEW c \in Callers,
             \/ Check(c) \/ CheckElapsed(c) \/ CheckCas(c) \/ CheckMirror(c) \/ CheckAgain(c) \/ Abandon(c)
             \/ Sample(c)
             \/ TripState(c) \/ TripStamp(c) \/ TripProbes(c) \/ TripMirror(c)
             \/ CloseState(c) \/ CloseWindow(c) \/ CloseProbes(c) \/ CloseMirror(c)
      PROVE  LagBounded'
  <2>1. \E p \in Places : Leave(c, p)
    <3>1. CASE \/ Check(c) \/ CheckElapsed(c) \/ CheckCas(c) \/ CheckMirror(c) \/ CheckAgain(c)
               \/ Abandon(c) \/ Sample(c)
      BY <3>1 DEF Check, CheckElapsed, CheckCas, CheckMirror, CheckAgain, Abandon, Sample, Places, Resting
    <3>2. CASE \/ TripState(c) \/ TripStamp(c) \/ TripProbes(c) \/ TripMirror(c)
               \/ CloseState(c) \/ CloseWindow(c) \/ CloseProbes(c) \/ CloseMirror(c)
      BY <3>2 DEF TripState, TripStamp, TripProbes, TripMirror, CloseState, CloseWindow, CloseProbes,
         CloseMirror, Places, Resting
    <3> QED  BY <1>3, <3>1, <3>2
  <2> QED  BY <1>2, <2>1
<1>4. ASSUME NEW c \in Callers, ProbeClaim(c) \/ ProbeStamp(c) \/ ProbeUndo(c) PROVE LagBounded'
  <2>1. \A l \in Locals : [l EXCEPT !.now = 0].now = 0
    BY DEF Locals
  <2>2. Busy(c)
    BY <1>4 DEF ProbeClaim, ProbeStamp, ProbeUndo, Busy, Resting
  <2>3. /\ \E p : pc' = [pc EXCEPT ![c] = p]
        /\ loc' = loc \/ loc' = [loc EXCEPT ![c] = [loc[c] EXCEPT !.now = 0]]
    BY <1>4 DEF ProbeClaim, ProbeStamp, ProbeUndo, Goto
  <2>4. Others(c)
    BY <1>0, <2>3 DEF Others
  <2>5. loc'[c].now = 0 \/ loc'[c].now = loc[c].now
    <3>1. loc[c] \in Locals
      BY <1>0
    <3>2. ASSUME loc' = [loc EXCEPT ![c] = [loc[c] EXCEPT !.now = 0]] PROVE loc'[c].now = 0
      <4>1. loc'[c] = [loc[c] EXCEPT !.now = 0]
        BY <1>0, <3>2
      <4> QED  BY <2>1, <3>1, <4>1
    <3> QED  BY <2>3, <3>2
  <2> QED  BY <1>1, <2>2, <2>4, <2>5
<1>5. ASSUME NEW c \in Callers, ProbeLease(c) \/ ProbeTake(c) PROVE LagBounded'
  <2>1. CASE Leave(c, "idle")
    BY <1>2, <2>1 DEF Places, Resting
  <2>2. CASE ~Leave(c, "idle")
    <3>1. \A l \in Locals : \A n : [l EXCEPT !.claimed = n].now = l.now
      BY DEF Locals
    <3>2. Busy(c)
      BY <1>5 DEF ProbeLease, ProbeTake, Busy, Resting
    <3>3. /\ \E p : pc' = [pc EXCEPT ![c] = p]
          /\ \E n : loc' = [loc EXCEPT ![c] = [loc[c] EXCEPT !.claimed = n]]
      BY <1>5, <2>2 DEF ProbeLease, ProbeTake, Goto
    <3>4. Others(c)
      BY <1>0, <3>3 DEF Others
    <3>5. loc'[c].now = loc[c].now
      BY <1>0, <3>1, <3>3
    <3> QED  BY <1>1, <3>2, <3>4, <3>5
  <2> QED  BY <2>1, <2>2
<1>6. ASSUME NEW c \in Callers, NEW failed \in BOOLEAN, Record(c, failed) PROVE LagBounded'
  <2>1. CASE Enabled
    <3>1. [NoLocals EXCEPT !.failed = failed].now = 0
      BY DEF NoLocals
    <3>2. /\ \E p : pc' = [pc EXCEPT ![c] = p]
          /\ loc' = [loc EXCEPT ![c] = [NoLocals EXCEPT !.failed = failed]]
      BY <1>6, <2>1 DEF Record, Goto
    <3>3. Others(c) /\ loc'[c].now = 0
      BY <1>0, <3>1, <3>2 DEF Others
    <3> QED  BY <1>1, <3>3
  <2>2. CASE ~Enabled
    <3>1. Leave(c, "idle")
      BY <1>6, <2>2 DEF Record
    <3> QED  BY <1>2, <3>1 DEF Places, Resting
  <2> QED  BY <2>1, <2>2
<1>7. ASSUME ErrorRate PROVE LagBounded'
  BY <1>7 DEF ErrorRate, LagBounded, Busy
<1>8. ASSUME Tick PROVE LagBounded'
  <2> SUFFICES ASSUME NEW c \in Callers, Busy(c) PROVE loc'[c].now <= MaxLag
    BY <1>8 DEF LagBounded, Tick, Busy
  <2>1. loc[c].now < MaxLag /\ loc[c].now \in Nat
    <3>1. \A l \in Locals : l.now \in Nat
      BY DEF Locals
    <3> QED  BY <1>0, <1>8, <3>1 DEF Tick
  <2>2. loc'[c] = [loc[c] EXCEPT !.now = Older(loc[c].now, AgeCap),
                                 !.claimed = IF pc[c] = "probe_take"
                                             THEN Older(loc[c].claimed, AgeCap) ELSE loc[c].claimed]
    BY <1>8 DEF Tick, Busy, Resting
  <2>3. \A l \in Locals : \A n, m : [l EXCEPT !.now = n, !.claimed = m].now = n
    BY DEF Locals
  <2>4. loc'[c].now = Older(loc[c].now, AgeCap)
    BY <1>0, <2>2, <2>3
  <2> QED  BY <1>0, <2>1, <2>4, Bounds DEF Older
<1> QED
  BY <1>3, <1>4, <1>5, <1>6, <1>7, <1>8, Zenon DEF Next, Operate, Finish

-----------------------------------------------------------------------------
(* The theorems *)

(* The inductive invariant of the breaker. *)
BreakerInv == TypeOK /\ WindowExact /\ LagBounded /\ SeqInv

(* A new breaker is closed and idle. *)
LEMMA BreakerInit == Init => BreakerInv
<1> SUFFICES ASSUME Init PROVE BreakerInv
  OBVIOUS
<1>1. TypeOK
  <2>1. NoLocals \in Locals /\ 0 \in 0 .. AgeCap /\ 0 \in 0 .. 2^Width - 1
    BY Bounds DEF NoLocals, Locals
  <2>2. win \in [entries : Seq(Samples), failures : Nat]
    BY DEF Init, EmptyWindow
  <2> QED  BY <2>1, <2>2 DEF Init, TypeOK, Places, Resting, Locals
<1>2. WindowExact
  BY EmptyExact DEF Init, WindowOk, WindowExact
<1>3. \A c \in Callers : pc[c] = "idle" /\ ~Busy(c)
  BY DEF Init, Busy, Resting
<1>4. LagBounded
  BY <1>3 DEF LagBounded
<1>5. Probing = {}
  BY <1>3 DEF Probing
<1>6. Slotted
  BY <1>5, FS_EmptySet, Bounds DEF Slotted, Init
<1>7. Alone /\ Cooled /\ Aged
  BY <1>3 DEF Alone, Cooled, Aged, Init
<1>8. \A c \in Callers : PlaceFacts(c)
  BY <1>3 DEF PlaceFacts
<1>9. Settled
  BY DEF Settled, Init
<1> QED  BY <1>1, <1>2, <1>4, <1>6, <1>7, <1>8, <1>9 DEF BreakerInv, SeqInv

(* Every step keeps it. *)
LEMMA BreakerNext == BreakerInv /\ [Next]_vars => BreakerInv'
<1> SUFFICES ASSUME BreakerInv, [Next]_vars PROVE BreakerInv'
  OBVIOUS
<1>0. TypeOK /\ WindowExact /\ LagBounded /\ SeqInv
  BY DEF BreakerInv
<1>1. ASSUME Next PROVE BreakerInv'
  <2>1. TypeOK' /\ WindowExact' /\ LagBounded'
    BY <1>0, <1>1, WinNext, LagNext
  <2>2. SeqInv'
    <3>1. CASE overlap'
      BY <3>1 DEF SeqInv
    <3>2. ASSUME ~overlap', NEW c \in Callers, Check(c) \/ Operate(c) \/ Finish(c) PROVE SeqInv'
      BY <1>0, <2>1, <3>2, CheckSeq, ProbeSeq, RecordSeq, FinishSeq, Zenon DEF Operate
    <3>3. ASSUME ~overlap', Tick PROVE SeqInv'
      BY <1>0, <2>1, <3>3, TickSeq
    <3>4. ASSUME ErrorRate PROVE SeqInv'
      BY <1>0, <3>4, SeqStutters DEF ErrorRate
    <3> QED  BY <1>1, <3>1, <3>2, <3>3, <3>4 DEF Next
  <2> QED  BY <2>1, <2>2 DEF BreakerInv
<1>2. ASSUME UNCHANGED vars PROVE BreakerInv'
  <2>1. SeqInv'
    BY <1>0, <1>2, SeqStutters
  <2>2. TypeOK' /\ WindowExact' /\ LagBounded'
    BY <1>0, <1>2 DEF TypeOK, WindowExact, CountsExactly, LagBounded, Busy
  <2> QED  BY <2>1, <2>2 DEF BreakerInv
<1> QED  BY <1>1, <1>2

(* The invariant holds of every breaker. *)
THEOREM BreakerInvariant == Spec => []BreakerInv
  BY BreakerInit, BreakerNext, PTL DEF Spec

(* Every variable of a breaker keeps its type; the failure count never     *)
(* underflows.                                                             *)
THEOREM BreakerTypes == Spec => []TypeOK
<1>1. BreakerInv => TypeOK
  BY DEF BreakerInv
<1> QED  BY <1>1, BreakerInvariant, PTL

(* push, evict, close and error_rate keep the failure count of the window  *)
(* exact and the window within its cap, however callers interleave.        *)
THEOREM WindowCounts == Spec => []WindowExact
<1>1. BreakerInv => WindowExact
  BY DEF BreakerInv
<1> QED  BY <1>1, BreakerInvariant, PTL

(* Until two operations overlap, is_open() and the slot counter agree with *)
(* the state.                                                              *)
THEOREM MirrorAgrees == Spec => []MirrorExact
<1>1. BreakerInv => MirrorExact
  <2> SUFFICES ASSUME BreakerInv, ~overlap, Quiet
               PROVE  /\ fast = (state = "open")
                      /\ probes <= IF state = "halfopen" THEN Slots ELSE 0
    BY DEF MirrorExact
  <2>1. Settled /\ fast \in BOOLEAN
    BY DEF BreakerInv, SeqInv, TypeOK
  <2>2. fast = (state = "open")
    BY <2>1, Zenon DEF Settled
  <2> QED  BY <2>1, <2>2 DEF Settled
<1> QED  BY <1>1, BreakerInvariant, PTL

(* Until two operations overlap, the breaker is half-open only after a     *)
(* full cool-down since the last trip.                                     *)
THEOREM CoolDownKept == Spec => []CoolDownHonoured
<1>1. BreakerInv => CoolDownHonoured
  BY DEF BreakerInv, SeqInv, Cooled, CoolDownHonoured
<1> QED  BY <1>1, BreakerInvariant, PTL

(* Until two operations overlap, no more probes are on the wire within a   *)
(* lease than there are slots, takeovers and lost probes included.         *)
THEOREM ProbesWithinSlots == Spec => []ProbesLimited
<1>1. BreakerInv => ProbesLimited
  BY DEF BreakerInv, SeqInv, Slotted, ProbesLimited
<1> QED  BY <1>1, BreakerInvariant, PTL
=============================================================================
