------------------------ MODULE SessionActorClients ------------------------
(***************************************************************************)
(* What the clients of a session see, for every set of prompts and clients *)
(* and every bound: send-now prompts wait before the others and users      *)
(* before wakes as long as no client reorders; where no client tears the   *)
(* session down, the last broadcast shows the rows as they are; and the    *)
(* session implements PromptService.                                       *)
(***************************************************************************)
EXTENDS SessionActorTurns

USE DEF qVars, runVars, waitVars, noteVars, taskVars, wakeVars, budgetVars, vars

-----------------------------------------------------------------------------
(* The order of two ids in a queue *)

(* x sits ahead of y. *)
Prec(s, x, y) == \E i, j \in DOMAIN s : i < j /\ s[i] = x /\ s[j] = y

(* What r holds, it holds in the order of s. *)
Thins(r, s) == \A x, y : Prec(r, x, y) => Prec(s, x, y)

(* Nothing of A, the turn in flight aside, sits ahead of something of B. *)
Ordered(s, run, A, B) == \A x, y : Prec(s, x, y) /\ x # run /\ x \in A => y \notin B

(* A sweep keeps the order. *)
LEMMA KeepThins ==
  ASSUME NEW T, NEW s \in Seq(T), NEW K
  PROVE  Thins(Keep(s, K), s)
<1> DEFINE I == Positions(s, K)
           c == Cardinality(I)
           r == Keep(s, K)
<1>1. Len(s) \in Nat /\ DOMAIN s = 1 .. Len(s)
  OBVIOUS
<1>2. I \in SUBSET (1 .. Len(s))
  BY <1>1 DEF Positions
<1>3. /\ c \in Nat /\ \A k \in 1 .. c : Nth(I, k) \in I
      /\ \A k, l \in 1 .. c : k < l => Nth(I, k) < Nth(I, l)
  <2> HIDE DEF I
  <2> QED  BY <1>1, <1>2, NthFacts
<1>4. r = [k \in 1 .. c |-> s[Nth(I, k)]] /\ DOMAIN r = 1 .. c
  BY DEF Keep
<1> HIDE DEF I, c, r
<1>5. ASSUME NEW x, NEW y, Prec(r, x, y) PROVE Prec(s, x, y)
  <2>1. PICK i \in 1 .. c, j \in 1 .. c : i < j /\ r[i] = x /\ r[j] = y
    BY <1>4, <1>5 DEF Prec
  <2>2. s[Nth(I, i)] = x /\ s[Nth(I, j)] = y
    BY <1>4, <2>1
  <2>3. Nth(I, i) \in DOMAIN s /\ Nth(I, j) \in DOMAIN s /\ Nth(I, i) < Nth(I, j)
    BY <1>1, <1>2, <1>3, <2>1
  <2> QED  BY <2>2, <2>3 DEF Prec
<1> QED  BY <1>5 DEF Thins, r

(* So does a pop. *)
LEMMA TailThins ==
  ASSUME NEW T, NEW s \in Seq(T), s # <<>>
  PROVE  Thins(Tail(s), s)
<1> DEFINE r == Tail(s)
<1>1. /\ Len(s) \in Nat \ {0} /\ DOMAIN s = 1 .. Len(s) /\ DOMAIN r = 1 .. Len(s) - 1
      /\ \A i \in 1 .. Len(s) - 1 : r[i] = s[i + 1]
  OBVIOUS
<1> HIDE DEF r
<1>2. ASSUME NEW x, NEW y, Prec(r, x, y) PROVE Prec(s, x, y)
  <2>1. PICK i \in 1 .. Len(s) - 1, j \in 1 .. Len(s) - 1 : i < j /\ r[i] = x /\ r[j] = y
    BY <1>1, <1>2 DEF Prec
  <2>2. i + 1 \in DOMAIN s /\ j + 1 \in DOMAIN s /\ i + 1 < j + 1
    BY <1>1, <2>1
  <2>3. s[i + 1] = x /\ s[j + 1] = y
    BY <1>1, <2>1
  <2> QED  BY <2>2, <2>3 DEF Prec
<1> QED  BY <1>2 DEF Thins, r

(* An insertion changes no order, and what sits ahead of the newcomer are  *)
(* the first k ids.                                                        *)
LEMMA InsertThins ==
  ASSUME NEW T, NEW s \in Seq(T), NEW k \in 0 .. Len(s), NEW z \in T
  PROVE  /\ Thins(s, InsertSlot(s, k, z))
         /\ \A x, y : Prec(InsertSlot(s, k, z), x, y) =>
              \/ Prec(s, x, y)
              \/ x = z
              \/ y = z /\ \E i \in 1 .. k : s[i] = x
<1> DEFINE r == InsertSlot(s, k, z)
           At(i) == IF i <= k THEN i ELSE i + 1
           Of(i) == IF i <= k THEN i ELSE i - 1
<1>1. /\ Len(s) \in Nat /\ DOMAIN s = 1 .. Len(s) /\ k \in Nat /\ k <= Len(s)
  OBVIOUS
<1>2. /\ r \in Seq(T) /\ Len(r) = Len(s) + 1
      /\ \A i \in 1 .. Len(s) + 1 :
           r[i] = IF i <= k THEN s[i] ELSE IF i = k + 1 THEN z ELSE s[i - 1]
  BY InsertSlotAt
<1> HIDE DEF r
<1>3. DOMAIN r = 1 .. Len(s) + 1
  BY <1>2
<1>4. \A i \in 1 .. Len(s) : At(i) \in 1 .. Len(s) + 1 /\ r[At(i)] = s[i]
  <2>1. \A i \in 1 .. Len(s) : /\ At(i) \in 1 .. Len(s) + 1
                               /\ At(i) <= k => At(i) = i
                               /\ ~(At(i) <= k) => At(i) # k + 1 /\ At(i) - 1 = i
    BY <1>1
  <2> HIDE DEF At
  <2>2. ASSUME NEW i \in 1 .. Len(s) PROVE r[At(i)] = s[i]
    <3>1. CASE At(i) <= k
      BY <1>2, <2>1, <3>1
    <3>2. CASE ~(At(i) <= k)
      <4>1. At(i) # k + 1 /\ At(i) - 1 = i /\ At(i) \in 1 .. Len(s) + 1
        BY <2>1, <3>2
      <4>2. r[At(i)] = s[At(i) - 1]
        BY <1>2, <3>2, <4>1
      <4> QED  BY <4>1, <4>2
    <3> QED  BY <3>1, <3>2
  <2> QED  BY <2>1, <2>2
<1>5. \A i, j \in 1 .. Len(s) : i < j => At(i) < At(j)
  BY <1>1
<1>6. ASSUME NEW x, NEW y, Prec(s, x, y) PROVE Prec(r, x, y)
  <2>1. PICK i \in 1 .. Len(s), j \in 1 .. Len(s) : i < j /\ s[i] = x /\ s[j] = y
    BY <1>1, <1>6 DEF Prec
  <2>2. At(i) < At(j) /\ At(i) \in DOMAIN r /\ At(j) \in DOMAIN r /\ r[At(i)] = x /\ r[At(j)] = y
    <3> HIDE DEF At
    <3> QED  BY <1>3, <1>4, <1>5, <2>1
  <2> HIDE DEF At
  <2> QED  BY <2>2 DEF Prec
<1>7. ASSUME NEW x, NEW y, Prec(r, x, y), x # z
      PROVE  Prec(s, x, y) \/ (y = z /\ \E i \in 1 .. k : s[i] = x)
  <2>1. PICK i \in 1 .. Len(s) + 1, j \in 1 .. Len(s) + 1 : i < j /\ r[i] = x /\ r[j] = y
    BY <1>3, <1>7 DEF Prec
  <2>2. i # k + 1 /\ r[i] = s[Of(i)] /\ Of(i) \in 1 .. Len(s)
    BY <1>1, <1>2, <1>7, <2>1
  <2>3. CASE j = k + 1
    <3>1. i \in 1 .. k /\ s[i] = x
      BY <1>1, <1>2, <2>1, <2>3
    <3>2. y = z
      BY <1>1, <1>2, <2>1, <2>3
    <3> QED  BY <3>1, <3>2
  <2>4. CASE j # k + 1
    <3>1. r[j] = s[Of(j)] /\ Of(j) \in 1 .. Len(s)
      BY <1>1, <1>2, <2>1, <2>4
    <3>2. Of(i) < Of(j)
      BY <1>1, <2>1, <2>2, <2>4
    <3> HIDE DEF Of
    <3> QED  BY <1>1, <2>1, <2>2, <3>1, <3>2 DEF Prec
  <2> QED  BY <2>3, <2>4
<1> QED  BY <1>6, <1>7 DEF Thins, r

(* An id that is appended comes behind the others. *)
LEMMA AppendThins ==
  ASSUME NEW T, NEW s \in Seq(T), NEW z \in T
  PROVE  /\ Thins(s, Append(s, z))
         /\ \A x, y : Prec(Append(s, z), x, y) => Prec(s, x, y) \/ y = z
<1> DEFINE r == Append(s, z)
<1>1. /\ Len(s) \in Nat /\ DOMAIN s = 1 .. Len(s) /\ DOMAIN r = 1 .. Len(s) + 1
      /\ \A i \in 1 .. Len(s) : r[i] = s[i]
      /\ r[Len(s) + 1] = z
  OBVIOUS
<1> HIDE DEF r
<1>2. ASSUME NEW x, NEW y, Prec(s, x, y) PROVE Prec(r, x, y)
  <2>1. PICK i \in 1 .. Len(s), j \in 1 .. Len(s) : i < j /\ s[i] = x /\ s[j] = y
    BY <1>1, <1>2 DEF Prec
  <2>2. i \in DOMAIN r /\ j \in DOMAIN r /\ r[i] = x /\ r[j] = y
    BY <1>1, <2>1
  <2> QED  BY <2>1, <2>2 DEF Prec
<1>3. ASSUME NEW x, NEW y, Prec(r, x, y), y # z PROVE Prec(s, x, y)
  <2>1. PICK i \in 1 .. Len(s) + 1, j \in 1 .. Len(s) + 1 : i < j /\ r[i] = x /\ r[j] = y
    BY <1>1, <1>3 DEF Prec
  <2>2. j # Len(s) + 1
    BY <1>1, <1>3, <2>1
  <2>3. i \in DOMAIN s /\ j \in DOMAIN s /\ s[i] = x /\ s[j] = y
    BY <1>1, <2>1, <2>2
  <2> QED  BY <2>1, <2>3 DEF Prec
<1> QED  BY <1>2, <1>3 DEF Thins, r

(* The slot of a send-now prompt: all that is ahead of it is the turn in   *)
(* flight and the send-now prompts that already wait.                      *)
LEMMA SendNowAhead ==
  ASSUME NEW T, NEW s \in Seq(T), NEW run, NEW now
  PROVE  \A i \in 1 .. SendNowSlot(s, run, now) : s[i] = run \/ s[i] \in now
<1> DEFINE f == FrontSlot(s, run)
           S == {k \in f .. Len(s) : k = Len(s) \/ s[k + 1] \notin now}
           m == SendNowSlot(s, run, now)
<1>1. Len(s) \in Nat /\ f \in 0 .. Len(s) /\ m \in f .. Len(s) /\ (f = 0 \/ (f = 1 /\ s[1] = run))
  BY SendNowSlotFacts DEF FrontSlot
<1>2. m = Min(S)
  BY DEF SendNowSlot
<1> HIDE DEF f, m
<1>3. S \in SUBSET (0 .. Len(s)) /\ Len(s) \in S
  BY <1>1
<1>4. \A n \in S : m <= n
  <2>1. IsFiniteSet(0 .. Len(s))
    BY <1>1, FS_Interval
  <2>2. S \in SUBSET Nat /\ S # {}
    BY <1>1, <1>3
  <2> HIDE DEF S
  <2>3. IsFiniteSet(S)
    BY <1>3, <2>1, FS_Subset
  <2>4. \E n \in S : \A l \in S : n <= l
    BY <2>2, <2>3, LeastNat
  <2> QED  BY <1>2, <2>4 DEF Min
<1>5. ASSUME NEW i \in 1 .. m, s[i] # run PROVE s[i] \in now
  <2>1. i # 1 \/ f = 0
    BY <1>1, <1>5
  <2>2. i - 1 \in f .. Len(s) /\ i - 1 # Len(s) /\ ~(m <= i - 1) /\ (i - 1) + 1 = i
    BY <1>1, <2>1
  <2>3. i - 1 \notin S
    BY <1>4, <2>2
  <2> QED  BY <2>2, <2>3
<1> QED  BY <1>5 DEF m

(* What this makes of an order between two sets: a subsequence has it.     *)
LEMMA OrderedThinned ==
  ASSUME NEW r, NEW s, Thins(r, s), NEW run, NEW A, NEW B, Ordered(s, run, A, B)
  PROVE  Ordered(r, run, A, B)
  BY DEF Thins, Ordered

(* A newcomer that is not of A keeps it, unless it is of B and behind an A. *)
LEMMA OrderedInsert ==
  ASSUME NEW T, NEW s \in Seq(T), NEW k \in 0 .. Len(s), NEW z \in T,
         NEW run, NEW A, NEW B, Ordered(s, run, A, B),
         z \notin A, z \in B => \A i \in 1 .. k : s[i] = run \/ s[i] \notin A
  PROVE  Ordered(InsertSlot(s, k, z), run, A, B)
<1>1. \A x, y : Prec(InsertSlot(s, k, z), x, y) =>
        Prec(s, x, y) \/ x = z \/ (y = z /\ \E i \in 1 .. k : s[i] = x)
  BY InsertThins
<1> QED  BY <1>1 DEF Ordered

(* At the back, a newcomer that is not of B keeps it. *)
LEMMA OrderedAppend ==
  ASSUME NEW T, NEW s \in Seq(T), NEW z \in T,
         NEW run, NEW A, NEW B, Ordered(s, run, A, B), z \notin B
  PROVE  Ordered(Append(s, z), run, A, B)
<1>1. \A x, y : Prec(Append(s, z), x, y) => Prec(s, x, y) \/ y = z
  BY AppendThins
<1> QED  BY <1>1 DEF Ordered

(* Only ids of the queue are ahead of one another. *)
LEMMA PrecItems ==
  ASSUME NEW s, NEW x, NEW y, Prec(s, x, y)
  PROVE  x \in Items(s) /\ y \in Items(s)
  BY DEF Prec, Items

(* An id that is not in the queue may change sets. *)
LEMMA OrderedMoved ==
  ASSUME NEW s, NEW z, z \notin Items(s), NEW run, NEW A, NEW B, Ordered(s, run, A, B)
  PROVE  Ordered(s, run, A \ {z}, B \cup {z})
  BY PrecItems DEF Ordered

-----------------------------------------------------------------------------
(* Send-now prompts first, users before wakes *)

(* The two orders of a queue. *)
InOrder(s, run, now) == Ordered(s, run, Ids \ now, now) /\ Ordered(s, run, Wakes, Users)

(* Only prompts of users and interjections are sent now, and they are in   *)
(* the queue by then.                                                      *)
NowInv ==
  /\ sendNow \subseteq Users \cup Fallbacks
  /\ \A u \in Users \cap sendNow : outcome[u] \notin Incoming

OrderInv == InOrder(queue, running, sendNow) /\ NowInv

(* The queue is at most thinned. *)
Thinned == Thins(queue', queue) /\ UNCHANGED <<running, sendNow>>

(* A prompt that no client typed goes to the back. *)
Appends == /\ \E z \in Synthetic : queue' = Append(queue, z)
           /\ UNCHANGED <<running, sendNow>>

(* Nothing that waits is ahead of itself. *)
LEMMA ThinsSelf == \A s : Thins(s, s)
  BY DEF Thins

(* queue_input of a prompt no client typed. *)
LEMMA SyntheticInput ==
  ASSUME NEW id \in Synthetic, NEW now \in BOOLEAN, QueueInput(id, now)
  PROVE  queue' = Append(queue, id) /\ UNCHANGED sendNow
  BY DEF QueueInput, RunsNext, Preempted

(* How a command changes the order of a queue that no client reorders. *)
LEMMA CommandOrder ==
  ASSUME TypeOK, MaxReorders = 0, Commands
  PROVE  \/ Thinned \/ Appends
         \/ \E u \in Users, now \in BOOLEAN : Prompt(u, now)
         \/ \E u \in Users, v \in 0 .. MaxVersion, o \in Clients \cup {None}, edit \in BOOLEAN :
              InterjectQueuedPrompt(u, v, o, edit)
<1> DEFINE G == \/ Thinned \/ Appends
                \/ \E u \in Users, now \in BOOLEAN : Prompt(u, now)
                \/ \E u \in Users, v \in 0 .. MaxVersion, o \in Clients \cup {None}, edit \in BOOLEAN :
                     InterjectQueuedPrompt(u, v, o, edit)
<1>0. queue \in Seq(Ids) /\ reorders \in Nat
  BY ConstantsAssumption DEF TypeOK
<1>k. \A K : Thins(Keep(queue, K), queue)
  BY <1>0, KeepThins
<1>1. ASSUME NEW id \in Crons \cup Wakes, Prompt(id, FALSE) PROVE G
  <2>1. id \in Synthetic /\ QueueInput(id, FALSE) /\ UNCHANGED running
    BY <1>1 DEF Prompt, Synthetic
  <2> QED  BY <2>1, SyntheticInput DEF Appends
<1>2. ASSUME NEW g \in Summaries, GoalSummaryTurn(g) PROVE G
  BY <1>2 DEF GoalSummaryTurn, Appends, Synthetic
<1>3. ASSUME NEW u \in Users, NEW v, NEW o, RemoveQueuedPrompt(u, v, o) PROVE G
  BY <1>3, <1>k DEF RemoveQueuedPrompt, EditFrame, Thinned
<1>4. ASSUME NEW o, ClearQueue(o) PROVE G
  BY <1>4, <1>k DEF ClearQueue, EditFrame, Thinned
<1>5. ASSUME NEW order \in Orders, ReorderQueue(order) PROVE FALSE
  BY <1>0, <1>5 DEF ReorderQueue
<1>6. ASSUME NEW u \in Users, EditQueuedPrompt(u) PROVE G
  BY <1>6, ThinsSelf DEF EditQueuedPrompt, EditFrame, Thinned
<1>7. ASSUME NEW f \in Fallbacks, Interject(f) PROVE G
  BY <1>7, ThinsSelf DEF Interject, Thinned
<1>8. ASSUME NEW n \in Notes, InjectNotification(n) PROVE G
  BY <1>8, ThinsSelf DEF InjectNotification, NoteFrame, Thinned
<1>9. ASSUME NEW w \in MonitorWakes, DropMonitorNotifications(w) PROVE G
  BY <1>9, ThinsSelf DEF DropMonitorNotifications, NoteFrame, Thinned
<1>10. ASSUME NEW rewind, NEW kill, Cancel(rewind, kill) PROVE G
  BY <1>10, ThinsSelf DEF Cancel, Thinned
<1>11. ASSUME Shutdown PROVE G
  BY <1>11, <1>k DEF Shutdown, Thinned
<1>12. ASSUME NEW u \in Users, NEW now \in BOOLEAN, Prompt(u, now) PROVE G
  BY <1>12
<1>13. ASSUME NEW u \in Users, NEW v \in 0 .. MaxVersion, NEW o \in Clients \cup {None},
              NEW edit \in BOOLEAN, InterjectQueuedPrompt(u, v, o, edit)
       PROVE  G
  BY <1>13
<1> HIDE DEF G
<1>14. G
  BY <1>1, <1>2, <1>3, <1>4, <1>5, <1>6, <1>7, <1>8, <1>9, <1>10, <1>11, <1>12, <1>13, Zenon
     DEF Commands
<1> QED  BY <1>14 DEF G

(* The front is promoted: what waited behind nothing still does. *)
Promotes == running = None /\ UNCHANGED <<queue, sendNow>>

(* How any other step does. *)
LEMMA StepOrder ==
  ASSUME TypeOK, QueueInv, Next
  PROVE  \/ Commands \/ Thinned \/ Appends \/ Promotes
         \/ QueueFallback \/ CancelTake \/ Complete
<1> DEFINE G == \/ Commands \/ Thinned \/ Appends \/ Promotes
                \/ QueueFallback \/ CancelTake \/ Complete
<1>0. queue \in Seq(Ids)
  BY DEF TypeOK
<1>l. lock # None => running = None
  BY DEF QueueInv, QueueFresh
<1>n. None # "actor" /\ None \notin Sides
  BY ConstantsAssumption
<1>1. ASSUME ActorStep PROVE G
  <2>1. CASE ActorSkip \/ ActorPin
    BY <2>1, ThinsSelf DEF ActorSkip, ActorPin, PinFront, StartFrame, Thinned
  <2>2. CASE ActorPromote
    BY <1>l, <1>n, <2>2 DEF ActorPromote, PromoteFront, Promotes
  <2>3. CASE CancelBegin
    BY <2>3, ThinsSelf DEF CancelBegin, Thinned
  <2>4. CASE CancelGoal \/ CancelAbort \/ CancelDone \/ CancelResume
    BY <2>4, ThinsSelf DEF CancelGoal, CancelAbort, CancelDone, CancelResume, CancelFrame, Thinned
  <2>5. CASE TakeCompletion \/ CompleteGoal \/ FlushTurnEnd
    BY <2>5, ThinsSelf DEF TakeCompletion, CompleteGoal, FlushTurnEnd, CompleteFrame, Thinned
  <2>6. ASSUME NEW all \in BOOLEAN, DrainNotifications(all) PROVE G
    <3> DEFINE batch == pending \o buffer
               shown == IF all THEN <<>> ELSE Keep(batch, Notes \ GoalTurnNotes)
    <3>1. UNCHANGED <<running, sendNow>>
      BY <2>6 DEF DrainNotifications
    <3>2. shown \in Seq(Notes)
      <4>1. batch \in Seq(Notes)
        BY DEF TypeOK
      <4> HIDE DEF batch
      <4> QED  BY <4>1, KeepFacts
    <3>3. queue' = queue \/ (shown # <<>> /\ queue' = Append(queue, shown[1]))
      BY <2>6 DEF DrainNotifications
    <3> HIDE DEF shown
    <3>4. shown # <<>> => shown[1] \in Synthetic
      BY <3>2 DEF Synthetic
    <3> QED  BY <3>1, <3>3, <3>4, ThinsSelf DEF Thinned, Appends
  <2> HIDE DEF G
  <2>7. ASSUME QueueFallback \/ CancelTake \/ Complete PROVE G
    BY <2>7 DEF G
  <2> QED  BY <1>1, <2>1, <2>2, <2>3, <2>4, <2>5, <2>6, <2>7, Zenon DEF ActorStep
<1>2. ASSUME NEW s \in Sides, SideStep(s) PROVE G
  <2>1. CASE SideSkip(s) \/ SidePin(s)
    BY <2>1, ThinsSelf DEF SideSkip, SidePin, PinFront, StartFrame, Thinned
  <2>2. CASE SidePromote(s)
    BY <1>l, <1>n, <2>2 DEF SidePromote, PromoteFront, Promotes
  <2> QED  BY <1>2, <2>1, <2>2 DEF SideStep
<1>3. ASSUME NEW r \in Resumes, ResumeQueue(r) PROVE G
  <2>1. r \in Synthetic /\ QueueInput(r, FALSE) /\ UNCHANGED running
    BY <1>3 DEF ResumeQueue, Synthetic
  <2> QED  BY <2>1, SyntheticInput DEF Appends
<1>4. ASSUME NEW t \in Ids, TurnStep(t) PROVE G
  <2>1. ASSUME NEW w \in Wakes, TurnConsume(t, w) PROVE G
    BY <1>0, <2>1, KeepThins DEF TurnConsume, TurnFrame, Sweep, Thinned
  <2>2. CASE TurnEmit(t) \/ TurnMerge(t) \/ TurnInject(t) \/ TurnRemind(t) \/ TurnScopeEnd(t)
    BY <2>2, ThinsSelf DEF TurnEmit, TurnMerge, TurnInject, TurnRemind, TurnScopeEnd, TurnFrame, Thinned
  <2>3. ASSUME NEW active, TurnGoal(t, active) PROVE G
    BY <2>3, ThinsSelf DEF TurnGoal, TurnFrame, Thinned
  <2>4. CASE RequestWait(t) \/ EnterWait(t) \/ LeaveWait(t) \/ AbandonWait(t)
    BY <2>4, ThinsSelf DEF RequestWait, EnterWait, LeaveWait, AbandonWait, WaitFrame, TurnFrame, Thinned
  <2> HIDE DEF G
  <2> QED  BY <1>4, <2>1, <2>2, <2>3, <2>4, Zenon DEF TurnStep
<1>5. ASSUME NEW t \in Ids, TurnStart(t) \/ TurnDone(t) \/ TurnDropped(t) PROVE G
  BY <1>5, ThinsSelf DEF TurnStart, TurnDone, TurnDropped, TurnFrame, Thinned
<1>6. ASSUME NEW w \in Wakes, TaskExits(w) \/ BridgeWake(w) PROVE G
  BY <1>6, ThinsSelf DEF TaskExits, BridgeWake, BridgeFrame, Thinned
<1>7. ASSUME Quiet \/ SiblingStep PROVE G
  BY <1>7, ThinsSelf DEF Quiet, Thinned, SiblingStep, SiblingTurn, SiblingPush, SiblingFrame
<1>8. ASSUME Commands PROVE G
  BY <1>8
<1> HIDE DEF G
<1>9. G
  BY <1>1, <1>2, <1>3, <1>4, <1>5, <1>6, <1>7, <1>8, Zenon DEF Next
<1> QED  BY <1>9 DEF G

(* A user's prompt finds no wake that waits; sent now it goes behind the   *)
(* other send-now prompts, else to the back.                               *)
LEMMA PromptOrder ==
  ASSUME TypeOK, QueueInv, OrderInv, NEW u \in Users, NEW now \in BOOLEAN, Prompt(u, now)
  PROVE  InOrder(queue', running', sendNow')
<1> DEFINE swept == Preempted(u)
           k == SendNowSlot(swept, running, sendNow)
           next == RunsNext(u, now)
<1>1. /\ queue \in Seq(Ids) /\ u \in Ids /\ u \notin Wakes /\ u \notin Synthetic
      /\ outcome[u] = "new" /\ QueueInput(u, now) /\ running' = running
  BY KindsAreIds, KindsAssumption DEF TypeOK, Prompt, Synthetic
<1>2. u \notin Items(queue) /\ u \notin sendNow
  BY <1>1 DEF QueueInv, QueueFresh, OrderInv, NowInv, Incoming
<1>3. /\ queue' = (IF next THEN InsertSlot(swept, k, u) ELSE Append(swept, u))
      /\ sendNow' = (IF next THEN sendNow \cup {u} ELSE sendNow)
  BY <1>1 DEF QueueInput
<1>4. /\ swept \in Seq(Ids) /\ Items(swept) \subseteq Items(queue) /\ Thins(swept, queue)
      /\ \A x \in Items(swept) \cap Wakes : x = running
  <2>1. CASE swept = queue /\ Waiting \cap Wakes = {}
    BY <1>1, <2>1, ThinsSelf DEF Waiting
  <2>2. CASE swept = Keep(queue, (Items(queue) \ Synthetic) \cup {running})
    <3>1. /\ swept \in Seq(Ids) /\ Thins(swept, queue)
          /\ Items(swept) = Items(queue) \cap ((Items(queue) \ Synthetic) \cup {running})
      BY <1>1, <2>2, KeepFacts, KeepThins
    <3> HIDE DEF swept
    <3> QED  BY <3>1 DEF Synthetic
  <2> QED  BY <1>1, <2>1, <2>2 DEF Preempted, Sweep
<1> HIDE DEF swept, k, next
<1>5. Ordered(swept, running, Ids \ sendNow, sendNow)
  BY <1>4, OrderedThinned DEF OrderInv, InOrder
<1>6. k \in 0 .. Len(swept) /\ \A i \in 1 .. k : swept[i] = running \/ swept[i] \in sendNow
  BY <1>4, SendNowSlotFacts, SendNowAhead DEF k
<1>7. Items(queue') = Items(swept) \cup {u}
  BY <1>1, <1>3, <1>4, <1>6, InsertSlotFacts, AppendFacts
<1>8. Ordered(queue', running, Wakes, Users)
  <2>1. ASSUME NEW x, NEW y, Prec(queue', x, y), x # running, x \in Wakes PROVE FALSE
    BY <1>1, <1>4, <1>7, <2>1, PrecItems
  <2> QED  BY <2>1 DEF Ordered
<1>9. Ordered(queue', running, Ids \ sendNow', sendNow')
  <2>1. CASE next
    <3>1. Ordered(swept, running, (Ids \ sendNow) \ {u}, sendNow \cup {u})
      BY <1>2, <1>4, <1>5, OrderedMoved
    <3>2. (Ids \ sendNow) \ {u} = Ids \ sendNow' /\ sendNow \cup {u} = sendNow'
      BY <1>3, <2>1
    <3>3. /\ u \notin Ids \ sendNow'
          /\ \A i \in 1 .. k : swept[i] = running \/ swept[i] \notin Ids \ sendNow'
      BY <1>6, <3>2
    <3>4. Ordered(InsertSlot(swept, k, u), running, Ids \ sendNow', sendNow')
      BY <1>1, <1>4, <1>6, <3>1, <3>2, <3>3, OrderedInsert
    <3> QED  BY <1>3, <2>1, <3>4
  <2>2. CASE ~next
    BY <1>1, <1>2, <1>3, <1>4, <1>5, <2>2, OrderedAppend
  <2> QED  BY <2>1, <2>2
<1> QED  BY <1>1, <1>8, <1>9 DEF InOrder

(* A waiting row that is sent now goes behind the turn in flight and the   *)
(* other send-now prompts, none of which is a wake.                        *)
LEMMA SentRowOrder ==
  ASSUME TypeOK, QueueInv, OrderInv, NEW u \in Users, NEW v, NEW o, NEW edit,
         InterjectQueuedPrompt(u, v, o, edit)
  PROVE  InOrder(queue', running', sendNow')
<1> DEFINE rest == Drop(queue, u)
           k == SendNowSlot(rest, running, sendNow)
<1>1. /\ queue \in Seq(Ids) /\ u \in Ids /\ u \notin Wakes /\ running' = running
      /\ sendNow \cap Wakes = {}
  BY KindsAreIds, KindsAssumption DEF TypeOK, InterjectQueuedPrompt, EditFrame, Synthetic, OrderInv, NowInv
<1>2. \/ queue' = queue /\ sendNow' = sendNow
      \/ queue' = InsertSlot(rest, k, u) /\ sendNow' = sendNow \cup {u}
  BY DEF InterjectQueuedPrompt
<1>3. CASE queue' = queue /\ sendNow' = sendNow
  BY <1>1, <1>3 DEF OrderInv
<1>4. CASE queue' = InsertSlot(rest, k, u) /\ sendNow' = sendNow \cup {u}
  <2>1. rest \in Seq(Ids) /\ u \notin Items(rest) /\ Thins(rest, queue)
    <3>1. rest = Keep(queue, Items(queue) \ {u})
      BY DEF Drop
    <3> HIDE DEF rest
    <3> QED  BY <1>1, <3>1, KeepFacts, KeepThins
  <2> HIDE DEF rest, k
  <2>2. k \in 0 .. Len(rest) /\ \A i \in 1 .. k : rest[i] = running \/ rest[i] \in sendNow
    BY <2>1, SendNowSlotFacts, SendNowAhead DEF k
  <2>3. Ordered(rest, running, Ids \ sendNow, sendNow) /\ Ordered(rest, running, Wakes, Users)
    BY <2>1, OrderedThinned DEF OrderInv, InOrder
  <2>4. Ordered(rest, running, (Ids \ sendNow) \ {u}, sendNow \cup {u})
    BY <2>1, <2>3, OrderedMoved
  <2>5. (Ids \ sendNow) \ {u} = Ids \ sendNow' /\ sendNow \cup {u} = sendNow'
    BY <1>4
  <2>6. /\ u \notin Ids \ sendNow'
        /\ \A i \in 1 .. k : rest[i] = running \/ rest[i] \notin Ids \ sendNow'
    BY <2>2, <2>5
  <2>7. Ordered(queue', running, Ids \ sendNow', sendNow')
    BY <1>1, <1>4, <2>1, <2>2, <2>4, <2>5, <2>6, OrderedInsert
  <2>8. \A i \in 1 .. k : rest[i] = running \/ rest[i] \notin Wakes
    BY <1>1, <2>2
  <2>9. Ordered(queue', running, Wakes, Users)
    BY <1>1, <1>4, <2>1, <2>2, <2>3, <2>8, OrderedInsert
  <2> QED  BY <1>1, <2>7, <2>9 DEF InOrder
<1> QED  BY <1>2, <1>3, <1>4

(* An interjection that found no turn goes behind the turn in flight. *)
LEMMA FallbackOrder ==
  ASSUME TypeOK, QueueInv, OrderInv, QueueFallback
  PROVE  InOrder(queue', running', sendNow') /\ \E f \in Fallbacks : sendNow' = sendNow \cup {f}
<1> DEFINE left == Keep(act.out, {f \in Fallbacks : outcome[f] = "interject"})
           z == left[Len(left)]
           k == FrontSlot(queue, running)
<1>1. z \in Fallbacks /\ outcome[z] = "interject"
  BY NextFallback DEF QueueFallback
<1>2. queue' = InsertSlot(queue, k, z) /\ sendNow' = sendNow \cup {z} /\ running' = running
  BY DEF QueueFallback
<1> HIDE DEF left, z
<1>3. /\ queue \in Seq(Ids) /\ z \in Ids /\ z \notin Wakes /\ z \notin Users
      /\ z \notin Items(queue)
  BY <1>1, KindsAreIds, KindsAssumption DEF TypeOK, Synthetic, QueueInv, QueueFresh, Incoming
<1>4. k \in 0 .. Len(queue) /\ \A i \in 1 .. k : queue[i] = running
  BY <1>3, SendNowSlotFacts DEF FrontSlot
<1> HIDE DEF k
<1>5. Ordered(queue, running, Ids \ sendNow, sendNow) /\ Ordered(queue, running, Wakes, Users)
  BY DEF OrderInv, InOrder
<1>6. Ordered(queue, running, (Ids \ sendNow) \ {z}, sendNow \cup {z})
  BY <1>3, <1>5, OrderedMoved
<1>7. (Ids \ sendNow) \ {z} = Ids \ sendNow' /\ sendNow \cup {z} = sendNow' /\ z \notin Ids \ sendNow'
  BY <1>2
<1>8. Ordered(queue', running, Ids \ sendNow', sendNow')
  BY <1>2, <1>3, <1>4, <1>6, <1>7, OrderedInsert
<1>9. Ordered(queue', running, Wakes, Users)
  BY <1>2, <1>3, <1>4, <1>5, OrderedInsert
<1> QED  BY <1>1, <1>2, <1>8, <1>9 DEF InOrder

(* A cancel pops the front, or empties the queue. *)
LEMMA TakeShape ==
  ASSUME TypeOK, CancelTake
  PROVE  \/ queue' = <<>> /\ (act.kill \/ queue = <<>>)
         \/ queue # <<>> /\ queue' = Tail(queue)
<1>1. queue \in Seq(Ids) /\ Len(queue) \in Nat
  BY DEF TypeOK
<1>2. \/ act'.rewound = None
      \/ queue # <<>> /\ queue' = Tail(queue)
  BY TakeFields
<1>3. act'.rewound = None => /\ act'.out = CancelledItems(act.kill)
                             /\ queue' = SubSeq(queue, Len(act'.out) + 1, Len(queue))
  BY TakeFields
<1>4. ASSUME act'.rewound = None, act.kill \/ queue = <<>> PROVE queue' = <<>>
  <2>1. queue' = SubSeq(queue, Len(queue) + 1, Len(queue))
    BY <1>3, <1>4 DEF CancelledItems
  <2> QED  BY <1>1, <2>1
<1>5. ASSUME act'.rewound = None, ~(act.kill \/ queue = <<>>) PROVE queue' = Tail(queue)
  <2>1. act'.out = <<queue[1]>>
    BY <1>3, <1>5 DEF CancelledItems
  <2>2. Tail(queue) = SubSeq(queue, 1 + 1, Len(queue)) /\ Len(<<queue[1]>>) = 1
    BY <1>1, <1>5
  <2> QED  BY <1>3, <1>5, <2>1, <2>2
<1> QED  BY <1>2, <1>4, <1>5

(* When the front leaves with its turn, what is left was in order. *)
LEMMA PopOrder ==
  ASSUME NEW s \in Seq(Ids), Distinct(s), NEW run, NEW now, InOrder(s, run, now),
         run = None \/ (s # <<>> /\ run = s[1])
  PROVE  /\ s # <<>> => InOrder(Tail(s), None, now)
         /\ InOrder(<<>>, None, now)
         /\ run = None => InOrder(s, None, now)
<1>1. None \notin Ids /\ Items(s) \subseteq Ids /\ Items(<<>>) = {}
  BY ConstantsAssumption, ItemsOf DEF Items
<1>2. ASSUME s # <<>>, NEW A, NEW B, Ordered(s, run, A, B) PROVE Ordered(Tail(s), None, A, B)
  <2>1. Items(Tail(s)) \subseteq Items(s) \ {s[1]} /\ Thins(Tail(s), s)
    BY <1>2, TailFacts, TailThins
  <2>2. ASSUME NEW x, NEW y, Prec(Tail(s), x, y), x \in A PROVE y \notin B
    <3>1. Prec(s, x, y) /\ x \in Items(Tail(s))
      BY <2>1, <2>2, PrecItems DEF Thins
    <3>2. x # run
      BY <1>1, <2>1, <3>1
    <3> QED  BY <1>2, <2>2, <3>1, <3>2 DEF Ordered
  <2> QED  BY <2>2 DEF Ordered
<1>3. s # <<>> => InOrder(Tail(s), None, now)
  BY <1>2 DEF InOrder
<1>4. InOrder(<<>>, None, now)
  BY <1>1, PrecItems DEF InOrder, Ordered
<1> QED  BY <1>3, <1>4

(* Every step but a reorder keeps the order. *)
LEMMA OrderNext ==
  ASSUME TypeOK, QueueInv, RunningIsFront, LedgerInv, OrderInv, MaxReorders = 0, Next
  PROVE  OrderInv'
<1>0. /\ queue \in Seq(Ids) /\ Distinct(queue) /\ None \notin Ids
      /\ InOrder(queue, running, sendNow) /\ NowInv
  BY ConstantsAssumption DEF TypeOK, QueueInv, QueueFresh, OrderInv
<1>c. \/ Thinned \/ Appends \/ Promotes \/ QueueFallback \/ CancelTake \/ Complete
      \/ \E u \in Users, now \in BOOLEAN : Prompt(u, now)
      \/ \E u \in Users, v \in 0 .. MaxVersion, o \in Clients \cup {None}, edit \in BOOLEAN :
           InterjectQueuedPrompt(u, v, o, edit)
  BY StepOrder, CommandOrder, Zenon
<1> DEFINE S == \A x \in sendNow' : x \in sendNow \/ x \in Fallbacks
                                    \/ (x \in Users /\ outcome'[x] = "queued")
           G == InOrder(queue', running', sendNow') /\ S
<1>1. ASSUME Thinned PROVE G
  BY <1>0, <1>1, OrderedThinned DEF Thinned, InOrder
<1>2. ASSUME Appends PROVE G
  <2>1. PICK z \in Synthetic : queue' = Append(queue, z) /\ UNCHANGED <<running, sendNow>>
    BY <1>2 DEF Appends
  <2>2. z \in Ids /\ z \notin sendNow /\ z \notin Users
    BY <1>0, KindsAreIds, KindsAssumption DEF NowInv
  <2>3. InOrder(queue', running, sendNow)
    BY <1>0, <2>1, <2>2, OrderedAppend DEF InOrder
  <2> QED  BY <2>1, <2>3
<1>3. ASSUME Promotes PROVE G
  <2>1. InOrder(queue, running', sendNow)
    <3>1. \A x, y : Prec(queue, x, y) => x # None
      BY <1>0, PrecItems, ItemsOf
    <3> QED  BY <1>0, <1>3, <3>1 DEF InOrder, Ordered, Promotes
  <2> QED  BY <1>3, <2>1 DEF Promotes
<1>4. ASSUME QueueFallback PROVE G
  BY <1>4, FallbackOrder
<1>5. ASSUME CancelTake PROVE G
  <2>1. running' = None /\ UNCHANGED sendNow /\ act.pc # "ended"
    BY <1>5 DEF CancelTake
  <2>2. running = None \/ (queue # <<>> /\ running = queue[1])
    BY <2>1 DEF RunningIsFront
  <2>3. queue' = <<>> \/ (queue # <<>> /\ queue' = Tail(queue))
    BY <1>5, TakeShape
  <2> QED  BY <1>0, <2>1, <2>2, <2>3, PopOrder
<1>6. ASSUME Complete PROVE G
  <2>1. /\ act.pc # "ended" /\ UNCHANGED sendNow
        /\ queue' = (IF Owned(act.id) THEN Tail(queue) ELSE queue)
        /\ running' = (IF ReleasesTask(act.id) THEN None ELSE running)
    BY <1>6 DEF Complete, CompleteFrame
  <2>2. running = None \/ (queue # <<>> /\ running = queue[1])
    BY <2>1 DEF RunningIsFront
  <2>3. CASE Owned(act.id)
    <3>1. queue # <<>> /\ queue' = Tail(queue) /\ running' = None
      BY <2>1, <2>3 DEF Owned, ReleasesTask
    <3> QED  BY <1>0, <2>1, <2>2, <3>1, PopOrder
  <2>4. CASE ~Owned(act.id)
    <3>1. queue' = queue /\ (running' = running \/ (running' = None /\ running = act.id))
      BY <2>1, <2>4 DEF ReleasesTask
    <3>2. running' = running
      BY <2>2, <2>4, <3>1 DEF Owned
    <3> QED  BY <1>0, <2>1, <3>1, <3>2
  <2> QED  BY <2>3, <2>4
<1>7. ASSUME NEW u \in Users, NEW now \in BOOLEAN, Prompt(u, now) PROVE G
  <2>1. sendNow' \subseteq sendNow \cup {u} /\ outcome'[u] = "queued"
    BY <1>7, KindsAreIds DEF Prompt, QueueInput
  <2> QED  BY <1>7, <2>1, PromptOrder
<1>8. ASSUME NEW u \in Users, NEW v, NEW o, NEW edit, InterjectQueuedPrompt(u, v, o, edit) PROVE G
  <2>1. sendNow' = sendNow \/ (sendNow' = sendNow \cup {u} /\ u \in Items(queue))
    BY <1>8 DEF InterjectQueuedPrompt, RowMatches, Rows, Waiting
  <2>2. outcome' = outcome
    BY <1>8 DEF InterjectQueuedPrompt
  <2>3. u \in Items(queue) => outcome[u] = "queued"
    BY DEF LedgerInv
  <2>4. S
    BY <2>1, <2>2, <2>3
  <2> QED  BY <1>8, <2>4, SentRowOrder
<1>9. G
  <2> HIDE DEF G
  <2> QED  BY <1>c, <1>1, <1>2, <1>3, <1>4, <1>5, <1>6, <1>7, <1>8, Zenon
<1>10. \A u \in Users : outcome[u] \notin Incoming => outcome'[u] \notin Incoming
  <2>1. Users \subseteq Ids /\ Users \cap Notes = {} /\ Items(pending) \subseteq Notes /\ Items(buffer) \subseteq Notes
    BY KindsAreIds, KindsAssumption, HeldFacts DEF Synthetic
  <2>2. CASE Flow
    BY <2>1, <2>2 DEF Flow, Arrives, Leaves, Incoming
  <2>3. CASE CancelTake
    BY <2>1, <2>3 DEF CancelTake, SetOutcome
  <2>4. CASE CancelDone
    BY <2>1, <2>4 DEF CancelDone, SetOutcome, Incoming
  <2>5. CASE Complete
    BY <2>1, <2>5 DEF Complete, SetOutcome, Incoming
  <2> QED  BY <2>2, <2>3, <2>4, <2>5, FlowNext
<1>11. NowInv'
  <2>1. sendNow' \subseteq Users \cup Fallbacks
    BY <1>0, <1>9 DEF NowInv
  <2>2. ASSUME NEW u \in Users \cap sendNow' PROVE outcome'[u] \notin Incoming
    <3>1. u \notin Fallbacks
      BY KindsAssumption
    <3>2. u \in sendNow \/ outcome'[u] = "queued"
      BY <1>9, <3>1
    <3> QED  BY <1>0, <1>10, <3>2 DEF NowInv, Incoming
  <2> QED  BY <2>1, <2>2 DEF NowInv
<1> QED  BY <1>9, <1>11 DEF OrderInv

(* A session starts with an empty queue. *)
LEMMA OrderInit == Init => OrderInv
<1> SUFFICES ASSUME Init PROVE OrderInv
  OBVIOUS
<1>1. queue = <<>> /\ sendNow = {} /\ Items(<<>>) = {}
  BY DEF Init, Items
<1> QED  BY <1>1, PrecItems DEF OrderInv, InOrder, Ordered, NowInv

(* Where no client reorders, the queue stays in order. *)
THEOREM OrderInvariant ==
  ASSUME MaxReorders = 0
  PROVE  Spec => []OrderInv
<1>1. TurnInv /\ OrderInv /\ [Next]_vars => OrderInv'
  <2> SUFFICES ASSUME TurnInv, OrderInv, [Next]_vars PROVE OrderInv'
    OBVIOUS
  <2>1. CASE Next
    BY <2>1, OrderNext DEF TurnInv
  <2>2. CASE UNCHANGED vars
    BY <2>2 DEF OrderInv, InOrder, NowInv, Ordered, Prec
  <2> QED  BY <2>1, <2>2
<1> QED  BY <1>1, OrderInit, TurnInvariant, PTL DEF Spec

(* Send-now prompts run before the other prompts that wait. *)
THEOREM SendNowOrder ==
  ASSUME MaxReorders = 0
  PROVE  Spec => []SendNowFirst
<1>1. TurnInv /\ OrderInv => SendNowFirst
  <2> SUFFICES ASSUME TurnInv, OrderInv, NEW i \in DOMAIN queue, NEW j \in DOMAIN queue,
                      i < j, queue[i] # running, queue[j] \in sendNow
               PROVE  queue[i] \in sendNow
    BY DEF SendNowFirst
  <2>1. Prec(queue, queue[i], queue[j]) /\ queue[i] \in Ids
    BY DEF TurnInv, TypeOK, Prec
  <2> QED  BY <2>1 DEF OrderInv, InOrder, Ordered
<1> QED  BY <1>1, OrderInvariant, TurnInvariant, PTL

(* No wake that waits holds a user's prompt up. *)
THEOREM UsersFirst ==
  ASSUME MaxReorders = 0
  PROVE  Spec => []UserBeforeWake
<1>1. OrderInv => UserBeforeWake
  <2> SUFFICES ASSUME OrderInv, NEW i \in DOMAIN queue, NEW j \in DOMAIN queue,
                      i < j, queue[i] # running, queue[i] \in Wakes
               PROVE  queue[j] \notin Users
    BY DEF UserBeforeWake
  <2>1. Prec(queue, queue[i], queue[j])
    BY DEF Prec
  <2> QED  BY <2>1 DEF OrderInv, InOrder, Ordered
<1> QED  BY <1>1, OrderInvariant, PTL

-----------------------------------------------------------------------------
(* The rows of the broadcast *)

(* A queue without repetition has as many ids in a set of slots as slots. *)
LEMMA SlotsCounted ==
  ASSUME NEW s, Distinct(s), NEW J \in SUBSET DOMAIN s, IsFiniteSet(J)
  PROVE  Cardinality({s[j] : j \in J}) = Cardinality(J)
<1> DEFINE B == {s[j] : j \in J}
           f == [j \in J |-> s[j]]
<1>1. f \in [J -> B] /\ \A y \in B : \E j \in J : f[j] = y
  OBVIOUS
<1>2. \A i, j \in J : f[i] = f[j] => i = j
  BY DEF Distinct
<1> HIDE DEF f, B
<1>3. f \in Bijection(J, B)
  BY <1>1, <1>2, Fun_IsBij
<1>4. ExistsBijection(J, B)
  BY <1>3 DEF ExistsBijection
<1>5. Cardinality(B) = Cardinality(J)
  BY <1>4, FS_Bijection
<1> QED  BY <1>5 DEF B

(* The k-th id that a sweep keeps is the one with k - 1 kept ids ahead. *)
Ranked(s, K) ==
  /\ DOMAIN Keep(s, K) = 1 .. Cardinality(Items(s) \cap K)
  /\ Cardinality(Items(s) \cap K) \in Nat
  /\ \A k \in DOMAIN Keep(s, K) :
       Cardinality({y \in Items(s) \cap K : Prec(s, y, Keep(s, K)[k])}) = k - 1

(* It is so in every queue without repetition. *)
LEMMA KeptRank ==
  ASSUME NEW T, NEW s \in Seq(T), Distinct(s), NEW K
  PROVE  Ranked(s, K)
<1> DEFINE I == Positions(s, K)
           c == Cardinality(I)
           M == Items(s) \cap K
<1>1. Len(s) \in Nat /\ DOMAIN s = 1 .. Len(s)
  OBVIOUS
<1>2. I \in SUBSET (1 .. Len(s)) /\ \A i \in 1 .. Len(s) : i \in I <=> s[i] \in K
  BY <1>1 DEF Positions
<1>3. M = {s[i] : i \in I}
  BY <1>1, <1>2 DEF Items
<1>4. Keep(s, K) = [k \in 1 .. c |-> s[Nth(I, k)]]
  BY DEF Keep
<1> HIDE DEF I
<1>5. /\ IsFiniteSet(I) /\ c \in Nat /\ \A k \in 1 .. c : Nth(I, k) \in I
      /\ \A k \in 1 .. c : Cardinality({j \in I : j < Nth(I, k)}) = k - 1
  BY <1>1, <1>2, NthFacts
<1>6. Cardinality(M) = c
  BY <1>1, <1>2, <1>3, <1>5, SlotsCounted
<1> HIDE DEF c, M
<1>7. ASSUME NEW k \in 1 .. c
      PROVE  Cardinality({y \in M : Prec(s, y, s[Nth(I, k)])}) = k - 1
  <2> DEFINE i == Nth(I, k)
             J == {j \in I : j < i}
             B == {y \in M : Prec(s, y, s[i])}
  <2>1. i \in I /\ i \in 1 .. Len(s) /\ Cardinality(J) = k - 1
    BY <1>2, <1>5
  <2> HIDE DEF i
  <2>2. J \in SUBSET DOMAIN s /\ J \in SUBSET I
    BY <1>1, <1>2
  <2>3. B = {s[j] : j \in J}
    <3>1. ASSUME NEW j \in J PROVE s[j] \in B
      BY <1>1, <1>2, <1>3, <2>1, <3>1 DEF Prec
    <3>2. ASSUME NEW y \in B PROVE \E j \in J : y = s[j]
      <4>1. PICK a \in DOMAIN s, b \in DOMAIN s : a < b /\ s[a] = y /\ s[b] = s[i]
        BY <3>2 DEF Prec
      <4>2. b = i
        BY <1>1, <2>1, <4>1 DEF Distinct
      <4>3. a \in I
        <5>1. PICK e \in I : y = s[e]
          BY <1>3, <3>2
        <5>2. e = a
          BY <1>1, <1>2, <4>1, <5>1 DEF Distinct
        <5> QED  BY <5>1, <5>2
      <4> QED  BY <4>1, <4>2, <4>3
    <3> QED  BY <3>1, <3>2
  <2> HIDE DEF J, B
  <2>4. IsFiniteSet(J)
    BY <1>5, <2>2, FS_Subset
  <2>5. Cardinality(B) = Cardinality(J)
    BY <2>2, <2>3, <2>4, SlotsCounted
  <2> QED  BY <2>1, <2>5 DEF B, i
<1>8. DOMAIN Keep(s, K) = 1 .. c /\ \A k \in 1 .. c : Keep(s, K)[k] = s[Nth(I, k)]
  BY <1>4
<1> QED  BY <1>5, <1>6, <1>7, <1>8 DEF M, Ranked

(* Of two ids that a queue holds, one is ahead of the other. *)
LEMMA PrecTotal ==
  ASSUME NEW T, NEW s \in Seq(T), Distinct(s)
  PROVE  /\ \A x, y \in Items(s) : x = y \/ Prec(s, x, y) \/ Prec(s, y, x)
         /\ \A x, y : ~(Prec(s, x, y) /\ Prec(s, y, x)) /\ ~Prec(s, x, x)
<1>1. Len(s) \in Nat /\ DOMAIN s = 1 .. Len(s)
  OBVIOUS
<1>2. ASSUME NEW x \in Items(s), NEW y \in Items(s), x # y PROVE Prec(s, x, y) \/ Prec(s, y, x)
  <2>1. PICK i \in 1 .. Len(s), j \in 1 .. Len(s) : s[i] = x /\ s[j] = y
    BY <1>1 DEF Items
  <2>2. i < j \/ j < i
    BY <1>1, <1>2, <2>1
  <2> QED  BY <1>1, <2>1, <2>2 DEF Prec
<1>3. ASSUME NEW x, NEW y, Prec(s, x, y), Prec(s, y, x) PROVE FALSE
  <2>1. PICK i \in 1 .. Len(s), j \in 1 .. Len(s) : i < j /\ s[i] = x /\ s[j] = y
    BY <1>1, <1>3 DEF Prec
  <2>2. PICK a \in 1 .. Len(s), b \in 1 .. Len(s) : a < b /\ s[a] = y /\ s[b] = x
    BY <1>1, <1>3 DEF Prec
  <2>3. i = b /\ j = a
    BY <1>1, <2>1, <2>2 DEF Distinct
  <2> QED  BY <1>1, <2>1, <2>2, <2>3
<1>4. \A x : ~Prec(s, x, x)
  BY <1>3
<1> QED  BY <1>2, <1>3, <1>4

(* Two queues with the same ids of K, in the same order, show the same.    *)
LEMMA SameKept ==
  ASSUME NEW T, NEW r \in Seq(T), NEW s \in Seq(T), Distinct(r), Distinct(s), Thins(r, s),
         NEW K, Items(r) \cap K = Items(s) \cap K
  PROVE  Keep(r, K) = Keep(s, K)
<1> DEFINE M == Items(s) \cap K
           n == Cardinality(M)
           a == Keep(r, K)
           b == Keep(s, K)
           Br(x) == {y \in M : Prec(r, y, x)}
           Bs(x) == {y \in M : Prec(s, y, x)}
<1>1. /\ n \in Nat /\ DOMAIN a = 1 .. n /\ DOMAIN b = 1 .. n
      /\ \A k \in 1 .. n : Cardinality(Br(a[k])) = k - 1
      /\ \A k \in 1 .. n : Cardinality(Bs(b[k])) = k - 1
  <2>1. Ranked(r, K) /\ Ranked(s, K)
    BY KeptRank
  <2>2. /\ n \in Nat /\ DOMAIN b = 1 .. n
        /\ \A k \in DOMAIN b : Cardinality(Bs(b[k])) = k - 1
    BY <2>1, Zenon DEF Ranked
  <2>3. /\ DOMAIN a = 1 .. Cardinality(Items(r) \cap K)
        /\ \A k \in DOMAIN a : Cardinality({y \in Items(r) \cap K : Prec(r, y, a[k])}) = k - 1
    BY <2>1, Zenon DEF Ranked
  <2>4. Items(r) \cap K = M
    OBVIOUS
  <2> HIDE DEF M, a, b
  <2> QED  BY <2>2, <2>3, <2>4, Zenon
<1>2. a \in Seq(T) /\ b \in Seq(T) /\ Items(a) = M /\ Items(b) = M
  BY KeepFacts
<1>3. \A x, y \in M : Prec(r, x, y) <=> Prec(s, x, y)
  <2>1. \A x, y \in M : x \in Items(r) /\ y \in Items(r)
    OBVIOUS
  <2> QED  BY <2>1, PrecTotal DEF Thins
<1>4. \A x \in M : Br(x) = Bs(x)
  BY <1>3
<1> HIDE DEF M, n, a, b, Br, Bs
<1>5. ASSUME NEW k \in 1 .. n PROVE a[k] = b[k]
  <2>1. a[k] \in M
    BY <1>1, <1>2 DEF Items
  <2>2. PICK l \in 1 .. n : b[l] = a[k]
    BY <1>1, <1>2, <2>1 DEF Items
  <2>3. k - 1 = l - 1
    BY <1>1, <1>4, <2>1, <2>2
  <2> QED  BY <1>1, <2>2, <2>3
<1>6. a = b
  BY <1>1, <1>2, <1>5
<1> QED  BY <1>6 DEF a, b

(* What a sweep keeps depends on the set only as far as the queue has it. *)
LEMMA SameSet ==
  ASSUME NEW s, NEW K, NEW L, Items(s) \cap K = Items(s) \cap L
  PROVE  Keep(s, K) = Keep(s, L)
<1>1. Positions(s, K) = Positions(s, L)
  BY DEF Positions, Items
<1> QED  BY <1>1 DEF Keep

(* The last broadcast shows the rows as they are, at every await. *)
WireInv == wire = QueueWire(queue, running, Users, version)

(* The rows that wait; a step that leaves them and their order alone need  *)
(* not broadcast.                                                          *)
Silent ==
  /\ UNCHANGED <<wire, version>>
  /\ Rows' = Rows
  /\ Thins(queue', queue) \/ Thins(queue, queue')

(* After such a step the last broadcast is still right. *)
LEMMA SilentWire ==
  ASSUME TypeOK, QueueInv, TypeOK', QueueInv', WireInv, Silent
  PROVE  WireInv'
<1>1. queue \in Seq(Ids) /\ queue' \in Seq(Ids) /\ Distinct(queue) /\ Distinct(queue')
  BY DEF TypeOK, QueueInv, QueueFresh
<1>2. /\ Rows = Items(queue) \cap (Users \ {running})
      /\ Rows' = Items(queue') \cap (Users \ {running'})
  BY DEF Rows, Waiting
<1>3. /\ Keep(queue, Users \ {running}) = Keep(queue, Rows)
      /\ Keep(queue', Users \ {running'}) = Keep(queue', Rows)
  <2>1. Items(queue) \cap (Users \ {running}) = Items(queue) \cap Rows
    BY <1>2
  <2>2. Items(queue') \cap (Users \ {running'}) = Items(queue') \cap Rows
    BY <1>2 DEF Silent
  <2> QED  BY <2>1, <2>2, SameSet
<1>4. Items(queue) \cap Rows = Items(queue') \cap Rows
  BY <1>2 DEF Silent
<1>5. Keep(queue, Rows) = Keep(queue', Rows)
  <2> DEFINE K == Rows
  <2> HIDE DEF K
  <2>1. Items(queue) \cap K = Items(queue') \cap K
    BY <1>4 DEF K
  <2>2. Keep(queue, K) = Keep(queue', K)
    BY <1>1, <2>1, SameKept DEF Silent
  <2> QED  BY <2>2 DEF K
<1>6. Keep(queue, Users \ {running}) = Keep(queue', Users \ {running'})
  BY <1>3, <1>5
<1> QED  BY <1>6 DEF WireInv, QueueWire, Silent

(* The front is popped, and it was not a row. *)
LEMMA PopSilent ==
  ASSUME TypeOK, QueueInv, queue # <<>>, queue' = Tail(queue), running' = None,
         running = queue[1] \/ (running = None /\ queue[1] \notin Users),
         UNCHANGED <<wire, version>>
  PROVE  Silent
<1>1. queue \in Seq(Ids) /\ Distinct(queue) /\ None \notin Ids /\ Users \subseteq Ids
  BY ConstantsAssumption, KindsAreIds DEF TypeOK, QueueInv, QueueFresh
<1>2. Thins(queue', queue)
  BY <1>1, TailThins
<1>3. Items(queue) = {queue[1]} \cup Items(queue') /\ queue[1] \notin Items(queue')
  BY <1>1, TailItems, TailFacts
<1>4. Rows = Items(queue) \cap (Users \ {running}) /\ Rows' = Items(queue') \cap (Users \ {running'})
  BY DEF Rows, Waiting
<1>5. Rows' = Rows
  BY <1>1, <1>3, <1>4
<1> QED  BY <1>2, <1>5 DEF Silent

(* A step that touches neither the queue nor the turn in flight. *)
LEMMA StillSilent == UNCHANGED <<queue, running, wire, version>> => Silent
  BY ThinsSelf DEF Silent, Rows, Waiting, Items

(* A prompt that is not a row joins. *)
LEMMA JoinSilent ==
  ASSUME Thins(queue, queue'), NEW z, z \notin Users, Items(queue') = Items(queue) \cup {z},
         UNCHANGED <<running, wire, version>>
  PROVE  Silent
<1>1. Rows = Items(queue) \cap (Users \ {running}) /\ Rows' = Items(queue') \cap (Users \ {running'})
  BY DEF Rows, Waiting
<1> QED  BY <1>1 DEF Silent

(* Prompts that are not rows leave. *)
LEMMA LeaveSilent ==
  ASSUME TypeOK, NEW K, queue' = Keep(queue, K), Items(queue) \cap Users \subseteq K \cup {running},
         UNCHANGED <<running, wire, version>>
  PROVE  Silent
<1>1. queue \in Seq(Ids)
  BY DEF TypeOK
<1>2. Thins(queue', queue) /\ Items(queue') = Items(queue) \cap K
  BY <1>1, KeepThins, KeepFacts
<1>3. Rows = Items(queue) \cap (Users \ {running}) /\ Rows' = Items(queue') \cap (Users \ {running'})
  BY DEF Rows, Waiting
<1> QED  BY <1>2, <1>3 DEF Silent

(* No command changes the rows and forgets to broadcast. *)
LEMMA CommandWire ==
  ASSUME TypeOK, Commands
  PROVE  Broadcast \/ Silent
<1> DEFINE G == Broadcast \/ Silent
<1>0. queue \in Seq(Ids) /\ Items(queue) \subseteq Ids
  BY ItemsOf DEF TypeOK
<1>1. ASSUME NEW id, NEW now, Prompt(id, now) PROVE G
  BY <1>1 DEF Prompt
<1>2. ASSUME NEW g \in Summaries, GoalSummaryTurn(g) PROVE G
  <2>1. g \in Ids /\ g \notin Users
    BY KindsAreIds, KindsAssumption DEF Synthetic
  <2>2. queue' = Append(queue, g) /\ UNCHANGED <<running, wire, version>>
    BY <1>2 DEF GoalSummaryTurn
  <2>3. Thins(queue, queue') /\ Items(queue') = Items(queue) \cup {g}
    BY <1>0, <2>1, <2>2, AppendThins, AppendFacts
  <2> QED  BY <2>1, <2>2, <2>3, JoinSilent
<1>3. ASSUME NEW u \in Users, NEW v, NEW o, RemoveQueuedPrompt(u, v, o) PROVE G
  BY <1>3 DEF RemoveQueuedPrompt
<1>4. ASSUME NEW o, ClearQueue(o) PROVE G
  BY <1>4 DEF ClearQueue
<1>5. ASSUME NEW order \in Orders, ReorderQueue(order) PROVE G
  BY <1>5 DEF ReorderQueue
<1>6. ASSUME NEW u \in Users, EditQueuedPrompt(u) PROVE G
  BY <1>6 DEF EditQueuedPrompt
<1>7. ASSUME NEW f \in Fallbacks, Interject(f) PROVE G
  BY <1>7, StillSilent DEF Interject
<1>8. ASSUME NEW n \in Notes, InjectNotification(n) PROVE G
  BY <1>8, StillSilent DEF InjectNotification, NoteFrame
<1>9. ASSUME NEW w \in MonitorWakes, DropMonitorNotifications(w) PROVE G
  BY <1>9, StillSilent DEF DropMonitorNotifications, NoteFrame
<1>10. ASSUME NEW rewind, NEW kill, Cancel(rewind, kill) PROVE G
  BY <1>10, StillSilent DEF Cancel
<1>11. ASSUME Shutdown PROVE G
  <2>1. queue' = Keep(queue, Ids \ Synthetic) /\ UNCHANGED <<running, wire, version>>
    BY <1>11 DEF Shutdown, KeptAtShutdown
  <2>2. Items(queue) \cap Users \subseteq (Ids \ Synthetic) \cup {running}
    BY <1>0, KindsAssumption
  <2> QED  BY <2>1, <2>2, LeaveSilent
<1>12. ASSUME NEW u \in Users, NEW v, NEW o, NEW edit, InterjectQueuedPrompt(u, v, o, edit) PROVE G
  BY <1>12 DEF InterjectQueuedPrompt
<1> HIDE DEF G
<1>13. G
  BY <1>1, <1>2, <1>3, <1>4, <1>5, <1>6, <1>7, <1>8, <1>9, <1>10, <1>11, <1>12, Zenon DEF Commands
<1> QED  BY <1>13 DEF G

(* Nor does any other step, unless a cancel tears the session down. *)
LEMMA StepWire ==
  ASSUME TypeOK, QueueInv, RunningIsFront, ServedInv, ~act.kill, Next
  PROVE  Broadcast \/ Silent
<1> DEFINE G == Broadcast \/ Silent
<1>0. queue \in Seq(Ids) /\ Items(queue) \subseteq Ids /\ None \notin Ids /\ Users \subseteq Ids
  BY ItemsOf, ConstantsAssumption, KindsAreIds DEF TypeOK
<1>1. ASSUME ActorStep PROVE G
  <2>1. CASE ActorSkip \/ ActorPin
    BY <2>1, StillSilent DEF ActorSkip, ActorPin, PinFront, StartFrame
  <2>2. CASE ActorPromote
    BY <2>2 DEF ActorPromote, PromoteFront
  <2>3. CASE CancelBegin
    BY <2>3, StillSilent DEF CancelBegin
  <2>4. CASE CancelGoal \/ CancelAbort \/ CancelDone \/ CancelResume
    BY <2>4, StillSilent DEF CancelGoal, CancelAbort, CancelDone, CancelResume, CancelFrame
  <2>5. CASE TakeCompletion \/ CompleteGoal \/ FlushTurnEnd
    BY <2>5, StillSilent DEF TakeCompletion, CompleteGoal, FlushTurnEnd, CompleteFrame
  <2>6. ASSUME NEW all \in BOOLEAN, DrainNotifications(all) PROVE G
    <3> DEFINE batch == pending \o buffer
               shown == IF all THEN <<>> ELSE Keep(batch, Notes \ GoalTurnNotes)
    <3>1. UNCHANGED <<running, wire, version>>
      BY <2>6 DEF DrainNotifications
    <3>2. shown \in Seq(Notes)
      <4>1. batch \in Seq(Notes)
        BY DEF TypeOK
      <4> HIDE DEF batch
      <4> QED  BY <4>1, KeepFacts
    <3>3. queue' = queue \/ (shown # <<>> /\ queue' = Append(queue, shown[1]))
      BY <2>6 DEF DrainNotifications
    <3> HIDE DEF shown
    <3>4. shown # <<>> => shown[1] \in Ids /\ shown[1] \notin Users
      BY <3>2, KindsAreIds, KindsAssumption DEF Synthetic
    <3>5. CASE queue' = queue
      BY <3>1, <3>5, StillSilent
    <3>6. CASE shown # <<>> /\ queue' = Append(queue, shown[1])
      <4>1. Thins(queue, queue') /\ Items(queue') = Items(queue) \cup {shown[1]}
        BY <1>0, <3>4, <3>6, AppendThins, AppendFacts
      <4> QED  BY <3>1, <3>4, <3>6, <4>1, JoinSilent
    <3> QED  BY <3>3, <3>5, <3>6
  <2>7. CASE QueueFallback
    <3> DEFINE left == Keep(act.out, {f \in Fallbacks : outcome[f] = "interject"})
               z == left[Len(left)]
               k == FrontSlot(queue, running)
    <3>1. z \in Fallbacks
      BY <2>7, NextFallback
    <3>2. queue' = InsertSlot(queue, k, z) /\ UNCHANGED <<running, wire, version>>
      BY <2>7 DEF QueueFallback
    <3> HIDE DEF left, z
    <3>3. z \in Ids /\ z \notin Users /\ k \in 0 .. Len(queue)
      BY <1>0, <3>1, KindsAreIds, KindsAssumption, SendNowSlotFacts
    <3> HIDE DEF k
    <3>4. Thins(queue, queue') /\ Items(queue') = Items(queue) \cup {z}
      BY <1>0, <3>2, <3>3, InsertThins, InsertSlotFacts
    <3> QED  BY <3>2, <3>3, <3>4, JoinSilent
  <2>8. CASE CancelTake
    <3>1. act.pc = "cancel_take" /\ running' = None /\ UNCHANGED <<wire, version>>
      BY <2>8 DEF CancelTake
    <3>2. running = None \/ (queue # <<>> /\ running = queue[1])
      BY <3>1 DEF RunningIsFront
    <3>3. CASE queue = <<>>
      <4>1. queue' = queue /\ running' = running
        BY <2>8, <3>1, <3>2, <3>3, TakeShape
      <4> QED  BY <3>1, <4>1, StillSilent
    <3>4. CASE queue # <<>>
      <4>1. queue' = Tail(queue)
        BY <2>8, <3>4, TakeShape
      <4>2. running = None => queue[1] \notin Users
        <5>1. queue[1] \in Items(queue) /\ Resumes \cap Users = {}
          BY <1>0, <3>4, ItemsOf, KindsAssumption DEF Synthetic
        <5> QED  BY <3>1, <5>1 DEF ServedInv, Steady
      <4> QED  BY <3>1, <3>2, <3>4, <4>1, <4>2, PopSilent
    <3> QED  BY <3>3, <3>4
  <2>9. CASE Complete
    <3>1. /\ act.pc # "ended" /\ UNCHANGED version
          /\ queue' = (IF Owned(act.id) THEN Tail(queue) ELSE queue)
          /\ running' = (IF ReleasesTask(act.id) THEN None ELSE running)
          /\ IF Owned(act.id) /\ act.id \in Users THEN Broadcast ELSE UNCHANGED wire
      BY <2>9 DEF Complete, CompleteFrame
    <3>2. running = None \/ (queue # <<>> /\ running = queue[1])
      BY <3>1 DEF RunningIsFront
    <3>3. CASE Owned(act.id) /\ act.id \in Users
      BY <3>1, <3>3
    <3>4. CASE Owned(act.id) /\ act.id \notin Users
      <4>1. queue # <<>> /\ queue[1] = act.id /\ queue' = Tail(queue) /\ running' = None
            /\ UNCHANGED <<wire, version>>
        BY <3>1, <3>4 DEF Owned, ReleasesTask
      <4> QED  BY <3>2, <3>4, <4>1, PopSilent
    <3>5. CASE ~Owned(act.id)
      <4>1. queue' = queue /\ (running' = running \/ running = act.id) /\ UNCHANGED <<wire, version>>
        BY <3>1, <3>5 DEF ReleasesTask
      <4>2. running' = running
        BY <3>1, <3>2, <3>5, <4>1 DEF Owned
      <4> QED  BY <4>1, <4>2, StillSilent
    <3> QED  BY <3>3, <3>4, <3>5
  <2> HIDE DEF G
  <2> QED  BY <1>1, <2>1, <2>2, <2>3, <2>4, <2>5, <2>6, <2>7, <2>8, <2>9, Zenon DEF ActorStep
<1>2. ASSUME NEW s \in Sides, SideStep(s) PROVE G
  BY <1>2, StillSilent DEF SideStep, SideSkip, SidePin, SidePromote, PinFront, PromoteFront, StartFrame
<1>3. ASSUME NEW r \in Resumes, ResumeQueue(r) PROVE G
  BY <1>3 DEF ResumeQueue
<1>4. ASSUME NEW t \in Ids, TurnStep(t) PROVE G
  <2>1. ASSUME NEW w \in Wakes, TurnConsume(t, w) PROVE G
    <3>1. /\ queue' = Keep(queue, (Items(queue) \ {w}) \cup {running})
          /\ UNCHANGED <<running, wire, version>>
      BY <2>1 DEF TurnConsume, TurnFrame, Sweep
    <3>2. w \notin Users
      BY KindsAssumption DEF Synthetic
    <3> QED  BY <3>1, <3>2, LeaveSilent
  <2>2. CASE TurnEmit(t) \/ TurnMerge(t) \/ TurnInject(t) \/ TurnRemind(t) \/ TurnScopeEnd(t)
    BY <2>2, StillSilent DEF TurnEmit, TurnMerge, TurnInject, TurnRemind, TurnScopeEnd, TurnFrame
  <2>3. ASSUME NEW active, TurnGoal(t, active) PROVE G
    BY <2>3, StillSilent DEF TurnGoal, TurnFrame
  <2>4. CASE RequestWait(t) \/ EnterWait(t) \/ LeaveWait(t) \/ AbandonWait(t)
    BY <2>4, StillSilent DEF RequestWait, EnterWait, LeaveWait, AbandonWait, WaitFrame, TurnFrame
  <2> HIDE DEF G
  <2> QED  BY <1>4, <2>1, <2>2, <2>3, <2>4, Zenon DEF TurnStep
<1>5. ASSUME NEW t \in Ids, TurnStart(t) \/ TurnDone(t) \/ TurnDropped(t) PROVE G
  BY <1>5, StillSilent DEF TurnStart, TurnDone, TurnDropped, TurnFrame
<1>6. ASSUME NEW w \in Wakes, TaskExits(w) \/ BridgeWake(w) PROVE G
  BY <1>6, StillSilent DEF TaskExits, BridgeWake, BridgeFrame
<1>7. ASSUME Quiet \/ SiblingStep PROVE G
  BY <1>7, StillSilent DEF Quiet, SiblingStep, SiblingTurn, SiblingPush, SiblingFrame
<1>8. ASSUME Commands PROVE G
  BY <1>8, CommandWire
<1> HIDE DEF G
<1>9. G
  BY <1>1, <1>2, <1>3, <1>4, <1>5, <1>6, <1>7, <1>8, Zenon DEF Next
<1> QED  BY <1>9 DEF G

(* A session starts with no row and an empty broadcast. *)
LEMMA WireInit == Init => WireInv
<1> SUFFICES ASSUME Init PROVE WireInv
  OBVIOUS
<1>1. queue = <<>> /\ wire = <<>>
  BY DEF Init
<1> DEFINE K == Users \ {running}
           r == Keep(<<>>, K)
<1>2. r \in Seq(Ids) /\ Items(r) = {}
  <2> DEFINE e == <<>>
  <2>1. e \in Seq(Ids) /\ Items(e) = {}
    BY DEF Items
  <2> HIDE DEF K, e
  <2>2. Keep(e, K) \in Seq(Ids) /\ Items(Keep(e, K)) = {}
    BY <2>1, KeepFacts
  <2> QED  BY <2>2 DEF e
<1>3. r = <<>>
  <2> HIDE DEF r
  <2> QED  BY <1>2, ItemsOf
<1>4. QueueWire(<<>>, running, Users, version) = [k \in DOMAIN r |-> <<r[k], version[r[k]]>>]
  BY DEF QueueWire
<1>5. QueueWire(<<>>, running, Users, version) = <<>>
  <2> HIDE DEF r
  <2>1. DOMAIN r = {}
    BY <1>3
  <2> QED  BY <1>4, <2>1
<1> QED  BY <1>1, <1>5 DEF WireInv

(* Where no client tears a session down, the clients see the rows as they  *)
(* are, at every await of the actor.                                       *)
THEOREM WireInvariant ==
  ASSUME ~KillAllowed
  PROVE  Spec => []WireInv
<1>1. TurnInv /\ TurnInv' /\ WireInv /\ [Next]_vars => WireInv'
  <2> SUFFICES ASSUME TurnInv, TurnInv', WireInv, [Next]_vars PROVE WireInv'
    OBVIOUS
  <2>1. CASE Next
    <3>1. ~act.kill
      BY DEF TurnInv, FlagsInv
    <3>2. Broadcast \/ Silent
      BY <2>1, <3>1, StepWire DEF TurnInv
    <3>3. CASE Broadcast
      BY <3>3 DEF Broadcast, WireInv
    <3>4. CASE Silent
      BY <3>4, SilentWire DEF TurnInv
    <3> QED  BY <3>2, <3>3, <3>4
  <2>2. CASE UNCHANGED vars
    BY <2>2 DEF WireInv, QueueWire, Keep, Positions
  <2> QED  BY <2>1, <2>2
<1> QED  BY <1>1, WireInit, TurnInvariant, PTL DEF Spec

(* In particular between handlers: no path forgets to broadcast. *)
THEOREM WireKept ==
  ASSUME ~KillAllowed
  PROVE  Spec => []WireFresh
<1>1. WireInv => WireFresh
  BY DEF WireInv, WireFresh
<1> QED  BY <1>1, WireInvariant, PTL

-----------------------------------------------------------------------------
(* The service *)

(* What a user's prompt is to the service. *)
LEMMA StatusOf ==
  ASSUME NEW u \in Users
  PROVE  /\ PromptStatus[u] = (IF outcome[u] # "queued" THEN outcome[u]
                               ELSE IF u \notin Items(queue) THEN "stopping"
                               ELSE IF u = running THEN "running" ELSE "waiting")
         /\ PromptStatus'[u] = (IF outcome'[u] # "queued" THEN outcome'[u]
                                ELSE IF u \notin Items(queue') THEN "stopping"
                                ELSE IF u = running' THEN "running" ELSE "waiting")
  BY DEF PromptStatus, Items

(* A step of the session that moves the prompts of S. *)
LEMMA StatusMoves ==
  ASSUME NEW S, NEW s, \A u \in Users : PromptStatus'[u] = IF u \in S THEN s ELSE PromptStatus[u]
  PROVE  Service!Become(S, s)
<1>1. PromptStatus' = [u \in Users |-> PromptStatus'[u]]
  BY DEF PromptStatus
<1> QED  BY <1>1 DEF Service!Become

(* A step that changes no answer and no turn in flight. *)
LEMMA StatusKept ==
  ASSUME \A u \in Users : PromptStatus'[u] = PromptStatus[u]
  PROVE  UNCHANGED PromptStatus
<1>1. /\ PromptStatus' = [u \in Users |-> PromptStatus'[u]]
      /\ PromptStatus = [u \in Users |-> PromptStatus[u]]
  BY DEF PromptStatus
<1> QED  BY <1>1

(* Where the flow leaves the outcome of a user's prompt alone, it leaves   *)
(* the prompt in its place.                                                *)
LEMMA UserInPlace ==
  ASSUME QueueInv, LedgerInv, Flow, NEW u \in Users, outcome'[u] = outcome[u]
  PROVE  u \in Items(queue') <=> u \in Items(queue)
<1>1. u \in Ids
  BY KindsAreIds
<1>2. /\ u \in Items(queue) => outcome[u] = "queued"
      /\ outcome[u] \in Incoming => u \notin Items(queue)
  BY <1>1 DEF LedgerInv, QueueInv, QueueFresh
<1>3. \/ u \in Items(queue') <=> u \in Items(queue)
      \/ Arrives(u)
      \/ Leaves(u)
  BY <1>1 DEF Flow
<1> QED  BY <1>2, <1>3 DEF Arrives, Leaves, Incoming

(* queue_input changes the outcome of no user's prompt but the one it adds. *)
LEMMA InputKeepsUsers ==
  ASSUME TypeOK, QueueInv, LedgerInv, NEW id \in Ids, NEW now \in BOOLEAN,
         outcome[id] \in Incoming, QueueInput(id, now), UNCHANGED terminals
  PROVE  \A u \in Users \ {id} : outcome'[u] = outcome[u]
<1>1. Flow
  BY QueueInputFlow
<1> SUFFICES ASSUME NEW u \in Users \ {id} PROVE outcome'[u] = outcome[u]
  OBVIOUS
<1>2. u \in Ids /\ (u \in Items(queue) => outcome[u] = "queued")
  BY KindsAreIds DEF LedgerInv
<1>3. outcome'[u] \in {"dropped", outcome[u]}
  BY <1>2 DEF QueueInput
<1>4. outcome'[u] = outcome[u] \/ Arrives(u) \/ Leaves(u)
  BY <1>1, <1>2 DEF Flow
<1> QED  BY <1>2, <1>3, <1>4 DEF Arrives, Leaves, Incoming

(* The commands that change what a user's prompt is to the service. *)
UserCommand ==
  \/ \E u \in Users, now \in BOOLEAN : Prompt(u, now)
  \/ \E u \in Users, v \in 0 .. MaxVersion, o \in Clients \cup {None} : RemoveQueuedPrompt(u, v, o)
  \/ \E o \in Clients \cup {None} : ClearQueue(o)

(* The other commands change no user's outcome. *)
LEMMA CommandKeepsUsers ==
  ASSUME TypeOK, QueueInv, LedgerInv, Commands
  PROVE  UserCommand \/ \A u \in Users : outcome'[u] = outcome[u]
<1> DEFINE K == \A u \in Users : outcome'[u] = outcome[u]
           G == UserCommand \/ K
<1>0. /\ Users \subseteq Ids /\ Users \cap Synthetic = {} /\ Users \cap Fallbacks = {}
      /\ Items(pending) \subseteq Notes /\ Items(buffer) \subseteq Notes /\ Users \cap Notes = {}
  BY KindsAreIds, KindsAssumption, HeldFacts DEF Synthetic
<1>1. ASSUME NEW u \in Users, NEW now \in BOOLEAN, Prompt(u, now) PROVE G
  BY <1>1 DEF UserCommand
<1>2. ASSUME NEW u \in Users, NEW v \in 0 .. MaxVersion, NEW o \in Clients \cup {None},
             RemoveQueuedPrompt(u, v, o)
      PROVE  G
  BY <1>2 DEF UserCommand
<1>3. ASSUME NEW o \in Clients \cup {None}, ClearQueue(o) PROVE G
  BY <1>3 DEF UserCommand
<1>4. ASSUME NEW id \in Crons \cup Wakes, Prompt(id, FALSE) PROVE G
  <2>1. id \in Ids /\ id \notin Users /\ outcome[id] \in Incoming /\ QueueInput(id, FALSE) /\ UNCHANGED terminals
    BY <1>0, <1>4, KindsAreIds DEF Prompt, Incoming, Synthetic
  <2> QED  BY <2>1, InputKeepsUsers
<1>5. ASSUME NEW g \in Summaries, GoalSummaryTurn(g) PROVE G
  <2>1. g \notin Users
    BY <1>0 DEF Synthetic
  <2> QED  BY <1>0, <1>5, <2>1 DEF GoalSummaryTurn, SetOutcome
<1>6. ASSUME NEW u \in Users, NEW v, NEW o, NEW edit, InterjectQueuedPrompt(u, v, o, edit) PROVE G
  BY <1>6 DEF InterjectQueuedPrompt
<1>7. ASSUME NEW order, ReorderQueue(order) PROVE G
  BY <1>7 DEF ReorderQueue
<1>8. ASSUME NEW u, EditQueuedPrompt(u) PROVE G
  BY <1>8 DEF EditQueuedPrompt
<1>9. ASSUME NEW f \in Fallbacks, Interject(f) PROVE G
  BY <1>0, <1>9 DEF Interject, SetOutcome
<1>10. ASSUME NEW n \in Notes, InjectNotification(n) PROVE G
  <2> DEFINE src  == IF turnActive /\ n \in NextNotes THEN buffer ELSE pending
             list == Append(src, n)
             kept == LastOf(list, NoteCap)
  <2>1. outcome' = [i \in Ids |-> IF i = n THEN "held"
                                  ELSE IF i \in Items(list) \ Items(kept) THEN "shed" ELSE outcome[i]]
    BY <1>10 DEF InjectNotification
  <2>2. Items(list) \subseteq Notes
    <3>1. src \in Seq(Notes)
      BY DEF TypeOK
    <3>2. list \in Seq(Notes)
      BY <3>1
    <3> HIDE DEF list
    <3> QED  BY <3>2, ItemsOf
  <2> HIDE DEF list, kept
  <2> QED  BY <1>0, <2>1, <2>2
<1>11. ASSUME NEW w \in MonitorWakes, DropMonitorNotifications(w) PROVE G
  <2>1. w \notin Users
    BY <1>0, ConstantsAssumption DEF Synthetic
  <2> QED  BY <1>0, <1>11, <2>1 DEF DropMonitorNotifications
<1>12. ASSUME NEW rewind, NEW kill, Cancel(rewind, kill) PROVE G
  BY <1>12 DEF Cancel
<1>13. ASSUME Shutdown PROVE G
  BY <1>0, <1>13 DEF Shutdown
<1> HIDE DEF G
<1>14. G
  BY <1>1, <1>2, <1>3, <1>4, <1>5, <1>6, <1>7, <1>8, <1>9, <1>10, <1>11, <1>12, <1>13, Zenon DEF Commands
<1> QED  BY <1>14 DEF G

(* Nor does any other step, but the last of a cancel and a completion. *)
LEMMA StepKeepsUsers ==
  ASSUME TypeOK, QueueInv, LedgerInv, Next
  PROVE  UserCommand \/ CancelDone \/ Complete \/ \A u \in Users : outcome'[u] = outcome[u]
<1> DEFINE K == \A u \in Users : outcome'[u] = outcome[u]
           G == UserCommand \/ CancelDone \/ Complete \/ K
<1>0. /\ Users \subseteq Ids /\ Users \cap Synthetic = {} /\ Users \cap Fallbacks = {}
      /\ Items(pending) \subseteq Notes /\ Items(buffer) \subseteq Notes /\ Users \cap Notes = {}
      /\ Items(interj) \cap Users = {}
  <2>1. InterjHeld
    BY DEF LedgerInv
  <2> QED  BY <2>1, KindsAreIds, KindsAssumption, HeldFacts, InterjFacts DEF Synthetic
<1>1. ASSUME Commands PROVE G
  BY <1>1, CommandKeepsUsers
<1>2. ASSUME ActorSkip \/ ActorPin \/ ActorPromote PROVE G
  BY <1>2 DEF ActorSkip, ActorPin, ActorPromote, StartFrame
<1>3. ASSUME QueueFallback PROVE G
  <2> DEFINE left == Keep(act.out, {f \in Fallbacks : outcome[f] = "interject"})
             z == left[Len(left)]
  <2>1. z \in Fallbacks
    BY <1>3, NextFallback
  <2>2. SetOutcome({z}, "queued")
    BY <1>3 DEF QueueFallback
  <2> HIDE DEF z
  <2> QED  BY <1>0, <2>1, <2>2 DEF SetOutcome
<1>4. ASSUME CancelBegin PROVE G
  BY <1>0, <1>4 DEF CancelBegin, SetOutcome
<1>5. ASSUME CancelTake PROVE G
  BY <1>0, <1>5 DEF CancelTake, SetOutcome
<1>6. ASSUME CancelGoal \/ CancelAbort \/ CancelResume PROVE G
  BY <1>6 DEF CancelGoal, CancelAbort, CancelResume
<1>7. ASSUME TakeCompletion \/ CompleteGoal \/ FlushTurnEnd PROVE G
  BY <1>7 DEF TakeCompletion, CompleteGoal, FlushTurnEnd
<1>8. ASSUME NEW all \in BOOLEAN, DrainNotifications(all) PROVE G
  <2> DEFINE batch == pending \o buffer
             shown == IF all THEN <<>> ELSE Keep(batch, Notes \ GoalTurnNotes)
  <2>1. Items(batch) = Items(pending) \cup Items(buffer)
    BY <1>8, DrainedFacts
  <2>2. \/ outcome' = outcome
        \/ outcome' = [i \in Ids |-> IF i \notin Items(batch) THEN outcome[i]
                                     ELSE IF i \notin Items(shown) THEN "shed"
                                     ELSE IF i = shown[1] THEN "queued" ELSE "merged"]
    BY <1>8 DEF DrainNotifications
  <2> HIDE DEF batch, shown
  <2> QED  BY <1>0, <2>1, <2>2
<1>9. ASSUME NEW s \in Sides, SideStep(s) PROVE G
  BY <1>9 DEF SideStep, SideSkip, SidePin, SidePromote, StartFrame
<1>10. ASSUME NEW r \in Resumes, ResumeQueue(r) PROVE G
  <2>1. r \in Ids /\ r \notin Users /\ outcome[r] \in Incoming /\ QueueInput(r, FALSE) /\ UNCHANGED terminals
    BY <1>0, <1>10, KindsAreIds DEF ResumeQueue, Incoming, Synthetic
  <2> QED  BY <2>1, InputKeepsUsers
<1>11. ASSUME NEW t \in Ids, TurnStep(t) PROVE G
  <2>1. CASE TurnMerge(t) \/ TurnInject(t)
    BY <1>0, <2>1 DEF TurnMerge, TurnInject, SetOutcome
  <2>2. ASSUME NEW w \in Wakes, TurnConsume(t, w) PROVE G
    <3>1. /\ queue' = Keep(queue, (Items(queue) \ {w}) \cup {running})
          /\ \A i \in Ids : \/ outcome'[i] = outcome[i]
                           \/ i \in Items(queue) \ Items(queue')
                           \/ i \in Items(pending)
      BY <2>2 DEF TurnConsume, Sweep
    <3>2. Items(queue') = Items(queue) \cap ((Items(queue) \ {w}) \cup {running})
      <4>1. queue \in Seq(Ids)
        BY DEF TypeOK
      <4> QED  BY <3>1, <4>1, KeepFacts
    <3>3. w \notin Users
      BY <1>0 DEF Synthetic
    <3> QED  BY <1>0, <3>1, <3>2, <3>3
  <2>3. CASE TurnEmit(t) \/ TurnRemind(t) \/ TurnScopeEnd(t)
    BY <2>3 DEF TurnEmit, TurnRemind, TurnScopeEnd
  <2>4. ASSUME NEW active, TurnGoal(t, active) PROVE G
    BY <2>4 DEF TurnGoal
  <2>5. CASE RequestWait(t) \/ EnterWait(t) \/ LeaveWait(t) \/ AbandonWait(t)
    BY <2>5 DEF RequestWait, EnterWait, LeaveWait, AbandonWait, WaitFrame
  <2> HIDE DEF G
  <2> QED  BY <1>11, <2>1, <2>2, <2>3, <2>4, <2>5, Zenon DEF TurnStep
<1>12. ASSUME NEW t \in Ids, TurnStart(t) \/ TurnDone(t) \/ TurnDropped(t) PROVE G
  BY <1>12 DEF TurnStart, TurnDone, TurnDropped
<1>13. ASSUME NEW w \in Wakes, TaskExits(w) \/ BridgeWake(w) PROVE G
  <2>1. w \notin Users
    BY <1>0 DEF Synthetic
  <2> QED  BY <1>0, <1>13, <2>1 DEF TaskExits, BridgeWake, SetOutcome
<1>14. ASSUME CancelDone \/ Complete PROVE G
  BY <1>14
<1>15. ASSUME Quiet PROVE G
  BY <1>15 DEF Quiet
<1>17. ASSUME SiblingStep PROVE G
  BY <1>0, <1>17 DEF SiblingStep, SiblingTurn, SiblingPush, SiblingFrame, SetOutcome
<1> HIDE DEF G
<1>16. G
  BY <1>1, <1>2, <1>3, <1>4, <1>5, <1>6, <1>7, <1>8, <1>9, <1>10, <1>11, <1>12, <1>13, <1>14, <1>15,
     <1>17, Zenon DEF Next, ActorStep
<1> QED  BY <1>16 DEF G

(* The turn in flight changes by a promotion, a cancel or a completion. *)
LEMMA RunningMoves ==
  ASSUME TypeOK, QueueInv, Next
  PROVE  \/ UNCHANGED running \/ CancelTake \/ Complete
         \/ /\ lock # None /\ queue # <<>> /\ running' = queue[1]
            /\ UNCHANGED <<queue, outcome>>
<1> DEFINE P == lock # None /\ queue # <<>> /\ running' = queue[1] /\ UNCHANGED <<queue, outcome>>
           G == UNCHANGED running \/ CancelTake \/ Complete \/ P
<1>1. ASSUME Commands \/ Calm PROVE G
  BY <1>1, CommandEffect DEF Calm, Tables
<1>2. ASSUME QueueFallback \/ ActorSkip \/ ActorPin PROVE G
  BY <1>2, StartEffect DEF Tables, PinFront
<1>3. ASSUME NEW p \in {"actor"} \cup Sides, PromoteFront(p), UNCHANGED outcome PROVE G
  BY <1>3, ConstantsAssumption DEF PromoteFront, QueueInv, QueueFresh
<1>4. ASSUME ActorPromote PROVE G
  BY <1>3, <1>4 DEF ActorPromote, StartFrame
<1>5. ASSUME CancelTake \/ Complete PROVE G
  BY <1>5
<1>6. ASSUME CancelBegin \/ CancelGoal \/ CancelAbort \/ CancelDone \/ CancelResume PROVE G
  BY <1>6, CancelEffect DEF Tables
<1>7. ASSUME TakeCompletion \/ CompleteGoal \/ FlushTurnEnd PROVE G
  BY <1>7 DEF TakeCompletion, CompleteGoal, FlushTurnEnd
<1>8. ASSUME NEW all \in BOOLEAN, DrainNotifications(all) PROVE G
  BY <1>8 DEF DrainNotifications
<1>9. ASSUME NEW s \in Sides, SideSkip(s) \/ SidePin(s) PROVE G
  BY <1>9, SideEffect DEF PinFront
<1>10. ASSUME NEW s \in Sides, SidePromote(s) PROVE G
  BY <1>3, <1>10 DEF SidePromote, StartFrame
<1>11. ASSUME NEW r \in Resumes, ResumeQueue(r) PROVE G
  BY <1>11, ResumeEffect
<1>12. ASSUME NEW t \in Ids, TurnStart(t) \/ TurnScopeEnd(t) \/ TurnDone(t) \/ TurnDropped(t) PROVE G
  BY <1>12, TurnEffect
<1> HIDE DEF G
<1>13. G
  BY <1>1, <1>2, <1>4, <1>5, <1>6, <1>7, <1>8, <1>9, <1>10, <1>11, <1>12, StepCases, Zenon
<1> QED  BY <1>13 DEF G

(* What the cases below share: a prompt that is queued is in the queue, or *)
(* with the cancel that took it.                                           *)
Standing ==
  /\ Users \subseteq Ids /\ None \notin Ids /\ queue \in Seq(Ids) /\ Items(queue) \subseteq Ids
  /\ \A u \in Users : u \in Items(queue) => outcome[u] = "queued"
  /\ act.pc \notin Cancelling => \A u \in Users : outcome[u] = "queued" => u \in Items(queue)
  /\ \A i \in Ids : outcome[i] \in Incoming => i \notin Items(queue)

(* The invariant gives it. *)
LEMMA Stands == TypeOK /\ QueueInv /\ LedgerInv => Standing
  BY KindsAreIds, ConstantsAssumption, ItemsOf DEF Standing, TypeOK, LedgerInv, QueueInv, QueueFresh

(* A user sends a prompt. *)
LEMMA PromptServes ==
  ASSUME TypeOK, QueueInv, RunningIsFront, LedgerInv, NEW u \in Users, NEW now \in BOOLEAN, Prompt(u, now)
  PROVE  Service!Submit(u)
<1>0. Standing
  BY Stands
<1>1. /\ act.pc # "ended" /\ outcome[u] = "new" /\ QueueInput(u, now) /\ UNCHANGED <<running, terminals>>
  <2>1. u \notin Wakes
    BY KindsAssumption DEF Synthetic
  <2> QED  BY <2>1 DEF Prompt, AtCommand
<1>2. u \in Ids /\ outcome[u] \in Incoming
  BY <1>0, <1>1 DEF Standing, Incoming
<1>3. Flow /\ outcome'[u] = "queued" /\ \A x \in Users \ {u} : outcome'[x] = outcome[x]
  BY <1>1, <1>2, QueueInputFlow, InputKeepsUsers
<1>4. u \in Items(queue')
  BY <1>1, <1>2, <1>3 DEF Flow, Arrives, Leaves
<1>5. u # running
  BY <1>0, <1>1, <1>2, FrontFacts DEF Standing
<1>6. \A x \in Users \ {u} : x \in Items(queue') <=> x \in Items(queue)
  BY <1>3, UserInPlace
<1>7. \A x \in Users : PromptStatus'[x] = IF x \in {u} THEN "waiting" ELSE PromptStatus[x]
  BY <1>1, <1>3, <1>4, <1>5, <1>6, StatusOf
<1>8. PromptStatus[u] = "new"
  BY <1>1, StatusOf
<1> QED  BY <1>7, <1>8, StatusMoves DEF Service!Submit

(* Rows are removed. *)
LEMMA RemovalServes ==
  ASSUME TypeOK, QueueInv, LedgerInv, NEW gone \in SUBSET Rows,
         queue' = Keep(queue, Items(queue) \ gone), SetOutcome(gone, "removed"), UNCHANGED running
  PROVE  UNCHANGED PromptStatus \/ Service!Withdraw(gone)
<1>0. Standing
  BY Stands
<1>1. gone \subseteq Users /\ gone \subseteq Items(queue) /\ running \notin gone
  BY DEF Rows, Waiting
<1>2. \A x \in Users : outcome'[x] = IF x \in gone THEN "removed" ELSE outcome[x]
  BY <1>0 DEF SetOutcome, Standing
<1>3. Items(queue') = Items(queue) \ gone
  <2>1. Items(queue') = Items(queue) \cap (Items(queue) \ gone)
    BY <1>0, KeepFacts DEF Standing
  <2> QED  BY <2>1
<1>4. \A x \in Users : PromptStatus'[x] = IF x \in gone THEN "removed" ELSE PromptStatus[x]
  BY <1>2, <1>3, StatusOf
<1>5. gone \subseteq Service!At("waiting")
  BY <1>0, <1>1, StatusOf DEF Service!At, Standing
<1>6. CASE gone = {}
  BY <1>4, <1>6, StatusKept
<1>7. CASE gone # {}
  BY <1>4, <1>5, <1>7, StatusMoves DEF Service!Withdraw
<1> QED  BY <1>6, <1>7

(* The front is promoted. *)
LEMMA PromotionServes ==
  ASSUME TypeOK, QueueInv, LedgerInv, lock # None, queue # <<>>, running' = queue[1],
         UNCHANGED <<queue, outcome>>
  PROVE  UNCHANGED PromptStatus \/ \E u \in Users : Service!Start(u)
<1>0. Standing /\ running = None
  BY Stands DEF QueueInv, QueueFresh
<1>1. queue[1] \in Items(queue) /\ UNCHANGED Items(queue)
  BY <1>0, ItemsOf DEF Standing, Items
<1>2. \A u \in Users : u # running /\ PromptStatus[u] # "running"
  <2>1. \A u \in Users : outcome[u] # "running"
    BY <1>0 DEF TypeOK, Outcomes, Standing
  <2>2. \A u \in Users : u # running
    BY <1>0 DEF Standing
  <2> QED  BY <2>1, <2>2, StatusOf
<1>3. CASE queue[1] \in Users
  <2> DEFINE u == queue[1]
  <2>1. PromptStatus[u] = "waiting"
    BY <1>0, <1>1, <1>2, <1>3, StatusOf DEF Standing
  <2>2. \A x \in Users : PromptStatus'[x] = IF x \in {u} THEN "running" ELSE PromptStatus[x]
    BY <1>0, <1>1, <1>2, <1>3, StatusOf DEF Standing
  <2>3. Service!At("running") = {}
    BY <1>2 DEF Service!At
  <2>4. Service!Start(u)
    BY <2>1, <2>2, <2>3, StatusMoves DEF Service!Start
  <2> QED  BY <1>3, <2>4
<1>4. CASE queue[1] \notin Users
  <2>1. \A x \in Users : PromptStatus'[x] = PromptStatus[x]
    BY <1>1, <1>2, <1>4, StatusOf
  <2> QED  BY <2>1, StatusKept
<1> QED  BY <1>3, <1>4

(* A cancel takes the turn in flight, or with a teardown everything. *)
LEMMA TakeServes ==
  ASSUME TypeOK, QueueInv, RunningIsFront, LedgerInv, FlagsInv, ServedInv, CancelTake
  PROVE  UNCHANGED PromptStatus \/ \E S \in SUBSET Users : Service!Stop(S)
<1>0. Standing
  BY Stands
<1>1. act.pc = "cancel_take" /\ running' = None
  BY TakeFields
<1>2. \A u \in Users : outcome'[u] = outcome[u]
  <2>1. Users \cap Notes = {} /\ Items(pending) \subseteq Notes /\ Items(buffer) \subseteq Notes
    BY KindsAssumption, HeldFacts DEF Synthetic
  <2> QED  BY <1>0, <2>1 DEF CancelTake, SetOutcome, Standing
<1>3. /\ Items(queue') \subseteq Items(queue)
      /\ running # None => running \in Items(queue) /\ running \notin Items(queue')
      /\ ~act.kill => \A u \in Users : u \in Items(queue) /\ u \notin Items(queue') => u = running
  <2>1. /\ Items(queue) = Items(queue') \cup Items(act'.out) \cup ({act'.rewound} \ {None})
        /\ queue # <<>> => queue[1] \notin Items(queue')
        /\ queue # <<>> => act'.rewound \in {queue[1], None}
        /\ queue = <<>> => act'.rewound = None
        /\ ~act.kill => Items(act'.out) \subseteq {queue[1]}
    BY TakeQueue
  <2>2. running # None => queue # <<>> /\ running = queue[1] /\ running \in Items(queue)
    BY <1>1, FrontFacts
  <2>3. \A u \in Users : u \in Items(queue) => running # None
    <3>1. Users \cap Resumes = {}
      BY KindsAssumption DEF Synthetic
    <3> QED  BY <1>1, <3>1 DEF ServedInv, Steady
  <2> QED  BY <2>1, <2>2, <2>3
<1> DEFINE S == {u \in Users : u \in Items(queue) /\ u \notin Items(queue')}
<1>4. \A u \in Users : u = running => u \in S
  BY <1>0, <1>3 DEF Standing
<1>5. \A u \in Users : PromptStatus'[u] = IF u \in S THEN "stopping" ELSE PromptStatus[u]
  <2>1. \A u \in Users : u # running'
    BY <1>0, <1>1 DEF Standing
  <2> QED  BY <1>0, <1>1, <1>2, <1>3, <1>4, <2>1, StatusOf DEF Standing, Cancelling
<1>6. Service!At("stopping") = {}
  <2>1. \A u \in Users : outcome[u] # "stopping"
    BY <1>0 DEF TypeOK, Outcomes, Standing
  <2> QED  BY <1>0, <1>1, <2>1, StatusOf DEF Service!At, Standing, Cancelling
<1>7. S \subseteq Service!At("running") \cup IF KillAllowed THEN Service!At("waiting") ELSE {}
  <2>1. \A u \in S : PromptStatus[u] = IF u = running THEN "running" ELSE "waiting"
    BY <1>0, StatusOf DEF Standing
  <2>2. ~KillAllowed => \A u \in S : u = running
    BY <1>3 DEF FlagsInv
  <2> QED  BY <2>1, <2>2 DEF Service!At
<1> HIDE DEF S
<1>8. CASE S = {}
  BY <1>5, <1>8, StatusKept
<1>9. CASE S # {}
  <2>1. Service!Stop(S)
    BY <1>5, <1>6, <1>7, <1>9, StatusMoves DEF Service!Stop
  <2> QED  BY <2>1 DEF S
<1> QED  BY <1>8, <1>9

(* It answers all it took. *)
LEMMA DoneServes ==
  ASSUME TypeOK, QueueInv, LedgerInv, CancelDone
  PROVE  UNCHANGED PromptStatus \/ \E a \in {"cancelled", "rewound"} : Service!Answer(a)
<1>0. Standing
  BY Stands
<1>1. act.pc \in Cancelling /\ UNCHANGED <<queue, running>>
  BY CancelEffect DEF Cancelling
<1> DEFINE a == IF act.rewound # None THEN "rewound" ELSE "cancelled"
           H == {u \in Users : u \in Items(act.out) \/ u = act.rewound}
<1>2. \A u \in Users : outcome'[u] = IF u \in H THEN a ELSE outcome[u]
  <2>1. CASE act.rewound # None
    <3>1. Items(act.out) = {}
      BY <1>1, <2>1 DEF LedgerInv, Items
    <3> QED  BY <1>0, <2>1, <3>1 DEF CancelDone, SetOutcome, Standing
  <2>2. CASE act.rewound = None
    BY <1>0, <2>2 DEF CancelDone, SetOutcome, Standing
  <2> QED  BY <2>1, <2>2
<1>3. \A u \in Users : u \in H <=> outcome[u] = "queued" /\ u \notin Items(queue)
  BY <1>0, <1>1 DEF LedgerInv, Standing
<1>4. Service!At("stopping") = H
  <2>1. \A u \in Users : outcome[u] # "stopping"
    BY <1>0 DEF TypeOK, Outcomes, Standing
  <2> QED  BY <1>3, <2>1, StatusOf DEF Service!At
<1>5. \A u \in Users : PromptStatus'[u] = IF u \in H THEN a ELSE PromptStatus[u]
  BY <1>1, <1>2, <1>3, StatusOf
<1> HIDE DEF H
<1>6. CASE H = {}
  BY <1>5, <1>6, StatusKept
<1>7. CASE H # {}
  <2>1. Service!Answer(a)
    BY <1>4, <1>5, <1>7, StatusMoves DEF Service!Answer
  <2> QED  BY <2>1
<1> QED  BY <1>6, <1>7

(* A completion answers the turn in flight; a stale one answers nobody. *)
LEMMA CompletionServes ==
  ASSUME TypeOK, QueueInv, RunningIsFront, LedgerInv, TaskInv, Complete
  PROVE  UNCHANGED PromptStatus \/ \E u \in Users : Service!Finish(u)
<1>0. Standing
  BY Stands
<1>1. /\ act.pc = "complete"
      /\ queue' = (IF Owned(act.id) THEN Tail(queue) ELSE queue)
      /\ running' = (IF ReleasesTask(act.id) THEN None ELSE running)
      /\ SetOutcome(IF Owned(act.id) THEN {act.id} ELSE {}, "done")
  BY DEF Complete
<1>2. CASE Owned(act.id)
  <2>1. /\ queue # <<>> /\ queue[1] = act.id /\ act.id \in Items(queue) /\ running' = None
        /\ Items(queue') = Items(queue) \ {act.id}
    <3>1. queue # <<>> /\ queue[1] = act.id /\ queue' = Tail(queue) /\ running' = None
      BY <1>1, <1>2 DEF Owned, ReleasesTask
    <3>2. Items(queue) = {queue[1]} \cup Items(Tail(queue)) /\ queue[1] \notin Items(Tail(queue))
      BY <1>0, <3>1, TailItems, TailFacts DEF Standing, QueueInv, QueueFresh
    <3> QED  BY <3>1, <3>2
  <2>2. running = act.id
    <3>1. tstat[act.id] = "done"
      BY <1>1 DEF TaskInv, Completing
    <3> QED  BY <2>1, <3>1, FrontFacts
  <2>3. \A u \in Users : outcome'[u] = IF u = act.id THEN "done" ELSE outcome[u]
    BY <1>0, <1>1, <1>2 DEF SetOutcome, Standing
  <2>4. \A u \in Users : PromptStatus'[u] = IF u \in {act.id} THEN "done" ELSE PromptStatus[u]
    <3>1. \A u \in Users : u # running'
      BY <1>0, <2>1 DEF Standing
    <3> QED  BY <2>1, <2>2, <2>3, <3>1, StatusOf
  <2>5. CASE act.id \in Users
    <3>1. PromptStatus[act.id] = "running"
      BY <1>0, <2>1, <2>2, <2>5, StatusOf DEF Standing
    <3>2. Service!Finish(act.id)
      BY <2>4, <3>1, StatusMoves DEF Service!Finish
    <3> QED  BY <2>5, <3>2
  <2>6. CASE act.id \notin Users
    BY <2>4, <2>6, StatusKept
  <2> QED  BY <2>5, <2>6
<1>3. CASE ~Owned(act.id)
  <2>1. queue' = queue /\ running' = running
    <3>1. running # act.id
      BY <1>1, <1>3, FrontFacts DEF Owned, TaskInv, Completing
    <3> QED  BY <1>1, <1>3, <3>1 DEF ReleasesTask
  <2>2. \A u \in Users : outcome'[u] = outcome[u]
    BY <1>0, <1>1, <1>3 DEF SetOutcome, Standing
  <2> QED  BY <2>1, <2>2, StatusOf, StatusKept
<1> QED  BY <1>2, <1>3

(* Every step of the session is a step of the service, or none. *)
LEMMA ServiceStep ==
  ASSUME TypeOK, QueueInv, RunningIsFront, TaskInv, LedgerInv, FlagsInv, ServedInv, Next
  PROVE  [Service!ServiceNext]_PromptStatus
<1> DEFINE G == Service!ServiceNext \/ UNCHANGED PromptStatus
<1>1. ASSUME CancelTake \/ CancelDone \/ Complete PROVE G
  BY <1>1, TakeServes, DoneServes, CompletionServes DEF Service!ServiceNext
<1>2. ASSUME NEW u \in Users, NEW now \in BOOLEAN, Prompt(u, now) PROVE G
  BY <1>2, PromptServes DEF Service!ServiceNext
<1>3. ASSUME NEW gone \in SUBSET Rows, queue' = Keep(queue, Items(queue) \ gone),
             SetOutcome(gone, "removed"), UNCHANGED running
      PROVE  G
  <2>1. gone \in SUBSET Users
    BY DEF Rows
  <2> QED  BY <1>3, <2>1, RemovalServes DEF Service!ServiceNext
<1>4. ASSUME NEW u \in Users, NEW v, NEW o, RemoveQueuedPrompt(u, v, o) PROVE G
  <2> DEFINE gone == {x \in {u} : RowMatches(x, v, o)}
  <2>1. gone \in SUBSET Rows
    BY DEF RowMatches
  <2>2. queue' = Keep(queue, Items(queue) \ gone) /\ SetOutcome(gone, "removed") /\ UNCHANGED running
    BY <1>4 DEF RemoveQueuedPrompt, EditFrame
  <2> HIDE DEF G
  <2> QED  BY <1>3, <2>1, <2>2
<1>5. ASSUME NEW o, ClearQueue(o) PROVE G
  <2> DEFINE gone == {u \in Rows : Owns(o, u)}
  <2>1. gone \in SUBSET Rows
    OBVIOUS
  <2>2. queue' = Keep(queue, Items(queue) \ gone) /\ SetOutcome(gone, "removed") /\ UNCHANGED running
    BY <1>5 DEF ClearQueue, EditFrame
  <2> HIDE DEF G
  <2> QED  BY <1>3, <2>1, <2>2
<1>6. ASSUME \A u \in Users : outcome'[u] = outcome[u], Flow, UNCHANGED running PROVE G
  BY <1>6, UserInPlace, StatusOf, StatusKept
<1>7. ASSUME lock # None, queue # <<>>, running' = queue[1], UNCHANGED <<queue, outcome>> PROVE G
  BY <1>7, PromotionServes DEF Service!ServiceNext
<1>8. ASSUME UserCommand PROVE G
  <2> HIDE DEF G
  <2> QED  BY <1>2, <1>4, <1>5, <1>8, Zenon DEF UserCommand
<1>9. \/ CancelTake \/ CancelDone \/ Complete \/ UserCommand
      \/ Flow /\ \A u \in Users : outcome'[u] = outcome[u]
  BY FlowNext, StepKeepsUsers
<1>10. \/ UNCHANGED running \/ CancelTake \/ Complete
       \/ /\ lock # None /\ queue # <<>> /\ running' = queue[1]
          /\ UNCHANGED <<queue, outcome>>
  BY RunningMoves
<1> HIDE DEF G
<1>11. G
  BY <1>1, <1>6, <1>7, <1>8, <1>9, <1>10, Zenon
<1> QED  BY <1>11 DEF G

(* The session implements the service: whatever cancels, completions and   *)
(* promoters do to each other, a user sees one turn at a time and one      *)
(* answer to each prompt, the one that its turn or its withdrawal earned.  *)
THEOREM ImplementsService == Spec => IsService
<1>1. Init => Service!ServiceInit
  <2> SUFFICES ASSUME Init PROVE Service!ServiceInit
    OBVIOUS
  <2>1. \A u \in Users : PromptStatus[u] = "new"
    BY KindsAreIds, StatusOf DEF Init
  <2>2. PromptStatus = [u \in Users |-> PromptStatus[u]]
    BY DEF PromptStatus
  <2> QED  BY <2>1, <2>2 DEF Service!ServiceInit
<1>2. TurnInv /\ [Next]_vars => [Service!ServiceNext]_PromptStatus
  <2> SUFFICES ASSUME TurnInv, [Next]_vars PROVE [Service!ServiceNext]_PromptStatus
    OBVIOUS
  <2>1. CASE Next
    BY <2>1, ServiceStep DEF TurnInv
  <2>2. CASE UNCHANGED vars
    BY <2>2 DEF PromptStatus, Items
  <2> QED  BY <2>1, <2>2
<1> QED  BY <1>1, <1>2, TurnInvariant, PTL DEF Spec, IsService, Service!ServiceSpec
=============================================================================
