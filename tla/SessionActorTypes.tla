------------------------- MODULE SessionActorTypes -------------------------
(***************************************************************************)
(* Type correctness of a session: the initial state and every step, given  *)
(* that the promoter's lock protects a queue that is not empty (QueueInv). *)
(***************************************************************************)
EXTENDS SessionActor, PromptQueueProofs

USE DEF qVars, runVars, waitVars, noteVars, taskVars, wakeVars, budgetVars, vars

-----------------------------------------------------------------------------
(* Types *)

(* The kinds of ids are ids. *)
LEMMA KindsAreIds ==
  /\ Users \subseteq Ids /\ Fallbacks \subseteq Ids /\ Synthetic \subseteq Ids
  /\ Crons \subseteq Ids /\ Wakes \subseteq Ids /\ Resumes \subseteq Ids
  /\ Summaries \subseteq Ids /\ Notes \subseteq Ids
  BY DEF Ids, Synthetic

(* Every place a handler is entered at is a place of the actor. *)
LEMMA ActorPlaces ==
  /\ \A pc \in ActorPc : AtPc(pc) \in ActorState /\ AtPc(pc).pc = pc /\ AtPc(pc).out = <<>>
                         /\ AtPc(pc).rewound = None
  /\ \A next \in {"select", "drain"} :
        /\ StartThen(next) \in ActorState
        /\ StartThen(next).pc = "start" /\ StartThen(next).out = <<>>
        /\ StartThen(next).rewound = None
  /\ Select = AtPc("select")
<1>1. ASSUME NEW pc \in ActorPc
      PROVE  /\ AtPc(pc) \in ActorState /\ AtPc(pc).pc = pc /\ AtPc(pc).out = <<>>
             /\ AtPc(pc).rewound = None
  <2>1. <<>> \in Seq(Ids)
    OBVIOUS
  <2> QED  BY <2>1 DEF AtPc, ActorState
<1>2. ASSUME NEW next \in {"select", "drain"}
      PROVE  /\ StartThen(next) \in ActorState
             /\ StartThen(next).pc = "start" /\ StartThen(next).out = <<>>
             /\ StartThen(next).rewound = None
  <2> DEFINE a == AtPc("start")
  <2>1. a \in ActorState /\ a.pc = "start" /\ a.out = <<>> /\ a.rewound = None
    BY <1>1 DEF ActorPc
  <2>2. StartThen(next) = [a EXCEPT !.next = next]
    BY DEF StartThen
  <2> HIDE DEF a
  <2> QED  BY <2>1, <2>2 DEF ActorState
<1> QED  BY <1>1, <1>2 DEF Select

(* A sequence over a smaller set. *)
LEMMA ItemsOf ==
  ASSUME NEW T, NEW s \in Seq(T)
  PROVE  Items(s) \subseteq T /\ (s # <<>> => s[1] \in T /\ s[1] \in Items(s))
  BY DEF Items

(* A session starts well typed. *)
LEMMA TypeInit == Init => TypeOK
<1> SUFFICES ASSUME Init PROVE TypeOK
  OBVIOUS
<1>1. act \in ActorState
  BY ActorPlaces DEF Init, ActorPc
<1>2. side \in [Sides -> {"idle", "start", "promote", "over"}]
  BY DEF Init
<1>3. /\ outcome \in [Ids -> Outcomes] /\ tstat \in [Ids -> TaskStates]
      /\ terminals \in [Ids -> Nat] /\ version \in [Users -> 0 .. MaxVersion]
  BY ConstantsAssumption DEF Init, Outcomes, TaskStates
<1>4. /\ queue \in Seq(Ids) /\ interj \in Seq(Fallbacks) /\ buffer \in Seq(Notes)
      /\ pending \in Seq(Notes) /\ completions \in Seq(Ids)
  BY DEF Init
<1>5. /\ rewindable \in BOOLEAN /\ suppressed \in BOOLEAN
      /\ goal \in BOOLEAN /\ turnActive \in BOOLEAN
  BY DEF Init
<1>6. /\ sendNow \subseteq Ids /\ running \in Ids \cup {None} /\ pin \in Ids \cup {None}
      /\ lock \in {None, "actor"} \cup Sides
      /\ depth \in Nat /\ waitReq \subseteq Ids /\ waits \subseteq Ids
      /\ delivered \subseteq Wakes /\ told \subseteq Wakes /\ stray \subseteq Notes
      /\ cancels \in 0 .. MaxCancels /\ reorders \in 0 .. MaxReorders
  BY ConstantsAssumption DEF Init
<1> QED
  BY <1>1, <1>2, <1>3, <1>4, <1>5, <1>6 DEF TypeOK

(* Moving the actor to another place keeps its locals. *)
LEMMA ActorMoves ==
  ASSUME NEW a \in ActorState, NEW pc \in ActorPc
  PROVE  /\ [a EXCEPT !.pc = pc] \in ActorState
         /\ [a EXCEPT !.pc = pc].out = a.out /\ [a EXCEPT !.pc = pc].rewound = a.rewound
         /\ [a EXCEPT !.pc = pc].pc = pc
  BY DEF ActorState

(* The place a send-now cancel starts from. *)
LEMMA SendNowPlace ==
  /\ [AtPc("cancel") EXCEPT !.now = TRUE] \in ActorState
  /\ [AtPc("cancel") EXCEPT !.now = TRUE].pc = "cancel"
  /\ [AtPc("cancel") EXCEPT !.now = TRUE].out = <<>>
  /\ [AtPc("cancel") EXCEPT !.now = TRUE].rewound = None
<1> DEFINE a == AtPc("cancel")
<1>1. a \in ActorState /\ a.pc = "cancel" /\ a.out = <<>> /\ a.rewound = None
  BY ActorPlaces DEF ActorPc
<1> HIDE DEF a
<1>2. LET b == [a EXCEPT !.now = TRUE]
      IN  b \in ActorState /\ b.pc = "cancel" /\ b.out = <<>> /\ b.rewound = None
  BY <1>1 DEF ActorState
<1> QED  BY <1>2 DEF a

(* Where the actor goes on after a promotion. *)
LEMMA NextPlace ==
  ASSUME NEW a \in ActorState
  PROVE  a.next \in {"select", "drain"} /\ a.next \in ActorPc
  BY DEF ActorState, ActorPc

(* What is left of a list without its oldest entry. *)
LEMMA OldestDropped ==
  ASSUME NEW T, NEW s \in Seq(T), s # <<>>
  PROVE  Tail(s) \in Seq(T) /\ Items(Tail(s)) \subseteq Items(s)
<1>1. 1 \in Nat /\ 1 <= Len(s) /\ Tail(s) = SubSeq(s, 1 + 1, Len(s))
  OBVIOUS
<1>2. \A m \in Nat : m <= Len(s) =>
        /\ SubSeq(s, m + 1, Len(s)) \in Seq(T)
        /\ Items(SubSeq(s, m + 1, Len(s))) \subseteq Items(s)
  BY SuffixFacts
<1> QED  BY <1>1, <1>2, Zenon

(* The newest n entries of a list. *)
LEMMA LastOfFacts ==
  ASSUME NEW T, NEW s \in Seq(T), NEW n \in Nat
  PROVE  LastOf(s, n) \in Seq(T) /\ Items(LastOf(s, n)) \subseteq Items(s)
<1>1. Len(s) \in Nat
  OBVIOUS
<1>2. CASE Len(s) > n
  <2>1. Len(s) - n \in Nat /\ Len(s) - n <= Len(s)
    BY <1>1, <1>2
  <2>2. LastOf(s, n) = SubSeq(s, (Len(s) - n) + 1, Len(s))
    BY <1>2 DEF LastOf
  <2>3. \A m \in Nat : m <= Len(s) =>
          /\ SubSeq(s, m + 1, Len(s)) \in Seq(T)
          /\ Items(SubSeq(s, m + 1, Len(s))) \subseteq Items(s)
    BY SuffixFacts
  <2> QED  BY <2>1, <2>2, <2>3, Zenon
<1>3. CASE ~ (Len(s) > n)
  <2>1. LastOf(s, n) = SubSeq(s, 0 + 1, Len(s))
    BY <1>3 DEF LastOf
  <2>2. 0 \in Nat /\ 0 <= Len(s)
    BY <1>1
  <2>3. SubSeq(s, 0 + 1, Len(s)) \in Seq(T) /\ Items(SubSeq(s, 0 + 1, Len(s))) \subseteq Items(s)
    BY ONLY <2>2, SuffixFacts
  <2> QED  BY <2>1, <2>3, Zenon
<1> QED  BY <1>2, <1>3

(* A reorder of the rows keeps the queue one. *)
LEMMA ReorderType ==
  ASSUME queue \in Seq(Ids), NEW order \in Orders
  PROVE  Reorder(queue, Users \ {running}, order) \in Seq(Ids) /\ order \in Seq(Ids)
         /\ Distinct(order)
<1>1. order \in Seq(Ids) /\ Distinct(order)
  <2>1. PICK n \in 1 .. Cardinality(Users) : order \in [1 .. n -> Users]
    BY DEF Orders
  <2>2. n \in Nat
    BY <2>1
  <2> QED  BY <2>1, <2>2, KindsAreIds DEF Orders
<1> DEFINE a == Keep(queue, Items(queue) \ (Users \ {running}))
           b == Keep(order, Items(queue) \cap (Users \ {running}))
           c == Keep(queue, (Items(queue) \cap (Users \ {running})) \ Items(order))
<1>2. a \in Seq(Ids) /\ b \in Seq(Ids) /\ c \in Seq(Ids)
  BY <1>1, KeepFacts
<1>3. (a \o b) \o c \in Seq(Ids)
  <2> HIDE DEF a, b, c
  <2> QED  BY <1>2
<1> QED  BY <1>1, <1>3 DEF Reorder

(* The interjection that becomes a prompt next. *)
LEMMA NextFallback ==
  ASSUME TypeOK, QueueFallback
  PROVE  LET left == Keep(act.out, {f \in Fallbacks : outcome[f] = "interject"})
         IN  left[Len(left)] \in Fallbacks /\ outcome[left[Len(left)]] = "interject"
<1> DEFINE F == {f \in Fallbacks : outcome[f] = "interject"}
           left == Keep(act.out, F)
<1>1. act.out \in Seq(Ids)
  BY DEF TypeOK, ActorState
<1>2. left # <<>>
  BY DEF QueueFallback
<1>3. left \in Seq(Ids) /\ Items(left) \subseteq F
  <2> HIDE DEF F
  <2> QED  BY <1>1, KeepFacts
<1>4. left[Len(left)] \in Items(left)
  <2> HIDE DEF left
  <2>1. Len(left) \in 1 .. Len(left) /\ DOMAIN left = 1 .. Len(left)
    BY <1>2, <1>3
  <2> QED  BY <2>1 DEF Items
<1> QED  BY <1>3, <1>4

(* The promoted prompt is the front. *)
LEMMA PromoteType ==
  ASSUME TypeOK, QueueInv, NEW p \in {"actor"} \cup Sides, PromoteFront(p)
  PROVE  /\ queue # <<>> /\ queue[1] \in Ids /\ running = None
         /\ running' = queue[1] /\ tstat' \in [Ids -> TaskStates] /\ lock' = None
<1>1. queue # <<>> /\ running = None
  BY ConstantsAssumption DEF PromoteFront, QueueInv, QueueFresh
<1>2. queue[1] \in Ids
  BY <1>1, ItemsOf DEF TypeOK
<1> QED  BY <1>1, <1>2 DEF PromoteFront, TypeOK, TaskStates

(* What a cancel removes from the queue. *)
LEMMA CancelTakeType ==
  ASSUME TypeOK
  PROVE  LET rewound == IF (act.rewind /\ rewindable) /\ queue # <<>> THEN queue[1] ELSE None
             out == IF rewound # None THEN <<>> ELSE CancelledItems(act.kill)
         IN  rewound \in Ids \cup {None} /\ out \in Seq(Ids) /\ Len(out) <= Len(queue)
<1>1. queue \in Seq(Ids) /\ Len(queue) \in Nat
  BY DEF TypeOK
<1>2. queue # <<>> => queue[1] \in Ids /\ Len(queue) >= 1
  BY <1>1
<1>3. CancelledItems(act.kill) \in Seq(Ids) /\ Len(CancelledItems(act.kill)) <= Len(queue)
  BY <1>1, <1>2 DEF CancelledItems
<1> QED  BY <1>1, <1>2, <1>3

(* The notifications a drain shows come from the two lists. *)
LEMMA DrainedFacts ==
  ASSUME TypeOK, NEW all \in BOOLEAN
  PROVE  LET batch == pending \o buffer
             shown == IF all THEN <<>> ELSE Keep(batch, Notes \ GoalTurnNotes)
         IN  /\ shown \in Seq(Notes) /\ Items(batch) = Items(pending) \cup Items(buffer)
             /\ shown # <<>> => shown[1] \in Notes /\ shown[1] \in Items(batch)
<1> DEFINE batch == pending \o buffer
           shown == IF all THEN <<>> ELSE Keep(batch, Notes \ GoalTurnNotes)
<1>1. batch \in Seq(Notes) /\ Items(batch) = Items(pending) \cup Items(buffer)
  BY ConcatFacts DEF TypeOK
<1> HIDE DEF batch
<1>2. /\ Keep(batch, Notes \ GoalTurnNotes) \in Seq(Notes)
      /\ Items(Keep(batch, Notes \ GoalTurnNotes)) \subseteq Items(batch)
  BY <1>1, KeepFacts
<1>3. shown \in Seq(Notes) /\ Items(shown) \subseteq Items(batch)
  <2>1. Items(<<>>) = {} /\ <<>> \in Seq(Notes)
    BY DEF Items
  <2>2. shown = <<>> \/ shown = Keep(batch, Notes \ GoalTurnNotes)
    OBVIOUS
  <2> HIDE DEF shown
  <2> QED  BY <1>2, <2>1, <2>2, Zenon
<1> HIDE DEF shown
<1>4. shown # <<>> => shown[1] \in Notes /\ shown[1] \in Items(batch)
  BY <1>3, ItemsOf
<1> QED  BY <1>1, <1>3, <1>4 DEF batch, shown

(* queue_input adds one id to what its sweep keeps. *)
LEMMA QueueInputType ==
  ASSUME TypeOK, NEW id \in Ids, NEW now \in BOOLEAN, QueueInput(id, now)
  PROVE  /\ queue' \in Seq(Ids) /\ sendNow' \subseteq Ids /\ version' = version
         /\ outcome' \in [Ids -> Outcomes] /\ delivered' \subseteq Wakes /\ told' = told
  <1> DEFINE swept == Preempted(id)
  <1>1. swept \in Seq(Ids)
    BY KeepFacts DEF Preempted, Sweep, TypeOK
  <1>2. InsertSlot(swept, SendNowSlot(swept, running, sendNow), id) \in Seq(Ids)
    <2> HIDE DEF swept
    <2>1. SendNowSlot(swept, running, sendNow) \in 0 .. Len(swept)
      BY <1>1, SendNowSlotFacts
    <2> QED  BY <1>1, <2>1, InsertSlotFacts
  <1>3. Append(swept, id) \in Seq(Ids)
    BY <1>1, AppendFacts
  <1> HIDE DEF swept
  <1> QED  BY <1>1, <1>2, <1>3 DEF swept, QueueInput, TypeOK, Outcomes

(* The version of a row below the bound can be raised by one. *)
LEMMA VersionBumped ==
  ASSUME TypeOK, NEW u \in Users, version[u] < MaxVersion
  PROVE  [version EXCEPT ![u] = @ + 1] \in [Users -> 0 .. MaxVersion]
<1>1. version \in [Users -> 0 .. MaxVersion] /\ MaxVersion \in Nat
  BY ConstantsAssumption DEF TypeOK
<1> QED  BY <1>1

(* Every step of the session keeps the types. *)
LEMMA TypeNext ==
  ASSUME TypeOK, QueueInv, Next
  PROVE  TypeOK'
<1>1. ASSUME NEW id \in Users \cup Crons \cup Wakes, NEW now \in BOOLEAN, Prompt(id, now)
      PROVE  TypeOK'
  <2>1. act' \in ActorState
    BY <1>1, ActorPlaces, SendNowPlace DEF Prompt, ActorPc
  <2>2. id \in Ids /\ QueueInput(id, now)
    BY <1>1, KindsAreIds DEF Prompt
  <2>3. /\ queue' \in Seq(Ids) /\ sendNow' \subseteq Ids /\ version' = version
        /\ outcome' \in [Ids -> Outcomes] /\ delivered' \subseteq Wakes /\ told' = told
    BY <2>2, QueueInputType
  <2>4. suppressed' \in BOOLEAN
    BY <1>1 DEF Prompt
  <2> QED  BY <1>1, <2>1, <2>3, <2>4 DEF Prompt, TypeOK
<1>2. ASSUME NEW g \in Summaries, GoalSummaryTurn(g)
      PROVE  TypeOK'
  <2>1. act' \in ActorState
    BY <1>2, ActorPlaces DEF GoalSummaryTurn
  <2>2. queue' \in Seq(Ids)
    <3>1. queue \in Seq(Ids) /\ g \in Ids /\ queue' = Append(queue, g)
      BY <1>2, KindsAreIds DEF GoalSummaryTurn, TypeOK
    <3> QED  BY <3>1, AppendFacts
  <2>3. outcome' \in [Ids -> Outcomes]
    BY <1>2 DEF GoalSummaryTurn, SetOutcome, Outcomes, TypeOK
  <2> QED  BY <1>2, <2>1, <2>2, <2>3 DEF GoalSummaryTurn, TypeOK
<1>3. ASSUME NEW u \in Users, NEW v \in 0 .. MaxVersion, NEW o \in Clients \cup {None},
             RemoveQueuedPrompt(u, v, o)
      PROVE  TypeOK'
  BY <1>3, KindsAreIds, KeepFacts
     DEF RemoveQueuedPrompt, TypeOK, EditFrame, SetOutcome, RowMatches, Rows, Outcomes
<1>4. ASSUME NEW o \in Clients \cup {None}, ClearQueue(o)
      PROVE  TypeOK'
  BY <1>4, KindsAreIds, KeepFacts
     DEF ClearQueue, TypeOK, EditFrame, SetOutcome, Outcomes
<1>5. ASSUME NEW order \in Orders, ReorderQueue(order)
      PROVE  TypeOK'
  <2>1. queue' \in Seq(Ids)
    <3>1. queue \in Seq(Ids) /\ queue' = Reorder(queue, Users \ {running}, order)
      BY <1>5 DEF TypeOK, ReorderQueue
    <3> QED  BY <3>1, ReorderType
  <2>2. reorders' \in 0 .. MaxReorders
    <3>1. reorders \in 0 .. MaxReorders /\ MaxReorders \in Nat
      BY ConstantsAssumption DEF TypeOK
    <3>2. reorders < MaxReorders /\ reorders' = reorders + 1
      BY <1>5 DEF ReorderQueue
    <3> QED  BY <3>1, <3>2
  <2> QED  BY <1>5, <2>1, <2>2 DEF ReorderQueue, EditFrame, TypeOK
<1>6. ASSUME NEW u \in Users, EditQueuedPrompt(u)
      PROVE  TypeOK'
  <2>1. version' \in [Users -> 0 .. MaxVersion]
    <3>1. version' = [version EXCEPT ![u] = @ + 1] /\ version[u] < MaxVersion
      BY <1>6 DEF EditQueuedPrompt
    <3> QED  BY <3>1, VersionBumped
  <2> QED  BY <1>6, <2>1 DEF EditQueuedPrompt, EditFrame, TypeOK
<1>7. ASSUME NEW u \in Users, NEW v \in 0 .. MaxVersion, NEW o \in Clients \cup {None}, NEW edit \in BOOLEAN,
             InterjectQueuedPrompt(u, v, o, edit)
      PROVE  TypeOK'
  <2>1. act' \in ActorState
    BY <1>7, ActorPlaces, SendNowPlace DEF InterjectQueuedPrompt
  <2>2. InsertSlot(Drop(queue, u), SendNowSlot(Drop(queue, u), running, sendNow), u) \in Seq(Ids)
    <3> DEFINE rest == Drop(queue, u)
    <3>1. rest \in Seq(Ids)
      BY KeepFacts DEF Drop, TypeOK
    <3> HIDE DEF rest
    <3>2. SendNowSlot(rest, running, sendNow) \in 0 .. Len(rest)
      BY <3>1, SendNowSlotFacts
    <3>3. u \in Ids
      BY KindsAreIds
    <3>4. InsertSlot(rest, SendNowSlot(rest, running, sendNow), u) \in Seq(Ids)
      BY <3>1, <3>2, <3>3, InsertSlotFacts
    <3> QED  BY <3>4 DEF rest
  <2>3. queue' \in Seq(Ids) /\ sendNow' \subseteq Ids
    BY <1>7, <2>2, KindsAreIds DEF InterjectQueuedPrompt, TypeOK
  <2>4. version' \in [Users -> 0 .. MaxVersion]
    <3>1. \/ version' = version
          \/ version' = [version EXCEPT ![u] = @ + 1] /\ version[u] < MaxVersion
      BY <1>7, Zenon DEF InterjectQueuedPrompt
    <3> QED  BY <3>1, VersionBumped DEF TypeOK
  <2> QED  BY <1>7, <2>1, <2>3, <2>4 DEF InterjectQueuedPrompt, EditFrame, TypeOK
<1>8. ASSUME NEW f \in Fallbacks, Interject(f)
      PROVE  TypeOK'
  <2>1. act' \in ActorState
    <3>1. <<f>> \in Seq(Ids) /\ AtPc("fallback") \in ActorState
      BY KindsAreIds, ActorPlaces DEF ActorPc
    <3>2. [AtPc("fallback") EXCEPT !.out = <<f>>] \in ActorState
      BY <3>1 DEF ActorState
    <3> QED  BY <1>8, <3>2 DEF Interject, TypeOK
  <2>2. interj' \in Seq(Fallbacks)
    <3>1. interj \in Seq(Fallbacks) /\ (interj' = Append(interj, f) \/ interj' = interj)
      BY <1>8 DEF Interject, TypeOK
    <3> QED  BY <3>1, AppendFacts
  <2>3. outcome' \in [Ids -> Outcomes]
    BY <1>8 DEF Interject, SetOutcome, Outcomes, TypeOK
  <2> QED  BY <1>8, <2>1, <2>2, <2>3 DEF Interject, TypeOK
<1>9. ASSUME NEW n \in Notes, InjectNotification(n)
      PROVE  TypeOK'
  <2>1. act' \in ActorState
    BY <1>9, ActorPlaces DEF InjectNotification, TypeOK, ActorPc
  <2>2. pending' \in Seq(Notes) /\ buffer' \in Seq(Notes)
    <3>1. pending \in Seq(Notes) /\ buffer \in Seq(Notes) /\ NoteCap \in Nat
      BY ConstantsAssumption DEF TypeOK
    <3>2. Append(pending, n) \in Seq(Notes) /\ Append(buffer, n) \in Seq(Notes)
      BY <3>1, AppendFacts
    <3>3. /\ LastOf(Append(pending, n), NoteCap) \in Seq(Notes)
          /\ LastOf(Append(buffer, n), NoteCap) \in Seq(Notes)
      BY <3>1, <3>2, LastOfFacts
    <3>4. /\ pending' = pending \/ pending' = LastOf(Append(pending, n), NoteCap)
          /\ buffer' = buffer \/ buffer' = LastOf(Append(buffer, n), NoteCap)
      BY <1>9, Zenon DEF InjectNotification
    <3> QED  BY <3>1, <3>3, <3>4, Zenon
  <2>3. outcome' \in [Ids -> Outcomes]
    BY <1>9 DEF InjectNotification, Outcomes, TypeOK
  <2> QED  BY <1>9, <2>1, <2>2, <2>3 DEF InjectNotification, NoteFrame, TypeOK
<1>10. ASSUME NEW w \in MonitorWakes, DropMonitorNotifications(w)
      PROVE  TypeOK'
  BY <1>10, KindsAreIds, KeepFacts
     DEF DropMonitorNotifications, TypeOK, NoteFrame, Outcomes
<1>11. ASSUME NEW rewind \in BOOLEAN, NEW kill \in BOOLEAN, Cancel(rewind, kill)
      PROVE  TypeOK'
  <2>1. act' \in ActorState
    <3>1. AtPc("cancel") \in ActorState
      BY ActorPlaces DEF ActorPc
    <3>2. [AtPc("cancel") EXCEPT !.rewind = rewind, !.kill = kill] \in ActorState
      BY <3>1 DEF ActorState
    <3> QED  BY <1>11, <3>2 DEF Cancel
  <2>2. cancels' \in 0 .. MaxCancels
    <3>1. cancels \in 0 .. MaxCancels /\ MaxCancels \in Nat
      BY ConstantsAssumption DEF TypeOK
    <3>2. cancels < MaxCancels /\ cancels' = cancels + 1
      BY <1>11 DEF Cancel
    <3> QED  BY <3>1, <3>2
  <2> QED  BY <1>11, <2>1, <2>2 DEF Cancel, TypeOK
<1>12. ASSUME Shutdown
      PROVE  TypeOK'
  <2>1. act' \in ActorState
    BY <1>12, ActorPlaces DEF Shutdown, ActorPc
  <2>2. queue' \in Seq(Ids) /\ pending' \in Seq(Notes)
    BY <1>12, KeepFacts DEF Shutdown, TypeOK
  <2>3. outcome' \in [Ids -> Outcomes]
    BY <1>12 DEF Shutdown, Outcomes, TypeOK
  <2> QED  BY <1>12, <2>1, <2>2, <2>3 DEF Shutdown, TypeOK
<1>13. ASSUME QueueFallback
      PROVE  TypeOK'
  <2>1. act' \in ActorState
    BY <1>13, ActorPlaces DEF QueueFallback, TypeOK, ActorState
  <2> DEFINE left == Keep(act.out, {f \in Fallbacks : outcome[f] = "interject"})
             f == left[Len(left)]
  <2>2. f \in Fallbacks
    BY <1>13, NextFallback
  <2>3. queue' = InsertSlot(queue, FrontSlot(queue, running), f) /\ sendNow' = sendNow \cup {f}
        /\ SetOutcome({f}, "queued")
    BY <1>13 DEF QueueFallback
  <2> HIDE DEF left, f
  <2>4. queue' \in Seq(Ids) /\ sendNow' \subseteq Ids
    <3>1. f \in Ids /\ queue \in Seq(Ids)
      BY <2>2, KindsAreIds DEF TypeOK
    <3>2. FrontSlot(queue, running) \in 0 .. Len(queue)
      BY <3>1, SendNowSlotFacts
    <3> QED  BY <2>3, <3>1, <3>2, InsertSlotFacts DEF TypeOK
  <2>5. outcome' \in [Ids -> Outcomes]
    BY <2>3 DEF SetOutcome, Outcomes, TypeOK
  <2> QED  BY <1>13, <2>1, <2>4, <2>5 DEF QueueFallback, TypeOK
<1>14. ASSUME ActorSkip
      PROVE  TypeOK'
  <2>1. act' \in ActorState
    BY <1>14, ActorPlaces, NextPlace DEF ActorSkip, TypeOK
  <2> QED  BY <1>14, <2>1 DEF ActorSkip, StartFrame, TypeOK
<1>15. ASSUME ActorPin
      PROVE  TypeOK'
  <2>1. act' \in ActorState
    BY <1>15, ActorMoves DEF ActorPin, TypeOK, ActorPc
  <2>2. pin' \in Ids \cup {None} /\ rewindable' \in BOOLEAN /\ lock' \in {None, "actor"} \cup Sides
    BY <1>15, ItemsOf DEF ActorPin, PinFront, TypeOK
  <2> QED  BY <1>15, <2>1, <2>2 DEF ActorPin, PinFront, StartFrame, TypeOK
<1>16. ASSUME ActorPromote
      PROVE  TypeOK'
  <2>1. act' \in ActorState
    BY <1>16, ActorPlaces, NextPlace DEF ActorPromote, TypeOK
  <2>2. running' \in Ids \cup {None} /\ tstat' \in [Ids -> TaskStates] /\ lock' = None
    BY <1>16, PromoteType, Zenon DEF ActorPromote
  <2> QED  BY <1>16, <2>1, <2>2 DEF ActorPromote, PromoteFront, StartFrame, TypeOK
<1>17. ASSUME CancelBegin
      PROVE  TypeOK'
  <2>1. act' \in ActorState
    <3>1. "cancel_take" \in ActorPc /\ act \in ActorState /\ pin \in Ids \cup {None}
      BY DEF ActorPc, TypeOK
    <3>2. [act EXCEPT !.pc = "cancel_take", !.snap = pin] \in ActorState
      BY <3>1 DEF ActorState
    <3> QED  BY <1>17, <3>2 DEF CancelBegin
  <2>2. outcome' \in [Ids -> Outcomes] /\ interj' \in Seq(Fallbacks)
    BY <1>17 DEF CancelBegin, SetOutcome, Outcomes, TypeOK
  <2> QED  BY <1>17, <2>1, <2>2 DEF CancelBegin, TypeOK
<1>18. ASSUME CancelTake
      PROVE  TypeOK'
  <2> DEFINE rewinding == act.rewind /\ rewindable
             rewound == IF rewinding /\ queue # <<>> THEN queue[1] ELSE None
             out == IF rewound # None THEN <<>> ELSE CancelledItems(act.kill)
  <2>1. rewound \in Ids \cup {None} /\ out \in Seq(Ids) /\ Len(out) <= Len(queue)
    BY CancelTakeType
  <2>2. queue' = (IF rewound # None THEN Tail(queue) ELSE SubSeq(queue, Len(out) + 1, Len(queue)))
    BY <1>18 DEF CancelTake
  <2>3. act' = [act EXCEPT !.pc = "cancel_goal", !.rewound = rewound, !.out = out,
                           !.task = IF rewinding THEN None ELSE running]
    BY <1>18 DEF CancelTake
  <2>4. suppressed' \in BOOLEAN /\ rewindable' \in BOOLEAN
    BY <1>18 DEF CancelTake
  <2>5. rewound # None => queue # <<>>
    OBVIOUS
  <2>6. pending' \in Seq(Notes) /\ buffer' \in Seq(Notes)
    BY <1>18, ConcatFacts DEF CancelTake, TypeOK
  <2>7. outcome' \in [Ids -> Outcomes] /\ tstat' \in [Ids -> TaskStates]
    <3>1. /\ SetOutcome(IF act.kill THEN Items(pending) \cup Items(buffer) ELSE {}, "shed")
          /\ Abort(running) \/ UNCHANGED tstat
      BY <1>18, Zenon DEF CancelTake
    <3>2. outcome' \in [Ids -> Outcomes]
      BY <3>1 DEF SetOutcome, Outcomes, TypeOK
    <3>3. tstat' \in [Ids -> TaskStates]
      BY <3>1 DEF Abort, TaskStates, TypeOK
    <3> QED  BY <3>2, <3>3
  <2> HIDE DEF rewinding, rewound, out
  <2>8. queue' \in Seq(Ids)
    <3>1. queue \in Seq(Ids) /\ Len(queue) \in Nat /\ Len(out) \in Nat
      BY <2>1 DEF TypeOK
    <3>2. SubSeq(queue, Len(out) + 1, Len(queue)) \in Seq(Ids)
      BY <2>1, <3>1, SuffixFacts
    <3>3. queue # <<>> => Tail(queue) \in Seq(Ids)
      BY <3>1
    <3> QED  BY <2>2, <2>5, <3>2, <3>3
  <2>9. act' \in ActorState
    <3>1. "cancel_goal" \in ActorPc /\ act \in ActorState
          /\ (IF rewinding THEN None ELSE running) \in Ids \cup {None}
      BY DEF ActorPc, TypeOK
    <3> QED  BY <2>1, <2>3, <3>1 DEF ActorState
  <2> QED  BY <1>18, <2>4, <2>6, <2>7, <2>8, <2>9 DEF CancelTake, TypeOK
<1>19. ASSUME CancelGoal
      PROVE  TypeOK'
  <2>1. act' \in ActorState
    BY <1>19, ActorMoves DEF CancelGoal, TypeOK, ActorPc
  <2> QED  BY <1>19, <2>1 DEF CancelGoal, CancelFrame, TypeOK
<1>20. ASSUME CancelAbort
      PROVE  TypeOK'
  <2>1. act' \in ActorState
    BY <1>20, ActorMoves DEF CancelAbort, TypeOK, ActorPc
  <2>2. tstat' \in [Ids -> TaskStates]
    BY <1>20 DEF CancelAbort, Abort, TaskStates, TypeOK
  <2> QED  BY <1>20, <2>1, <2>2 DEF CancelAbort, CancelFrame, TypeOK
<1>21. ASSUME CancelDone
      PROVE  TypeOK'
  <2>1. act' \in ActorState
    BY <1>21, ActorMoves, ActorPlaces DEF CancelDone, TypeOK, ActorPc
  <2>2. outcome' \in [Ids -> Outcomes]
    BY <1>21 DEF CancelDone, SetOutcome, Outcomes, TypeOK
  <2>3. terminals' \in [Ids -> Nat] /\ delivered' \subseteq Wakes
    <3> DEFINE id == IF act.task # None THEN act.task ELSE act.snap
    <3>1. \/ terminals' = terminals /\ delivered' = delivered
          \/ /\ terminals' = [i \in Ids |-> terminals[i] + (IF i = id THEN 1 ELSE 0)]
             /\ delivered' = delivered \ Items(act.out)
      BY <1>21, Zenon DEF CancelDone
    <3>2. terminals \in [Ids -> Nat] /\ delivered \subseteq Wakes
      BY DEF TypeOK
    <3> HIDE DEF id
    <3>3. [i \in Ids |-> terminals[i] + (IF i = id THEN 1 ELSE 0)] \in [Ids -> Nat]
      BY <3>2
    <3> QED  BY <3>1, <3>2, <3>3, Zenon
  <2> QED  BY <1>21, <2>1, <2>2, <2>3 DEF CancelDone, CancelFrame, TypeOK
<1>22. ASSUME CancelResume
      PROVE  TypeOK'
  BY <1>22, KindsAreIds, ActorPlaces
     DEF CancelResume, TypeOK, CancelFrame, ActorPc
<1>23. ASSUME TakeCompletion
      PROVE  TypeOK'
  <2>1. Head(completions) \in Ids /\ completions' \in Seq(Ids)
    BY <1>23 DEF TakeCompletion, TypeOK
  <2>2. pin' \in Ids \cup {None}
    BY <1>23 DEF TakeCompletion, TypeOK
  <2>3. act' \in ActorState
    <3>1. /\ AtPc("complete_goal") \in ActorState /\ AtPc("complete") \in ActorState
      BY ActorPlaces DEF ActorPc
    <3>2. /\ [AtPc("complete_goal") EXCEPT !.id = Head(completions)] \in ActorState
          /\ [AtPc("complete") EXCEPT !.id = Head(completions)] \in ActorState
      BY <2>1, <3>1 DEF ActorState
    <3>3. \/ act' = [AtPc("complete_goal") EXCEPT !.id = Head(completions)]
          \/ act' = [AtPc("complete") EXCEPT !.id = Head(completions)]
      BY <1>23 DEF TakeCompletion
    <3> QED  BY <3>2, <3>3
  <2> QED  BY <1>23, <2>1, <2>2, <2>3 DEF TakeCompletion, CompleteFrame, TypeOK
<1>24. ASSUME CompleteGoal
      PROVE  TypeOK'
  <2>1. act' \in ActorState
    BY <1>24, ActorMoves DEF CompleteGoal, TypeOK, ActorPc
  <2> QED  BY <1>24, <2>1 DEF CompleteGoal, CompleteFrame, TypeOK
<1>25. ASSUME Complete
      PROVE  TypeOK'
  <2>1. act' \in ActorState
    BY <1>25, ActorPlaces DEF Complete, ActorPc
  <2>2. queue' \in Seq(Ids)
    BY <1>25 DEF Complete, Owned, TypeOK
  <2>3. running' \in Ids \cup {None}
    BY <1>25 DEF Complete, TypeOK
  <2>4. outcome' \in [Ids -> Outcomes]
    BY <1>25 DEF Complete, SetOutcome, Outcomes, TypeOK
  <2>5. terminals' \in [Ids -> Nat]
    <3>1. \/ terminals' = terminals
          \/ act.id \in Ids /\ terminals' = [terminals EXCEPT ![act.id] = @ + 1]
      BY <1>25, ItemsOf DEF Complete, EmitsTerminal, Owned, TypeOK
    <3>2. terminals \in [Ids -> Nat]
      BY DEF TypeOK
    <3>3. act.id \in Ids => [terminals EXCEPT ![act.id] = @ + 1] \in [Ids -> Nat]
      BY <3>2
    <3> QED  BY <3>1, <3>2, <3>3, Zenon
  <2> QED  BY <1>25, <2>1, <2>2, <2>3, <2>4, <2>5 DEF Complete, CompleteFrame, TypeOK
<1>26. ASSUME FlushTurnEnd
      PROVE  TypeOK'
  <2>1. act' \in ActorState
    <3>1. AtPc("fallback") \in ActorState /\ interj \in Seq(Ids)
      BY ActorPlaces, KindsAreIds DEF ActorPc, TypeOK
    <3>2. [AtPc("fallback") EXCEPT !.out = interj, !.next = "drain"] \in ActorState
      BY <3>1 DEF ActorState
    <3> QED  BY <1>26, <3>2, ActorPlaces DEF FlushTurnEnd
  <2>2. pending' \in Seq(Notes) /\ buffer' \in Seq(Notes) /\ interj' \in Seq(Fallbacks)
    BY <1>26, ConcatFacts DEF FlushTurnEnd, TypeOK
  <2> QED  BY <1>26, <2>1, <2>2 DEF FlushTurnEnd, CompleteFrame, TypeOK
<1>27. ASSUME NEW all \in BOOLEAN, DrainNotifications(all)
      PROVE  TypeOK'
  <2>1. act' \in ActorState
    BY <1>27, ActorPlaces DEF DrainNotifications, ActorPc
  <2>2. queue' \in Seq(Ids)
    <3> DEFINE shown == IF all THEN <<>> ELSE Keep(pending \o buffer, Notes \ GoalTurnNotes)
    <3>1. shown # <<>> => shown[1] \in Notes
      BY DrainedFacts
    <3>2. queue' = queue \/ (shown # <<>> /\ queue' = Append(queue, shown[1]))
      BY <1>27, Zenon DEF DrainNotifications
    <3>3. queue \in Seq(Ids)
      BY DEF TypeOK
    <3> HIDE DEF shown
    <3> QED  BY <3>1, <3>2, <3>3, KindsAreIds, AppendFacts
  <2>3. outcome' \in [Ids -> Outcomes]
    BY <1>27 DEF DrainNotifications, Outcomes, TypeOK
  <2>4. pending' \in Seq(Notes) /\ buffer' \in Seq(Notes)
    <3>1. /\ pending' = pending \/ pending' = <<>>
          /\ buffer' = buffer \/ buffer' = <<>>
      BY <1>27, Zenon DEF DrainNotifications
    <3>2. pending \in Seq(Notes) /\ buffer \in Seq(Notes) /\ <<>> \in Seq(Notes)
      BY DEF TypeOK
    <3> QED  BY <3>1, <3>2, Zenon
  <2> QED  BY <1>27, <2>1, <2>2, <2>3, <2>4 DEF DrainNotifications, TypeOK
<1>28. ASSUME NEW s \in Sides, SideSkip(s)
      PROVE  TypeOK'
  BY <1>28, KindsAreIds
     DEF SideSkip, TypeOK, StartFrame
<1>29. ASSUME NEW s \in Sides, SidePin(s)
      PROVE  TypeOK'
  BY <1>29, KindsAreIds, ItemsOf
     DEF SidePin, TypeOK, StartFrame, PinFront
<1>30. ASSUME NEW s \in Sides, SidePromote(s)
      PROVE  TypeOK'
  <2>1. running' \in Ids \cup {None} /\ tstat' \in [Ids -> TaskStates] /\ lock' = None
    BY <1>30, PromoteType DEF SidePromote
  <2> QED  BY <1>30, <2>1 DEF SidePromote, PromoteFront, StartFrame, TypeOK
<1>31. ASSUME NEW r \in Resumes, ResumeQueue(r)
      PROVE  TypeOK'
  BY <1>31, KindsAreIds, QueueInputType
     DEF ResumeQueue, TypeOK, Sides
<1>32. ASSUME NEW t \in Ids, TurnStart(t)
      PROVE  TypeOK'
  BY <1>32, KindsAreIds
     DEF TurnStart, TypeOK, TurnFrame, TaskStates, Exited
<1>33. ASSUME NEW t \in Ids, TurnEmit(t)
      PROVE  TypeOK'
  BY <1>33, KindsAreIds
     DEF TurnEmit, TypeOK, TurnFrame
<1>34. ASSUME NEW t \in Ids, TurnMerge(t)
      PROVE  TypeOK'
  BY <1>34, KindsAreIds
     DEF TurnMerge, TypeOK, TurnFrame, SetOutcome, Outcomes
<1>35. ASSUME NEW t \in Ids, TurnInject(t)
      PROVE  TypeOK'
  <2>1. buffer' = <<>> /\ outcome' = [i \in Ids |-> IF i \in Items(buffer) THEN "merged" ELSE outcome[i]]
    BY <1>35 DEF TurnInject, SetOutcome
  <2>2. buffer' \in Seq(Notes) /\ outcome' \in [Ids -> Outcomes]
    BY <2>1 DEF TypeOK, Outcomes
  <2> QED  BY <1>35, <2>2 DEF TurnInject, TurnFrame, TypeOK
<1>36. ASSUME NEW t \in Ids, NEW active \in BOOLEAN, TurnGoal(t, active)
      PROVE  TypeOK'
  BY <1>36, KindsAreIds
     DEF TurnGoal, TypeOK, TurnFrame
<1>37. ASSUME NEW t \in Ids, RequestWait(t)
      PROVE  TypeOK'
  BY <1>37, KindsAreIds
     DEF RequestWait, TypeOK, WaitFrame, TurnFrame
<1>38. ASSUME NEW t \in Ids, EnterWait(t)
      PROVE  TypeOK'
  BY <1>38, KindsAreIds
     DEF EnterWait, TypeOK, WaitFrame, TurnFrame
<1>39. ASSUME NEW t \in Ids, LeaveWait(t)
      PROVE  TypeOK'
  BY <1>39, KindsAreIds
     DEF LeaveWait, TypeOK, WaitFrame, TurnFrame
<1>40. ASSUME NEW t \in Ids, AbandonWait(t)
      PROVE  TypeOK'
  BY <1>40, KindsAreIds
     DEF AbandonWait, TypeOK, WaitFrame, TurnFrame
<1>41. ASSUME NEW t \in Ids, NEW w \in Wakes, TurnConsume(t, w)
      PROVE  TypeOK'
  BY <1>41, KindsAreIds, KeepFacts
     DEF TurnConsume, TypeOK, TurnFrame, Outcomes, Sweep
<1>42. ASSUME NEW t \in Ids, TurnRemind(t)
      PROVE  TypeOK'
  BY <1>42, KindsAreIds
     DEF TurnRemind, TypeOK, TurnFrame, Exited
<1>43. ASSUME NEW t \in Ids, TurnScopeEnd(t)
      PROVE  TypeOK'
  BY <1>43, KindsAreIds
     DEF TurnScopeEnd, TypeOK, TurnFrame, TaskStates
<1>44. ASSUME NEW t \in Ids, TurnDone(t)
      PROVE  TypeOK'
  BY <1>44, KindsAreIds, AppendFacts
     DEF TurnDone, TypeOK, TurnFrame, TaskStates
<1>45. ASSUME NEW t \in Ids, TurnDropped(t)
      PROVE  TypeOK'
  BY <1>45, KindsAreIds
     DEF TurnDropped, TypeOK, TurnFrame, TaskStates
<1>46. ASSUME NEW w \in Wakes, TaskExits(w)
      PROVE  TypeOK'
  BY <1>46, KindsAreIds
     DEF TaskExits, TypeOK, BridgeFrame, SetOutcome, Outcomes
<1>47. ASSUME NEW w \in Wakes, BridgeWake(w)
      PROVE  TypeOK'
  <2>1. outcome' \in [Ids -> Outcomes]
    BY <1>47 DEF BridgeWake, SetOutcome, Outcomes, TypeOK
  <2>2. delivered' \subseteq Wakes
    BY <1>47 DEF BridgeWake, TypeOK
  <2> QED  BY <1>47, <2>1, <2>2 DEF BridgeWake, BridgeFrame, TypeOK
<1>48. CASE Quiet
  BY <1>48 DEF Quiet, TypeOK
<1>53. ASSUME NEW active \in BOOLEAN, SiblingTurn(active)
      PROVE  TypeOK'
  BY <1>53 DEF SiblingTurn, SiblingFrame, TypeOK
<1>54. CASE SiblingPush
  <2>1. buffer' \in Seq(Notes)
    <3>1. buffer \in Seq(Notes) /\ buffer # <<>> /\ buffer' = Tail(buffer)
      BY <1>54 DEF SiblingPush, TypeOK
    <3> QED  BY <3>1, OldestDropped
  <2>2. outcome' \in [Ids -> Outcomes]
    BY <1>54 DEF SiblingPush, SetOutcome, Outcomes, TypeOK
  <2> QED  BY <1>54, <2>1, <2>2 DEF SiblingPush, SiblingFrame, TypeOK
<1>49. ASSUME Commands PROVE TypeOK'
  BY <1>49, <1>1, <1>2, <1>3, <1>4, <1>5, <1>6, <1>7, <1>8, <1>9, <1>10, <1>11, <1>12, KindsAreIds, Zenon DEF Commands
<1>50. ASSUME ActorStep PROVE TypeOK'
  BY <1>50, <1>13, <1>14, <1>15, <1>16, <1>17, <1>18, <1>19, <1>20, <1>21, <1>22, <1>23, <1>24, <1>25, <1>26, <1>27, Zenon DEF ActorStep
<1>51. ASSUME NEW s \in Sides, SideStep(s) PROVE TypeOK'
  BY <1>51, <1>28, <1>29, <1>30, Zenon DEF SideStep
<1>52. ASSUME NEW t \in Ids, TurnStep(t) PROVE TypeOK'
  BY <1>52, <1>33, <1>34, <1>35, <1>36, <1>37, <1>38, <1>39, <1>40, <1>41, <1>42, <1>43, Zenon DEF TurnStep
<1> QED
  BY <1>31, <1>32, <1>44, <1>45, <1>46, <1>47, <1>48, <1>49, <1>50, <1>51, <1>52, <1>53, <1>54, Zenon DEF Next, SiblingStep
=============================================================================
