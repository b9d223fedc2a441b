------------------------ MODULE SessionActorProofs ------------------------
(***************************************************************************)
(* Safety of a session for every set of prompts, clients and notifications *)
(* and every bound: the turn in flight stays at the front of the queue, no *)
(* prompt is started twice, and the wait window counts no guard that does  *)
(* not exist.                                                              *)
(***************************************************************************)
EXTENDS SessionActorTypes

USE DEF qVars, runVars, waitVars, noteVars, taskVars, wakeVars, budgetVars, vars

-----------------------------------------------------------------------------
(* The queue and the turn tasks *)

(* The actor stays where it ended, and takes up no notification. *)
ActKept ==
  /\ act.pc = "ended" => act'.pc = "ended"
  /\ \A n \in Notes : n \in Items(act'.out) \/ n = act'.rewound
                        => n \in Items(act.out) \/ n = act.rewound

(* A step of the actor that drops its locals, or keeps them. *)
LEMMA ActKeptBy ==
  ASSUME act.pc # "ended" \/ act'.pc = "ended",
         act'.out = act.out \/ act'.out = <<>>,
         act'.rewound = act.rewound \/ act'.rewound = None
  PROVE  ActKept
<1>1. Items(<<>>) = {}
  BY DEF Items
<1>2. None \notin Notes
  BY ConstantsAssumption, KindsAreIds
<1> QED  BY <1>1, <1>2, Zenon DEF ActKept

(* A step that leaves the queue and the turn in flight alone. *)
LEMMA FreshStable ==
  ASSUME QueueFresh, RunningIsFront, UNCHANGED <<queue, running>>,
         lock' = lock \/ (running = None /\ queue # <<>>),
         \A i \in Ids : tstat[i] = "none" => tstat'[i] = "none",
         \A i \in Ids : outcome'[i] \in Incoming => outcome[i] \in Incoming,
         queue \in Seq(Ids),
         act.pc = "ended" => act'.pc = "ended"
  PROVE  QueueFresh' /\ RunningIsFront'
<1>1. Items(queue)' = Items(queue) /\ Waiting' = Waiting /\ Distinct(queue)'
  BY DEF Waiting, QueueFresh
<1>2. Waiting \subseteq Ids
  BY ItemsOf DEF Waiting
<1>3. \A i \in Waiting' : tstat'[i] = "none"
  BY <1>1, <1>2 DEF QueueFresh
<1>4. \A i \in Ids : outcome'[i] \in Incoming => i \notin Items(queue)' /\ tstat'[i] = "none"
  BY <1>1 DEF QueueFresh
<1>5. lock' # None => running' = None /\ queue' # <<>>
  BY DEF QueueFresh
<1>6. RunningIsFront'
  BY DEF RunningIsFront
<1> HIDE DEF Incoming
<1> QED  BY <1>1, <1>3, <1>4, <1>5, <1>6 DEF QueueFresh

(* A step that edits the queue between two promotions, adding the ids in N. *)
LEMMA FreshEdited ==
  ASSUME QueueFresh, RunningIsFront, UNCHANGED <<running, tstat>>, lock' = None,
         NEW N \in SUBSET Ids,
         \A i \in N : outcome[i] \in Incoming /\ outcome'[i] \notin Incoming,
         queue \in Seq(Ids),
         Items(queue') \subseteq Items(queue) \cup N,
         Distinct(queue'),
         \A i \in Ids : outcome'[i] \in Incoming => outcome[i] \in Incoming,
         (running # None /\ act'.pc # "ended") => (queue' # <<>> /\ queue'[1] = queue[1]),
         act.pc = "ended" => act'.pc = "ended"
  PROVE  QueueFresh' /\ RunningIsFront'
<1>1. Items(queue)' = Items(queue') /\ Distinct(queue)'
  BY DEF Items, Distinct
<1>2. \A i \in Waiting' : tstat'[i] = "none"
  <2>1. ASSUME NEW i \in Items(queue'), i # running
        PROVE  tstat[i] = "none"
    BY <2>1 DEF QueueFresh, Waiting
  <2> QED  BY <2>1, <1>1 DEF Waiting
<1>3. \A i \in Ids : outcome'[i] \in Incoming => i \notin Items(queue)' /\ tstat'[i] = "none"
  BY <1>1 DEF QueueFresh
<1>4. RunningIsFront'
  BY DEF RunningIsFront
<1> HIDE DEF Incoming
<1> QED  BY <1>1, <1>2, <1>3, <1>4 DEF QueueFresh

(* The notifications after a step that takes up none and admits none. *)
LEMMA NotesMoved ==
  ASSUME NotesHeld, ActKept,
         \A n \in Notes : outcome'[n] \in Incoming => outcome[n] \in Incoming,
         \A n \in Items(pending') \cup Items(buffer') : outcome'[n] = "held",
         Items(pending') \cap Items(buffer') = {}
  PROVE  NotesHeld'
<1>1. Items(pending)' = Items(pending') /\ Items(buffer)' = Items(buffer')
  BY DEF Items
<1>2. \A n \in Notes : n \in Items(act'.out) \/ n = act'.rewound => outcome'[n] \notin Incoming
  BY DEF NotesHeld, ActKept
<1>3. Items(act.out)' = Items(act'.out)
  BY DEF Items
<1> HIDE DEF Incoming
<1> QED  BY <1>1, <1>2, <1>3 DEF NotesHeld

(* A step beside the queue and the two lists. *)
LEMMA OutsideQueue ==
  ASSUME TypeOK, QueueInv, RunningIsFront, UNCHANGED <<queue, running, pending, buffer>>, ActKept,
         lock' = lock \/ (running = None /\ queue # <<>>),
         \A i \in Ids : tstat[i] = "none" => tstat'[i] = "none",
         \A i \in Ids : outcome'[i] # outcome[i] =>
            /\ outcome'[i] \in Incoming => outcome[i] \in Incoming
            /\ i \in Notes => outcome[i] # "held"
  PROVE  QueueInv' /\ RunningIsFront'
<1>1. queue \in Seq(Ids) /\ pending \in Seq(Notes) /\ buffer \in Seq(Notes)
  BY DEF TypeOK
<1>2. QueueFresh' /\ RunningIsFront'
  BY <1>1, FreshStable DEF QueueInv, ActKept
<1>3. Items(pending') = Items(pending) /\ Items(buffer') = Items(buffer)
  OBVIOUS
<1>4. Items(pending) \subseteq Notes /\ Items(buffer) \subseteq Notes
  BY <1>1, ItemsOf
<1>5. \A n \in Items(pending') \cup Items(buffer') : outcome'[n] = "held"
  BY <1>3, <1>4, KindsAreIds DEF QueueInv, NotesHeld
<1>6. NotesHeld'
  BY <1>3, <1>5, KindsAreIds, NotesMoved DEF QueueInv, NotesHeld
<1> QED  BY <1>2, <1>6 DEF QueueInv

(* An edit that adds nothing. *)
LEMMA FreshShrunk ==
  ASSUME QueueFresh, RunningIsFront, UNCHANGED <<running, tstat>>, lock' = None,
         queue \in Seq(Ids),
         Items(queue') \subseteq Items(queue),
         Distinct(queue'),
         \A i \in Ids : outcome'[i] \in Incoming => outcome[i] \in Incoming,
         (running # None /\ act'.pc # "ended") => (queue' # <<>> /\ queue'[1] = queue[1]),
         act.pc = "ended" => act'.pc = "ended"
  PROVE  QueueFresh' /\ RunningIsFront'
<1>1. {} \in SUBSET Ids /\ Items(queue') \subseteq Items(queue) \cup {}
  OBVIOUS
<1>2. \A i \in {} : outcome[i] \in Incoming /\ outcome'[i] \notin Incoming
  OBVIOUS
<1> QED  BY <1>1, <1>2, FreshEdited

(* queue_input adds an id that was in no slot and never takes the front    *)
(* from the turn in flight.                                                *)
LEMMA QueueInputFresh ==
  ASSUME TypeOK, QueueInv, RunningIsFront, NEW id \in Ids, NEW now \in BOOLEAN,
         outcome[id] \in Incoming, id \notin Notes, QueueInput(id, now)
  PROVE  /\ Items(queue') \subseteq Items(queue) \cup {id} /\ Distinct(queue')
         /\ (running # None /\ act.pc # "ended") => (queue' # <<>> /\ queue'[1] = queue[1])
         /\ outcome'[id] = "queued"
         /\ \A i \in Ids : outcome'[i] # outcome[i] =>
              outcome'[i] \notin Incoming /\ (i \in Notes => outcome[i] # "held")
<1> DEFINE swept == Preempted(id)
           slot == SendNowSlot(swept, running, sendNow)
           dropped == Items(queue) \ Items(swept)
<1>1. queue \in Seq(Ids) /\ Distinct(queue) /\ id \notin Items(queue)
  BY DEF TypeOK, QueueInv, QueueFresh
<1>2. /\ swept \in Seq(Ids) /\ Items(swept) \subseteq Items(queue) /\ Distinct(swept)
      /\ queue # <<>> /\ queue[1] = running => swept # <<>> /\ swept[1] = queue[1]
  <2>1. swept = queue \/ swept = Keep(queue, (Items(queue) \ Synthetic) \cup {running})
    BY DEF Preempted, Sweep
  <2> HIDE DEF swept
  <2> DEFINE kept == Keep(queue, (Items(queue) \ Synthetic) \cup {running})
  <2>2. /\ kept \in Seq(Ids) /\ Items(kept) \subseteq Items(queue) /\ Distinct(kept)
        /\ queue # <<>> /\ queue[1] = running => kept # <<>> /\ kept[1] = queue[1]
    BY <1>1, KeepFacts
  <2> HIDE DEF kept
  <2> QED  BY <1>1, <2>1, <2>2, Zenon DEF kept
<1>3. /\ queue' = InsertSlot(swept, slot, id) \/ queue' = Append(swept, id)
      /\ outcome' = [i \in Ids |-> IF i = id THEN "queued"
                                   ELSE IF i \in dropped THEN "dropped" ELSE outcome[i]]
  BY DEF QueueInput
<1> HIDE DEF swept
<1>4. /\ slot \in 0 .. Len(swept)
      /\ swept # <<>> /\ swept[1] = running => slot > 0
  BY <1>2, SendNowSlotFacts DEF FrontSlot
<1> HIDE DEF slot
<1>5. /\ Items(InsertSlot(swept, slot, id)) = Items(swept) \cup {id}
      /\ Distinct(InsertSlot(swept, slot, id))
      /\ InsertSlot(swept, slot, id) # <<>>
      /\ slot > 0 => InsertSlot(swept, slot, id)[1] = swept[1]
  BY <1>1, <1>2, <1>4, InsertSlotFacts
<1>6. /\ Items(Append(swept, id)) = Items(swept) \cup {id} /\ Distinct(Append(swept, id))
      /\ Append(swept, id) # <<>> /\ swept # <<>> => Append(swept, id)[1] = swept[1]
  BY <1>1, <1>2, AppendFacts
<1>7. Items(queue') \subseteq Items(queue) \cup {id} /\ Distinct(queue')
  BY <1>2, <1>3, <1>5, <1>6, Zenon
<1>8. ASSUME running # None, act.pc # "ended" PROVE queue' # <<>> /\ queue'[1] = queue[1]
  <2>1. queue # <<>> /\ queue[1] = running
    BY <1>8 DEF RunningIsFront
  <2>2. swept # <<>> /\ swept[1] = queue[1] /\ slot > 0
    BY <1>2, <1>4, <2>1
  <2>3. Append(swept, id) # <<>>
    BY <1>1, <1>2, AppendFacts
  <2> QED  BY <1>3, <1>5, <1>6, <2>2, <2>3, Zenon
<1>9. outcome'[id] = "queued"
  BY <1>3
<1>10. ASSUME NEW i \in Ids, outcome'[i] # outcome[i]
       PROVE  outcome'[i] \notin Incoming /\ (i \in Notes => outcome[i] # "held")
  <2>1. i \in Items(queue) => outcome[i] \notin Incoming
    BY DEF QueueInv, QueueFresh
  <2> QED  BY <1>3, <1>10, <2>1 DEF Incoming
<1> QED  BY <1>7, <1>8, <1>9, <1>10

(* An edit of the queue that adds N and leaves the two lists alone. *)
LEMMA QueueEdited ==
  ASSUME TypeOK, QueueInv, RunningIsFront, UNCHANGED <<running, tstat, pending, buffer>>,
         lock' = None, ActKept, NEW N \in SUBSET Ids,
         \A i \in N : outcome[i] \in Incoming /\ outcome'[i] \notin Incoming,
         Items(queue') \subseteq Items(queue) \cup N,
         Distinct(queue'),
         (running # None /\ act.pc # "ended") => (queue' # <<>> /\ queue'[1] = queue[1]),
         \A i \in Ids : outcome'[i] # outcome[i] =>
            outcome'[i] \notin Incoming /\ (i \in Notes => outcome[i] # "held")
  PROVE  QueueInv' /\ RunningIsFront'
<1>1. queue \in Seq(Ids) /\ pending \in Seq(Notes) /\ buffer \in Seq(Notes)
  BY DEF TypeOK
<1>2. \A i \in Ids : outcome'[i] \in Incoming => outcome[i] \in Incoming
  OBVIOUS
<1>3. QueueFresh' /\ RunningIsFront'
  BY <1>1, <1>2, FreshEdited DEF QueueInv, ActKept
<1>4. Items(pending') = Items(pending) /\ Items(buffer') = Items(buffer)
  OBVIOUS
<1>5. Items(pending) \subseteq Notes /\ Items(buffer) \subseteq Notes
  BY <1>1, ItemsOf
<1>6. \A n \in Items(pending') \cup Items(buffer') : outcome'[n] = "held"
  BY <1>4, <1>5, KindsAreIds DEF QueueInv, NotesHeld
<1>7. NotesHeld'
  BY <1>2, <1>4, <1>6, KindsAreIds, NotesMoved DEF QueueInv, NotesHeld
<1> QED  BY <1>3, <1>7 DEF QueueInv

(* An edit that adds nothing. *)
LEMMA QueueShrunk ==
  ASSUME TypeOK, QueueInv, RunningIsFront, UNCHANGED <<running, tstat, pending, buffer>>,
         lock' = None, ActKept,
         Items(queue') \subseteq Items(queue), Distinct(queue'),
         (running # None /\ act.pc # "ended") => (queue' # <<>> /\ queue'[1] = queue[1]),
         \A i \in Ids : outcome'[i] # outcome[i] =>
            outcome'[i] \notin Incoming /\ (i \in Notes => outcome[i] # "held")
  PROVE  QueueInv' /\ RunningIsFront'
<1>1. {} \in SUBSET Ids /\ Items(queue') \subseteq Items(queue) \cup {}
  OBVIOUS
<1>2. \A i \in {} : outcome[i] \in Incoming /\ outcome'[i] \notin Incoming
  OBVIOUS
<1> QED  BY <1>1, <1>2, QueueEdited

(* The promotion: the front leaves the waiting ids as it is spawned. *)
LEMMA PromoteFresh ==
  ASSUME TypeOK, QueueInv, RunningIsFront, NEW p \in {"actor"} \cup Sides, PromoteFront(p),
         UNCHANGED <<outcome, pending, buffer>>, ActKept
  PROVE  QueueInv' /\ RunningIsFront'
<1>1. queue # <<>> /\ queue[1] \in Ids /\ running = None /\ running' = queue[1] /\ lock' = None
  BY PromoteType
<1>2. queue' = queue /\ tstat' = [tstat EXCEPT ![queue[1]] = "spawned"] /\ tstat \in [Ids -> TaskStates]
  BY DEF PromoteFront, TypeOK
<1>3. queue \in Seq(Ids) /\ queue[1] \in Items(queue) /\ Items(queue) \subseteq Ids
  BY <1>1, ItemsOf DEF TypeOK
<1>4. Items(queue)' = Items(queue) /\ Distinct(queue)' /\ Waiting' = Items(queue) \ {queue[1]}
  BY <1>1, <1>2 DEF QueueInv, QueueFresh, Waiting
<1>5. \A i \in Items(queue) : tstat[i] = "none"
  BY <1>1, <1>3, ConstantsAssumption DEF QueueInv, QueueFresh, Waiting
<1>6. \A i \in Waiting' : tstat'[i] = "none"
  BY <1>2, <1>3, <1>4, <1>5
<1>7. \A i \in Ids : outcome'[i] \in Incoming => i \notin Items(queue)' /\ tstat'[i] = "none"
  BY <1>2, <1>3, <1>4 DEF QueueInv, QueueFresh
<1>8. RunningIsFront'
  BY <1>1, <1>2 DEF RunningIsFront
<1>9. QueueFresh'
  <2> HIDE DEF Incoming
  <2> QED  BY <1>1, <1>4, <1>6, <1>7 DEF QueueFresh
<1>10. NotesHeld'
  BY NotesMoved DEF QueueInv, NotesHeld
<1> QED  BY <1>8, <1>9, <1>10 DEF QueueInv

(* The front and the turn in flight leave together. *)
LEMMA FreshPopped ==
  ASSUME QueueFresh, queue \in Seq(Ids), lock' = None, running' = None,
         Distinct(queue'), Items(queue') \subseteq Items(queue) \ {running},
         \A i \in Ids : tstat[i] = "none" => tstat'[i] = "none",
         \A i \in Ids : outcome'[i] \in Incoming => outcome[i] \in Incoming
  PROVE  QueueFresh' /\ RunningIsFront'
<1>1. Items(queue)' = Items(queue') /\ Distinct(queue)' /\ Items(queue) \subseteq Ids
  BY ItemsOf DEF Items, Distinct
<1>2. \A i \in Waiting' : tstat'[i] = "none"
  <2>1. ASSUME NEW i \in Items(queue') PROVE tstat'[i] = "none"
    BY <1>1, <2>1 DEF QueueFresh, Waiting
  <2> QED  BY <2>1, <1>1 DEF Waiting
<1>3. \A i \in Ids : outcome'[i] \in Incoming => i \notin Items(queue)' /\ tstat'[i] = "none"
  BY <1>1 DEF QueueFresh
<1>4. RunningIsFront'
  BY DEF RunningIsFront
<1> HIDE DEF Incoming
<1> QED  BY <1>1, <1>2, <1>3, <1>4 DEF QueueFresh

(* Popping the front. *)
LEMMA TailFacts ==
  ASSUME NEW T, NEW s \in Seq(T), s # <<>>, Distinct(s)
  PROVE  Tail(s) \in Seq(T) /\ Distinct(Tail(s)) /\ Items(Tail(s)) \subseteq Items(s) \ {s[1]}
<1>1. 1 \in Nat /\ 1 <= Len(s) /\ Tail(s) = SubSeq(s, 1 + 1, Len(s))
  OBVIOUS
<1>2. \A m \in Nat : m <= Len(s) =>
        /\ SubSeq(s, m + 1, Len(s)) \in Seq(T)
        /\ Items(SubSeq(s, m + 1, Len(s))) \subseteq Items(s)
        /\ Distinct(SubSeq(s, m + 1, Len(s)))
        /\ m > 0 => s[1] \notin Items(SubSeq(s, m + 1, Len(s)))
  BY SuffixFacts
<1>3. 1 > 0
  OBVIOUS
<1> QED  BY <1>1, <1>2, <1>3, Zenon

(* Both lists hold notifications, none of them queued. *)
LEMMA HeldFacts ==
  ASSUME TypeOK, QueueInv
  PROVE  /\ Items(pending) \subseteq Notes /\ Items(buffer) \subseteq Notes
         /\ \A n \in Items(pending) \cup Items(buffer) :
              n \in Ids /\ outcome[n] = "held" /\ n \notin Items(queue) /\ n \in Notes
         /\ Items(pending) \cap Items(buffer) = {} /\ Items(<<>>) = {}
<1>1. Items(pending) \subseteq Notes /\ Items(buffer) \subseteq Notes /\ Items(<<>>) = {}
  <2>1. pending \in Seq(Notes) /\ buffer \in Seq(Notes)
    BY DEF TypeOK
  <2> QED  BY <2>1, ItemsOf DEF Items
<1> QED  BY <1>1, KindsAreIds DEF QueueInv, QueueFresh, NotesHeld, Incoming

(* Every step of the session keeps the invariant. *)
LEMMA QueueNext ==
  ASSUME TypeOK, QueueInv, RunningIsFront, Next
  PROVE  QueueInv' /\ RunningIsFront'
<1>1. queue \in Seq(Ids) /\ pending \in Seq(Notes) /\ buffer \in Seq(Notes) /\ act \in ActorState
      /\ tstat \in [Ids -> TaskStates] /\ outcome \in [Ids -> Outcomes]
  BY DEF TypeOK
<1>2. ASSUME NEW id \in Users \cup Crons \cup Wakes, NEW now \in BOOLEAN, Prompt(id, now)
      PROVE  QueueInv' /\ RunningIsFront'
  <2>1. ActKept
    BY <1>2, ActorPlaces, SendNowPlace, ActKeptBy DEF Prompt, AtCommand
  <2>2. id \in Ids /\ id \notin Notes /\ outcome[id] \in Incoming /\ QueueInput(id, now)
    BY <1>2, KindsAreIds, KindsAssumption DEF Prompt, Incoming, Synthetic
  <2>3. UNCHANGED <<running, tstat, pending, buffer>> /\ lock' = None
    BY <1>2 DEF Prompt
  <2>4. /\ Items(queue') \subseteq Items(queue) \cup {id} /\ Distinct(queue')
        /\ (running # None /\ act.pc # "ended") => (queue' # <<>> /\ queue'[1] = queue[1])
        /\ outcome'[id] = "queued"
        /\ \A i \in Ids : outcome'[i] # outcome[i] =>
              outcome'[i] \notin Incoming /\ (i \in Notes => outcome[i] # "held")
    BY <2>2, QueueInputFresh
  <2>5. {id} \in SUBSET Ids /\ outcome'[id] \notin Incoming
    BY <2>2, <2>4 DEF Incoming
  <2> QED  BY <2>1, <2>2, <2>3, <2>4, <2>5, QueueEdited
<1>3. ASSUME NEW g \in Summaries, GoalSummaryTurn(g)
      PROVE  QueueInv' /\ RunningIsFront'
  <2>1. ActKept
    BY <1>3, ActorPlaces, ActKeptBy DEF GoalSummaryTurn, AtCommand
  <2>2. g \in Ids /\ g \notin Notes /\ outcome[g] = "new" /\ queue' = Append(queue, g)
        /\ outcome' = [i \in Ids |-> IF i \in {g} THEN "queued" ELSE outcome[i]]
    BY <1>3, KindsAreIds, KindsAssumption DEF GoalSummaryTurn, SetOutcome
  <2>3. UNCHANGED <<running, tstat, pending, buffer>> /\ lock' = None
    BY <1>3 DEF GoalSummaryTurn
  <2>4. g \notin Items(queue)
    BY <2>2 DEF QueueInv, QueueFresh, Incoming
  <2>5. Items(queue') \subseteq Items(queue) \cup {g} /\ Distinct(queue') /\ queue' # <<>>
    BY <1>1, <2>2, <2>4, AppendFacts DEF QueueInv, QueueFresh
  <2>6. (running # None /\ act.pc # "ended") => (queue' # <<>> /\ queue'[1] = queue[1])
    BY <1>1, <2>2, <2>5, AppendFacts DEF RunningIsFront
  <2>7. /\ outcome[g] \in Incoming /\ outcome'[g] \notin Incoming
        /\ \A i \in Ids : outcome'[i] # outcome[i] =>
              outcome'[i] \notin Incoming /\ (i \in Notes => outcome[i] # "held")
    BY <2>2 DEF Incoming
  <2>8. {g} \in SUBSET Ids
    BY <2>2
  <2> QED  BY <2>1, <2>3, <2>5, <2>6, <2>7, <2>8, QueueEdited
<1>4. ASSUME NEW u \in Users, NEW v \in 0 .. MaxVersion, NEW o \in Clients \cup {None}, RemoveQueuedPrompt(u, v, o)
      PROVE  QueueInv' /\ RunningIsFront'
  <2> DEFINE gone == {x \in {u} : RowMatches(x, v, o)}
  <2>1. ActKept /\ UNCHANGED <<running, tstat, pending, buffer>> /\ lock' = None
    BY <1>4 DEF RemoveQueuedPrompt, EditFrame, ActKept
  <2>2. /\ queue' = Keep(queue, Items(queue) \ gone) /\ running \notin gone
        /\ gone \subseteq Items(queue) /\ gone \cap Notes = {}
        /\ outcome' = [i \in Ids |-> IF i \in gone THEN "removed" ELSE outcome[i]]
    BY <1>4, KindsAssumption DEF RemoveQueuedPrompt, SetOutcome, RowMatches, Rows, Waiting, Synthetic
  <2> HIDE DEF gone
  <2>3. Items(queue') \subseteq Items(queue) /\ Distinct(queue')
    BY <1>1, <2>2, KeepFacts DEF QueueInv, QueueFresh
  <2>4. (running # None /\ act.pc # "ended") => (queue' # <<>> /\ queue'[1] = queue[1])
    <3>1. queue # <<>> => queue[1] \in Items(queue)
      BY <1>1, ItemsOf
    <3> QED  BY <1>1, <2>2, <3>1, KeepFacts DEF RunningIsFront
  <2>5. \A i \in Ids : outcome'[i] # outcome[i] =>
              outcome'[i] \notin Incoming /\ (i \in Notes => outcome[i] # "held")
    BY <2>2 DEF Incoming
  <2> QED  BY <2>1, <2>3, <2>4, <2>5, QueueShrunk
<1>5. ASSUME NEW o \in Clients \cup {None}, ClearQueue(o)
      PROVE  QueueInv' /\ RunningIsFront'
  <2> DEFINE gone == {u \in Rows : Owns(o, u)}
  <2>1. ActKept /\ UNCHANGED <<running, tstat, pending, buffer>> /\ lock' = None
    BY <1>5 DEF ClearQueue, EditFrame, ActKept
  <2>2. /\ queue' = Keep(queue, Items(queue) \ gone) /\ running \notin gone
        /\ gone \subseteq Items(queue) /\ gone \cap Notes = {}
        /\ outcome' = [i \in Ids |-> IF i \in gone THEN "removed" ELSE outcome[i]]
    BY <1>5, KindsAssumption DEF ClearQueue, SetOutcome, Rows, Waiting, Synthetic
  <2> HIDE DEF gone
  <2>3. Items(queue') \subseteq Items(queue) /\ Distinct(queue')
    BY <1>1, <2>2, KeepFacts DEF QueueInv, QueueFresh
  <2>4. (running # None /\ act.pc # "ended") => (queue' # <<>> /\ queue'[1] = queue[1])
    <3>1. queue # <<>> => queue[1] \in Items(queue)
      BY <1>1, ItemsOf
    <3> QED  BY <1>1, <2>2, <3>1, KeepFacts DEF RunningIsFront
  <2>5. \A i \in Ids : outcome'[i] # outcome[i] =>
              outcome'[i] \notin Incoming /\ (i \in Notes => outcome[i] # "held")
    BY <2>2 DEF Incoming
  <2> QED  BY <2>1, <2>3, <2>4, <2>5, QueueShrunk
<1>6. ASSUME NEW order \in Orders, ReorderQueue(order)
      PROVE  QueueInv' /\ RunningIsFront'
  <2>1. ActKept /\ UNCHANGED <<running, tstat, pending, buffer, outcome>> /\ lock' = None
    BY <1>6 DEF ReorderQueue, EditFrame, ActKept
  <2>2. order \in Seq(Ids) /\ Distinct(order)
    BY <1>1, ReorderType
  <2>3. queue' = Reorder(queue, Users \ {running}, order)
    BY <1>6 DEF ReorderQueue
  <2>4. Items(queue') \subseteq Items(queue) /\ Distinct(queue')
    BY <1>1, <2>2, <2>3, ReorderFacts DEF QueueInv, QueueFresh
  <2>5. (running # None /\ act.pc # "ended") => (queue' # <<>> /\ queue'[1] = queue[1])
    <3>1. running \notin Users \ {running} /\ Distinct(queue)
      BY DEF QueueInv, QueueFresh
    <3> QED  BY <1>1, <2>2, <2>3, <3>1, ReorderFacts DEF RunningIsFront
  <2> QED  BY <2>1, <2>4, <2>5, QueueShrunk
<1>7. ASSUME NEW u \in Users, EditQueuedPrompt(u)
      PROVE  QueueInv' /\ RunningIsFront'
  <2>1. ActKept
    BY <1>7 DEF EditQueuedPrompt, EditFrame, ActKept
  <2>2. /\ UNCHANGED <<queue, running, pending, buffer, outcome, lock>>
        /\ \A i \in Ids : tstat[i] = "none" => tstat'[i] = "none"
    BY <1>7, <1>1 DEF EditQueuedPrompt, EditFrame
  <2> QED  BY <2>1, <2>2, OutsideQueue
<1>8. ASSUME NEW u \in Users, NEW v \in 0 .. MaxVersion, NEW o \in Clients \cup {None}, NEW edit \in BOOLEAN, InterjectQueuedPrompt(u, v, o, edit)
      PROVE  QueueInv' /\ RunningIsFront'
  <2>1. ActKept
    BY <1>8, ActorPlaces, SendNowPlace, ActKeptBy DEF InterjectQueuedPrompt, AtCommand
  <2>2. UNCHANGED <<running, tstat, pending, buffer, outcome>> /\ lock = None /\ lock' = None
    BY <1>8 DEF InterjectQueuedPrompt, EditFrame
  <2> DEFINE rest == Drop(queue, u)
             slot == SendNowSlot(rest, running, sendNow)
  <2>3. CASE queue' = queue
    BY <2>1, <2>2, <2>3, OutsideQueue
  <2>4. CASE queue' = InsertSlot(rest, slot, u) /\ RowMatches(u, v, o)
    <3>1. u \in Items(queue) /\ u # running /\ u \in Ids
      BY <2>4, KindsAreIds DEF RowMatches, Rows, Waiting
    <3>2. /\ rest \in Seq(Ids) /\ Distinct(rest) /\ Items(rest) = Items(queue) \cap (Items(queue) \ {u})
          /\ queue # <<>> /\ queue[1] \in Items(queue) \ {u} => rest # <<>> /\ rest[1] = queue[1]
      BY <1>1, KeepFacts DEF Drop, QueueInv, QueueFresh
    <3> HIDE DEF rest
    <3>3. slot \in 0 .. Len(rest) /\ (rest # <<>> /\ rest[1] = running => slot > 0)
      BY <3>2, SendNowSlotFacts DEF FrontSlot
    <3> HIDE DEF slot
    <3>4. u \notin Items(rest)
      BY <3>2
    <3>5. Items(queue') \subseteq Items(queue) /\ Distinct(queue')
      BY <2>4, <3>1, <3>2, <3>3, <3>4, InsertSlotFacts
    <3>6. (running # None /\ act.pc # "ended") => (queue' # <<>> /\ queue'[1] = queue[1])
      <4>1. queue # <<>> => queue[1] \in Items(queue)
        BY <1>1, ItemsOf
      <4> SUFFICES ASSUME running # None, act.pc # "ended"
                   PROVE  queue' # <<>> /\ queue'[1] = queue[1]
        OBVIOUS
      <4>2. queue # <<>> /\ queue[1] = running /\ running # u
        BY <3>1 DEF RunningIsFront
      <4>3. rest # <<>> /\ rest[1] = running
        BY <3>2, <4>1, <4>2
      <4>4. slot > 0
        BY <3>3, <4>3
      <4>5. /\ InsertSlot(rest, slot, u) # <<>>
            /\ slot > 0 => InsertSlot(rest, slot, u)[1] = rest[1]
        BY <3>1, <3>2, <3>3, InsertSlotFacts
      <4> QED  BY <2>4, <4>2, <4>3, <4>4, <4>5, Zenon
    <3> QED  BY <2>1, <2>2, <3>5, <3>6, QueueShrunk
  <2> QED  BY <1>8, <2>3, <2>4, Zenon DEF InterjectQueuedPrompt
<1>9. ASSUME NEW f \in Fallbacks, Interject(f)
      PROVE  QueueInv' /\ RunningIsFront'
  <2>1. ActKept
    <3>1. CASE act' = act
      BY <3>1 DEF ActKept
    <3>2. CASE act' = [AtPc("fallback") EXCEPT !.out = <<f>>]
      <4>1. act'.out = <<f>> /\ act'.rewound = None
        BY <3>2 DEF AtPc
      <4>2. Items(<<f>>) = {f} /\ f \notin Notes /\ None \notin Notes
        BY KindsAssumption, ConstantsAssumption, KindsAreIds DEF Items, Synthetic
      <4>3. act.pc # "ended"
        BY <1>9 DEF Interject, AtCommand
      <4> QED  BY <4>1, <4>2, <4>3 DEF ActKept
    <3> QED  BY <1>9, <3>1, <3>2 DEF Interject
  <2>2. UNCHANGED <<queue, running, pending, buffer, lock, tstat>>
    BY <1>9 DEF Interject
  <2>3. \A i \in Ids : outcome'[i] # outcome[i] =>
            /\ outcome'[i] \in Incoming => outcome[i] \in Incoming
            /\ i \in Notes => outcome[i] # "held"
    <3>1. f \notin Notes
      BY KindsAssumption DEF Synthetic
    <3> QED  BY <1>9, <3>1 DEF Interject, SetOutcome, Incoming
  <2> QED  BY <2>1, <2>2, <2>3, OutsideQueue
<1>10. ASSUME NEW n \in Notes, InjectNotification(n)
      PROVE  QueueInv' /\ RunningIsFront'
  <2>1. ActKept
    <3>1. act' = act \/ (act' = AtPc("drain") /\ act.pc # "ended")
      BY <1>10, Zenon DEF InjectNotification, AtCommand
    <3>2. CASE act' = act
      BY <3>2 DEF ActKept
    <3>3. CASE act' = AtPc("drain") /\ act.pc # "ended"
      BY <3>3, ActorPlaces, ActKeptBy DEF ActorPc
    <3> QED  BY <3>1, <3>2, <3>3
  <2> DEFINE buffered == turnActive /\ n \in NextNotes
             list == Append(IF buffered THEN buffer ELSE pending, n)
             kept == LastOf(list, NoteCap)
  <2>2. /\ UNCHANGED <<queue, running, lock, tstat>> /\ outcome[n] = "new"
        /\ outcome' = [i \in Ids |-> IF i = n THEN "held"
                                     ELSE IF i \in Items(list) \ Items(kept) THEN "shed"
                                     ELSE outcome[i]]
        /\ (IF buffered THEN buffer' = kept /\ pending' = pending
                         ELSE pending' = kept /\ buffer' = buffer)
    BY <1>10, Zenon DEF InjectNotification, NoteFrame
  <2>3. /\ Items(kept) \subseteq Items(list)
        /\ Items(list) = (IF buffered THEN Items(buffer) ELSE Items(pending)) \cup {n}
    <3>1. (IF buffered THEN buffer ELSE pending) \in Seq(Notes)
      BY <1>1
    <3>2. list \in Seq(Notes) /\ Items(list) = Items(IF buffered THEN buffer ELSE pending) \cup {n}
      BY <3>1, AppendFacts
    <3> HIDE DEF list
    <3>3. NoteCap \in Nat
      BY ConstantsAssumption
    <3>4. Items(kept) \subseteq Items(list)
      BY <3>2, <3>3, LastOfFacts
    <3> QED  BY <3>2, <3>4
  <2> HIDE DEF kept, list, buffered
  <2>4. \A i \in Ids : outcome'[i] \in Incoming => outcome[i] \in Incoming
    BY <2>2 DEF Incoming
  <2>5. QueueFresh' /\ RunningIsFront'
    BY <1>1, <2>1, <2>2, <2>4, FreshStable DEF QueueInv, ActKept
  <2>6. n \notin Items(pending) \cup Items(buffer)
    BY <2>2, HeldFacts
  <2>7. /\ \A m \in Items(pending') \cup Items(buffer') : outcome'[m] = "held"
        /\ Items(pending') \cap Items(buffer') = {}
    <3>1. CASE buffered
      BY <2>2, <2>3, <2>6, <3>1, HeldFacts, KindsAreIds
    <3>2. CASE ~ buffered
      BY <2>2, <2>3, <2>6, <3>2, HeldFacts, KindsAreIds
    <3> QED  BY <3>1, <3>2
  <2>8. NotesHeld'
    BY <2>1, <2>4, <2>7, KindsAreIds, NotesMoved DEF QueueInv
  <2> QED  BY <2>5, <2>8 DEF QueueInv
<1>11. ASSUME NEW w \in MonitorWakes, DropMonitorNotifications(w)
      PROVE  QueueInv' /\ RunningIsFront'
  <2> DEFINE stale == {n \in NextNotes : TaskOf[n] = w}
  <2>1. ActKept /\ UNCHANGED <<queue, running, lock, tstat>>
    BY <1>11 DEF DropMonitorNotifications, NoteFrame, ActKept
  <2>2. /\ pending' = Keep(pending, Notes \ stale) /\ buffer' = Keep(buffer, Notes \ stale)
        /\ outcome[w] = "purge" /\ w \notin Notes
        /\ outcome' = [i \in Ids |->
                          IF i = w THEN "sent"
                          ELSE IF i \in stale \cap (Items(pending) \cup Items(buffer))
                          THEN "shed" ELSE outcome[i]]
    BY <1>11, KindsAssumption, ConstantsAssumption DEF DropMonitorNotifications
  <2> HIDE DEF stale
  <2>3. /\ Items(pending') = Items(pending) \cap (Notes \ stale)
        /\ Items(buffer') = Items(buffer) \cap (Notes \ stale)
    BY <1>1, <2>2, KeepFacts
  <2>4. \A i \in Ids : outcome'[i] \in Incoming => outcome[i] \in Incoming
    BY <2>2 DEF Incoming
  <2>5. QueueFresh' /\ RunningIsFront'
    BY <1>1, <2>1, <2>4, FreshStable DEF QueueInv, ActKept
  <2>6. /\ \A n \in Items(pending') \cup Items(buffer') : outcome'[n] = "held"
        /\ Items(pending') \cap Items(buffer') = {}
    BY <2>2, <2>3, HeldFacts
  <2>7. NotesHeld'
    BY <2>1, <2>4, <2>6, KindsAreIds, NotesMoved DEF QueueInv
  <2> QED  BY <2>5, <2>7 DEF QueueInv
<1>12. ASSUME NEW rewind \in BOOLEAN, NEW kill \in BOOLEAN, Cancel(rewind, kill)
      PROVE  QueueInv' /\ RunningIsFront'
  <2>1. ActKept
    BY <1>12, ActKeptBy DEF Cancel, AtPc, AtCommand
  <2>2. /\ UNCHANGED <<queue, running, pending, buffer, outcome>>
        /\ lock' = lock \/ (running = None /\ queue # <<>>)
        /\ \A i \in Ids : tstat[i] = "none" => tstat'[i] = "none"
    BY <1>12, <1>1 DEF Cancel
  <2> QED  BY <2>1, <2>2, OutsideQueue
<1>13. ASSUME Shutdown
      PROVE  QueueInv' /\ RunningIsFront'
  <2>1. ActKept /\ act'.pc = "ended"
    BY <1>13, ActorPlaces, ActKeptBy DEF Shutdown, AtCommand, ActorPc
  <2>2. /\ UNCHANGED <<running, tstat, buffer>> /\ lock' = None /\ pending' = <<>>
        /\ queue' = Keep(queue, KeptAtShutdown)
        /\ outcome' = [i \in Ids |-> IF i \in Synthetic \cap Items(queue) THEN "dropped"
                                     ELSE IF i \in Items(pending) THEN "shed" ELSE outcome[i]]
    BY <1>13 DEF Shutdown
  <2>3. Items(queue') \subseteq Items(queue) /\ Distinct(queue')
    BY <1>1, <2>2, KeepFacts DEF QueueInv, QueueFresh
  <2>4. \A i \in Ids : outcome'[i] \in Incoming => outcome[i] \in Incoming
    BY <2>2 DEF Incoming
  <2>5. QueueFresh' /\ RunningIsFront'
    BY <1>1, <2>1, <2>2, <2>3, <2>4, FreshShrunk DEF QueueInv
  <2>6. /\ \A n \in Items(pending') \cup Items(buffer') : outcome'[n] = "held"
        /\ Items(pending') \cap Items(buffer') = {}
    BY <2>2, HeldFacts
  <2>7. NotesHeld'
    BY <2>1, <2>4, <2>6, KindsAreIds, NotesMoved DEF QueueInv
  <2> QED  BY <2>5, <2>7 DEF QueueInv
<1>14. ASSUME QueueFallback
      PROVE  QueueInv' /\ RunningIsFront'
  <2> DEFINE left == Keep(act.out, {f \in Fallbacks : outcome[f] = "interject"})
             f == left[Len(left)]
  <2>1. ActKept
    BY <1>14, <1>1, NextPlace, ActorPlaces, ActKeptBy DEF QueueFallback
  <2>2. f \in Fallbacks /\ outcome[f] = "interject"
    BY <1>14, NextFallback
  <2>3. /\ queue' = InsertSlot(queue, FrontSlot(queue, running), f)
        /\ outcome' = [i \in Ids |-> IF i \in {f} THEN "queued" ELSE outcome[i]]
        /\ UNCHANGED <<running, tstat, pending, buffer>> /\ lock' = None
    BY <1>14 DEF QueueFallback, SetOutcome
  <2> HIDE DEF left, f
  <2>4. f \in Ids /\ f \notin Notes /\ f \notin Items(queue)
    BY <2>2, KindsAreIds, KindsAssumption DEF QueueInv, QueueFresh, Incoming, Synthetic
  <2>5. /\ FrontSlot(queue, running) \in 0 .. Len(queue)
        /\ queue # <<>> /\ queue[1] = running => FrontSlot(queue, running) > 0
    BY <1>1, SendNowSlotFacts DEF FrontSlot
  <2>6. Items(queue') \subseteq Items(queue) \cup {f} /\ Distinct(queue') /\ queue' # <<>>
    BY <1>1, <2>3, <2>4, <2>5, InsertSlotFacts DEF QueueInv, QueueFresh
  <2>7. (running # None /\ act.pc # "ended") => (queue' # <<>> /\ queue'[1] = queue[1])
    <3> SUFFICES ASSUME running # None, act.pc # "ended"
                 PROVE  queue' # <<>> /\ queue'[1] = queue[1]
      OBVIOUS
    <3>1. queue # <<>> /\ queue[1] = running
      BY DEF RunningIsFront
    <3>2. FrontSlot(queue, running) > 0
      BY <2>5, <3>1
    <3>3. /\ InsertSlot(queue, FrontSlot(queue, running), f) # <<>>
          /\ FrontSlot(queue, running) > 0 =>
                InsertSlot(queue, FrontSlot(queue, running), f)[1] = queue[1]
      BY <1>1, <2>4, <2>5, InsertSlotFacts, SMTT(30)
    <3> QED  BY <2>3, <3>2, <3>3, Zenon
  <2>8. /\ {f} \in SUBSET Ids /\ outcome[f] \in Incoming /\ outcome'[f] \notin Incoming
        /\ \A i \in Ids : outcome'[i] # outcome[i] =>
              outcome'[i] \notin Incoming /\ (i \in Notes => outcome[i] # "held")
    BY <2>2, <2>3, <2>4 DEF Incoming
  <2> QED  BY <2>1, <2>3, <2>6, <2>7, <2>8, QueueEdited
<1>15. ASSUME ActorSkip
      PROVE  QueueInv' /\ RunningIsFront'
  <2>1. ActKept
    BY <1>15, <1>1, ActorPlaces, NextPlace, ActKeptBy DEF ActorSkip
  <2>2. /\ UNCHANGED <<queue, running, pending, buffer, outcome>>
        /\ lock' = lock \/ (running = None /\ queue # <<>>)
        /\ \A i \in Ids : tstat[i] = "none" => tstat'[i] = "none"
    BY <1>15, <1>1 DEF ActorSkip, StartFrame
  <2> QED  BY <2>1, <2>2, OutsideQueue
<1>16. ASSUME ActorPin
      PROVE  QueueInv' /\ RunningIsFront'
  <2>1. ActKept
    BY <1>16, <1>1, ActorMoves, ActKeptBy DEF ActorPin, ActorPc
  <2>2. /\ UNCHANGED <<queue, running, pending, buffer, outcome>>
        /\ lock' = lock \/ (running = None /\ queue # <<>>)
        /\ \A i \in Ids : tstat[i] = "none" => tstat'[i] = "none"
    BY <1>16, <1>1 DEF ActorPin, StartFrame, PinFront
  <2> QED  BY <2>1, <2>2, OutsideQueue
<1>17. ASSUME ActorPromote
      PROVE  QueueInv' /\ RunningIsFront'
  <2>1. ActKept
    BY <1>17, <1>1, ActorPlaces, NextPlace, ActKeptBy DEF ActorPromote
  <2>2. PromoteFront("actor") /\ UNCHANGED <<outcome, pending, buffer>>
    BY <1>17 DEF ActorPromote, StartFrame
  <2> QED  BY <2>1, <2>2, PromoteFresh
<1>18. ASSUME CancelBegin
      PROVE  QueueInv' /\ RunningIsFront'
  <2>1. ActKept
    <3>1. LET a == [act EXCEPT !.pc = "cancel_take", !.snap = pin]
          IN  a.out = act.out /\ a.rewound = act.rewound
      BY <1>1 DEF ActorState
    <3> QED  BY <1>18, <3>1, ActKeptBy DEF CancelBegin
  <2>2. UNCHANGED <<queue, running, pending, buffer, lock, tstat>>
    BY <1>18 DEF CancelBegin
  <2>3. \A i \in Ids : outcome'[i] # outcome[i] =>
            /\ outcome'[i] \in Incoming => outcome[i] \in Incoming
            /\ i \in Notes => outcome[i] # "held"
    <3>1. Items(interj) \subseteq Fallbacks /\ Fallbacks \cap Notes = {}
      BY ItemsOf, KindsAssumption DEF TypeOK, Synthetic
    <3>2. outcome' = [i \in Ids |-> IF i \in Items(interj) THEN "cleared" ELSE outcome[i]]
      BY <1>18 DEF CancelBegin, SetOutcome
    <3> QED  BY <3>1, <3>2 DEF Incoming
  <2> QED  BY <2>1, <2>2, <2>3, OutsideQueue
<1>19. ASSUME CancelTake
      PROVE  QueueInv' /\ RunningIsFront'
  <2> DEFINE rewinding == act.rewind /\ rewindable
             rewound == IF rewinding /\ queue # <<>> THEN queue[1] ELSE None
             out == IF rewound # None THEN <<>> ELSE CancelledItems(act.kill)
             shed == IF act.kill THEN Items(pending) \cup Items(buffer) ELSE {}
  <2>1. /\ act' = [act EXCEPT !.pc = "cancel_goal", !.rewound = rewound, !.out = out,
                             !.task = IF rewinding THEN None ELSE running]
        /\ act.pc = "cancel_take" /\ lock' = None /\ running' = None
    BY <1>19 DEF CancelTake
  <2>2. /\ pending' = (IF act.kill THEN <<>> ELSE pending \o buffer) /\ buffer' = <<>>
        /\ outcome' = [i \in Ids |-> IF i \in shed THEN "shed" ELSE outcome[i]]
    BY <1>19 DEF CancelTake, SetOutcome
  <2>3. \A i \in Ids : tstat[i] = "none" => tstat'[i] = "none"
    BY <1>19, <1>1 DEF CancelTake, Abort
  <2>4. queue' = (IF rewound # None THEN Tail(queue) ELSE SubSeq(queue, Len(out) + 1, Len(queue)))
    BY <1>19 DEF CancelTake
  <2>5. rewound \in Ids \cup {None} /\ out \in Seq(Ids) /\ Len(out) <= Len(queue)
    BY CancelTakeType
  <2>6. Items(out) \subseteq Items(queue) /\ (rewound # None => queue # <<>> /\ rewound \in Items(queue))
    <3>1. queue # <<>> => queue[1] \in Items(queue)
      BY <1>1, ItemsOf
    <3>2. Items(<<>>) = {} /\ Items(<<queue[1]>>) = {queue[1]}
      BY DEF Items
    <3>3. out = <<>> \/ out = queue \/ (queue # <<>> /\ out = <<queue[1]>>)
      BY DEF CancelledItems
    <3>4. rewound # None => queue # <<>> /\ rewound = queue[1]
      OBVIOUS
    <3> HIDE DEF out, rewound
    <3> QED  BY <3>1, <3>2, <3>3, <3>4, Zenon
  <2>7. rewound = None /\ queue # <<>> => Len(out) > 0
    BY <1>1 DEF CancelledItems
  <2> HIDE DEF rewinding, rewound, out
  <2>8. Distinct(queue') /\ Items(queue') \subseteq Items(queue) \ {running}
    <3>1. Distinct(queue) /\ None \notin Items(queue) /\ (running # None => queue # <<>> /\ running = queue[1])
      BY <1>1, <2>1, ItemsOf, ConstantsAssumption DEF QueueInv, QueueFresh, RunningIsFront
    <3>2. CASE rewound # None
      <4>1. queue' = Tail(queue) /\ queue # <<>>
        BY <2>4, <2>6, <3>2
      <4>2. Distinct(Tail(queue)) /\ Items(Tail(queue)) \subseteq Items(queue) \ {queue[1]}
        BY <1>1, <3>1, <4>1, TailFacts
      <4> QED  BY <3>1, <4>1, <4>2, Zenon
    <3>3. CASE rewound = None
      <4>1. queue' = SubSeq(queue, Len(out) + 1, Len(queue)) /\ Len(out) \in Nat
        BY <2>4, <2>5, <3>3
      <4>2. /\ Distinct(queue') /\ Items(queue') \subseteq Items(queue)
            /\ Len(out) > 0 => queue[1] \notin Items(queue')
        BY <1>1, <2>5, <3>1, <4>1, SuffixFacts
      <4> QED  BY <2>7, <3>1, <3>3, <4>2, Zenon
    <3> QED  BY <3>2, <3>3
  <2>9. \A i \in Ids : outcome'[i] \in Incoming => outcome[i] \in Incoming
    BY <2>2 DEF Incoming
  <2>10. QueueFresh' /\ RunningIsFront'
    BY <1>1, <2>1, <2>3, <2>8, <2>9, FreshPopped DEF QueueInv
  <2>11. /\ \A n \in Items(pending') \cup Items(buffer') : outcome'[n] = "held"
         /\ Items(pending') \cap Items(buffer') = {}
    <3>1. Items(pending \o buffer) = Items(pending) \cup Items(buffer)
      BY <1>1, ConcatFacts
    <3>2. CASE act.kill
      BY <2>2, <3>2, HeldFacts
    <3>3. CASE ~ act.kill
      BY <2>2, <3>1, <3>3, HeldFacts
    <3> QED  BY <3>2, <3>3
  <2>12. \A n \in Notes : n \in Items(act'.out) \/ n = act'.rewound => outcome'[n] \notin Incoming
    <3>1. act'.out = out /\ act'.rewound = rewound
      BY <1>1, <2>1 DEF ActorState
    <3>2. \A n \in Notes : n \in Items(queue) => outcome[n] \notin Incoming
      BY KindsAreIds DEF QueueInv, QueueFresh
    <3>3. None \notin Notes
      BY ConstantsAssumption, KindsAreIds
    <3> QED  BY <2>6, <2>9, <3>1, <3>2, <3>3, KindsAreIds
  <2>13. NotesHeld'
    <3>1. Items(pending)' = Items(pending') /\ Items(buffer)' = Items(buffer') /\ Items(act.out)' = Items(act'.out)
      BY DEF Items
    <3> HIDE DEF Incoming
    <3> QED  BY <2>11, <2>12, <3>1 DEF NotesHeld
  <2> QED  BY <2>10, <2>13 DEF QueueInv
<1>20. ASSUME CancelGoal
      PROVE  QueueInv' /\ RunningIsFront'
  <2>1. ActKept
    BY <1>20, <1>1, ActorMoves, ActKeptBy DEF CancelGoal, ActorPc
  <2>2. /\ UNCHANGED <<queue, running, pending, buffer, outcome>>
        /\ lock' = lock \/ (running = None /\ queue # <<>>)
        /\ \A i \in Ids : tstat[i] = "none" => tstat'[i] = "none"
    BY <1>20, <1>1 DEF CancelGoal, CancelFrame
  <2> QED  BY <2>1, <2>2, OutsideQueue
<1>21. ASSUME CancelAbort
      PROVE  QueueInv' /\ RunningIsFront'
  <2>1. ActKept
    BY <1>21, <1>1, ActorMoves, ActKeptBy DEF CancelAbort, ActorPc
  <2>2. /\ UNCHANGED <<queue, running, pending, buffer, outcome>>
        /\ lock' = lock \/ (running = None /\ queue # <<>>)
        /\ \A i \in Ids : tstat[i] = "none" => tstat'[i] = "none"
    BY <1>21, <1>1 DEF CancelAbort, CancelFrame, Abort
  <2> QED  BY <2>1, <2>2, OutsideQueue
<1>22. ASSUME CancelDone
      PROVE  QueueInv' /\ RunningIsFront'
  <2>1. ActKept
    BY <1>22, <1>1, ActorMoves, ActorPlaces, ActKeptBy DEF CancelDone, ActorPc
  <2>2. UNCHANGED <<queue, running, pending, buffer, lock, tstat>>
    BY <1>22 DEF CancelDone, CancelFrame
  <2>3. \A i \in Ids : outcome'[i] # outcome[i] =>
            /\ outcome'[i] \in Incoming => outcome[i] \in Incoming
            /\ i \in Notes => outcome[i] # "held"
    <3>1. \/ outcome' = [i \in Ids |-> IF i \in {act.rewound} THEN "rewound" ELSE outcome[i]]
          \/ outcome' = [i \in Ids |-> IF i \in Items(act.out) THEN "cancelled" ELSE outcome[i]]
      BY <1>22, Zenon DEF CancelDone, SetOutcome
    <3>2. \A n \in Notes : n \in Items(act.out) \/ n = act.rewound => outcome[n] # "held"
      BY DEF QueueInv, NotesHeld, Incoming
    <3> QED  BY <3>1, <3>2 DEF Incoming
  <2> QED  BY <2>1, <2>2, <2>3, OutsideQueue
<1>23. ASSUME CancelResume
      PROVE  QueueInv' /\ RunningIsFront'
  <2>1. ActKept
    BY <1>23, ActorPlaces, ActKeptBy DEF CancelResume
  <2>2. /\ UNCHANGED <<queue, running, pending, buffer, outcome>>
        /\ lock' = lock \/ (running = None /\ queue # <<>>)
        /\ \A i \in Ids : tstat[i] = "none" => tstat'[i] = "none"
    BY <1>23, <1>1 DEF CancelResume, CancelFrame
  <2> QED  BY <2>1, <2>2, OutsideQueue
<1>24. ASSUME TakeCompletion
      PROVE  QueueInv' /\ RunningIsFront'
  <2>1. ActKept
    BY <1>24, ActKeptBy DEF TakeCompletion, AtPc
  <2>2. /\ UNCHANGED <<queue, running, pending, buffer, outcome>>
        /\ lock' = lock \/ (running = None /\ queue # <<>>)
        /\ \A i \in Ids : tstat[i] = "none" => tstat'[i] = "none"
    BY <1>24, <1>1 DEF TakeCompletion, CompleteFrame
  <2> QED  BY <2>1, <2>2, OutsideQueue
<1>25. ASSUME CompleteGoal
      PROVE  QueueInv' /\ RunningIsFront'
  <2>1. ActKept
    BY <1>25, <1>1, ActorMoves, ActKeptBy DEF CompleteGoal, ActorPc
  <2>2. /\ UNCHANGED <<queue, running, pending, buffer, outcome>>
        /\ lock' = lock \/ (running = None /\ queue # <<>>)
        /\ \A i \in Ids : tstat[i] = "none" => tstat'[i] = "none"
    BY <1>25, <1>1 DEF CompleteGoal, CompleteFrame
  <2> QED  BY <2>1, <2>2, OutsideQueue
<1>26. ASSUME Complete
      PROVE  QueueInv' /\ RunningIsFront'
  <2>1. ActKept
    BY <1>26, ActorPlaces, ActKeptBy DEF Complete, ActorPc
  <2>2. /\ UNCHANGED <<tstat, pending, buffer>> /\ lock = None /\ lock' = None
        /\ act.pc = "complete"
    BY <1>26 DEF Complete, CompleteFrame
  <2>3. CASE Owned(act.id)
    <3>1. queue # <<>> /\ queue[1] = act.id /\ Distinct(queue)
      BY <2>3 DEF Owned, QueueInv, QueueFresh
    <3>2. /\ queue' = Tail(queue) /\ running' = None
          /\ outcome' = [i \in Ids |-> IF i \in {act.id} THEN "done" ELSE outcome[i]]
      BY <1>26, <2>3, Zenon DEF Complete, ReleasesTask, SetOutcome
    <3>3. running = None \/ running = queue[1]
      BY <2>2 DEF RunningIsFront
    <3>4. Distinct(queue') /\ Items(queue') \subseteq Items(queue) \ {running}
      <4>1. Distinct(Tail(queue)) /\ Items(Tail(queue)) \subseteq Items(queue) \ {queue[1]}
        BY <1>1, <3>1, TailFacts
      <4>2. None \notin Items(queue)
        BY <1>1, ItemsOf, ConstantsAssumption
      <4> QED  BY <3>2, <3>3, <4>1, <4>2, Zenon
    <3>5. \A i \in Ids : outcome'[i] \in Incoming => outcome[i] \in Incoming
      BY <3>2 DEF Incoming
    <3>6. QueueFresh' /\ RunningIsFront'
      BY <1>1, <2>2, <3>2, <3>4, <3>5, FreshPopped DEF QueueInv
    <3>7. act.id \in Items(queue)
      BY <1>1, <3>1, ItemsOf
    <3>8. /\ \A n \in Items(pending') \cup Items(buffer') : outcome'[n] = "held"
          /\ Items(pending') \cap Items(buffer') = {}
      BY <2>2, <3>2, <3>7, HeldFacts
    <3>9. NotesHeld'
      BY <2>1, <3>5, <3>8, KindsAreIds, NotesMoved DEF QueueInv
    <3> QED  BY <3>6, <3>9 DEF QueueInv
  <2>4. CASE ~ Owned(act.id)
    <3>1. /\ queue' = queue /\ (running' = IF running = act.id THEN None ELSE running)
          /\ outcome' = [i \in Ids |-> IF i \in {} THEN "done" ELSE outcome[i]]
      BY <1>26, <2>4, Zenon DEF Complete, ReleasesTask, SetOutcome
    <3>2. running' = running
      BY <2>2, <2>4, <3>1 DEF RunningIsFront, Owned
    <3>3. \A i \in Ids : outcome'[i] = outcome[i]
      BY <3>1
    <3> QED  BY <2>1, <2>2, <3>1, <3>2, <3>3, OutsideQueue
  <2> QED  BY <2>3, <2>4
<1>27. ASSUME FlushTurnEnd
      PROVE  QueueInv' /\ RunningIsFront'
  <2>1. ActKept
    <3>1. \/ act' = StartThen("drain")
          \/ act' = [AtPc("fallback") EXCEPT !.out = interj, !.next = "drain"]
      BY <1>27 DEF FlushTurnEnd
    <3>2. act.pc # "ended" /\ Items(interj) \cap Notes = {} /\ None \notin Notes
      BY <1>27, ItemsOf, KindsAssumption, ConstantsAssumption, KindsAreIds
         DEF FlushTurnEnd, TypeOK, Synthetic
    <3>3. CASE act' = StartThen("drain")
      BY <3>2, <3>3, ActorPlaces, ActKeptBy
    <3>4. CASE act' = [AtPc("fallback") EXCEPT !.out = interj, !.next = "drain"]
      <4>1. act'.out = interj /\ act'.rewound = None
        BY <3>4 DEF AtPc
      <4> QED  BY <3>2, <4>1 DEF ActKept
    <3> QED  BY <3>1, <3>3, <3>4
  <2>2. /\ UNCHANGED <<queue, running, lock, tstat, outcome>>
        /\ pending' = pending \o buffer /\ buffer' = <<>>
    BY <1>27 DEF FlushTurnEnd, CompleteFrame
  <2>3. QueueFresh' /\ RunningIsFront'
    BY <1>1, <2>1, <2>2, FreshStable DEF QueueInv, ActKept
  <2>4. /\ \A n \in Items(pending') \cup Items(buffer') : outcome'[n] = "held"
        /\ Items(pending') \cap Items(buffer') = {}
    <3>1. Items(pending \o buffer) = Items(pending) \cup Items(buffer)
      BY <1>1, ConcatFacts
    <3> QED  BY <2>2, <3>1, HeldFacts
  <2>5. NotesHeld'
    BY <2>1, <2>2, <2>4, NotesMoved DEF QueueInv
  <2> QED  BY <2>3, <2>5 DEF QueueInv
<1>28. ASSUME NEW all \in BOOLEAN, DrainNotifications(all)
      PROVE  QueueInv' /\ RunningIsFront'
  <2> DEFINE batch == pending \o buffer
             shown == IF all THEN <<>> ELSE Keep(batch, Notes \ GoalTurnNotes)
  <2>1. ActKept
    <3>1. act.pc # "ended" /\ (act' = Select \/ act' = StartThen("select"))
      BY <1>28 DEF DrainNotifications
    <3> QED  BY <3>1, ActorPlaces, ActKeptBy DEF ActorPc
  <2>2. UNCHANGED <<running, tstat>> /\ lock = None /\ lock' = None
    BY <1>28 DEF DrainNotifications
  <2>3. CASE UNCHANGED <<queue, pending, buffer, outcome>>
    BY <2>1, <2>2, <2>3, OutsideQueue
  <2>4. CASE /\ running = None /\ pending' = <<>> /\ buffer' = <<>>
             /\ outcome' = [i \in Ids |->
                               IF i \notin Items(batch) THEN outcome[i]
                               ELSE IF i \notin Items(shown) THEN "shed"
                               ELSE IF i = shown[1] THEN "queued" ELSE "merged"]
             /\ queue' = IF shown = <<>> THEN queue ELSE Append(queue, shown[1])
    <3>1. /\ Items(batch) = Items(pending) \cup Items(buffer)
          /\ shown # <<>> => shown[1] \in Notes /\ shown[1] \in Items(batch) /\ shown[1] \in Items(shown)
      <4>1. /\ shown \in Seq(Notes) /\ Items(batch) = Items(pending) \cup Items(buffer)
            /\ shown # <<>> => shown[1] \in Notes /\ shown[1] \in Items(batch)
        BY DrainedFacts
      <4> HIDE DEF shown
      <4> QED  BY <4>1, ItemsOf
    <3> HIDE DEF batch, shown
    <3>2. \A i \in Ids : outcome'[i] \in Incoming => outcome[i] \in Incoming
      BY <2>4 DEF Incoming
    <3>3. QueueFresh' /\ RunningIsFront'
      <4>1. CASE shown = <<>>
        BY <1>1, <2>1, <2>2, <2>4, <3>2, <4>1, FreshStable DEF QueueInv, ActKept
      <4>2. CASE shown # <<>>
        <5> DEFINE n == shown[1]
        <5>1. n \in Ids /\ outcome[n] = "held" /\ n \notin Items(queue)
          BY <3>1, <4>2, HeldFacts
        <5>2. outcome'[n] = "queued" /\ queue' = Append(queue, n)
          BY <2>4, <3>1, <4>2, <5>1
        <5> HIDE DEF n
        <5>3. Items(queue') \subseteq Items(queue) \cup {n} /\ Distinct(queue')
          BY <1>1, <5>1, <5>2, AppendFacts DEF QueueInv, QueueFresh
        <5>4. {n} \in SUBSET Ids /\ outcome[n] \in Incoming /\ outcome'[n] \notin Incoming
          BY <5>1, <5>2 DEF Incoming
        <5> QED  BY <1>1, <2>1, <2>2, <2>4, <3>2, <5>3, <5>4, FreshEdited DEF QueueInv, ActKept
      <4> QED  BY <4>1, <4>2
    <3>4. NotesHeld'
      BY <2>1, <2>4, <3>2, KindsAreIds, HeldFacts, NotesMoved DEF QueueInv
    <3> QED  BY <3>3, <3>4 DEF QueueInv
  <2> QED  BY <1>28, <2>3, <2>4, Zenon DEF DrainNotifications, IdleForInjection
<1>29. ASSUME NEW s \in Sides, SideSkip(s)
      PROVE  QueueInv' /\ RunningIsFront'
  <2>1. ActKept
    BY <1>29 DEF SideSkip, ActKept
  <2>2. /\ UNCHANGED <<queue, running, pending, buffer, outcome>>
        /\ lock' = lock \/ (running = None /\ queue # <<>>)
        /\ \A i \in Ids : tstat[i] = "none" => tstat'[i] = "none"
    BY <1>29, <1>1 DEF SideSkip, StartFrame
  <2> QED  BY <2>1, <2>2, OutsideQueue
<1>30. ASSUME NEW s \in Sides, SidePin(s)
      PROVE  QueueInv' /\ RunningIsFront'
  <2>1. ActKept
    BY <1>30 DEF SidePin, ActKept
  <2>2. /\ UNCHANGED <<queue, running, pending, buffer, outcome>>
        /\ lock' = lock \/ (running = None /\ queue # <<>>)
        /\ \A i \in Ids : tstat[i] = "none" => tstat'[i] = "none"
    BY <1>30, <1>1 DEF SidePin, StartFrame, PinFront
  <2> QED  BY <2>1, <2>2, OutsideQueue
<1>31. ASSUME NEW s \in Sides, SidePromote(s)
      PROVE  QueueInv' /\ RunningIsFront'
  <2>1. ActKept
    BY <1>31 DEF SidePromote, ActKept
  <2>2. PromoteFront(s) /\ UNCHANGED <<outcome, pending, buffer>>
    BY <1>31 DEF SidePromote, StartFrame
  <2> QED  BY <2>1, <2>2, PromoteFresh
<1>32. ASSUME NEW r \in Resumes, ResumeQueue(r)
      PROVE  QueueInv' /\ RunningIsFront'
  <2>1. ActKept
    BY <1>32 DEF ResumeQueue, ActKept
  <2>2. r \in Ids /\ r \notin Notes /\ outcome[r] \in Incoming /\ QueueInput(r, FALSE)
    BY <1>32, KindsAreIds, KindsAssumption DEF ResumeQueue, Incoming, Synthetic
  <2>3. UNCHANGED <<running, tstat, pending, buffer>> /\ lock' = None
    BY <1>32 DEF ResumeQueue
  <2>4. /\ Items(queue') \subseteq Items(queue) \cup {r} /\ Distinct(queue')
        /\ (running # None /\ act.pc # "ended") => (queue' # <<>> /\ queue'[1] = queue[1])
        /\ outcome'[r] = "queued"
        /\ \A i \in Ids : outcome'[i] # outcome[i] =>
              outcome'[i] \notin Incoming /\ (i \in Notes => outcome[i] # "held")
    BY <2>2, QueueInputFresh
  <2>5. {r} \in SUBSET Ids /\ outcome'[r] \notin Incoming
    BY <2>2, <2>4 DEF Incoming
  <2> QED  BY <2>1, <2>2, <2>3, <2>4, <2>5, QueueEdited
<1>33. ASSUME NEW t \in Ids, TurnStart(t)
      PROVE  QueueInv' /\ RunningIsFront'
  <2>1. ActKept
    BY <1>33 DEF TurnStart, TurnFrame, ActKept
  <2>2. /\ UNCHANGED <<queue, running, pending, buffer, outcome, lock>>
        /\ \A i \in Ids : tstat[i] = "none" => tstat'[i] = "none"
    BY <1>33, <1>1 DEF TurnStart, TurnFrame
  <2> QED  BY <2>1, <2>2, OutsideQueue
<1>34. ASSUME NEW t \in Ids, TurnEmit(t)
      PROVE  QueueInv' /\ RunningIsFront'
  <2>1. ActKept
    BY <1>34 DEF TurnEmit, TurnFrame, ActKept
  <2>2. /\ UNCHANGED <<queue, running, pending, buffer, outcome, lock>>
        /\ \A i \in Ids : tstat[i] = "none" => tstat'[i] = "none"
    BY <1>34, <1>1 DEF TurnEmit, TurnFrame
  <2> QED  BY <2>1, <2>2, OutsideQueue
<1>35. ASSUME NEW t \in Ids, TurnMerge(t)
      PROVE  QueueInv' /\ RunningIsFront'
  <2>1. ActKept /\ UNCHANGED <<queue, running, pending, buffer, lock, tstat>>
    BY <1>35 DEF TurnMerge, TurnFrame, ActKept
  <2>2. \A i \in Ids : outcome'[i] # outcome[i] =>
            /\ outcome'[i] \in Incoming => outcome[i] \in Incoming
            /\ i \in Notes => outcome[i] # "held"
    <3>1. Items(interj) \subseteq Fallbacks /\ Fallbacks \cap Notes = {}
      BY ItemsOf, KindsAssumption DEF TypeOK, Synthetic
    <3>2. outcome' = [i \in Ids |-> IF i \in Items(interj) THEN "merged" ELSE outcome[i]]
      BY <1>35 DEF TurnMerge, SetOutcome
    <3> QED  BY <3>1, <3>2 DEF Incoming
  <2> QED  BY <2>1, <2>2, OutsideQueue
<1>36. ASSUME NEW t \in Ids, TurnInject(t)
      PROVE  QueueInv' /\ RunningIsFront'
  <2>1. /\ ActKept /\ UNCHANGED <<queue, running, lock, tstat, pending>> /\ buffer' = <<>>
        /\ outcome' = [i \in Ids |-> IF i \in Items(buffer) THEN "merged" ELSE outcome[i]]
    BY <1>36 DEF TurnInject, TurnFrame, SetOutcome, ActKept
  <2>2. \A i \in Ids : outcome'[i] \in Incoming => outcome[i] \in Incoming
    BY <2>1 DEF Incoming
  <2>3. QueueFresh' /\ RunningIsFront'
    BY <1>1, <2>1, <2>2, FreshStable DEF QueueInv, ActKept
  <2>4. /\ \A n \in Items(pending') \cup Items(buffer') : outcome'[n] = "held"
        /\ Items(pending') \cap Items(buffer') = {}
    BY <2>1, HeldFacts
  <2>5. NotesHeld'
    BY <2>1, <2>2, <2>4, KindsAreIds, NotesMoved DEF QueueInv
  <2> QED  BY <2>3, <2>5 DEF QueueInv
<1>37. ASSUME NEW t \in Ids, NEW active \in BOOLEAN, TurnGoal(t, active)
      PROVE  QueueInv' /\ RunningIsFront'
  <2>1. ActKept
    BY <1>37 DEF TurnGoal, TurnFrame, ActKept
  <2>2. /\ UNCHANGED <<queue, running, pending, buffer, outcome, lock>>
        /\ \A i \in Ids : tstat[i] = "none" => tstat'[i] = "none"
    BY <1>37, <1>1 DEF TurnGoal, TurnFrame
  <2> QED  BY <2>1, <2>2, OutsideQueue
<1>38. ASSUME NEW t \in Ids, RequestWait(t)
      PROVE  QueueInv' /\ RunningIsFront'
  <2>1. ActKept
    BY <1>38 DEF RequestWait, WaitFrame, TurnFrame, ActKept
  <2>2. /\ UNCHANGED <<queue, running, pending, buffer, outcome, lock>>
        /\ \A i \in Ids : tstat[i] = "none" => tstat'[i] = "none"
    BY <1>38, <1>1 DEF RequestWait, WaitFrame, TurnFrame
  <2> QED  BY <2>1, <2>2, OutsideQueue
<1>39. ASSUME NEW t \in Ids, EnterWait(t)
      PROVE  QueueInv' /\ RunningIsFront'
  <2>1. ActKept
    BY <1>39 DEF EnterWait, WaitFrame, TurnFrame, ActKept
  <2>2. /\ UNCHANGED <<queue, running, pending, buffer, outcome, lock>>
        /\ \A i \in Ids : tstat[i] = "none" => tstat'[i] = "none"
    BY <1>39, <1>1 DEF EnterWait, WaitFrame, TurnFrame
  <2> QED  BY <2>1, <2>2, OutsideQueue
<1>40. ASSUME NEW t \in Ids, LeaveWait(t)
      PROVE  QueueInv' /\ RunningIsFront'
  <2>1. ActKept
    BY <1>40 DEF LeaveWait, WaitFrame, TurnFrame, ActKept
  <2>2. /\ UNCHANGED <<queue, running, pending, buffer, outcome, lock>>
        /\ \A i \in Ids : tstat[i] = "none" => tstat'[i] = "none"
    BY <1>40, <1>1 DEF LeaveWait, WaitFrame, TurnFrame
  <2> QED  BY <2>1, <2>2, OutsideQueue
<1>41. ASSUME NEW t \in Ids, AbandonWait(t)
      PROVE  QueueInv' /\ RunningIsFront'
  <2>1. ActKept
    BY <1>41 DEF AbandonWait, WaitFrame, TurnFrame, ActKept
  <2>2. /\ UNCHANGED <<queue, running, pending, buffer, outcome, lock>>
        /\ \A i \in Ids : tstat[i] = "none" => tstat'[i] = "none"
    BY <1>41, <1>1 DEF AbandonWait, WaitFrame, TurnFrame
  <2> QED  BY <2>1, <2>2, OutsideQueue
<1>42. ASSUME NEW t \in Ids, NEW w \in Wakes, TurnConsume(t, w)
      PROVE  QueueInv' /\ RunningIsFront'
  <2> DEFINE stale == {n \in Notes : TaskOf[n] = w}
  <2>1. /\ ActKept /\ UNCHANGED <<running, tstat, buffer>> /\ lock' = None
        /\ queue' = Keep(queue, (Items(queue) \ {w}) \cup {running})
        /\ pending' = Keep(pending, Notes \ stale)
        /\ outcome' = [i \in Ids |->
                          IF i \in Items(queue) \ Items(queue') THEN "merged"
                          ELSE IF i \in stale \cap Items(pending) THEN "shed"
                          ELSE outcome[i]]
    BY <1>42 DEF TurnConsume, TurnFrame, ActKept, Sweep
  <2> HIDE DEF stale
  <2>2. /\ Items(queue') \subseteq Items(queue) /\ Distinct(queue')
        /\ Items(pending') = Items(pending) \cap (Notes \ stale)
    BY <1>1, <2>1, KeepFacts DEF QueueInv, QueueFresh
  <2>3. \A i \in Ids : outcome'[i] \in Incoming => outcome[i] \in Incoming
    BY <2>1 DEF Incoming
  <2>4. (running # None /\ act.pc # "ended") => (queue' # <<>> /\ queue'[1] = queue[1])
    BY <1>1, <2>1, KeepFacts DEF RunningIsFront
  <2>5. QueueFresh' /\ RunningIsFront'
    BY <1>1, <2>1, <2>2, <2>3, <2>4, FreshShrunk DEF QueueInv, ActKept
  <2>6. /\ \A n \in Items(pending') \cup Items(buffer') : outcome'[n] = "held"
        /\ Items(pending') \cap Items(buffer') = {}
    BY <2>1, <2>2, HeldFacts
  <2>7. NotesHeld'
    BY <2>1, <2>3, <2>6, KindsAreIds, NotesMoved DEF QueueInv
  <2> QED  BY <2>5, <2>7 DEF QueueInv
<1>43. ASSUME NEW t \in Ids, TurnRemind(t)
      PROVE  QueueInv' /\ RunningIsFront'
  <2>1. ActKept
    BY <1>43 DEF TurnRemind, TurnFrame, ActKept
  <2>2. /\ UNCHANGED <<queue, running, pending, buffer, outcome, lock>>
        /\ \A i \in Ids : tstat[i] = "none" => tstat'[i] = "none"
    BY <1>43, <1>1 DEF TurnRemind, TurnFrame
  <2> QED  BY <2>1, <2>2, OutsideQueue
<1>44. ASSUME NEW t \in Ids, TurnScopeEnd(t)
      PROVE  QueueInv' /\ RunningIsFront'
  <2>1. ActKept
    BY <1>44 DEF TurnScopeEnd, TurnFrame, ActKept
  <2>2. /\ UNCHANGED <<queue, running, pending, buffer, outcome, lock>>
        /\ \A i \in Ids : tstat[i] = "none" => tstat'[i] = "none"
    BY <1>44, <1>1 DEF TurnScopeEnd, TurnFrame
  <2> QED  BY <2>1, <2>2, OutsideQueue
<1>45. ASSUME NEW t \in Ids, TurnDone(t)
      PROVE  QueueInv' /\ RunningIsFront'
  <2>1. ActKept
    BY <1>45 DEF TurnDone, TurnFrame, ActKept
  <2>2. /\ UNCHANGED <<queue, running, pending, buffer, outcome, lock>>
        /\ \A i \in Ids : tstat[i] = "none" => tstat'[i] = "none"
    BY <1>45, <1>1 DEF TurnDone, TurnFrame
  <2> QED  BY <2>1, <2>2, OutsideQueue
<1>46. ASSUME NEW t \in Ids, TurnDropped(t)
      PROVE  QueueInv' /\ RunningIsFront'
  <2>1. ActKept
    BY <1>46 DEF TurnDropped, TurnFrame, ActKept
  <2>2. /\ UNCHANGED <<queue, running, pending, buffer, outcome, lock>>
        /\ \A i \in Ids : tstat[i] = "none" => tstat'[i] = "none"
    BY <1>46, <1>1 DEF TurnDropped, TurnFrame
  <2> QED  BY <2>1, <2>2, OutsideQueue
<1>47. ASSUME NEW w \in Wakes, TaskExits(w)
      PROVE  QueueInv' /\ RunningIsFront'
  <2>1. ActKept /\ UNCHANGED <<queue, running, pending, buffer, lock, tstat>>
    BY <1>47 DEF TaskExits, BridgeFrame, ActKept
  <2>2. \A i \in Ids : outcome'[i] # outcome[i] =>
            /\ outcome'[i] \in Incoming => outcome[i] \in Incoming
            /\ i \in Notes => outcome[i] # "held"
    <3>1. w \notin Notes
      BY KindsAssumption
    <3> QED  BY <1>47, <3>1 DEF TaskExits, SetOutcome, Incoming
  <2> QED  BY <2>1, <2>2, OutsideQueue
<1>48. ASSUME NEW w \in Wakes, BridgeWake(w)
      PROVE  QueueInv' /\ RunningIsFront'
  <2>1. ActKept /\ UNCHANGED <<queue, running, pending, buffer, lock, tstat>>
    BY <1>48 DEF BridgeWake, BridgeFrame, ActKept
  <2>2. \A i \in Ids : outcome'[i] # outcome[i] =>
            /\ outcome'[i] \in Incoming => outcome[i] \in Incoming
            /\ i \in Notes => outcome[i] # "held"
    <3>1. w \notin Notes
      BY KindsAssumption
    <3> QED  BY <1>48, <3>1 DEF BridgeWake, SetOutcome, Incoming
  <2> QED  BY <2>1, <2>2, OutsideQueue
<1>49. CASE Quiet
  <2>1. ActKept /\ UNCHANGED <<queue, running, pending, buffer, outcome, lock, tstat>>
    BY <1>49 DEF Quiet, ActKept
  <2> QED  BY <2>1, OutsideQueue
<1>54. ASSUME NEW active \in BOOLEAN, SiblingTurn(active)
      PROVE  QueueInv' /\ RunningIsFront'
  <2>1. ActKept /\ UNCHANGED <<queue, running, pending, buffer, outcome, lock, tstat>>
    BY <1>54 DEF SiblingTurn, SiblingFrame, ActKept
  <2> QED  BY <2>1, OutsideQueue
<1>55. CASE SiblingPush
  <2>1. /\ ActKept /\ UNCHANGED <<queue, running, lock, tstat, pending>>
        /\ buffer # <<>> /\ buffer' = Tail(buffer)
        /\ outcome' = [i \in Ids |-> IF i \in Items(buffer) \ Items(Tail(buffer)) THEN "shed"
                                     ELSE outcome[i]]
    BY <1>55 DEF SiblingPush, SiblingFrame, SetOutcome, ActKept
  <2>2. \A i \in Ids : outcome'[i] \in Incoming => outcome[i] \in Incoming
    BY <2>1 DEF Incoming
  <2>3. QueueFresh' /\ RunningIsFront'
    BY <1>1, <2>1, <2>2, FreshStable DEF QueueInv, ActKept
  <2>4. Items(buffer') \subseteq Items(buffer)
    BY <1>1, <2>1, OldestDropped
  <2>5. /\ \A n \in Items(pending') \cup Items(buffer') : outcome'[n] = "held"
        /\ Items(pending') \cap Items(buffer') = {}
    BY <2>1, <2>4, HeldFacts
  <2>6. NotesHeld'
    BY <2>1, <2>2, <2>5, KindsAreIds, NotesMoved DEF QueueInv
  <2> QED  BY <2>3, <2>6 DEF QueueInv
<1>50. ASSUME Commands PROVE QueueInv' /\ RunningIsFront'
  BY <1>50, <1>2, <1>3, <1>4, <1>5, <1>6, <1>7, <1>8, <1>9, <1>10, <1>11, <1>12, <1>13, Zenon DEF Commands
<1>51. ASSUME ActorStep PROVE QueueInv' /\ RunningIsFront'
  BY <1>51, <1>14, <1>15, <1>16, <1>17, <1>18, <1>19, <1>20, <1>21, <1>22, <1>23, <1>24, <1>25, <1>26, <1>27, <1>28, Zenon DEF ActorStep
<1>52. ASSUME NEW s \in Sides, SideStep(s) PROVE QueueInv' /\ RunningIsFront'
  BY <1>52, <1>29, <1>30, <1>31, Zenon DEF SideStep
<1>53. ASSUME NEW t \in Ids, TurnStep(t) PROVE QueueInv' /\ RunningIsFront'
  BY <1>53, <1>34, <1>35, <1>36, <1>37, <1>38, <1>39, <1>40, <1>41, <1>42, <1>43, <1>44, Zenon DEF TurnStep
<1> QED
  BY <1>32, <1>33, <1>45, <1>46, <1>47, <1>48, <1>49, <1>50, <1>51, <1>52, <1>53, <1>54, <1>55, Zenon DEF Next, SiblingStep

(* A session starts with an empty queue. *)
LEMMA QueueInit == Init => QueueInv /\ RunningIsFront
<1> SUFFICES ASSUME Init PROVE QueueInv /\ RunningIsFront
  OBVIOUS
<1>1. Items(queue) = {} /\ Distinct(queue) /\ Items(pending) = {} /\ Items(buffer) = {}
  BY DEF Init, Items, Distinct
<1>2. act = AtPc("select") /\ act.out = <<>> /\ act.rewound = None /\ Items(act.out) = {}
  BY ActorPlaces DEF Init, Items, ActorPc
<1>3. None \notin Notes
  BY ConstantsAssumption, KindsAreIds
<1>4. QueueFresh
  BY <1>1 DEF Init, QueueFresh, Waiting
<1>5. NotesHeld
  BY <1>1, <1>2, <1>3 DEF NotesHeld
<1> QED  BY <1>4, <1>5 DEF Init, QueueInv, RunningIsFront

(* The inductive invariant: the types, the turn in flight at the front and *)
(* the queue's bookkeeping, which keeps a promoter that stands between its *)
(* two halves from finding another queue than the one it pinned.           *)
THEOREM SafetyInvariant == Spec => [](TypeOK /\ QueueInv /\ RunningIsFront)
<1>1. Init => TypeOK /\ QueueInv /\ RunningIsFront
  BY TypeInit, QueueInit
<1>2. TypeOK /\ QueueInv /\ RunningIsFront /\ [Next]_vars
        => TypeOK' /\ QueueInv' /\ RunningIsFront'
  <2> SUFFICES ASSUME TypeOK, QueueInv, RunningIsFront, [Next]_vars
               PROVE  TypeOK' /\ QueueInv' /\ RunningIsFront'
    OBVIOUS
  <2>1. CASE Next
    BY <2>1, TypeNext, QueueNext
  <2>2. CASE UNCHANGED vars
    <3>1. ActKept /\ UNCHANGED <<queue, running, pending, buffer, outcome, lock, tstat>>
      BY <2>2 DEF ActKept
    <3>2. QueueInv' /\ RunningIsFront'
      BY <3>1, OutsideQueue
    <3>3. TypeOK'
      BY <2>2 DEF TypeOK
    <3> QED  BY <3>2, <3>3
  <2> QED  BY <2>1, <2>2
<1> QED  BY <1>1, <1>2, PTL DEF Spec

(* Every variable of a session keeps its type. *)
THEOREM TypeCorrect == Spec => []TypeOK
  BY SafetyInvariant, PTL

(* The turn in flight is at the front of the queue in every session, so    *)
(* the pops of handle_completion and cancel_running_task take its item.    *)
THEOREM FrontIsRunning == Spec => []RunningIsFront
  BY SafetyInvariant, PTL

(* The queue's bookkeeping agrees with the turn tasks in every session. *)
THEOREM QueueBookkeeping == Spec => []QueueInv
  BY SafetyInvariant, PTL

-----------------------------------------------------------------------------
(* The wait window *)

(* The guards are finite in number, none is entered twice, and the window  *)
(* counts at most as many as there are.                                    *)
WaitInv ==
  /\ IsFiniteSet(waits) /\ waitReq \cap waits = {}
  /\ depth \in Nat /\ DepthBounded

(* A command starts no task and touches no wait. *)
LEMMA CommandFrame ==
  ASSUME Commands
  PROVE  UNCHANGED <<depth, waitReq, waits, tstat>>
<1>1. ASSUME NEW id, NEW now, Prompt(id, now) PROVE UNCHANGED <<depth, waitReq, waits, tstat>>
  BY <1>1 DEF Prompt
<1>2. ASSUME NEW g, GoalSummaryTurn(g) PROVE UNCHANGED <<depth, waitReq, waits, tstat>>
  BY <1>2 DEF GoalSummaryTurn
<1>3. ASSUME NEW u, NEW v, NEW o, RemoveQueuedPrompt(u, v, o) \/ ClearQueue(o) \/ EditQueuedPrompt(u)
      PROVE  UNCHANGED <<depth, waitReq, waits, tstat>>
  BY <1>3 DEF RemoveQueuedPrompt, ClearQueue, EditQueuedPrompt, EditFrame
<1>4. ASSUME NEW u, NEW v, NEW o, NEW edit, InterjectQueuedPrompt(u, v, o, edit)
      PROVE  UNCHANGED <<depth, waitReq, waits, tstat>>
  BY <1>4 DEF InterjectQueuedPrompt, EditFrame
<1>5. ASSUME NEW order, ReorderQueue(order) PROVE UNCHANGED <<depth, waitReq, waits, tstat>>
  BY <1>5 DEF ReorderQueue, EditFrame
<1>6. ASSUME NEW f, Interject(f) PROVE UNCHANGED <<depth, waitReq, waits, tstat>>
  BY <1>6 DEF Interject
<1>7. ASSUME NEW n, InjectNotification(n) \/ DropMonitorNotifications(n)
      PROVE  UNCHANGED <<depth, waitReq, waits, tstat>>
  BY <1>7 DEF InjectNotification, DropMonitorNotifications, NoteFrame
<1>8. ASSUME NEW rewind, NEW kill, Cancel(rewind, kill) \/ Shutdown
      PROVE  UNCHANGED <<depth, waitReq, waits, tstat>>
  BY <1>8 DEF Cancel, Shutdown
<1> QED  BY <1>1, <1>2, <1>3, <1>4, <1>5, <1>6, <1>7, <1>8, Zenon DEF Commands

(* Only the waits of a turn and the abort of a cancel touch the window. *)
LEMMA WindowFrame ==
  ASSUME Next
  PROVE  \/ UNCHANGED <<depth, waitReq, waits>>
         \/ depth' = 0 /\ UNCHANGED <<waitReq, waits>>
         \/ \E t \in Ids : RequestWait(t) \/ EnterWait(t) \/ LeaveWait(t) \/ AbandonWait(t)
<1>1. ASSUME Commands PROVE UNCHANGED <<depth, waitReq, waits>>
  BY <1>1, CommandFrame
<1>2. ASSUME ActorStep
      PROVE  UNCHANGED <<waitReq, waits>> /\ (UNCHANGED depth \/ depth' = 0)
  BY <1>2 DEF ActorStep, QueueFallback, ActorSkip, ActorPin, ActorPromote, StartFrame, CancelBegin,
     CancelTake, CancelGoal, CancelAbort, CancelDone, CancelResume, CancelFrame, TakeCompletion,
     CompleteGoal, Complete, FlushTurnEnd, CompleteFrame, DrainNotifications
<1>3. ASSUME NEW s \in Sides, SideStep(s) PROVE UNCHANGED <<depth, waitReq, waits>>
  BY <1>3 DEF SideStep, SideSkip, SidePin, SidePromote, StartFrame
<1>4. ASSUME NEW r \in Resumes, ResumeQueue(r) PROVE UNCHANGED <<depth, waitReq, waits>>
  BY <1>4 DEF ResumeQueue
<1>5. ASSUME NEW t \in Ids, TurnStart(t) \/ TurnStep(t) \/ TurnDone(t) \/ TurnDropped(t)
      PROVE  \/ UNCHANGED <<depth, waitReq, waits>>
             \/ RequestWait(t) \/ EnterWait(t) \/ LeaveWait(t) \/ AbandonWait(t)
  BY <1>5 DEF TurnStart, TurnStep, TurnDone, TurnDropped, TurnEmit, TurnMerge, TurnInject,
     TurnRemind, TurnGoal, TurnConsume, TurnScopeEnd
<1>6. ASSUME NEW w \in Wakes, TaskExits(w) \/ BridgeWake(w) PROVE UNCHANGED <<depth, waitReq, waits>>
  BY <1>6 DEF TaskExits, BridgeWake, BridgeFrame
<1>7. CASE Quiet
  BY <1>7 DEF Quiet
<1>8. CASE SiblingStep
  BY <1>8 DEF SiblingStep, SiblingTurn, SiblingPush, SiblingFrame
<1> QED  BY <1>1, <1>2, <1>3, <1>4, <1>5, <1>6, <1>7, <1>8, Zenon DEF Next

(* The wait window never counts more BlockingWaitGuards than exist: the    *)
(* late drop of a guard after a cancel zeroed the window cannot wrap it.   *)
THEOREM WindowBounded == Spec => []DepthBounded
<1>1. Init => WaitInv
  BY FS_EmptySet DEF Init, WaitInv, DepthBounded
<1>2. WaitInv /\ [Next]_vars => WaitInv'
  <2> SUFFICES ASSUME WaitInv, [Next]_vars PROVE WaitInv'
    OBVIOUS
  <2>1. IsFiniteSet(waits) /\ Cardinality(waits) \in Nat /\ depth \in Nat /\ depth <= Cardinality(waits)
    BY FS_CardinalityType DEF WaitInv, DepthBounded
  <2>2. CASE UNCHANGED <<depth, waitReq, waits>>
    BY <2>2 DEF WaitInv, DepthBounded
  <2>3. CASE depth' = 0 /\ UNCHANGED <<waitReq, waits>>
    BY <2>1, <2>3 DEF WaitInv, DepthBounded
  <2>4. ASSUME NEW t \in Ids, RequestWait(t) \/ AbandonWait(t) PROVE WaitInv'
    BY <2>4 DEF RequestWait, AbandonWait, WaitInv, DepthBounded
  <2>5. ASSUME NEW t \in Ids, EnterWait(t) PROVE WaitInv'
    <3>1. /\ t \notin waits /\ waits' = waits \cup {t} /\ waitReq' = waitReq \ {t}
          /\ depth' = depth + 1 /\ waitReq \cap waits = {}
      BY <2>5 DEF EnterWait, WaitInv
    <3>2. IsFiniteSet(waits') /\ Cardinality(waits') = Cardinality(waits) + 1
      BY <2>1, <3>1, FS_AddElement
    <3> QED  BY <2>1, <3>1, <3>2 DEF WaitInv, DepthBounded
  <2>6. ASSUME NEW t \in Ids, LeaveWait(t) PROVE WaitInv'
    <3>1. /\ t \in waits /\ waits' = waits \ {t} /\ waitReq' = waitReq
          /\ (depth' = IF depth = 0 THEN 0 ELSE depth - 1) /\ waitReq \cap waits = {}
      BY <2>6 DEF LeaveWait, WaitInv
    <3>2. IsFiniteSet(waits') /\ Cardinality(waits') = Cardinality(waits) - 1
      BY <2>1, <3>1, FS_RemoveElement
    <3>3. Cardinality(waits') \in Nat
      BY <3>2, FS_CardinalityType
    <3> QED  BY <2>1, <3>1, <3>2, <3>3 DEF WaitInv, DepthBounded
  <2> QED  BY <2>2, <2>3, <2>4, <2>5, <2>6, WindowFrame, Zenon DEF vars, waitVars
<1>3. WaitInv => DepthBounded
  BY DEF WaitInv
<1> QED  BY <1>1, <1>2, <1>3, PTL DEF Spec

-----------------------------------------------------------------------------
(* Spawning *)

(* A turn task is spawned by a promotion and by nothing else. *)
LEMMA SpawnedByPromotion ==
  ASSUME TypeOK, Next, NEW i \in Ids, tstat'[i] = "spawned", tstat[i] # "spawned"
  PROVE  \E p \in {"actor"} \cup Sides : PromoteFront(p)
<1>0. tstat \in [Ids -> TaskStates]
  BY DEF TypeOK
<1>1. ~ Commands
  BY CommandFrame
<1>2. ASSUME ActorStep, ~ PromoteFront("actor") PROVE FALSE
  <2>1. ASSUME NEW t, Abort(t) PROVE FALSE
    BY <1>0, <2>1 DEF Abort
  <2>2. UNCHANGED tstat \/ \E t : Abort(t)
    BY <1>2 DEF ActorStep, QueueFallback, ActorSkip, ActorPin, PinFront, ActorPromote, CancelBegin,
       CancelTake, CancelGoal, CancelAbort, CancelDone, CancelResume, TakeCompletion,
       CompleteGoal, Complete, FlushTurnEnd, CompleteFrame, DrainNotifications
  <2> QED  BY <2>1, <2>2
<1>3. ASSUME NEW s \in Sides, SideStep(s), ~ PromoteFront(s) PROVE FALSE
  BY <1>3 DEF SideStep, SideSkip, SidePin, SidePromote, PinFront
<1>4. ~ \E r \in Resumes : ResumeQueue(r)
  BY DEF ResumeQueue
<1>5. ASSUME NEW t \in Ids, TurnStart(t) \/ TurnStep(t) \/ TurnDone(t) \/ TurnDropped(t)
      PROVE  FALSE
  <2>1. UNCHANGED tstat \/ \E v \in {"live", "ending", "done", "gone"} : tstat' = [tstat EXCEPT ![t] = v]
    BY <1>5 DEF TurnStart, TurnStep, TurnDone, TurnDropped, TurnEmit, TurnMerge, TurnInject,
       TurnRemind, TurnGoal, TurnConsume, TurnScopeEnd, RequestWait, EnterWait, LeaveWait,
       AbandonWait, WaitFrame
  <2> QED  BY <1>0, <2>1
<1>6. ASSUME NEW w \in Wakes, TaskExits(w) \/ BridgeWake(w) PROVE FALSE
  BY <1>6 DEF TaskExits, BridgeWake, BridgeFrame
<1>7. ~ Quiet
  BY DEF Quiet
<1>8. ~ SiblingStep
  BY DEF SiblingStep, SiblingTurn, SiblingPush, SiblingFrame
<1> QED  BY <1>1, <1>2, <1>3, <1>4, <1>5, <1>6, <1>7, <1>8, Zenon DEF Next

(* No prompt's turn is spawned twice, whatever promoter, stale completion  *)
(* or cancel comes in between.                                             *)
THEOREM SpawnsOnce == Spec => SpawnOnce
<1>1. TypeOK /\ QueueInv /\ RunningIsFront /\ [Next]_vars
        => [\A i \in Ids : tstat'[i] = "spawned" /\ tstat[i] # "spawned" => tstat[i] = "none"]_vars
  <2> SUFFICES ASSUME TypeOK, QueueInv, Next, NEW i \in Ids,
                      tstat'[i] = "spawned", tstat[i] # "spawned"
               PROVE  tstat[i] = "none"
    OBVIOUS
  <2>1. PICK p \in {"actor"} \cup Sides : PromoteFront(p)
    BY SpawnedByPromotion
  <2>2. queue # <<>> /\ queue[1] \in Ids /\ running = None
    BY <2>1, PromoteType
  <2>3. i = queue[1]
    BY <2>1, <2>2 DEF PromoteFront, TypeOK
  <2>4. queue[1] \in Waiting
    BY <2>2, ItemsOf, ConstantsAssumption DEF Waiting, TypeOK
  <2> QED  BY <2>3, <2>4 DEF QueueInv, QueueFresh
<1> QED  BY <1>1, SafetyInvariant, PTL DEF Spec, SpawnOnce
=============================================================================
