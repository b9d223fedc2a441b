------------------------- MODULE SessionActorTurns -------------------------
(***************************************************************************)
(* The turns of a session, for every set of prompts, clients and           *)
(* notifications and every bound: running_task never wedges and no turn is *)
(* orphaned; the pin and the running task agree; every user's prompt is    *)
(* accounted for and gets one terminal and a true answer; and nothing,     *)
(* prompt, interjection or notification, is left behind in an idle session.*)
(***************************************************************************)
EXTENDS SessionActorProofs

USE DEF qVars, runVars, waitVars, noteVars, taskVars, wakeVars, budgetVars, vars

-----------------------------------------------------------------------------
(* What the steps do to the turn tasks *)

(* The fields of a place the actor moves to. *)
LEMMA PlaceFields ==
  /\ \A pc \in ActorPc :
       LET n == AtPc(pc)
       IN  /\ n.pc = pc /\ n.id = None /\ n.next = "select" /\ ~n.rewind /\ ~n.kill /\ ~n.now
           /\ n.snap = None /\ n.task = None /\ n.out = <<>> /\ n.rewound = None
  /\ \A next \in {"select", "drain"} :
       LET n == StartThen(next)
       IN  /\ n.pc = "start" /\ n.id = None /\ n.next = next /\ ~n.rewind /\ ~n.kill /\ ~n.now
           /\ n.snap = None /\ n.task = None /\ n.out = <<>> /\ n.rewound = None
  /\ \A a \in ActorState, pc \in ActorPc :
       LET n == [a EXCEPT !.pc = pc]
       IN  /\ n.pc = pc /\ n.id = a.id /\ n.next = a.next /\ n.rewind = a.rewind /\ n.kill = a.kill
           /\ n.now = a.now /\ n.snap = a.snap /\ n.task = a.task /\ n.out = a.out
           /\ n.rewound = a.rewound
<1>1. ASSUME NEW pc \in ActorPc
      PROVE  LET n == AtPc(pc)
             IN  /\ n.pc = pc /\ n.id = None /\ n.next = "select" /\ ~n.rewind /\ ~n.kill /\ ~n.now
                 /\ n.snap = None /\ n.task = None /\ n.out = <<>> /\ n.rewound = None
  BY DEF AtPc
<1>2. ASSUME NEW next \in {"select", "drain"}
      PROVE  LET n == StartThen(next)
             IN  /\ n.pc = "start" /\ n.id = None /\ n.next = next /\ ~n.rewind /\ ~n.kill /\ ~n.now
                 /\ n.snap = None /\ n.task = None /\ n.out = <<>> /\ n.rewound = None
  BY DEF AtPc, StartThen
<1>3. ASSUME NEW a \in ActorState, NEW pc \in ActorPc
      PROVE  LET n == [a EXCEPT !.pc = pc]
             IN  /\ n.pc = pc /\ n.id = a.id /\ n.next = a.next /\ n.rewind = a.rewind /\ n.kill = a.kill
                 /\ n.now = a.now /\ n.snap = a.snap /\ n.task = a.task /\ n.out = a.out
                 /\ n.rewound = a.rewound
  BY DEF ActorState
<1> QED  BY <1>1, <1>2, <1>3, Zenon

(* The tables of the turn tasks are left alone. *)
Tables == UNCHANGED <<running, pin, lock, tstat, completions, side, terminals>>

(* What a command does to the actor and the queue. *)
LEMMA CommandEffect ==
  ASSUME TypeOK, Commands
  PROVE  /\ act.pc = "select" /\ Tables
         /\ act'.pc \in {"select", "start", "cancel", "fallback", "drain", "ended"}
<1>0. act \in ActorState
  BY DEF TypeOK
<1> DEFINE P == {"select", "start", "cancel", "fallback", "drain", "ended"}
           G == act.pc = "select" /\ Tables /\ act'.pc \in P
<1>p. /\ \A pc \in P : AtPc(pc).pc = pc
      /\ \A next \in {"select", "drain"} : StartThen(next).pc = "start"
      /\ [AtPc("cancel") EXCEPT !.now = TRUE].pc = "cancel"
  BY PlaceFields, SendNowPlace DEF ActorPc
<1>c. \A rewind, kill : [AtPc("cancel") EXCEPT !.rewind = rewind, !.kill = kill].pc = "cancel"
  BY DEF AtPc
<1>f. \A f : [AtPc("fallback") EXCEPT !.out = <<f>>].pc = "fallback"
  BY DEF AtPc
<1>1. ASSUME NEW id, NEW now, Prompt(id, now) PROVE G
  BY <1>1, <1>p DEF Prompt, AtCommand, Tables
<1>2. ASSUME NEW g, GoalSummaryTurn(g) PROVE G
  BY <1>2, <1>p DEF GoalSummaryTurn, AtCommand, Tables
<1>3. ASSUME NEW u, NEW v, NEW o, RemoveQueuedPrompt(u, v, o) \/ ClearQueue(o) \/ EditQueuedPrompt(u)
      PROVE  G
  BY <1>3 DEF RemoveQueuedPrompt, ClearQueue, EditQueuedPrompt, EditFrame, AtCommand, Tables
<1>4. ASSUME NEW u, NEW v, NEW o, NEW edit, InterjectQueuedPrompt(u, v, o, edit)
      PROVE  G
  BY <1>4, <1>p DEF InterjectQueuedPrompt, EditFrame, AtCommand, Tables
<1>5. ASSUME NEW order, ReorderQueue(order) PROVE G
  BY <1>5 DEF ReorderQueue, EditFrame, AtCommand, Tables
<1>6. ASSUME NEW f, Interject(f) PROVE G
  BY <1>6, <1>f DEF Interject, AtCommand, Tables
<1>7. ASSUME NEW n, InjectNotification(n) PROVE G
  BY <1>7, <1>p DEF InjectNotification, NoteFrame, AtCommand, Tables
<1>8. ASSUME NEW n, DropMonitorNotifications(n) PROVE G
  BY <1>8 DEF DropMonitorNotifications, NoteFrame, AtCommand, Tables
<1>9. ASSUME NEW rewind, NEW kill, Cancel(rewind, kill) PROVE G
  BY <1>9, <1>c DEF Cancel, AtCommand, Tables
<1>10. ASSUME Shutdown PROVE G
  BY <1>10, <1>p DEF Shutdown, AtCommand, Tables
<1> HIDE DEF G
<1>11. G  BY <1>1, <1>2, <1>3, <1>4, <1>5, <1>6, <1>7, <1>8, <1>9, <1>10, Zenon DEF Commands
<1> QED BY <1>11 DEF G

(* The actor moves on to pc with its locals. *)
Moves(pc) ==
  /\ act'.pc = pc /\ act'.id = act.id /\ act'.next = act.next /\ act'.rewind = act.rewind
  /\ act'.kill = act.kill /\ act'.now = act.now /\ act'.snap = act.snap
  /\ act'.task = act.task /\ act'.out = act.out /\ act'.rewound = act.rewound

(* The actor goes to a place of the set S, and its locals are reset. *)
Resets(S) ==
  /\ act'.pc \in S /\ ~act'.now /\ ~act'.kill /\ ~act'.rewind
  /\ act'.task = None /\ act'.rewound = None

(* What an interjection that found no turn, and the steps of a promotion  *)
(* by the actor, do.                                                       *)
LEMMA StartEffect ==
  ASSUME TypeOK
  PROVE  /\ QueueFallback => /\ act.pc = "fallback" /\ lock = None /\ Tables
                             /\ \/ Resets({"start"}) /\ act'.next = act.next /\ act'.out = <<>>
                                \/ act' = act
         /\ ActorSkip => /\ act.pc = "start" /\ lock = None /\ Tables /\ UNCHANGED queue
                         /\ running # None \/ queue = <<>>
                         /\ Resets({"select", "drain"}) /\ act'.pc = act.next /\ act'.out = <<>>
         /\ ActorPin => /\ act.pc = "start" /\ PinFront("actor") /\ Moves("promote")
                        /\ UNCHANGED <<side, terminals>>
         /\ ActorPromote => /\ act.pc = "promote" /\ PromoteFront("actor")
                            /\ Resets({"select", "drain"}) /\ act'.pc = act.next
                            /\ act'.out = <<>> /\ UNCHANGED <<side, terminals>>
<1>0. act \in ActorState /\ act.next \in {"select", "drain"} /\ act.next \in ActorPc
      /\ {"start", "promote"} \subseteq ActorPc
  BY NextPlace DEF TypeOK, ActorPc
<1>1. ASSUME QueueFallback
      PROVE  /\ act.pc = "fallback" /\ lock = None /\ Tables
             /\ \/ Resets({"start"}) /\ act'.next = act.next /\ act'.out = <<>>
                \/ act' = act
  <2>1. act' = StartThen(act.next) \/ act' = act
    BY <1>1 DEF QueueFallback
  <2>2. act.pc = "fallback" /\ lock = None /\ Tables
    BY <1>1 DEF QueueFallback, Tables
  <2> QED  BY <1>0, <2>1, <2>2, PlaceFields DEF Resets
<1>2. ASSUME ActorSkip
      PROVE  /\ act.pc = "start" /\ lock = None /\ Tables /\ UNCHANGED queue
             /\ running # None \/ queue = <<>>
             /\ Resets({"select", "drain"}) /\ act'.pc = act.next /\ act'.out = <<>>
  <2>1. act' = AtPc(act.next) /\ Resets({"select", "drain"}) /\ act'.pc = act.next /\ act'.out = <<>>
    BY <1>0, <1>2, PlaceFields DEF ActorSkip, Resets
  <2> QED  BY <1>2, <2>1 DEF ActorSkip, StartBlocked, StartFrame, Tables
<1>3. ASSUME ActorPin
      PROVE  /\ act.pc = "start" /\ PinFront("actor") /\ Moves("promote")
             /\ UNCHANGED <<side, terminals>>
  <2>1. act' = [act EXCEPT !.pc = "promote"] /\ Moves("promote")
    BY <1>0, <1>3, PlaceFields DEF ActorPin, Moves
  <2> QED  BY <1>3, <2>1 DEF ActorPin, StartFrame
<1>4. ASSUME ActorPromote
      PROVE  /\ act.pc = "promote" /\ PromoteFront("actor")
             /\ Resets({"select", "drain"}) /\ act'.pc = act.next
             /\ act'.out = <<>> /\ UNCHANGED <<side, terminals>>
  <2>1. act' = AtPc(act.next) /\ Resets({"select", "drain"}) /\ act'.pc = act.next /\ act'.out = <<>>
    BY <1>0, <1>4, PlaceFields DEF ActorPromote, Resets
  <2> QED  BY <1>4, <2>1 DEF ActorPromote, StartFrame
<1> QED  BY <1>1, <1>2, <1>3, <1>4, Zenon

(* Popping the front takes nothing else. *)
LEMMA TailItems ==
  ASSUME NEW T, NEW s \in Seq(T), s # <<>>
  PROVE  Items(s) = {s[1]} \cup Items(Tail(s))
<1>1. /\ Tail(s) \in Seq(T) /\ Len(s) \in Nat \ {0} /\ Len(Tail(s)) = Len(s) - 1
      /\ \A i \in 1 .. Len(s) - 1 : Tail(s)[i] = s[i + 1]
  OBVIOUS
<1> DEFINE r == Tail(s)
<1>2. Items(r) = {r[i] : i \in 1 .. Len(s) - 1} /\ Items(s) = {s[i] : i \in 1 .. Len(s)}
  <2>1. DOMAIN r = 1 .. Len(s) - 1 /\ DOMAIN s = 1 .. Len(s)
    BY <1>1
  <2> HIDE DEF r
  <2> QED  BY <2>1, Zenon DEF Items
<1> HIDE DEF r
<1>3. ASSUME NEW x \in Items(s) PROVE x \in {s[1]} \cup Items(r)
  <2>1. PICK i \in 1 .. Len(s) : x = s[i]
    BY <1>2
  <2>2. CASE i = 1
    BY <2>1, <2>2
  <2>3. CASE i # 1
    <3>1. i - 1 \in 1 .. Len(s) - 1 /\ (i - 1) + 1 = i
      BY <1>1, <2>3
    <3>2. r[i - 1] = s[i]
      BY <1>1, <3>1 DEF r
    <3> QED  BY <1>2, <2>1, <3>1, <3>2
  <2> QED  BY <2>2, <2>3
<1>4. ASSUME NEW x \in Items(r) PROVE x \in Items(s)
  <2>1. PICK i \in 1 .. Len(s) - 1 : x = r[i]
    BY <1>2
  <2>2. i + 1 \in 1 .. Len(s) /\ r[i] = s[i + 1]
    BY <1>1 DEF r
  <2> QED  BY <1>2, <2>1, <2>2
<1>5. s[1] \in Items(s)
  BY <1>1, <1>2
<1> QED  BY <1>3, <1>4, <1>5 DEF r

(* The fields a cancel sets under the state lock. *)
LEMMA TakeFields ==
  ASSUME TypeOK, CancelTake
  PROVE  LET rewinding == act.rewind /\ rewindable
             rewound   == IF rewinding /\ queue # <<>> THEN queue[1] ELSE None
         IN  /\ act.pc = "cancel_take" /\ lock = None
             /\ act'.pc = "cancel_goal" /\ act'.rewound = rewound
             /\ act'.out = (IF rewound # None THEN <<>> ELSE CancelledItems(act.kill))
             /\ act'.task = (IF rewinding THEN None ELSE running)
             /\ act'.snap = act.snap /\ act'.now = act.now /\ act'.kill = act.kill
             /\ act'.rewind = act.rewind
             /\ running' = None /\ UNCHANGED <<pin, lock, completions, side, terminals>>
             /\ IF rewinding THEN Abort(running) ELSE UNCHANGED tstat
             /\ suppressed' = (rewound = None)
             /\ queue' = (IF rewound # None THEN Tail(queue)
                          ELSE SubSeq(queue, Len(act'.out) + 1, Len(queue)))
<1>1. act \in ActorState
  BY DEF TypeOK
<1>2. \A a \in ActorState : \A rewound, out, task :
        LET n == [a EXCEPT !.pc = "cancel_goal", !.rewound = rewound, !.out = out, !.task = task]
        IN  /\ n.pc = "cancel_goal" /\ n.rewound = rewound /\ n.out = out /\ n.task = task
            /\ n.snap = a.snap /\ n.now = a.now /\ n.kill = a.kill /\ n.rewind = a.rewind
  BY DEF ActorState
<1> DEFINE rewinding == act.rewind /\ rewindable
           rewound   == IF rewinding /\ queue # <<>> THEN queue[1] ELSE None
           out == IF rewound # None THEN <<>> ELSE CancelledItems(act.kill)
           task == IF rewinding THEN None ELSE running
<1>3. act' = [act EXCEPT !.pc = "cancel_goal", !.rewound = rewound, !.out = out, !.task = task]
  BY DEF CancelTake
<1>4. /\ act.pc = "cancel_take" /\ lock = None
      /\ running' = None /\ UNCHANGED <<pin, lock, completions, side, terminals>>
      /\ IF rewinding THEN Abort(running) ELSE UNCHANGED tstat
      /\ suppressed' = (rewound = None)
      /\ queue' = (IF rewound # None THEN Tail(queue)
                   ELSE SubSeq(queue, Len(out) + 1, Len(queue)))
  BY DEF CancelTake
<1>5. /\ act'.pc = "cancel_goal" /\ act'.rewound = rewound /\ act'.out = out /\ act'.task = task
      /\ act'.snap = act.snap /\ act'.now = act.now /\ act'.kill = act.kill
      /\ act'.rewind = act.rewind
  <2> HIDE DEF rewinding, rewound, out, task
  <2> QED  BY <1>1, <1>2, <1>3
<1> QED  BY <1>4, <1>5

(* What a cancel takes out of the queue: the front, unless nothing waits,  *)
(* and with a teardown everything.                                         *)
LEMMA TakeQueue ==
  ASSUME TypeOK, QueueInv, CancelTake
  PROVE  /\ Items(queue) = Items(queue') \cup Items(act'.out) \cup ({act'.rewound} \ {None})
         /\ queue # <<>> => queue[1] \notin Items(queue')
         /\ queue # <<>> => (act'.rewound = queue[1] /\ act'.out = <<>>)
                              \/ (act'.rewound = None /\ queue[1] \in Items(act'.out))
         /\ queue = <<>> => act'.rewound = None
         /\ act'.rewound \notin Items(queue')
         /\ Items(act'.out) \cap Items(queue') = {}
         /\ ~act.kill => Items(act'.out) \subseteq {queue[1]}
<1>1. queue \in Seq(Ids) /\ Distinct(queue) /\ None \notin Ids /\ Len(queue) \in Nat
  BY ConstantsAssumption DEF TypeOK, QueueInv, QueueFresh
<1>2. Items(<<>>) = {} /\ \A x : Items(<<x>>) = {x}
  BY DEF Items
<1>3. queue # <<>> => /\ queue[1] \in Ids /\ queue[1] \in Items(queue)
                      /\ Items(queue) = {queue[1]} \cup Items(Tail(queue))
                      /\ queue[1] \notin Items(Tail(queue))
  BY <1>1, ItemsOf, TailItems, TailFacts
<1>4. \/ act'.rewound = None
      \/ queue # <<>> /\ act'.rewound = queue[1] /\ act'.out = <<>> /\ queue' = Tail(queue)
  BY <1>1, <1>3, TakeFields
<1>5. act'.rewound = None => /\ act'.out = CancelledItems(act.kill)
                             /\ queue' = SubSeq(queue, Len(act'.out) + 1, Len(queue))
  BY TakeFields
<1>6. ASSUME act'.rewound = None, act.kill \/ queue = <<>>
      PROVE  act'.out = queue /\ Items(queue') = {}
  <2>1. act'.out = queue /\ queue' = SubSeq(queue, Len(queue) + 1, Len(queue))
    BY <1>5, <1>6 DEF CancelledItems
  <2>2. SubSeq(queue, Len(queue) + 1, Len(queue)) = <<>>
    BY <1>1
  <2> QED  BY <1>2, <2>1, <2>2
<1>7. ASSUME act'.rewound = None, ~act.kill, queue # <<>>
      PROVE  act'.out = <<queue[1]>> /\ queue' = Tail(queue)
  <2>1. act'.out = <<queue[1]>>
    BY <1>5, <1>7 DEF CancelledItems
  <2>2. Tail(queue) = SubSeq(queue, 1 + 1, Len(queue)) /\ Len(<<queue[1]>>) = 1
    BY <1>1, <1>7
  <2> QED  BY <1>5, <1>7, <2>1, <2>2
<1>8. CASE act'.rewound # None
  BY <1>1, <1>2, <1>3, <1>4, <1>8
<1>9. CASE act'.rewound = None /\ (act.kill \/ queue = <<>>)
  BY <1>1, <1>2, <1>3, <1>6, <1>9, KindsAreIds
<1>10. CASE act'.rewound = None /\ ~act.kill /\ queue # <<>>
  <2>1. None \notin Items(queue)
    BY <1>1, ItemsOf
  <2>2. Items(act'.out) = {queue[1]} /\ Items(queue') = Items(Tail(queue))
    BY <1>2, <1>7, <1>10
  <2> QED  BY <1>3, <1>10, <2>1, <2>2
<1> QED  BY <1>8, <1>9, <1>10

(* The other steps of a cancel. *)
LEMMA CancelEffect ==
  ASSUME TypeOK
  PROVE  /\ CancelBegin => /\ act.pc = "cancel" /\ Tables /\ UNCHANGED queue
                           /\ act'.pc = "cancel_take" /\ act'.snap = pin /\ act'.task = act.task
                           /\ act'.out = act.out /\ act'.rewound = act.rewound
                           /\ act'.now = act.now /\ act'.kill = act.kill /\ act'.rewind = act.rewind
         /\ CancelGoal => act.pc = "cancel_goal" /\ Tables /\ UNCHANGED queue /\ Moves("cancel_abort")
         /\ CancelAbort => /\ act.pc = "cancel_abort" /\ Abort(act.task) /\ Moves("cancel_done")
                           /\ UNCHANGED <<queue, running, pin, lock, completions, side, terminals>>
         /\ CancelDone => /\ act.pc = "cancel_done" /\ pin' = None
                          /\ UNCHANGED <<queue, running, lock, tstat, completions, side>>
                          /\ IF act.now THEN Moves("cancel_resume")
                             ELSE Resets({"start"}) /\ act'.out = <<>> /\ act'.next = "select"
         /\ CancelResume => /\ act.pc = "cancel_resume" /\ lock = None /\ Tables
                            /\ UNCHANGED queue /\ ~suppressed'
                            /\ Resets({"start"}) /\ act'.out = <<>> /\ act'.next = "select"
<1>0. act \in ActorState /\ {"cancel_take", "cancel_abort", "cancel_done", "cancel_resume"} \subseteq ActorPc
  BY DEF TypeOK, ActorPc
<1>1. ASSUME CancelBegin
      PROVE  /\ act.pc = "cancel" /\ Tables /\ UNCHANGED queue
             /\ act'.pc = "cancel_take" /\ act'.snap = pin /\ act'.task = act.task
             /\ act'.out = act.out /\ act'.rewound = act.rewound
             /\ act'.now = act.now /\ act'.kill = act.kill /\ act'.rewind = act.rewind
  <2>1. \A a \in ActorState : \A p :
          LET n == [a EXCEPT !.pc = "cancel_take", !.snap = p]
          IN  /\ n.pc = "cancel_take" /\ n.snap = p /\ n.task = a.task /\ n.out = a.out
              /\ n.rewound = a.rewound /\ n.now = a.now /\ n.kill = a.kill /\ n.rewind = a.rewind
    BY DEF ActorState
  <2>2. act' = [act EXCEPT !.pc = "cancel_take", !.snap = pin]
    BY <1>1 DEF CancelBegin
  <2>3. act.pc = "cancel" /\ Tables /\ UNCHANGED queue
    BY <1>1 DEF CancelBegin, Tables
  <2> QED  BY <1>0, <2>1, <2>2, <2>3
<1>2. ASSUME CancelGoal
      PROVE  act.pc = "cancel_goal" /\ Tables /\ UNCHANGED queue /\ Moves("cancel_abort")
  <2>1. act' = [act EXCEPT !.pc = "cancel_abort"]
    BY <1>2 DEF CancelGoal
  <2>2. Moves("cancel_abort")
    BY <1>0, <2>1, PlaceFields DEF Moves
  <2> QED  BY <1>2, <2>2 DEF CancelGoal, CancelFrame, Tables
<1>3. ASSUME CancelAbort
      PROVE  /\ act.pc = "cancel_abort" /\ Abort(act.task) /\ Moves("cancel_done")
             /\ UNCHANGED <<queue, running, pin, lock, completions, side, terminals>>
  <2>1. act' = [act EXCEPT !.pc = "cancel_done"]
    BY <1>3 DEF CancelAbort
  <2>2. Moves("cancel_done")
    BY <1>0, <2>1, PlaceFields DEF Moves
  <2> QED  BY <1>3, <2>2 DEF CancelAbort, CancelFrame
<1>4. ASSUME CancelDone
      PROVE  /\ act.pc = "cancel_done" /\ pin' = None
             /\ UNCHANGED <<queue, running, lock, tstat, completions, side>>
             /\ IF act.now THEN Moves("cancel_resume")
                ELSE Resets({"start"}) /\ act'.out = <<>> /\ act'.next = "select"
  <2>1. act' = IF act.now THEN [act EXCEPT !.pc = "cancel_resume"] ELSE StartThen("select")
    BY <1>4 DEF CancelDone
  <2>2. IF act.now THEN Moves("cancel_resume")
        ELSE Resets({"start"}) /\ act'.out = <<>> /\ act'.next = "select"
    BY <1>0, <2>1, PlaceFields DEF Moves, Resets
  <2> QED  BY <1>4, <2>2 DEF CancelDone, CancelFrame
<1>5. ASSUME CancelResume
      PROVE  /\ act.pc = "cancel_resume" /\ lock = None /\ Tables
             /\ UNCHANGED queue /\ ~suppressed'
             /\ Resets({"start"}) /\ act'.out = <<>> /\ act'.next = "select"
  <2>1. act' = StartThen("select")
    BY <1>5 DEF CancelResume
  <2>2. Resets({"start"}) /\ act'.out = <<>> /\ act'.next = "select"
    BY <2>1, PlaceFields DEF Resets
  <2> QED  BY <1>5, <2>2 DEF CancelResume, CancelFrame, Tables
<1> QED  BY <1>1, <1>2, <1>3, <1>4, <1>5, Zenon

(* The steps of a completion, and the drain. *)
LEMMA CompletionEffect ==
  ASSUME TypeOK
  PROVE  /\ TakeCompletion =>
              /\ act.pc = "select" /\ completions # <<>>
              /\ act'.pc \in {"complete_goal", "complete"} /\ act'.id = Head(completions)
              /\ completions' = Tail(completions)
              /\ pin' = (IF pin = Head(completions) THEN None ELSE pin)
              /\ Resets({"complete_goal", "complete"})
              /\ UNCHANGED <<queue, running, lock, tstat, side, terminals>>
         /\ CompleteGoal => act.pc = "complete_goal" /\ Tables /\ UNCHANGED queue /\ Moves("complete")
         /\ Complete => /\ act.pc = "complete" /\ lock = None /\ Resets({"flush"}) /\ act'.out = <<>>
                        /\ queue' = (IF Owned(act.id) THEN Tail(queue) ELSE queue)
                        /\ running' = (IF ReleasesTask(act.id) THEN None ELSE running)
                        /\ UNCHANGED <<pin, lock, tstat, completions, side>>
         /\ FlushTurnEnd => /\ act.pc = "flush" /\ lock = None /\ Tables /\ UNCHANGED queue
                            /\ Resets({"start", "fallback"}) /\ act'.next = "drain"
         /\ \A all \in BOOLEAN : DrainNotifications(all) =>
              /\ act.pc = "drain" /\ lock = None /\ Tables
              /\ Resets({"select", "start"}) /\ act'.out = <<>> /\ act'.next = "select"
              /\ act'.pc = "select" => UNCHANGED queue
<1>0. act \in ActorState /\ {"complete_goal", "complete", "flush", "select", "fallback", "start"} \subseteq ActorPc
  BY DEF TypeOK, ActorPc
<1>1. ASSUME TakeCompletion
      PROVE  /\ act.pc = "select" /\ completions # <<>>
             /\ act'.pc \in {"complete_goal", "complete"} /\ act'.id = Head(completions)
             /\ completions' = Tail(completions)
             /\ pin' = (IF pin = Head(completions) THEN None ELSE pin)
             /\ Resets({"complete_goal", "complete"})
             /\ UNCHANGED <<queue, running, lock, tstat, side, terminals>>
  <2>1. PICK pc \in {"complete_goal", "complete"} : act' = [AtPc(pc) EXCEPT !.id = Head(completions)]
    BY <1>1 DEF TakeCompletion
  <2>2. act'.pc = pc /\ act'.id = Head(completions) /\ Resets({"complete_goal", "complete"})
    BY <2>1 DEF AtPc, Resets
  <2> QED  BY <1>1, <2>2 DEF TakeCompletion, CompleteFrame
<1>2. ASSUME CompleteGoal
      PROVE  act.pc = "complete_goal" /\ Tables /\ UNCHANGED queue /\ Moves("complete")
  <2>1. act' = [act EXCEPT !.pc = "complete"]
    BY <1>2 DEF CompleteGoal
  <2>2. Moves("complete")
    BY <1>0, <2>1, PlaceFields DEF Moves
  <2> QED  BY <1>2, <2>2 DEF CompleteGoal, CompleteFrame, Tables
<1>3. ASSUME Complete
      PROVE  /\ act.pc = "complete" /\ lock = None /\ Resets({"flush"}) /\ act'.out = <<>>
             /\ queue' = (IF Owned(act.id) THEN Tail(queue) ELSE queue)
             /\ running' = (IF ReleasesTask(act.id) THEN None ELSE running)
             /\ UNCHANGED <<pin, lock, tstat, completions, side>>
  <2>1. act' = AtPc("flush")
    BY <1>3 DEF Complete
  <2>2. Resets({"flush"}) /\ act'.out = <<>>
    BY <1>0, <2>1, PlaceFields DEF Resets
  <2> QED  BY <1>3, <2>2 DEF Complete, CompleteFrame
<1>4. ASSUME FlushTurnEnd
      PROVE  /\ act.pc = "flush" /\ lock = None /\ Tables /\ UNCHANGED queue
             /\ Resets({"start", "fallback"}) /\ act'.next = "drain"
  <2>1. act' = StartThen("drain") \/ act' = [AtPc("fallback") EXCEPT !.out = interj, !.next = "drain"]
    BY <1>4 DEF FlushTurnEnd
  <2>2. LET n == [AtPc("fallback") EXCEPT !.out = interj, !.next = "drain"]
        IN  /\ n.pc = "fallback" /\ ~n.now /\ ~n.kill /\ ~n.rewind /\ n.task = None
            /\ n.rewound = None /\ n.next = "drain"
    BY DEF AtPc
  <2>3. Resets({"start", "fallback"}) /\ act'.next = "drain"
    BY <2>1, <2>2, PlaceFields DEF Resets
  <2> QED  BY <1>4, <2>3 DEF FlushTurnEnd, CompleteFrame, Tables
<1>5. ASSUME NEW all \in BOOLEAN, DrainNotifications(all)
      PROVE  /\ act.pc = "drain" /\ lock = None /\ Tables
             /\ Resets({"select", "start"}) /\ act'.out = <<>> /\ act'.next = "select"
             /\ act'.pc = "select" => UNCHANGED queue
  <2>1. (act' = AtPc("select") /\ UNCHANGED queue) \/ act' = StartThen("select")
    BY <1>5 DEF DrainNotifications, Select
  <2>2. /\ Resets({"select", "start"}) /\ act'.out = <<>> /\ act'.next = "select"
        /\ act'.pc = "select" => UNCHANGED queue
    BY <1>0, <2>1, PlaceFields DEF Resets
  <2> QED  BY <1>5, <2>2 DEF DrainNotifications, Tables
<1> QED  BY <1>1, <1>2, <1>3, <1>4, <1>5, Zenon

(* The tables and the actor are left alone, and of the queue only a        *)
(* waiting wake may be dropped, by a turn that is alive.                   *)
Calm ==
  /\ Tables /\ UNCHANGED act
  /\ Items(queue') \subseteq Items(queue) /\ Items(queue) \ Items(queue') \subseteq Wakes
  /\ UNCHANGED queue \/ \E t \in Ids : tstat[t] = "live"

(* A turn's steps beside its start and its end, and the bridge's, are calm. *)
LEMMA CalmEffect ==
  ASSUME TypeOK
  PROVE  /\ \A t \in Ids : TurnStep(t) /\ ~TurnScopeEnd(t) => Calm
         /\ \A w \in Wakes : TaskExits(w) \/ BridgeWake(w) => Calm
         /\ Quiet \/ SiblingStep => Calm
<1>1. ASSUME NEW t \in Ids, TurnStep(t), ~TurnScopeEnd(t)
      PROVE  Calm
  <2>1. CASE TurnEmit(t) \/ TurnMerge(t) \/ TurnInject(t) \/ TurnRemind(t)
    BY <2>1 DEF TurnEmit, TurnMerge, TurnInject, TurnRemind, TurnFrame, Tables, Calm
  <2>2. ASSUME NEW active, TurnGoal(t, active) PROVE Calm
    BY <2>2 DEF TurnGoal, TurnFrame, Tables, Calm
  <2>3. ASSUME NEW w \in Wakes, TurnConsume(t, w) PROVE Calm
    <3>1. queue' = Keep(queue, (Items(queue) \ {w}) \cup {running}) /\ queue \in Seq(Ids)
      BY <2>3 DEF TurnConsume, Sweep, TypeOK
    <3>2. Items(queue') \subseteq Items(queue) /\ Items(queue) \ Items(queue') \subseteq Wakes
      BY <3>1, KeepFacts
    <3>3. Tables /\ UNCHANGED act /\ tstat[t] = "live"
      BY <2>3 DEF TurnConsume, TurnFrame, Tables
    <3> QED  BY <3>2, <3>3 DEF Calm
  <2>4. CASE RequestWait(t) \/ EnterWait(t) \/ LeaveWait(t) \/ AbandonWait(t)
    BY <2>4 DEF RequestWait, EnterWait, LeaveWait, AbandonWait, WaitFrame, TurnFrame, Tables, Calm
  <2> QED  BY <1>1, <2>1, <2>2, <2>3, <2>4, Zenon DEF TurnStep
<1>2. ASSUME NEW w \in Wakes, TaskExits(w) \/ BridgeWake(w) PROVE Calm
  BY <1>2 DEF TaskExits, BridgeWake, BridgeFrame, Tables, Calm
<1>3. ASSUME Quiet PROVE Calm
  BY <1>3 DEF Quiet, Tables, Calm
<1>4. ASSUME SiblingStep PROVE Calm
  BY <1>4 DEF SiblingStep, SiblingTurn, SiblingPush, SiblingFrame, Tables, Calm
<1> QED  BY <1>1, <1>2, <1>3, <1>4, Zenon

(* The places of the actor after a cancel took its items, and of a         *)
(* completion; the states of a task that will complete.                    *)
Cancelling == {"cancel_goal", "cancel_abort", "cancel_done"}
Completing == {"complete_goal", "complete"}
Alive == {"spawned", "live", "ending"}

(* A task that will complete is the one in flight, or the one the cancel   *)
(* is about to abort; a completion names a task that is done; and what a   *)
(* cancel took was spawned and is out of the queue.                        *)
TaskInv ==
  /\ \A i \in Ids : tstat[i] \in Alive =>
        i = running \/ (act.pc \in {"cancel_goal", "cancel_abort"} /\ i = act.task)
  /\ \A i \in Items(completions) : tstat[i] = "done"
  /\ act.pc \in Completing => act.id \in Ids /\ tstat[act.id] = "done"
  /\ act.pc \in Cancelling /\ act.task # None =>
        act.task \notin Items(queue) /\ tstat[act.task] # "none"
  /\ NoWedge

(* The cases of a step, as far as the turn tasks are concerned. *)
LEMMA StepCases ==
  ASSUME TypeOK, QueueInv, Next
  PROVE  \/ Commands \/ Calm
         \/ QueueFallback \/ ActorSkip \/ ActorPin \/ ActorPromote
         \/ CancelBegin \/ CancelTake \/ CancelGoal \/ CancelAbort \/ CancelDone \/ CancelResume
         \/ TakeCompletion \/ CompleteGoal \/ Complete \/ FlushTurnEnd
         \/ \E all \in BOOLEAN : DrainNotifications(all)
         \/ \E s \in Sides : SideSkip(s) \/ SidePin(s) \/ SidePromote(s)
         \/ \E r \in Resumes : ResumeQueue(r)
         \/ \E t \in Ids : TurnStart(t) \/ TurnScopeEnd(t) \/ TurnDone(t) \/ TurnDropped(t)
<1>1. ASSUME NEW t \in Ids, TurnStep(t) PROVE Calm \/ TurnScopeEnd(t)
  BY <1>1, CalmEffect, Zenon
<1>2. ASSUME NEW w \in Wakes, TaskExits(w) \/ BridgeWake(w) PROVE Calm
  BY <1>2, CalmEffect, Zenon
<1>3. ASSUME Quiet \/ SiblingStep PROVE Calm
  BY <1>3, CalmEffect, Zenon
<1> QED  BY <1>1, <1>2, <1>3, Zenon DEF Next, ActorStep, SideStep

(* What the steps of the side promoters and of a turn do to the tables. *)
LEMMA SideEffect ==
  ASSUME TypeOK, NEW s \in Sides
  PROVE  /\ SideSkip(s) => /\ UNCHANGED <<act, queue, running, pin, lock, tstat, completions, terminals>>
                           /\ lock = None /\ (running # None \/ queue = <<>>)
                           /\ side[s] = "start" /\ side' = [side EXCEPT ![s] = "over"]
         /\ SidePin(s) => /\ PinFront(s) /\ UNCHANGED <<act, terminals>>
                          /\ side[s] = "start" /\ side' = [side EXCEPT ![s] = "promote"]
         /\ SidePromote(s) => /\ PromoteFront(s) /\ UNCHANGED <<act, terminals>>
                              /\ side[s] = "promote" /\ side' = [side EXCEPT ![s] = "over"]
  BY DEF SideSkip, SidePin, SidePromote, StartBlocked, StartFrame

(* A resume queues its prompt and goes on to promote it. *)
LEMMA ResumeEffect ==
  ASSUME NEW r \in Resumes, ResumeQueue(r)
  PROVE  /\ UNCHANGED <<act, running, pin, lock, tstat, completions, terminals>>
         /\ lock = None /\ side[r] = "idle" /\ side' = [side EXCEPT ![r] = "start"]
         /\ outcome[r] = "new" /\ QueueInput(r, FALSE)
  BY DEF ResumeQueue

(* A turn moves from spawned to live, ending and done, or is dropped. *)
LEMMA TurnEffect ==
  ASSUME NEW t \in Ids
  PROVE  /\ TurnStart(t) => /\ tstat[t] = "spawned" /\ tstat' = [tstat EXCEPT ![t] = "live"]
                            /\ UNCHANGED <<act, queue, running, pin, lock, completions, side, terminals>>
         /\ TurnScopeEnd(t) => /\ tstat[t] = "live" /\ tstat' = [tstat EXCEPT ![t] = "ending"]
                               /\ pin' = (IF pin = t THEN None ELSE pin)
                               /\ UNCHANGED <<act, queue, running, lock, completions, side, terminals>>
         /\ TurnDone(t) => /\ tstat[t] \in {"live", "ending"} /\ tstat' = [tstat EXCEPT ![t] = "done"]
                           /\ completions' = Append(completions, t)
                           /\ UNCHANGED <<act, queue, running, pin, lock, side, terminals>>
         /\ TurnDropped(t) => /\ tstat[t] = "aborting" /\ tstat' = [tstat EXCEPT ![t] = "gone"]
                              /\ pin' = (IF pin = t THEN None ELSE pin)
                              /\ UNCHANGED <<act, queue, running, lock, completions, side, terminals>>
  BY DEF TurnStart, TurnScopeEnd, TurnDone, TurnDropped, TurnFrame

(* The turn in flight and the front are ids of the queue. *)
LEMMA FrontFacts ==
  ASSUME TypeOK, QueueInv, RunningIsFront
  PROVE  /\ queue # <<>> => queue[1] \in Ids /\ queue[1] \in Items(queue)
         /\ running # None /\ act.pc # "ended" =>
              queue # <<>> /\ queue[1] = running /\ running \in Items(queue)
         /\ Items(queue) \subseteq Ids /\ None \notin Ids
         /\ \A i \in Items(queue) : i = running \/ tstat[i] = "none"
<1>1. queue \in Seq(Ids)
  BY DEF TypeOK
<1> QED  BY <1>1, ItemsOf, ConstantsAssumption DEF RunningIsFront, QueueInv, QueueFresh, Waiting

(* What a cancel took out of the queue does not come back. *)
LEMMA TakenStaysOut ==
  ASSUME TypeOK, QueueInv', RunningIsFront, QueueInv,
         TaskInv, act.pc \in Cancelling, act.task # None,
         act'.task = act.task, tstat'[act.task] # "none",
         running' \in {running, None} \/ (queue # <<>> /\ running' = queue[1])
  PROVE  act'.task \notin Items(queue')
<1>1. act.task \in Ids \cup {None}
  BY DEF TypeOK, ActorState
<1>2. act.task \notin Items(queue) /\ act.task \in Ids /\ act.pc # "ended"
  BY <1>1 DEF TaskInv, Cancelling
<1>3. act.task # running'
  BY <1>2, FrontFacts
<1>4. \A i \in Items(queue') : i = running' \/ tstat'[i] = "none"
  BY DEF QueueInv, QueueFresh, Waiting
<1> QED  BY <1>3, <1>4

(* No step orphans or wedges a turn. *)
LEMMA TaskNext ==
  ASSUME TypeOK, QueueInv, RunningIsFront, TaskInv, TypeOK', QueueInv', RunningIsFront', Next
  PROVE  TaskInv'
<1>0. /\ tstat \in [Ids -> TaskStates] /\ completions \in Seq(Ids) /\ act \in ActorState
      /\ act.task \in Ids \cup {None} /\ running \in Ids \cup {None} /\ None \notin Ids
      /\ queue \in Seq(Ids)
  BY ConstantsAssumption DEF TypeOK, ActorState
<1>i. /\ Items(completions)' = Items(completions') /\ Items(queue)' = Items(queue')
  BY DEF Items
<1>t. ASSUME act'.task = act.task, act.pc \in Cancelling, act.task # None,
             tstat[act.task] # "none" => tstat'[act.task] # "none",
             running' \in {running, None} \/ (queue # <<>> /\ running' = queue[1])
      PROVE  act'.task \notin Items(queue)' /\ tstat'[act'.task] # "none"
  BY <1>t, <1>i, TakenStaysOut DEF TaskInv
<1> USE DEF Cancelling, Completing, Alive
<1>1. CASE Commands
  <2>1. /\ act.pc = "select" /\ UNCHANGED <<running, tstat, completions>>
        /\ act'.pc \in {"select", "start", "cancel", "fallback", "drain", "ended"}
    BY <1>1, CommandEffect DEF Tables
  <2> QED  BY <1>i, <2>1 DEF TaskInv, NoWedge
<1>2. CASE Calm
  BY <1>2, <1>i DEF TaskInv, NoWedge, Calm, Tables
<1>3. CASE QueueFallback
  <2>1. /\ act.pc = "fallback" /\ UNCHANGED <<running, tstat, completions>>
        /\ act'.pc \in {"fallback", "start"}
    BY <1>3, StartEffect DEF Tables, Resets
  <2> QED  BY <1>i, <2>1 DEF TaskInv, NoWedge
<1>4. CASE ActorSkip
  <2>1. /\ act.pc = "start" /\ UNCHANGED <<running, tstat, completions>>
        /\ act'.pc \in {"select", "drain"}
    BY <1>4, StartEffect DEF Tables, Resets
  <2> QED  BY <1>i, <2>1 DEF TaskInv, NoWedge
<1>5. CASE ActorPin
  <2>1. act.pc = "start" /\ act'.pc = "promote" /\ UNCHANGED <<running, tstat, completions>>
    BY <1>5, StartEffect DEF PinFront, Moves
  <2> QED  BY <1>i, <2>1 DEF TaskInv, NoWedge
<1>6. ASSUME NEW p \in {"actor"} \cup Sides, PromoteFront(p),
             \/ act.pc = "promote" /\ act'.pc \in {"select", "drain"}
             \/ act' = act
      PROVE  TaskInv'
  <2>1. /\ queue # <<>> /\ queue[1] \in Ids /\ running = None /\ running' = queue[1]
    BY <1>6, PromoteType
  <2>2. tstat' = [tstat EXCEPT ![queue[1]] = "spawned"] /\ UNCHANGED <<queue, completions>>
        /\ tstat[queue[1]] = "none"
    BY <1>6, <2>1, FrontFacts, <1>0 DEF PromoteFront
  <2>3. \A i \in Items(completions)' : tstat'[i] = "done"
    BY <1>0, <1>i, <2>1, <2>2, ItemsOf DEF TaskInv
  <2>4. \A i \in Ids : tstat'[i] \in Alive =>
          i = running' \/ (act'.pc \in {"cancel_goal", "cancel_abort"} /\ i = act'.task)
    BY <1>0, <1>6, <2>1, <2>2 DEF TaskInv
  <2>5. act'.pc \in Completing => act'.id \in Ids /\ tstat'[act'.id] = "done"
    BY <1>0, <1>6, <2>1, <2>2 DEF TaskInv
  <2>6. act'.pc \in Cancelling /\ act'.task # None =>
          act'.task \notin Items(queue)' /\ tstat'[act'.task] # "none"
    BY <1>0, <1>6, <1>t, <2>1, <2>2
  <2>7. NoWedge'
    BY <1>0, <2>1, <2>2 DEF NoWedge
  <2> QED  BY <2>3, <2>4, <2>5, <2>6, <2>7 DEF TaskInv
<1>7. CASE ActorPromote
  BY <1>6, <1>7, StartEffect DEF Resets
<1>8. CASE CancelBegin
  <2>1. act.pc = "cancel" /\ act'.pc = "cancel_take" /\ UNCHANGED <<running, tstat, completions>>
    BY <1>8, CancelEffect DEF Tables
  <2> QED  BY <1>i, <2>1 DEF TaskInv, NoWedge
<1>9. CASE CancelTake
  <2>1. /\ act.pc = "cancel_take" /\ act'.pc = "cancel_goal" /\ running' = None
        /\ UNCHANGED completions
        /\ \/ act'.task = None /\ Abort(running)
           \/ act'.task = running /\ tstat' = tstat
    BY <1>9, TakeFields
  <2>2. running # None => running \notin Items(queue')
    BY <1>9, <2>1, TakeQueue, FrontFacts
  <2>3. \A i \in Ids : tstat'[i] \in Alive => tstat[i] \in Alive /\ act'.task = running
    BY <1>0, <2>1 DEF Abort, TaskInv
  <2>4. running # None => tstat[running] # "none"
    BY <2>1 DEF TaskInv, NoWedge
  <2>5. \A i \in Items(completions)' : tstat'[i] = "done"
    BY <1>0, <1>i, <2>1, ItemsOf DEF TaskInv, Abort
  <2>6. \A i \in Ids : tstat'[i] \in Alive =>
          i = running' \/ (act'.pc \in {"cancel_goal", "cancel_abort"} /\ i = act'.task)
    BY <2>1, <2>3 DEF TaskInv
  <2>7. act'.task # None => act'.task \notin Items(queue)' /\ tstat'[act'.task] # "none"
    BY <1>i, <2>1, <2>2, <2>4
  <2>8. NoWedge'
    BY <2>1 DEF NoWedge
  <2> QED  BY <2>1, <2>5, <2>6, <2>7, <2>8 DEF TaskInv
<1>10. CASE CancelGoal
  <2>1. /\ act.pc = "cancel_goal" /\ act'.pc = "cancel_abort" /\ act'.task = act.task
        /\ UNCHANGED <<queue, running, tstat, completions>>
    BY <1>10, CancelEffect DEF Moves, Tables
  <2> QED  BY <1>i, <2>1 DEF TaskInv, NoWedge
<1>11. CASE CancelAbort
  <2>1. /\ act.pc = "cancel_abort" /\ act'.pc = "cancel_done" /\ act'.task = act.task
        /\ Abort(act.task) /\ UNCHANGED <<queue, running, completions>>
    BY <1>11, CancelEffect DEF Moves
  <2>2. \A i \in Ids : /\ i # act.task => tstat'[i] = tstat[i]
                       /\ i = act.task => tstat'[i] \notin Alive
                       /\ tstat[i] \in {"none", "done"} => tstat'[i] = tstat[i]
                       /\ tstat[i] # "none" => tstat'[i] # "none"
    BY <1>0, <2>1 DEF Abort, TaskStates
  <2>3. running # None => running # act.task
    BY <2>1, FrontFacts DEF TaskInv
  <2>4. \A i \in Items(completions)' : tstat'[i] = "done"
    BY <1>0, <1>i, <2>1, <2>2, ItemsOf DEF TaskInv
  <2>5. \A i \in Ids : tstat'[i] \in Alive => i = running'
    BY <2>1, <2>2 DEF TaskInv
  <2>6. act'.task # None => act'.task \notin Items(queue)' /\ tstat'[act'.task] # "none"
    BY <1>0, <2>1, <2>2 DEF TaskInv
  <2>7. NoWedge'
    BY <1>0, <2>1, <2>2, <2>3, <1>i DEF TaskInv, NoWedge
  <2> QED  BY <2>1, <2>4, <2>5, <2>6, <2>7 DEF TaskInv
<1>12. CASE CancelDone
  <2>1. /\ act.pc = "cancel_done" /\ act'.pc \in {"cancel_resume", "start"}
        /\ UNCHANGED <<queue, running, tstat, completions>>
    BY <1>12, CancelEffect DEF Moves, Resets
  <2> QED  BY <1>i, <2>1 DEF TaskInv, NoWedge
<1>13. CASE CancelResume
  <2>1. /\ act.pc = "cancel_resume" /\ act'.pc = "start"
        /\ UNCHANGED <<queue, running, tstat, completions>>
    BY <1>13, CancelEffect DEF Tables, Resets
  <2> QED  BY <1>i, <2>1 DEF TaskInv, NoWedge
<1>14. CASE TakeCompletion
  <2>1. /\ act.pc = "select" /\ completions # <<>> /\ act'.pc \in Completing
        /\ act'.id = Head(completions) /\ completions' = Tail(completions)
        /\ UNCHANGED <<queue, running, tstat>>
    BY <1>14, CompletionEffect
  <2>2. /\ Head(completions) = completions[1] /\ completions[1] \in Items(completions)
        /\ completions[1] \in Ids
        /\ Items(completions) = {completions[1]} \cup Items(Tail(completions))
    BY <1>0, <2>1, ItemsOf, TailItems
  <2>3. tstat[act'.id] = "done" /\ act'.id \in Ids
    BY <2>1, <2>2 DEF TaskInv
  <2>4. \A i \in Items(completions)' : tstat'[i] = "done"
    BY <1>i, <2>1, <2>2 DEF TaskInv
  <2>5. NoWedge'
    BY <1>i, <2>1, <2>2 DEF TaskInv, NoWedge
  <2> QED  BY <2>1, <2>3, <2>4, <2>5 DEF TaskInv
<1>15. CASE CompleteGoal
  <2>1. /\ act.pc = "complete_goal" /\ act'.pc = "complete" /\ act'.id = act.id
        /\ UNCHANGED <<queue, running, tstat, completions>>
    BY <1>15, CompletionEffect DEF Moves, Tables
  <2> QED  BY <1>i, <2>1 DEF TaskInv, NoWedge
<1>16. CASE Complete
  <2>1. /\ act.pc = "complete" /\ act'.pc = "flush"
        /\ running' = (IF ReleasesTask(act.id) THEN None ELSE running)
        /\ UNCHANGED <<tstat, completions>>
    BY <1>16, CompletionEffect DEF Resets
  <2>2. running' # running => running = None \/ running = act.id
    BY <2>1, FrontFacts DEF ReleasesTask, Owned
  <2>3. running' # None => running' = running /\ running # act.id
    BY <2>1 DEF ReleasesTask
  <2>4. \A i \in Ids : tstat'[i] \in Alive => i = running'
    BY <2>1, <2>2 DEF TaskInv
  <2>5. NoWedge'
    BY <1>i, <2>1, <2>3 DEF TaskInv, NoWedge
  <2> QED  BY <1>i, <2>1, <2>4, <2>5 DEF TaskInv
<1>17. CASE FlushTurnEnd
  <2>1. /\ act.pc = "flush" /\ act'.pc \in {"start", "fallback"}
        /\ UNCHANGED <<queue, running, tstat, completions>>
    BY <1>17, CompletionEffect DEF Tables, Resets
  <2> QED  BY <1>i, <2>1 DEF TaskInv, NoWedge
<1>18. ASSUME NEW all \in BOOLEAN, DrainNotifications(all) PROVE TaskInv'
  <2>1. /\ act.pc = "drain" /\ act'.pc \in {"select", "start"}
        /\ UNCHANGED <<running, tstat, completions>>
    BY <1>18, CompletionEffect DEF Tables, Resets
  <2> QED  BY <1>i, <2>1 DEF TaskInv, NoWedge
<1>19. ASSUME NEW s \in Sides, SideSkip(s) \/ SidePin(s) PROVE TaskInv'
  <2>1. UNCHANGED <<act, queue, running, tstat, completions>>
    BY <1>19, SideEffect DEF PinFront
  <2> QED  BY <1>i, <2>1 DEF TaskInv, NoWedge
<1>20. ASSUME NEW s \in Sides, SidePromote(s) PROVE TaskInv'
  BY <1>6, <1>20, SideEffect
<1>21. ASSUME NEW r \in Resumes, ResumeQueue(r) PROVE TaskInv'
  <2>1. UNCHANGED <<act, running, tstat, completions>>
    BY <1>21, ResumeEffect
  <2>2. act'.pc \in Cancelling /\ act'.task # None =>
          act'.task \notin Items(queue)' /\ tstat'[act'.task] # "none"
    BY <1>t, <2>1
  <2> QED  BY <1>i, <2>1, <2>2 DEF TaskInv, NoWedge
<1>22. ASSUME NEW t \in Ids, TurnStart(t) \/ TurnScopeEnd(t) PROVE TaskInv'
  <2>1. /\ tstat[t] \in {"spawned", "live"} /\ UNCHANGED <<act, queue, running, completions>>
        /\ \E v \in {"live", "ending"} : tstat' = [tstat EXCEPT ![t] = v]
    BY <1>22, TurnEffect
  <2>2. \A i \in Ids : /\ tstat'[i] # tstat[i] => tstat[i] \in Alive /\ tstat'[i] \in Alive
    BY <1>0, <2>1
  <2>3. \A i \in Items(completions)' : tstat'[i] = "done"
    BY <1>0, <1>i, <2>1, <2>2, ItemsOf DEF TaskInv
  <2>4. NoWedge'
    BY <1>0, <1>i, <2>1, <2>2 DEF TaskInv, NoWedge
  <2> QED  BY <1>0, <1>i, <2>1, <2>2, <2>3, <2>4 DEF TaskInv
<1>23. ASSUME NEW t \in Ids, TurnDone(t) PROVE TaskInv'
  <2>1. /\ tstat[t] \in {"live", "ending"} /\ UNCHANGED <<act, queue, running>>
        /\ tstat' = [tstat EXCEPT ![t] = "done"] /\ completions' = Append(completions, t)
    BY <1>23, TurnEffect
  <2>2. Items(completions)' = Items(completions) \cup {t}
    BY <1>0, <1>i, <2>1, AppendFacts
  <2>3. \A i \in Items(completions)' : tstat'[i] = "done"
    BY <1>0, <2>1, <2>2, ItemsOf DEF TaskInv
  <2>4. NoWedge'
    BY <1>0, <2>1, <2>2 DEF TaskInv, NoWedge
  <2> QED  BY <1>0, <1>i, <2>1, <2>3, <2>4 DEF TaskInv
<1>24. ASSUME NEW t \in Ids, TurnDropped(t) PROVE TaskInv'
  <2>1. /\ tstat[t] = "aborting" /\ UNCHANGED <<act, queue, running, completions>>
        /\ tstat' = [tstat EXCEPT ![t] = "gone"]
    BY <1>24, TurnEffect
  <2>2. \A i \in Items(completions)' : tstat'[i] = "done"
    BY <1>0, <1>i, <2>1, ItemsOf DEF TaskInv
  <2>4. NoWedge'
    BY <1>0, <1>i, <2>1 DEF TaskInv, NoWedge
  <2> QED  BY <1>0, <1>i, <2>1, <2>2, <2>4 DEF TaskInv
<1> QED
  BY <1>1, <1>2, <1>3, <1>4, <1>5, <1>7, <1>8, <1>9, <1>10, <1>11, <1>12, <1>13, <1>14, <1>15, <1>16,
     <1>17, <1>18, <1>19, <1>20, <1>21, <1>22, <1>23, <1>24, StepCases, Zenon

(* A promoter between its two halves freezes the queue. *)
LEMMA LockFreezes ==
  ASSUME TypeOK, Next, lock # None
  PROVE  UNCHANGED queue
<1>1. ASSUME Commands PROVE UNCHANGED queue
  <2>1. ASSUME NEW id, NEW now PROVE ~Prompt(id, now)
    BY DEF Prompt
  <2>2. ASSUME NEW g PROVE ~GoalSummaryTurn(g)
    BY DEF GoalSummaryTurn
  <2>3. ASSUME NEW u, NEW v, NEW o PROVE ~RemoveQueuedPrompt(u, v, o) /\ ~ClearQueue(o) /\ ~EditQueuedPrompt(u)
    BY DEF RemoveQueuedPrompt, ClearQueue, EditQueuedPrompt
  <2>4. ASSUME NEW u, NEW v, NEW o, NEW edit PROVE ~InterjectQueuedPrompt(u, v, o, edit)
    BY DEF InterjectQueuedPrompt
  <2>5. ASSUME NEW order PROVE ~ReorderQueue(order)
    BY DEF ReorderQueue
  <2>6. ASSUME NEW f, Interject(f) PROVE UNCHANGED queue
    BY <2>6 DEF Interject
  <2>7. ASSUME NEW n, InjectNotification(n) \/ DropMonitorNotifications(n) PROVE UNCHANGED queue
    BY <2>7 DEF InjectNotification, DropMonitorNotifications, NoteFrame
  <2>8. ASSUME NEW rewind, NEW kill, Cancel(rewind, kill) PROVE UNCHANGED queue
    BY <2>8 DEF Cancel
  <2>9. ~Shutdown
    BY DEF Shutdown
  <2> QED  BY <1>1, <2>1, <2>2, <2>3, <2>4, <2>5, <2>6, <2>7, <2>8, <2>9, Zenon DEF Commands
<1>2. ASSUME ActorStep PROVE UNCHANGED queue
  BY <1>2 DEF ActorStep, QueueFallback, ActorSkip, ActorPin, PinFront, ActorPromote, PromoteFront,
     CancelBegin, CancelTake, CancelGoal, CancelAbort, CancelDone, CancelResume, CancelFrame,
     TakeCompletion, CompleteGoal, Complete, FlushTurnEnd, DrainNotifications
<1>3. ASSUME NEW s \in Sides, SideStep(s) PROVE UNCHANGED queue
  BY <1>3 DEF SideStep, SideSkip, SidePin, SidePromote, PinFront, PromoteFront
<1>4. ASSUME NEW r \in Resumes PROVE ~ResumeQueue(r)
  BY DEF ResumeQueue
<1>5. ASSUME NEW t \in Ids, TurnStart(t) \/ TurnStep(t) \/ TurnDone(t) \/ TurnDropped(t)
      PROVE  UNCHANGED queue
  BY <1>5 DEF TurnStart, TurnStep, TurnDone, TurnDropped, TurnEmit, TurnMerge, TurnInject,
     TurnRemind, TurnGoal, TurnConsume, TurnScopeEnd, RequestWait, EnterWait, LeaveWait,
     AbandonWait, WaitFrame
<1>6. ASSUME NEW w \in Wakes, TaskExits(w) \/ BridgeWake(w) PROVE UNCHANGED queue
  BY <1>6 DEF TaskExits, BridgeWake, BridgeFrame
<1>7. ASSUME Quiet PROVE UNCHANGED queue
  BY <1>7 DEF Quiet
<1>8. ASSUME SiblingStep PROVE UNCHANGED queue
  BY <1>8 DEF SiblingStep, SiblingTurn, SiblingPush, SiblingFrame
<1> QED  BY <1>1, <1>2, <1>3, <1>4, <1>5, <1>6, <1>7, <1>8, Zenon DEF Next

(* The pin names the prompt a promoter is about to start or the turn in    *)
(* flight; it outlives the turn only while a cancel is on its way; and the *)
(* snapshot a cancel took of it still names the turn when it takes it.     *)
PinInv ==
  /\ lock = "actor" <=> act.pc = "promote"
  /\ \A s \in Sides : lock = s <=> side[s] = "promote"
  /\ lock # None => pin \in {None, queue[1]}
  /\ lock = None /\ running # None => pin \in {None, running}
  /\ lock = None /\ running = None /\ pin # None => act.pc \in Cancelling
  /\ act.pc \in Completing => pin # act.id
  /\ act.pc = "cancel_take" /\ act.snap # None =>
        IF lock # None THEN queue[1] = act.snap ELSE running = act.snap
  /\ act.pc \in Cancelling /\ act.rewound = None => act.snap \in {None, act.task}

(* No step lets the pin and the turn in flight drift apart. *)
LEMMA PinNext ==
  ASSUME TypeOK, QueueInv, RunningIsFront, TaskInv, PinInv, QueueInv', RunningIsFront', Next
  PROVE  PinInv'
<1>0. /\ act.task \in Ids \cup {None} /\ running \in Ids \cup {None} /\ None \notin Ids
      /\ pin \in Ids \cup {None} /\ act.snap \in Ids \cup {None}
      /\ side \in [Sides -> {"idle", "start", "promote", "over"}]
      /\ None \notin Sides /\ "actor" \notin Sides /\ None # "actor" /\ Resumes \subseteq Sides
      /\ lock \in {None, "actor"} \cup Sides
  BY ConstantsAssumption DEF TypeOK, ActorState, Sides
<1>q. lock # None => queue' = queue
  BY LockFreezes
<1>f. /\ queue # <<>> => queue[1] \in Ids /\ (running = None => tstat[queue[1]] = "none")
      /\ running # None /\ act.pc # "ended" => queue # <<>> /\ queue[1] = running
  BY FrontFacts
<1> USE DEF Cancelling, Completing
<1>1. CASE Commands
  <2>1. /\ act.pc = "select" /\ UNCHANGED <<running, pin, lock, side>>
        /\ act'.pc \in {"select", "start", "cancel", "fallback", "drain", "ended"}
    BY <1>1, CommandEffect DEF Tables
  <2> QED  BY <1>q, <2>1 DEF PinInv
<1>2. CASE Calm
  <2>1. UNCHANGED <<act, running, pin, lock, side>>
    BY <1>2 DEF Calm, Tables
  <2> QED  BY <1>q, <2>1 DEF PinInv
<1>3. CASE QueueFallback
  <2>1. /\ act.pc = "fallback" /\ UNCHANGED <<running, pin, lock, side>>
        /\ act'.pc \in {"fallback", "start"}
    BY <1>3, StartEffect DEF Tables, Resets
  <2> QED  BY <1>q, <2>1 DEF PinInv
<1>4. CASE ActorSkip
  <2>1. /\ act.pc = "start" /\ UNCHANGED <<running, pin, lock, side>>
        /\ act'.pc \in {"select", "drain"}
    BY <1>4, StartEffect DEF Tables, Resets
  <2> QED  BY <1>q, <2>1 DEF PinInv
<1>5. CASE ActorPin
  <2>1. /\ act.pc = "start" /\ act'.pc = "promote" /\ UNCHANGED <<queue, running, side>>
        /\ lock = None /\ lock' = "actor" /\ pin' = queue[1]
    BY <1>5, StartEffect DEF PinFront, Moves
  <2> QED  BY <1>0, <2>1 DEF PinInv
<1>6. CASE ActorPromote
  <2>1. /\ act.pc = "promote" /\ act'.pc \in {"select", "drain"} /\ UNCHANGED <<queue, pin, side>>
        /\ lock = "actor" /\ lock' = None /\ running' = queue[1]
    BY <1>6, StartEffect DEF PromoteFront, Resets
  <2>2. queue # <<>> /\ queue[1] \in Ids
    BY <1>0, <1>f, <2>1 DEF QueueInv, QueueFresh
  <2> QED  BY <1>0, <2>1, <2>2 DEF PinInv
<1>7. CASE CancelBegin
  <2>1. /\ act.pc = "cancel" /\ act'.pc = "cancel_take" /\ UNCHANGED <<queue, running, pin, lock, side>>
        /\ act'.snap = pin
    BY <1>7, CancelEffect DEF Tables
  <2> QED  BY <1>0, <2>1 DEF PinInv
<1>8. CASE CancelTake
  <2>1. /\ act.pc = "cancel_take" /\ act'.pc = "cancel_goal" /\ lock = None
        /\ running' = None /\ UNCHANGED <<pin, lock, side>>
        /\ act'.snap = act.snap /\ (act'.task = running \/ act.rewind)
        /\ act'.rewound = None => act'.task = running \/ queue = <<>>
    BY <1>0, <1>8, <1>f, TakeFields
  <2>2. act'.rewound = None => act'.task = running \/ act.snap = None
    BY <1>0, <1>f, <2>1 DEF PinInv
  <2> QED  BY <1>0, <2>1, <2>2 DEF PinInv
<1>9. CASE CancelGoal \/ CancelAbort
  <2>1. /\ act.pc \in {"cancel_goal", "cancel_abort"} /\ act'.pc \in {"cancel_abort", "cancel_done"}
        /\ act'.task = act.task /\ act'.snap = act.snap /\ act'.rewound = act.rewound
        /\ UNCHANGED <<queue, running, pin, lock, side>>
    BY <1>9, CancelEffect DEF Moves, Tables
  <2> QED  BY <1>0, <2>1 DEF PinInv
<1>10. CASE CancelDone
  <2>1. /\ act.pc = "cancel_done" /\ act'.pc \in {"cancel_resume", "start"} /\ pin' = None
        /\ UNCHANGED <<queue, running, lock, side>>
    BY <1>10, CancelEffect DEF Moves, Resets
  <2> QED  BY <1>0, <2>1 DEF PinInv
<1>11. CASE CancelResume
  <2>1. /\ act.pc = "cancel_resume" /\ act'.pc = "start"
        /\ UNCHANGED <<queue, running, pin, lock, side>>
    BY <1>11, CancelEffect DEF Tables, Resets
  <2> QED  BY <1>0, <2>1 DEF PinInv
<1>12. CASE TakeCompletion
  <2>1. /\ act.pc = "select" /\ completions # <<>> /\ act'.pc \in Completing
        /\ act'.id = Head(completions) /\ pin' = (IF pin = Head(completions) THEN None ELSE pin)
        /\ UNCHANGED <<queue, running, lock, side>>
    BY <1>12, CompletionEffect
  <2>2. Head(completions) \in Ids
    <3>1. completions \in Seq(Ids)
      BY DEF TypeOK
    <3> QED  BY <2>1, <3>1
  <2> QED  BY <1>0, <2>1, <2>2 DEF PinInv
<1>13. CASE CompleteGoal
  <2>1. /\ act.pc = "complete_goal" /\ act'.pc = "complete" /\ act'.id = act.id
        /\ UNCHANGED <<queue, running, pin, lock, side>>
    BY <1>13, CompletionEffect DEF Moves, Tables
  <2> QED  BY <1>0, <2>1 DEF PinInv
<1>14. CASE Complete
  <2>1. /\ act.pc = "complete" /\ act'.pc = "flush" /\ lock = None
        /\ running' = (IF ReleasesTask(act.id) THEN None ELSE running)
        /\ UNCHANGED <<pin, lock, side>>
    BY <1>14, CompletionEffect DEF Resets
  <2>2. running' # running => running = None \/ running = act.id
    BY <1>f, <2>1 DEF ReleasesTask, Owned
  <2>3. running' \in {None, running}
    BY <2>1
  <2> QED  BY <1>0, <2>1, <2>2, <2>3 DEF PinInv
<1>15. CASE FlushTurnEnd
  <2>1. /\ act.pc = "flush" /\ act'.pc \in {"start", "fallback"}
        /\ UNCHANGED <<queue, running, pin, lock, side>>
    BY <1>15, CompletionEffect DEF Tables, Resets
  <2> QED  BY <1>0, <2>1 DEF PinInv
<1>16. ASSUME NEW all \in BOOLEAN, DrainNotifications(all) PROVE PinInv'
  <2>1. /\ act.pc = "drain" /\ act'.pc \in {"select", "start"}
        /\ UNCHANGED <<running, pin, lock, side>>
    BY <1>16, CompletionEffect DEF Tables, Resets
  <2> QED  BY <1>0, <1>q, <2>1 DEF PinInv
<1>17. ASSUME NEW s \in Sides, SideSkip(s) PROVE PinInv'
  <2>1. /\ UNCHANGED <<act, queue, running, pin, lock>> /\ side[s] = "start"
        /\ side' = [side EXCEPT ![s] = "over"]
    BY <1>17, SideEffect
  <2> QED  BY <1>0, <2>1 DEF PinInv
<1>18. ASSUME NEW s \in Sides, SidePin(s) PROVE PinInv'
  <2>1. /\ UNCHANGED <<act, queue, running>> /\ lock = None /\ lock' = s /\ pin' = queue[1]
        /\ running = None /\ queue # <<>>
        /\ side[s] = "start" /\ side' = [side EXCEPT ![s] = "promote"]
    BY <1>18, SideEffect DEF PinFront
  <2>2. act.pc \in Completing => queue[1] # act.id
    BY <1>f, <2>1 DEF TaskInv
  <2>3. \A x \in Sides : lock' = x <=> side'[x] = "promote"
    BY <1>0, <2>1 DEF PinInv
  <2> QED  BY <1>0, <2>1, <2>2, <2>3 DEF PinInv
<1>19. ASSUME NEW s \in Sides, SidePromote(s) PROVE PinInv'
  <2>1. /\ UNCHANGED <<act, queue, pin>> /\ lock = s /\ lock' = None /\ running' = queue[1]
        /\ side[s] = "promote" /\ side' = [side EXCEPT ![s] = "over"]
    BY <1>19, SideEffect DEF PromoteFront
  <2>2. queue # <<>> /\ queue[1] \in Ids
    BY <1>0, <1>f, <2>1 DEF QueueInv, QueueFresh
  <2>3. \A x \in Sides : lock' = x <=> side'[x] = "promote"
    BY <1>0, <2>1 DEF PinInv
  <2> QED  BY <1>0, <2>1, <2>2, <2>3 DEF PinInv
<1>20. ASSUME NEW r \in Resumes, ResumeQueue(r) PROVE PinInv'
  <2>1. /\ UNCHANGED <<act, running, pin, lock>> /\ lock = None
        /\ side[r] = "idle" /\ side' = [side EXCEPT ![r] = "start"]
    BY <1>20, ResumeEffect
  <2>3. \A x \in Sides : lock' = x <=> side'[x] = "promote"
    BY <1>0, <2>1 DEF PinInv
  <2> QED  BY <1>0, <2>1, <2>3 DEF PinInv
<1>21. ASSUME NEW t \in Ids, TurnStart(t) \/ TurnScopeEnd(t) \/ TurnDone(t) \/ TurnDropped(t)
       PROVE  PinInv'
  <2>1. UNCHANGED <<act, queue, running, lock, side>> /\ pin' \in {None, pin}
    BY <1>21, TurnEffect
  <2>2. act.pc \in Completing => act.id \in Ids
    BY DEF TaskInv
  <2> QED  BY <1>0, <2>1, <2>2 DEF PinInv
<1> QED
  BY <1>1, <1>2, <1>3, <1>4, <1>5, <1>6, <1>7, <1>8, <1>9, <1>10, <1>11, <1>12, <1>13, <1>14, <1>15, <1>16,
     <1>17, <1>18, <1>19, <1>20, <1>21, StepCases, Zenon

-----------------------------------------------------------------------------
(* The flow of the prompts *)

(* An id that has not been queued changes its outcome, or is queued. *)
Arrives(i) ==
  /\ outcome[i] \in Incoming
  /\ outcome'[i] \in Incoming \cup {"queued", "merged", "shed", "cleared"}
  /\ i \in Items(queue') <=> outcome'[i] = "queued"

(* A waiting row is removed, or a prompt no client awaits is dropped. *)
Leaves(i) ==
  /\ i \in Items(queue) /\ i \notin Items(queue')
  /\ \/ outcome'[i] \in {"dropped", "merged"} /\ i \notin Users
     \/ outcome'[i] = "removed" /\ i # running

(* What every step but a cancel's and a completion's does to the outcomes  *)
(* and the queue.                                                          *)
Flow ==
  /\ UNCHANGED terminals
  /\ \A i \in Ids :
       \/ outcome'[i] = outcome[i] /\ (i \in Items(queue') <=> i \in Items(queue))
       \/ Arrives(i)
       \/ Leaves(i)

(* What is buffered for a turn has not been placed. *)
InterjHeld ==
  /\ \A f \in Items(interj) : outcome[f] = "interject"
  /\ act.pc = "fallback" => Items(act.out) \cap Items(interj) = {}

(* The buffered interjections and the handler's batch are left alone. *)
LEMMA InterjKept ==
  ASSUME InterjHeld, UNCHANGED interj,
         \A f \in Items(interj) : outcome'[f] = outcome[f],
         act'.pc # "fallback" \/ act' = act
  PROVE  InterjHeld'
<1>1. Items(interj)' = Items(interj)
  BY DEF Items
<1>2. \A f \in Items(interj) : outcome'[f] = "interject"
  BY DEF InterjHeld
<1>3. act' = act => Items(act.out)' = Items(act.out)
  BY DEF Items
<1>4. act'.pc = "fallback" => Items(act.out)' \cap Items(interj) = {}
  BY <1>3 DEF InterjHeld
<1> QED  BY <1>1, <1>2, <1>4 DEF InterjHeld

(* Nothing happens to the outcomes. *)
LEMMA FlowStutters ==
  ASSUME UNCHANGED <<queue, outcome, terminals>>
  PROVE  Flow
  BY DEF Flow

(* Interjections are ids, and not queued. *)
LEMMA InterjFacts ==
  ASSUME TypeOK, QueueInv, InterjHeld
  PROVE  /\ Items(interj) \subseteq Fallbacks /\ Items(interj) \subseteq Ids
         /\ Items(interj) \cap Users = {} /\ Items(interj) \cap Notes = {}
         /\ Items(interj) \cap Items(queue) = {}
         /\ \A f \in Items(interj) : outcome[f] = "interject"
<1>1. interj \in Seq(Fallbacks)
  BY DEF TypeOK
<1>2. Items(interj) \subseteq Fallbacks
  BY <1>1, ItemsOf
<1> QED  BY <1>2, KindsAreIds, KindsAssumption DEF InterjHeld, QueueInv, QueueFresh, Incoming, Synthetic

(* queue_input adds the prompt and drops synthetic prompts only. *)
LEMMA QueueInputFlow ==
  ASSUME TypeOK, QueueInv, NEW id \in Ids, NEW now \in BOOLEAN,
         outcome[id] \in Incoming, QueueInput(id, now), UNCHANGED terminals
  PROVE  /\ Flow /\ outcome'[id] = "queued"
         /\ \A i \in Ids : outcome[i] \in Incoming /\ i # id => outcome'[i] = outcome[i]
         /\ id \in Synthetic => Items(queue') = Items(queue) \cup {id}
<1> DEFINE swept == Preempted(id)
           dropped == Items(queue) \ Items(swept)
<1>1. queue \in Seq(Ids) /\ id \notin Items(queue)
  BY DEF TypeOK, QueueInv, QueueFresh
<1>2. /\ swept \in Seq(Ids) /\ Items(swept) \subseteq Items(queue)
      /\ dropped \subseteq Synthetic \ {running}
      /\ id \in Synthetic => swept = queue
  <2>1. CASE swept = queue
    BY <1>1, <2>1
  <2>2. CASE /\ swept = Keep(queue, (Items(queue) \ Synthetic) \cup {running})
             /\ id \notin Synthetic
    <3>1. swept \in Seq(Ids) /\ Items(swept) = Items(queue) \cap ((Items(queue) \ Synthetic) \cup {running})
      BY <1>1, <2>2, KeepFacts
    <3> HIDE DEF swept
    <3> QED  BY <2>2, <3>1
  <2> QED  BY <2>1, <2>2 DEF Preempted, Sweep
<1>3. Items(queue') = Items(swept) \cup {id}
  <2> HIDE DEF swept
  <2>1. SendNowSlot(swept, running, sendNow) \in 0 .. Len(swept)
    BY <1>2, SendNowSlotFacts
  <2>2. Items(InsertSlot(swept, SendNowSlot(swept, running, sendNow), id)) = Items(swept) \cup {id}
    BY <1>2, <2>1, InsertSlotFacts
  <2>3. Items(Append(swept, id)) = Items(swept) \cup {id}
    BY <1>2, AppendFacts
  <2>4. queue' \in {InsertSlot(swept, SendNowSlot(swept, running, sendNow), id), Append(swept, id)}
    BY DEF QueueInput, swept
  <2> QED  BY <2>2, <2>3, <2>4
<1>4. outcome' = [i \in Ids |-> IF i = id THEN "queued"
                                ELSE IF i \in dropped THEN "dropped" ELSE outcome[i]]
  BY DEF QueueInput
<1>5. \A i \in Ids : outcome[i] \in Incoming => i \notin Items(queue)
  BY DEF QueueInv, QueueFresh
<1>6. Synthetic \cap Users = {}
  BY KindsAssumption
<1> HIDE DEF swept, dropped
<1>7. dropped = Items(queue) \ Items(swept)
  BY DEF dropped
<1>8. ASSUME NEW i \in Ids
      PROVE  \/ outcome'[i] = outcome[i] /\ (i \in Items(queue') <=> i \in Items(queue))
             \/ Arrives(i)
             \/ Leaves(i)
  <2>1. CASE i = id
    BY <1>3, <1>4, <2>1 DEF Arrives
  <2>2. CASE i # id /\ i \in dropped
    BY <1>2, <1>3, <1>4, <1>6, <1>7, <2>2 DEF Leaves
  <2>3. CASE i # id /\ i \notin dropped
    BY <1>2, <1>3, <1>4, <1>7, <2>3
  <2> QED  BY <2>1, <2>2, <2>3
<1>9. \A i \in Ids : outcome[i] \in Incoming /\ i # id => outcome'[i] = outcome[i]
  BY <1>4, <1>5, <1>7
<1>10. outcome'[id] = "queued"
  BY <1>4
<1>11. id \in Synthetic => Items(queue') = Items(queue) \cup {id}
  BY <1>2, <1>3
<1> QED  BY <1>8, <1>9, <1>10, <1>11 DEF Flow

(* A command of a client or of the bridge. *)
LEMMA CommandFlow ==
  ASSUME TypeOK, QueueInv, RunningIsFront, InterjHeld, Commands
  PROVE  Flow /\ InterjHeld'
<1> DEFINE G == Flow /\ InterjHeld'
<1>0. queue \in Seq(Ids) /\ Distinct(queue) /\ outcome \in [Ids -> Outcomes] /\ interj \in Seq(Fallbacks)
      /\ Items(queue) \subseteq Ids
  <2>1. queue \in Seq(Ids) /\ outcome \in [Ids -> Outcomes] /\ interj \in Seq(Fallbacks)
    BY DEF TypeOK
  <2> QED  BY <2>1, ItemsOf DEF QueueInv, QueueFresh
<1>a. /\ Items(interj) \subseteq Ids /\ Items(interj) \cap Users = {} /\ Items(interj) \cap Notes = {}
      /\ Items(interj) \cap Items(queue) = {}
      /\ \A f \in Items(interj) : outcome[f] = "interject"
  BY InterjFacts
<1>b. \A i \in Ids : outcome[i] \in Incoming => i \notin Items(queue)
  BY DEF QueueInv, QueueFresh
<1>c. \A pc \in ActorPc : AtPc(pc).pc = pc
  BY PlaceFields
<1>d. {"start", "cancel", "drain", "ended", "fallback"} \subseteq ActorPc
  BY DEF ActorPc
<1>e. /\ \A next \in {"select", "drain"} : StartThen(next).pc = "start"
      /\ [AtPc("cancel") EXCEPT !.now = TRUE].pc = "cancel"
  BY PlaceFields, SendNowPlace
<1>1. ASSUME NEW id \in Users \cup Crons \cup Wakes, NEW now \in BOOLEAN, Prompt(id, now) PROVE G
  <2>1. /\ id \in Ids /\ outcome[id] \in {"new", "sent"} /\ QueueInput(id, now)
        /\ UNCHANGED <<terminals, interj>> /\ act.pc # "fallback"
    BY <1>1, KindsAreIds DEF Prompt, AtCommand
  <2>2. Flow /\ \A i \in Ids : outcome[i] \in Incoming /\ i # id => outcome'[i] = outcome[i]
    BY <2>1, QueueInputFlow DEF Incoming
  <2>3. \A f \in Items(interj) : outcome'[f] = outcome[f]
    BY <1>a, <2>1, <2>2 DEF Incoming
  <2>4. act'.pc # "fallback"
    BY <1>1, <1>e DEF Prompt
  <2> QED  BY <2>1, <2>2, <2>3, <2>4, InterjKept
<1>2. ASSUME NEW g \in Summaries, GoalSummaryTurn(g) PROVE G
  <2>1. /\ g \in Ids /\ outcome[g] = "new" /\ queue' = Append(queue, g) /\ UNCHANGED <<terminals, interj>>
        /\ outcome' = [i \in Ids |-> IF i \in {g} THEN "queued" ELSE outcome[i]]
        /\ act' = StartThen("select")
    BY <1>2, KindsAreIds DEF GoalSummaryTurn, SetOutcome
  <2>2. Items(queue') = Items(queue) \cup {g}
    BY <1>0, <2>1, AppendFacts
  <2>3. Flow
    BY <1>b, <2>1, <2>2 DEF Flow, Arrives, Incoming
  <2>4. \A f \in Items(interj) : outcome'[f] = outcome[f]
    BY <1>a, <2>1
  <2> QED  BY <1>e, <2>1, <2>3, <2>4, InterjKept
<1>3. ASSUME NEW gone \in SUBSET (Rows),
             queue' = Keep(queue, Items(queue) \ gone), SetOutcome(gone, "removed"),
             UNCHANGED <<terminals, interj, act>>
      PROVE  G
  <2>1. /\ outcome' = [i \in Ids |-> IF i \in gone THEN "removed" ELSE outcome[i]]
        /\ gone \subseteq Items(queue) \ {running} /\ gone \subseteq Users
    BY <1>3 DEF SetOutcome, Rows, Waiting
  <2>2. Items(queue') = Items(queue) \cap (Items(queue) \ gone)
    BY <1>0, <1>3, KeepFacts
  <2>3. Flow
    BY <1>3, <2>1, <2>2 DEF Flow, Leaves
  <2>4. \A f \in Items(interj) : outcome'[f] = outcome[f]
    BY <1>a, <2>1
  <2> QED  BY <1>3, <2>3, <2>4, InterjKept
<1>4. ASSUME NEW u \in Users, NEW v, NEW o, RemoveQueuedPrompt(u, v, o) PROVE G
  <2>1. {x \in {u} : RowMatches(x, v, o)} \in SUBSET Rows
    BY DEF RowMatches
  <2> DEFINE gone == {x \in {u} : RowMatches(x, v, o)}
  <2>2. queue' = Keep(queue, Items(queue) \ gone) /\ SetOutcome(gone, "removed")
        /\ UNCHANGED <<terminals, interj, act>>
    BY <1>4 DEF RemoveQueuedPrompt, EditFrame
  <2> HIDE DEF G
  <2> QED  BY <1>3, <2>1, <2>2
<1>5. ASSUME NEW o, ClearQueue(o) PROVE G
  <2>1. {u \in Rows : Owns(o, u)} \in SUBSET Rows
    OBVIOUS
  <2> DEFINE gone == {u \in Rows : Owns(o, u)}
  <2>2. queue' = Keep(queue, Items(queue) \ gone) /\ SetOutcome(gone, "removed")
        /\ UNCHANGED <<terminals, interj, act>>
    BY <1>5 DEF ClearQueue, EditFrame
  <2> HIDE DEF G
  <2> QED  BY <1>3, <2>1, <2>2
<1>6. ASSUME UNCHANGED <<outcome, terminals, interj>>, Items(queue') = Items(queue),
             act'.pc # "fallback" \/ act' = act
      PROVE  G
  <2>1. Flow
    BY <1>6 DEF Flow
  <2> QED  BY <1>6, <2>1, InterjKept
<1>7. ASSUME NEW order \in Orders, ReorderQueue(order) PROVE G
  <2>1. order \in Seq(Ids) /\ Distinct(order) /\ queue' = Reorder(queue, Users \ {running}, order)
        /\ UNCHANGED <<outcome, terminals, interj, act>>
    BY <1>0, <1>7, ReorderType DEF ReorderQueue, EditFrame
  <2>2. Items(queue') = Items(queue)
    BY <1>0, <2>1, ReorderFacts
  <2> HIDE DEF G
  <2> QED  BY <1>6, <2>1, <2>2
<1>8. ASSUME NEW u, EditQueuedPrompt(u) PROVE G
  <2>1. UNCHANGED <<queue, outcome, terminals, interj, act>>
    BY <1>8 DEF EditQueuedPrompt, EditFrame
  <2> HIDE DEF G
  <2> QED  BY <1>6, <2>1
<1>9. ASSUME NEW u \in Users, NEW v, NEW o, NEW edit, InterjectQueuedPrompt(u, v, o, edit) PROVE G
  <2>1. UNCHANGED <<outcome, terminals, interj>> /\ act'.pc # "fallback"
    BY <1>9, <1>e DEF InterjectQueuedPrompt, EditFrame
  <2> DEFINE rest == Drop(queue, u)
             slot == SendNowSlot(rest, running, sendNow)
  <2>2. CASE queue' = InsertSlot(rest, slot, u) /\ RowMatches(u, v, o)
    <3>1. u \in Items(queue) /\ u \in Ids
      BY <2>2, KindsAreIds DEF RowMatches, Rows, Waiting
    <3>2. rest \in Seq(Ids) /\ Items(rest) = Items(queue) \cap (Items(queue) \ {u})
      BY <1>0, KeepFacts DEF Drop
    <3> HIDE DEF rest
    <3>3. slot \in 0 .. Len(rest)
      BY <3>2, SendNowSlotFacts
    <3> HIDE DEF slot
    <3>4. Items(queue') = Items(rest) \cup {u}
      BY <2>2, <3>1, <3>2, <3>3, InsertSlotFacts
    <3>5. Items(queue') = Items(queue)
      BY <3>1, <3>2, <3>4
    <3> HIDE DEF G
    <3> QED  BY <1>6, <2>1, <3>5
  <2>3. CASE queue' = queue
    <3> HIDE DEF G
    <3> QED  BY <1>6, <2>1, <2>3
  <2> QED  BY <1>9, <2>2, <2>3, Zenon DEF InterjectQueuedPrompt
<1>10. ASSUME NEW f \in Fallbacks, Interject(f) PROVE G
  <2>1. /\ f \in Ids /\ outcome[f] = "new" /\ UNCHANGED <<queue, terminals>>
        /\ outcome' = [i \in Ids |-> IF i \in {f} THEN "interject" ELSE outcome[i]]
        /\ act.pc = "select"
        /\ \/ interj' = Append(interj, f) /\ act' = act
           \/ interj' = interj /\ act' = [AtPc("fallback") EXCEPT !.out = <<f>>]
    BY <1>10, KindsAreIds DEF Interject, SetOutcome, AtCommand
  <2>2. Flow
    BY <1>b, <2>1 DEF Flow, Arrives, Incoming
  <2>3. f \notin Items(interj)
    BY <1>a, <2>1
  <2>4. Items(interj)' = Items(interj')
    BY DEF Items
  <2>5. CASE interj' = Append(interj, f) /\ act' = act
    <3>1. Items(interj') = Items(interj) \cup {f}
      BY <1>0, <2>5, AppendFacts
    <3>2. \A x \in Items(interj') : outcome'[x] = "interject"
      BY <1>a, <2>1, <3>1
    <3> QED  BY <2>1, <2>2, <2>4, <2>5, <3>2 DEF InterjHeld
  <2>6. CASE interj' = interj /\ act' = [AtPc("fallback") EXCEPT !.out = <<f>>]
    <3>1. act'.out = <<f>> /\ Items(<<f>>) = {f}
      BY <2>6 DEF AtPc, Items
    <3>2. Items(act.out)' = {f}
      BY <3>1 DEF Items
    <3>3. \A x \in Items(interj) : outcome'[x] = "interject"
      BY <1>a, <2>1
    <3> QED  BY <2>2, <2>3, <2>4, <2>6, <3>2, <3>3 DEF InterjHeld
  <2> QED  BY <2>1, <2>5, <2>6
<1>11. ASSUME NEW S \in SUBSET (Items(pending) \cup Items(buffer)), NEW n \in Ids, NEW o,
              outcome[n] \in {"new", "purge"}, o \in {"held", "sent"},
              outcome' = [i \in Ids |-> IF i = n THEN o ELSE IF i \in S THEN "shed" ELSE outcome[i]],
              UNCHANGED <<queue, terminals, interj>>, act'.pc # "fallback" \/ act' = act
       PROVE  G
  <2>1. \A i \in S : i \in Ids /\ outcome[i] = "held" /\ i \in Notes
    BY HeldFacts
  <2>2. Flow
    BY <1>b, <1>11, <2>1 DEF Flow, Arrives, Incoming
  <2>3. \A f \in Items(interj) : outcome'[f] = outcome[f]
    BY <1>a, <1>11, <2>1
  <2> QED  BY <1>11, <2>2, <2>3, InterjKept
<1>12. ASSUME NEW n \in Notes, InjectNotification(n) PROVE G
  <2> DEFINE buffered == turnActive /\ n \in NextNotes
             src  == IF buffered THEN buffer ELSE pending
             list == Append(src, n)
             kept == LastOf(list, NoteCap)
             S == (Items(list) \ Items(kept)) \ {n}
  <2>1. /\ n \in Ids /\ outcome[n] = "new" /\ UNCHANGED <<queue, terminals, interj>>
        /\ outcome' = [i \in Ids |-> IF i = n THEN "held"
                                     ELSE IF i \in Items(list) \ Items(kept) THEN "shed"
                                     ELSE outcome[i]]
        /\ act' = act \/ act' = AtPc("drain")
    BY <1>12, KindsAreIds DEF InjectNotification, NoteFrame
  <2>2. outcome' = [i \in Ids |-> IF i = n THEN "held" ELSE IF i \in S THEN "shed" ELSE outcome[i]]
    BY <2>1
  <2>3. S \subseteq Items(pending) \cup Items(buffer)
    <3>1. src \in Seq(Notes)
      BY DEF TypeOK
    <3>2. Items(list) = Items(src) \cup {n}
      BY <3>1, AppendFacts
    <3> QED  BY <3>2
  <2>4. act'.pc # "fallback" \/ act' = act
    BY <1>c, <1>d, <2>1
  <2> HIDE DEF G, S
  <2> QED  BY <1>11, <2>1, <2>2, <2>3, <2>4
<1>13. ASSUME NEW w \in MonitorWakes, DropMonitorNotifications(w) PROVE G
  <2> DEFINE stale == {n \in NextNotes : TaskOf[n] = w}
             S == stale \cap (Items(pending) \cup Items(buffer))
  <2>1. /\ w \in Ids /\ outcome[w] = "purge" /\ UNCHANGED <<queue, terminals, interj, act>>
        /\ outcome' = [i \in Ids |-> IF i = w THEN "sent" ELSE IF i \in S THEN "shed" ELSE outcome[i]]
    BY <1>13, KindsAreIds, ConstantsAssumption DEF DropMonitorNotifications, NoteFrame
  <2>3. S \subseteq Items(pending) \cup Items(buffer)
    OBVIOUS
  <2> HIDE DEF G, S
  <2> QED  BY <1>11, <2>1, <2>3
<1>14. ASSUME NEW rewind, NEW kill, Cancel(rewind, kill) PROVE G
  <2>1. UNCHANGED <<queue, outcome, terminals, interj>>
        /\ act' = [AtPc("cancel") EXCEPT !.rewind = rewind, !.kill = kill]
    BY <1>14 DEF Cancel
  <2>2. act'.pc # "fallback"
    BY <2>1 DEF AtPc
  <2> HIDE DEF G
  <2> QED  BY <1>6, <2>1, <2>2
<1>15. ASSUME Shutdown PROVE G
  <2>1. /\ queue' = Keep(queue, Ids \ Synthetic) /\ UNCHANGED <<terminals, interj>>
        /\ outcome' = [i \in Ids |-> IF i \in Synthetic \cap Items(queue) THEN "dropped"
                                     ELSE IF i \in Items(pending) THEN "shed" ELSE outcome[i]]
        /\ act' = AtPc("ended")
    BY <1>15 DEF Shutdown, KeptAtShutdown
  <2>2. Items(queue') = Items(queue) \cap (Ids \ Synthetic)
    BY <1>0, <2>1, KeepFacts
  <2>3. /\ Synthetic \cap Users = {}
        /\ \A n \in Items(pending) : outcome[n] = "held" /\ n \notin Items(queue) /\ n \in Notes
    BY KindsAssumption, HeldFacts
  <2>4. Flow
    BY <1>0, <2>1, <2>2, <2>3 DEF Flow, Arrives, Leaves, Incoming
  <2>5. \A f \in Items(interj) : outcome'[f] = outcome[f]
    BY <1>a, <2>1, <2>3
  <2>6. act'.pc # "fallback"
    BY <1>c, <1>d, <2>1
  <2> QED  BY <2>1, <2>4, <2>5, <2>6, InterjKept
<1> HIDE DEF G
<1>16. ASSUME NEW id \in Users, NEW now \in BOOLEAN, Prompt(id, now) PROVE G
  BY <1>1, <1>16
<1>17. ASSUME NEW id \in Crons \cup Wakes, Prompt(id, FALSE) PROVE G
  BY <1>1, <1>17
<1>18. G
  BY <1>2, <1>4, <1>5, <1>7, <1>8, <1>9, <1>10, <1>12, <1>13, <1>14, <1>15, <1>16, <1>17, Zenon DEF Commands
<1> QED  BY <1>18 DEF G

(* The outcomes and the queue are left alone, and so are the interjections. *)
LEMMA FlowFrame ==
  ASSUME InterjHeld, UNCHANGED <<queue, outcome, terminals, interj>>,
         act'.pc # "fallback" \/ act' = act
  PROVE  Flow /\ InterjHeld'
  BY FlowStutters, InterjKept

(* Buffered interjections are merged into the turn, or cleared. *)
LEMMA InterjLeaves ==
  ASSUME TypeOK, QueueInv, InterjHeld, UNCHANGED <<queue, terminals>>, interj' = <<>>,
         NEW o \in {"merged", "cleared"}, SetOutcome(Items(interj), o)
  PROVE  Flow /\ InterjHeld'
<1>1. Items(interj)' = {}
  BY DEF Items
<1>2. outcome' = [i \in Ids |-> IF i \in Items(interj) THEN o ELSE outcome[i]]
  BY DEF SetOutcome
<1>3. Flow
  BY <1>2, InterjFacts DEF Flow, Arrives, Incoming
<1> QED  BY <1>1, <1>3 DEF InterjHeld

(* A turn's step. *)
LEMMA TurnFlow ==
  ASSUME TypeOK, QueueInv, RunningIsFront, InterjHeld, NEW t \in Ids, TurnStep(t)
  PROVE  Flow /\ InterjHeld'
<1> DEFINE G == Flow /\ InterjHeld'
<1>0. queue \in Seq(Ids) /\ Items(queue) \subseteq Ids /\ outcome \in [Ids -> Outcomes]
  <2>1. queue \in Seq(Ids) /\ outcome \in [Ids -> Outcomes]
    BY DEF TypeOK
  <2> QED  BY <2>1, ItemsOf
<1>1. ASSUME TurnEmit(t) \/ TurnRemind(t) \/ TurnScopeEnd(t) PROVE G
  BY <1>1, FlowFrame DEF TurnEmit, TurnRemind, TurnScopeEnd, TurnFrame
<1>2. ASSUME NEW active, TurnGoal(t, active) PROVE G
  BY <1>2, FlowFrame DEF TurnGoal, TurnFrame
<1>3. ASSUME RequestWait(t) \/ EnterWait(t) \/ LeaveWait(t) \/ AbandonWait(t) PROVE G
  BY <1>3, FlowFrame DEF RequestWait, EnterWait, LeaveWait, AbandonWait, WaitFrame, TurnFrame
<1>4. ASSUME TurnMerge(t) PROVE G
  BY <1>4, InterjLeaves DEF TurnMerge, TurnFrame
<1>5. ASSUME TurnInject(t) PROVE G
  <2>1. /\ UNCHANGED <<queue, terminals, interj, act>>
        /\ outcome' = [i \in Ids |-> IF i \in Items(buffer) THEN "merged" ELSE outcome[i]]
    BY <1>5 DEF TurnInject, TurnFrame, SetOutcome
  <2>2. Flow
    BY <2>1, HeldFacts DEF Flow, Arrives, Incoming
  <2>3. \A f \in Items(interj) : outcome'[f] = outcome[f]
    BY <2>1, HeldFacts, InterjFacts
  <2> QED  BY <2>1, <2>2, <2>3, InterjKept
<1>6. ASSUME NEW w \in Wakes, TurnConsume(t, w) PROVE G
  <2> DEFINE stale == {n \in Notes : TaskOf[n] = w}
  <2>1. /\ UNCHANGED <<terminals, interj, act>>
        /\ queue' = Keep(queue, (Items(queue) \ {w}) \cup {running})
        /\ outcome' = [i \in Ids |->
                          IF i \in Items(queue) \ Items(queue') THEN "merged"
                          ELSE IF i \in stale \cap Items(pending) THEN "shed"
                          ELSE outcome[i]]
    BY <1>6 DEF TurnConsume, TurnFrame, Sweep
  <2> HIDE DEF stale
  <2>2. Items(queue') = Items(queue) \cap ((Items(queue) \ {w}) \cup {running})
    BY <1>0, <2>1, KeepFacts
  <2>3. w \notin Users
    BY KindsAssumption DEF Synthetic
  <2>4. Flow
    BY <1>0, <2>1, <2>2, <2>3, HeldFacts DEF Flow, Arrives, Leaves, Incoming
  <2>5. \A f \in Items(interj) : outcome'[f] = outcome[f]
    BY <2>1, HeldFacts, InterjFacts
  <2> QED  BY <2>1, <2>4, <2>5, InterjKept
<1> HIDE DEF G
<1>7. G
  BY <1>1, <1>2, <1>3, <1>4, <1>5, <1>6, Zenon DEF TurnStep
<1> QED  BY <1>7 DEF G

(* An interjection that found no turn becomes the next prompt. *)
LEMMA FallbackFlow ==
  ASSUME TypeOK, QueueInv, InterjHeld, QueueFallback
  PROVE  Flow /\ InterjHeld'
<1> DEFINE left == Keep(act.out, {f \in Fallbacks : outcome[f] = "interject"})
           f == left[Len(left)]
<1>1. /\ f \in Fallbacks /\ f \in Ids /\ outcome[f] = "interject" /\ f \notin Items(queue)
      /\ f \in Items(act.out)
  <2>1. f \in Fallbacks /\ outcome[f] = "interject"
    BY NextFallback
  <2>2. act.out \in Seq(Ids) /\ left # <<>>
    BY DEF TypeOK, ActorState, QueueFallback
  <2>3. left \in Seq(Ids) /\ Items(left) = Items(act.out) \cap {x \in Fallbacks : outcome[x] = "interject"}
    BY <2>2, KeepFacts
  <2>4. f \in Items(left)
    <3> HIDE DEF left
    <3>1. Len(left) \in DOMAIN left
      BY <2>2, <2>3
    <3> QED  BY <3>1 DEF Items
  <2> HIDE DEF f, left
  <2> QED  BY <2>1, <2>3, <2>4, KindsAreIds DEF QueueInv, QueueFresh, Incoming
<1>2. /\ act.pc = "fallback" /\ queue' = InsertSlot(queue, FrontSlot(queue, running), f)
      /\ outcome' = [i \in Ids |-> IF i \in {f} THEN "queued" ELSE outcome[i]]
      /\ UNCHANGED <<terminals, interj>> /\ (act' = StartThen(act.next) \/ act' = act)
  BY DEF QueueFallback, SetOutcome
<1> HIDE DEF left, f
<1>3. Items(queue') = Items(queue) \cup {f}
  <2>1. queue \in Seq(Ids) /\ FrontSlot(queue, running) \in 0 .. Len(queue)
    BY SendNowSlotFacts DEF TypeOK
  <2> QED  BY <1>1, <1>2, <2>1, InsertSlotFacts
<1>4. Flow
  BY <1>1, <1>2, <1>3 DEF Flow, Arrives, Incoming
<1>5. f \notin Items(interj)
  BY <1>1, <1>2 DEF InterjHeld
<1>6. \A x \in Items(interj) : outcome'[x] = outcome[x]
  BY <1>2, <1>5, InterjFacts
<1>7. act'.pc # "fallback" \/ act' = act
  <2>1. act.next \in {"select", "drain"}
    BY NextPlace DEF TypeOK
  <2> QED  BY <1>2, <2>1, PlaceFields
<1> QED  BY <1>2, <1>4, <1>6, <1>7, InterjKept

(* The first notification of a drained batch becomes a prompt. *)
LEMMA DrainFlow ==
  ASSUME TypeOK, QueueInv, InterjHeld, NEW all \in BOOLEAN, DrainNotifications(all)
  PROVE  Flow /\ InterjHeld'
<1> DEFINE batch == pending \o buffer
           shown == IF all THEN <<>> ELSE Keep(batch, Notes \ GoalTurnNotes)
<1>1. UNCHANGED <<terminals, interj>> /\ act'.pc # "fallback"
  <2>1. act' = AtPc("select") \/ act' = StartThen("select")
    BY DEF DrainNotifications, Select
  <2> QED  BY <2>1, PlaceFields DEF DrainNotifications, ActorPc
<1>2. CASE UNCHANGED <<outcome, queue>>
  BY <1>1, <1>2, FlowFrame
<1>3. CASE /\ outcome' = [i \in Ids |-> IF i \notin Items(batch) THEN outcome[i]
                                        ELSE IF i \notin Items(shown) THEN "shed"
                                        ELSE IF i = shown[1] THEN "queued" ELSE "merged"]
           /\ queue' = IF shown = <<>> THEN queue ELSE Append(queue, shown[1])
  <2>1. /\ shown \in Seq(Notes) /\ Items(batch) = Items(pending) \cup Items(buffer)
        /\ shown # <<>> => shown[1] \in Notes /\ shown[1] \in Items(batch)
    BY DrainedFacts
  <2>2. shown # <<>> => shown[1] \in Items(shown)
    BY <2>1, ItemsOf
  <2>3. shown = <<>> => Items(shown) = {}
    BY DEF Items
  <2>4. \A n \in Items(batch) : n \in Ids /\ outcome[n] = "held" /\ n \notin Items(queue) /\ n \in Notes
    BY <2>1, HeldFacts
  <2> HIDE DEF batch, shown
  <2>5. Items(queue') = Items(queue) \cup {n \in {shown[1]} : shown # <<>>}
    <3>1. queue \in Seq(Ids)
      BY DEF TypeOK
    <3> QED  BY <1>3, <2>1, <3>1, AppendFacts, KindsAreIds
  <2>6. Flow
    <3>1. ASSUME NEW i \in Ids, i \in Items(batch) PROVE Arrives(i)
      BY <1>3, <2>2, <2>3, <2>4, <2>5, <3>1 DEF Arrives, Incoming
    <3>2. ASSUME NEW i \in Ids, i \notin Items(batch)
          PROVE  outcome'[i] = outcome[i] /\ (i \in Items(queue') <=> i \in Items(queue))
      BY <1>3, <2>1, <2>5, <3>2
    <3> QED  BY <1>1, <3>1, <3>2 DEF Flow
  <2>7. \A f \in Items(interj) : outcome'[f] = outcome[f]
    BY <1>3, <2>4, InterjFacts
  <2> QED  BY <1>1, <2>6, <2>7, InterjKept
<1> QED  BY <1>2, <1>3, Zenon DEF DrainNotifications

(* A turn that ends hands the interjections it did not merge to the flush. *)
LEMMA FlushFlow ==
  ASSUME TypeOK, InterjHeld, FlushTurnEnd
  PROVE  Flow /\ InterjHeld'
<1>1. UNCHANGED <<queue, outcome, terminals>> /\ interj' = <<>>
  BY DEF FlushTurnEnd, CompleteFrame
<1>2. Items(interj)' = {}
  BY <1>1 DEF Items
<1> QED  BY <1>1, <1>2, FlowStutters DEF InterjHeld

(* Where every prompt stands: what is queued has not been answered; what a *)
(* cancel took is in its hands until it is answered; a user's prompt is    *)
(* never in between.                                                       *)
LedgerInv ==
  /\ InterjHeld
  /\ \A i \in Items(queue) : outcome[i] = "queued" /\ terminals[i] = 0
  /\ \A i \in Ids : outcome[i] \in Incoming => terminals[i] = 0
  /\ act.pc \in Cancelling =>
        /\ \A i \in Ids : i \in Items(act.out) \/ i = act.rewound =>
              outcome[i] = "queued" /\ terminals[i] = 0 /\ i \notin Items(queue)
        /\ \A i \in Items(act.out) : tstat[i] # "none" => i = act.task
        /\ act.task # None => act.task \in Items(act.out)
        /\ act.rewound # None => act.out = <<>> /\ act.task = None
  /\ \A u \in Users :
        /\ outcome[u] # "dropped"
        /\ outcome[u] = "queued" =>
              \/ u \in Items(queue)
              \/ act.pc \in Cancelling /\ (u \in Items(act.out) \/ u = act.rewound)
  /\ OneTerminal

(* Every step keeps the account of the outcomes, but for the two steps of  *)
(* a cancel and the one of a completion that answer prompts.               *)
LEMMA FlowNext ==
  ASSUME TypeOK, QueueInv, RunningIsFront, LedgerInv, Next
  PROVE  (Flow \/ CancelTake \/ CancelDone \/ Complete) /\ InterjHeld'
<1> DEFINE G == (Flow \/ CancelTake \/ CancelDone \/ Complete) /\ InterjHeld'
<1>0. InterjHeld
  BY DEF LedgerInv
<1>1. ASSUME Commands PROVE G
  BY <1>0, <1>1, CommandFlow
<1>2. ASSUME QueueFallback PROVE G
  BY <1>0, <1>2, FallbackFlow
<1>3. ASSUME ActorSkip \/ ActorPin \/ ActorPromote PROVE G
  <2>1. UNCHANGED <<queue, outcome, terminals, interj>>
    BY <1>3 DEF ActorSkip, ActorPin, ActorPromote, StartFrame, PinFront, PromoteFront
  <2>2. act'.pc # "fallback"
    BY <1>3, StartEffect DEF Resets, Moves
  <2> QED  BY <1>0, <2>1, <2>2, FlowFrame
<1>4. ASSUME CancelBegin PROVE G
  <2>1. UNCHANGED <<queue, terminals>> /\ interj' = <<>> /\ SetOutcome(Items(interj), "cleared")
    BY <1>4 DEF CancelBegin
  <2> QED  BY <1>0, <2>1, InterjLeaves
<1>5. ASSUME CancelTake PROVE G
  <2>1. /\ UNCHANGED interj /\ act'.pc # "fallback"
        /\ outcome' = [i \in Ids |-> IF i \in (IF act.kill THEN Items(pending) \cup Items(buffer) ELSE {})
                                     THEN "shed" ELSE outcome[i]]
    BY <1>5, TakeFields DEF CancelTake, SetOutcome
  <2>2. \A f \in Items(interj) : outcome'[f] = outcome[f]
    BY <1>0, <2>1, HeldFacts, InterjFacts
  <2> QED  BY <1>0, <1>5, <2>1, <2>2, InterjKept
<1>6. ASSUME CancelGoal \/ CancelAbort \/ CancelResume PROVE G
  <2>1. UNCHANGED <<queue, outcome, terminals, interj>>
    BY <1>6 DEF CancelGoal, CancelAbort, CancelResume, CancelFrame
  <2>2. act'.pc # "fallback"
    BY <1>6, CancelEffect DEF Resets, Moves
  <2> QED  BY <1>0, <2>1, <2>2, FlowFrame
<1>8. ASSUME TakeCompletion \/ CompleteGoal PROVE G
  <2>1. UNCHANGED <<queue, outcome, terminals, interj>>
    BY <1>8 DEF TakeCompletion, CompleteGoal, CompleteFrame
  <2>2. act'.pc # "fallback"
    BY <1>8, CompletionEffect DEF Resets, Moves
  <2> QED  BY <1>0, <2>1, <2>2, FlowFrame
<1>10. ASSUME FlushTurnEnd PROVE G
  BY <1>0, <1>10, FlushFlow
<1>11. ASSUME NEW all \in BOOLEAN, DrainNotifications(all) PROVE G
  BY <1>0, <1>11, DrainFlow
<1>12. ASSUME NEW s \in Sides, SideStep(s) PROVE G
  BY <1>0, <1>12, FlowFrame DEF SideStep, SideSkip, SidePin, SidePromote, StartFrame, PinFront, PromoteFront
<1>13. ASSUME NEW r \in Resumes, ResumeQueue(r) PROVE G
  <2>1. /\ r \in Ids /\ outcome[r] = "new" /\ QueueInput(r, FALSE) /\ UNCHANGED <<terminals, interj, act>>
    BY <1>13, KindsAreIds DEF ResumeQueue
  <2>2. Flow /\ \A i \in Ids : outcome[i] \in Incoming /\ i # r => outcome'[i] = outcome[i]
    BY <2>1, QueueInputFlow DEF Incoming
  <2>3. \A f \in Items(interj) : outcome'[f] = outcome[f]
    BY <1>0, <2>1, <2>2, InterjFacts DEF Incoming
  <2> QED  BY <1>0, <2>1, <2>2, <2>3, InterjKept
<1>14. ASSUME NEW t \in Ids, TurnStart(t) \/ TurnDone(t) \/ TurnDropped(t) PROVE G
  BY <1>0, <1>14, FlowFrame DEF TurnStart, TurnDone, TurnDropped, TurnFrame
<1>15. ASSUME NEW t \in Ids, TurnStep(t) PROVE G
  BY <1>0, <1>15, TurnFlow
<1>16. ASSUME NEW w \in Wakes, TaskExits(w) \/ BridgeWake(w) PROVE G
  <2>1. PICK o \in {"exited", "quiet", "purge", "sent"} :
          outcome' = [i \in Ids |-> IF i \in {w} THEN o ELSE outcome[i]]
    BY <1>16 DEF TaskExits, BridgeWake, SetOutcome
  <2>2. UNCHANGED <<queue, terminals, interj, act>> /\ outcome[w] \in {"new", "exited"}
    BY <1>16 DEF TaskExits, BridgeWake, BridgeFrame
  <2>3. w \in Ids /\ w \notin Items(queue)
    BY <2>2, KindsAreIds DEF QueueInv, QueueFresh, Incoming
  <2>4. Flow
    BY <2>1, <2>2, <2>3 DEF Flow, Arrives, Incoming
  <2>5. \A f \in Items(interj) : outcome'[f] = outcome[f]
    BY <1>0, <2>1, <2>2, InterjFacts
  <2> QED  BY <1>0, <2>2, <2>4, <2>5, InterjKept
<1>17. ASSUME Quiet PROVE G
  BY <1>0, <1>17, FlowFrame DEF Quiet
<1>19. ASSUME SiblingStep PROVE G
  <2>1. /\ UNCHANGED <<queue, terminals, interj, act>>
        /\ \/ UNCHANGED outcome
           \/ outcome' = [i \in Ids |-> IF i \in Items(buffer) \ Items(Tail(buffer)) THEN "shed"
                                        ELSE outcome[i]]
    BY <1>19 DEF SiblingStep, SiblingTurn, SiblingPush, SiblingFrame, SetOutcome
  <2>2. Flow
    BY <2>1, HeldFacts DEF Flow, Arrives, Incoming
  <2>3. \A f \in Items(interj) : outcome'[f] = outcome[f]
    BY <1>0, <2>1, HeldFacts, InterjFacts
  <2> QED  BY <1>0, <2>1, <2>2, <2>3, InterjKept
<1>7. ASSUME CancelDone PROVE G
  <2>1. UNCHANGED <<queue, interj>> /\ act'.pc # "fallback" /\ act.pc \in Cancelling
    BY <1>7, CancelEffect DEF CancelDone, CancelFrame, Resets, Moves, Cancelling
  <2>2. \A f \in Items(interj) : f \in Ids /\ f \notin Items(act.out) /\ f # act.rewound
    BY <1>0, <2>1, InterjFacts DEF LedgerInv
  <2>3. \A f \in Items(interj) : outcome'[f] = outcome[f]
    BY <1>7, <2>2 DEF CancelDone, SetOutcome
  <2> QED  BY <1>0, <1>7, <2>1, <2>3, InterjKept
<1>9. ASSUME Complete PROVE G
  <2>1. UNCHANGED interj /\ act'.pc # "fallback"
    BY <1>9, CompletionEffect DEF Complete, Resets
  <2>2. \A f \in Items(interj) : f \in Ids /\ f \notin Items(queue)
    BY <1>0, InterjFacts
  <2>3. Owned(act.id) => act.id \in Items(queue)
    BY ItemsOf DEF Owned, TypeOK
  <2>4. \A f \in Items(interj) : outcome'[f] = outcome[f]
    BY <1>9, <2>2, <2>3 DEF Complete, SetOutcome
  <2> QED  BY <1>0, <1>9, <2>1, <2>4, InterjKept
<1> HIDE DEF G
<1>18. G
  BY <1>1, <1>2, <1>3, <1>4, <1>5, <1>6, <1>7, <1>8, <1>9, <1>10, <1>11, <1>12, <1>13, <1>14, <1>15,
     <1>16, <1>17, <1>19, Zenon DEF Next, ActorStep
<1> QED  BY <1>18 DEF G

(* A cancel keeps what it took until it has answered it. *)
LEMMA CancelHolds ==
  ASSUME TypeOK, QueueInv, Next
  PROVE  /\ act.pc \in Cancelling =>
              \/ CancelDone
              \/ /\ act'.pc \in Cancelling /\ act'.out = act.out /\ act'.task = act.task
                 /\ act'.rewound = act.rewound /\ act'.snap = act.snap /\ act'.now = act.now
         /\ act'.pc \in Cancelling => CancelTake \/ act.pc \in Cancelling
<1> DEFINE K == /\ act'.out = act.out /\ act'.task = act.task
                /\ act'.rewound = act.rewound /\ act'.snap = act.snap /\ act'.now = act.now
           Out == act.pc \notin Cancelling /\ act'.pc \notin Cancelling
           G == Out \/ act' = act \/ (CancelDone /\ act'.pc \notin Cancelling)
                \/ (CancelTake /\ act.pc \notin Cancelling)
                \/ (act.pc \in Cancelling /\ act'.pc \in Cancelling /\ K)
<1> USE DEF Cancelling
<1>1. ASSUME Commands PROVE G
  BY <1>1, CommandEffect
<1>2. ASSUME Calm PROVE G
  BY <1>2 DEF Calm
<1>3. ASSUME QueueFallback \/ ActorSkip \/ ActorPin \/ ActorPromote PROVE G
  BY <1>3, StartEffect DEF Resets, Moves
<1>4. ASSUME CancelTake PROVE G
  BY <1>4, TakeFields
<1>5. ASSUME CancelBegin \/ CancelResume PROVE G
  BY <1>5, CancelEffect DEF Resets, Moves
<1>6. ASSUME CancelDone PROVE G
  BY <1>6, CancelEffect DEF Resets, Moves
<1>7. ASSUME CancelGoal \/ CancelAbort PROVE G
  BY <1>7, CancelEffect DEF Moves
<1>8. ASSUME TakeCompletion \/ CompleteGoal \/ Complete \/ FlushTurnEnd PROVE G
  BY <1>8, CompletionEffect DEF Resets, Moves
<1>9. ASSUME NEW all \in BOOLEAN, DrainNotifications(all) PROVE G
  BY <1>9, CompletionEffect DEF Resets
<1>10. ASSUME NEW s \in Sides, SideSkip(s) \/ SidePin(s) \/ SidePromote(s) PROVE G
  BY <1>10, SideEffect
<1>11. ASSUME NEW r \in Resumes, ResumeQueue(r) PROVE G
  BY <1>11, ResumeEffect
<1>12. ASSUME NEW t \in Ids, TurnStart(t) \/ TurnScopeEnd(t) \/ TurnDone(t) \/ TurnDropped(t) PROVE G
  BY <1>12, TurnEffect
<1>13. G
  <2> HIDE DEF G
  <2> QED  BY <1>1, <1>2, <1>3, <1>4, <1>5, <1>6, <1>7, <1>8, <1>9, <1>10, <1>11, <1>12, StepCases, Zenon
<1> HIDE DEF Cancelling
<1> QED  BY <1>13

(* A turn task is spawned for the front of the queue only, and no task is  *)
(* ever unspawned.                                                         *)
LEMMA TasksGrow ==
  ASSUME TypeOK, QueueInv, Next
  PROVE  \A i \in Ids :
           /\ tstat[i] # "none" => tstat'[i] # "none"
           /\ tstat[i] = "none" /\ tstat'[i] # "none" =>
                i \in Items(queue) /\ lock # None /\ UNCHANGED <<queue, outcome>> /\ running' = i
<1> DEFINE G == \A i \in Ids :
           /\ tstat[i] # "none" => tstat'[i] # "none"
           /\ tstat[i] = "none" /\ tstat'[i] # "none" =>
                i \in Items(queue) /\ lock # None /\ UNCHANGED <<queue, outcome>> /\ running' = i
<1>0. tstat \in [Ids -> TaskStates] /\ queue \in Seq(Ids) /\ None # "actor" /\ None \notin Sides
  BY ConstantsAssumption DEF TypeOK
<1>1. ASSUME Commands PROVE G
  BY <1>1, CommandEffect DEF Tables
<1>2. ASSUME Calm PROVE G
  BY <1>2 DEF Calm, Tables
<1>3. ASSUME QueueFallback \/ ActorSkip \/ ActorPin PROVE G
  BY <1>3, StartEffect DEF Tables, PinFront
<1>4. ASSUME NEW p \in {"actor"} \cup Sides, PromoteFront(p), UNCHANGED outcome PROVE G
  <2>1. /\ queue # <<>> /\ queue[1] \in Ids /\ running' = queue[1] /\ queue[1] \in Items(queue)
        /\ tstat' = [tstat EXCEPT ![queue[1]] = "spawned"] /\ UNCHANGED queue /\ lock # None
    BY <1>0, <1>4, PromoteType, ItemsOf DEF PromoteFront
  <2> QED  BY <1>0, <1>4, <2>1
<1>5. ASSUME ActorPromote PROVE G
  BY <1>4, <1>5 DEF ActorPromote, StartFrame
<1>6. ASSUME CancelTake PROVE G
  <2>1. Abort(running) \/ tstat' = tstat
    BY <1>6, TakeFields
  <2> QED  BY <1>0, <2>1 DEF Abort
<1>7. ASSUME CancelAbort PROVE G
  <2>1. Abort(act.task)
    BY <1>7, CancelEffect
  <2> QED  BY <1>0, <2>1 DEF Abort
<1>8. ASSUME CancelBegin \/ CancelGoal \/ CancelDone \/ CancelResume PROVE G
  BY <1>8, CancelEffect DEF Tables
<1>9. ASSUME TakeCompletion \/ CompleteGoal \/ Complete \/ FlushTurnEnd PROVE G
  BY <1>9, CompletionEffect DEF Tables
<1>10. ASSUME NEW all \in BOOLEAN, DrainNotifications(all) PROVE G
  BY <1>10, CompletionEffect DEF Tables
<1>11. ASSUME NEW s \in Sides, SideSkip(s) \/ SidePin(s) PROVE G
  BY <1>11, SideEffect DEF PinFront
<1>12. ASSUME NEW s \in Sides, SidePromote(s) PROVE G
  BY <1>4, <1>12 DEF SidePromote, StartFrame
<1>13. ASSUME NEW r \in Resumes, ResumeQueue(r) PROVE G
  BY <1>13, ResumeEffect
<1>14. ASSUME NEW t \in Ids, TurnStart(t) \/ TurnScopeEnd(t) \/ TurnDone(t) \/ TurnDropped(t) PROVE G
  BY <1>0, <1>14, TurnEffect
<1> HIDE DEF G
<1>15. G
  BY <1>1, <1>2, <1>3, <1>5, <1>6, <1>7, <1>8, <1>9, <1>10, <1>11, <1>12, <1>13, <1>14, StepCases, Zenon
<1> QED  BY <1>15 DEF G

(* The account stays balanced. *)
LEMMA LedgerNext ==
  ASSUME TypeOK, QueueInv, RunningIsFront, TaskInv, PinInv, LedgerInv, TypeOK', QueueInv', Next
  PROVE  LedgerInv'
<1>0. /\ outcome \in [Ids -> Outcomes] /\ terminals \in [Ids -> Nat] /\ queue \in Seq(Ids)
      /\ Items(queue) \subseteq Ids /\ Users \subseteq Ids /\ None \notin Ids
      /\ act \in ActorState /\ Items(act.out) \subseteq Ids /\ act.task \in Ids \cup {None}
      /\ act.rewound \in Ids \cup {None}
  <2>1. /\ outcome \in [Ids -> Outcomes] /\ terminals \in [Ids -> Nat] /\ queue \in Seq(Ids)
        /\ act \in ActorState /\ act.out \in Seq(Ids) /\ act.task \in Ids \cup {None}
        /\ act.rewound \in Ids \cup {None}
    BY DEF TypeOK, ActorState
  <2> QED  BY <2>1, ItemsOf, KindsAreIds, ConstantsAssumption
<1>i. Items(queue)' = Items(queue') /\ Items(act.out)' = Items(act'.out)
  BY DEF Items
<1>q. Items(queue') \subseteq Ids
  <2>1. queue' \in Seq(Ids)
    BY DEF TypeOK
  <2> QED  BY <2>1, ItemsOf
<1>h. InterjHeld'
  BY FlowNext
<1>g. /\ \A i \in Ids : /\ tstat[i] # "none" => tstat'[i] # "none"
                        /\ tstat[i] = "none" /\ tstat'[i] # "none" =>
                             i \in Items(queue) /\ UNCHANGED outcome
  BY TasksGrow
<1>l. /\ \A i \in Items(queue) : outcome[i] = "queued" /\ terminals[i] = 0
      /\ \A i \in Ids : outcome[i] \in Incoming => terminals[i] = 0
      /\ \A i \in Ids : /\ terminals[i] <= 1
                        /\ outcome[i] = "done" => terminals[i] = 1
                        /\ outcome[i] = "cancelled" /\ tstat[i] # "none" => terminals[i] = 1
                        /\ outcome[i] \in {"removed", "rewound"} => terminals[i] = 0
  BY DEF LedgerInv, OneTerminal
<1>1. CASE Flow /\ ~CancelTake /\ ~CancelDone
  <2>0. UNCHANGED terminals
    BY <1>1 DEF Flow
  <2>1. \A i \in Items(queue') : outcome'[i] = "queued" /\ terminals'[i] = 0
    BY <1>0, <1>1, <1>q, <1>l DEF Flow, Arrives, Leaves
  <2>2. \A i \in Ids : outcome'[i] \in Incoming => terminals'[i] = 0
    BY <1>1, <1>l, <2>0 DEF Flow, Arrives, Leaves, Incoming
  <2>3. OneTerminal'
    <3>1. ASSUME NEW i \in Ids
          PROVE  /\ terminals'[i] <= 1
                 /\ outcome'[i] = "done" => terminals'[i] = 1
                 /\ outcome'[i] = "cancelled" /\ tstat'[i] # "none" => terminals'[i] = 1
                 /\ outcome'[i] \in {"removed", "rewound"} => terminals'[i] = 0
      <4>1. outcome'[i] = outcome[i] \/ Arrives(i) \/ Leaves(i)
        BY <1>1 DEF Flow
      <4>2. CASE outcome'[i] = outcome[i]
        BY <1>g, <1>l, <2>0, <4>2
      <4>3. CASE Arrives(i)
        BY <1>l, <2>0, <4>3 DEF Arrives, Incoming
      <4>4. CASE Leaves(i)
        BY <1>l, <2>0, <4>4 DEF Leaves
      <4> QED  BY <4>1, <4>2, <4>3, <4>4
    <3> QED  BY <3>1 DEF OneTerminal
  <2>5. /\ act.pc \in Cancelling <=> act'.pc \in Cancelling
        /\ act.pc \in Cancelling => /\ act'.out = act.out /\ act'.task = act.task
                                    /\ act'.rewound = act.rewound
    BY <1>1, CancelHolds
  <2>6. ASSUME act.pc \in Cancelling
        PROVE  /\ \A i \in Ids : i \in Items(act'.out) \/ i = act'.rewound =>
                    outcome'[i] = "queued" /\ terminals'[i] = 0 /\ i \notin Items(queue')
               /\ \A i \in Items(act'.out) : tstat'[i] # "none" => i = act'.task
               /\ act'.task # None => act'.task \in Items(act'.out)
               /\ act'.rewound # None => act'.out = <<>> /\ act'.task = None
    <3>1. /\ \A i \in Ids : i \in Items(act.out) \/ i = act.rewound =>
                    outcome[i] = "queued" /\ terminals[i] = 0 /\ i \notin Items(queue)
          /\ \A i \in Items(act.out) : tstat[i] # "none" => i = act.task
          /\ act.task # None => act.task \in Items(act.out)
          /\ act.rewound # None => act.out = <<>> /\ act.task = None
      BY <2>6 DEF LedgerInv
    <3>2. \A i \in Ids : i \in Items(act.out) \/ i = act.rewound =>
                    outcome'[i] = "queued" /\ i \notin Items(queue')
      BY <1>1, <3>1 DEF Flow, Arrives, Leaves, Incoming
    <3>3. \A i \in Items(act.out) : tstat'[i] # "none" => i = act.task
      BY <1>0, <1>g, <3>1
    <3> QED  BY <2>0, <2>5, <2>6, <3>1, <3>2, <3>3
  <2>7. ASSUME NEW u \in Users
        PROVE  /\ outcome'[u] # "dropped"
               /\ outcome'[u] = "queued" =>
                    \/ u \in Items(queue')
                    \/ act'.pc \in Cancelling /\ (u \in Items(act'.out) \/ u = act'.rewound)
    <3>1. /\ outcome[u] # "dropped"
          /\ outcome[u] = "queued" =>
               \/ u \in Items(queue)
               \/ act.pc \in Cancelling /\ (u \in Items(act.out) \/ u = act.rewound)
      BY DEF LedgerInv
    <3>2. \/ outcome'[u] = outcome[u] /\ (u \in Items(queue') <=> u \in Items(queue))
          \/ Arrives(u) \/ Leaves(u)
      BY <1>0, <1>1 DEF Flow
    <3> QED  BY <2>5, <3>1, <3>2 DEF Arrives, Leaves, Incoming
  <2> QED  BY <1>h, <1>i, <2>1, <2>2, <2>3, <2>5, <2>6, <2>7 DEF LedgerInv
<1>2. CASE CancelTake
  <2>1. /\ act'.pc \in Cancelling /\ act.pc \notin Cancelling /\ act.pc # "ended" /\ UNCHANGED terminals
        /\ \A i \in Ids : outcome'[i] = outcome[i] \/ (outcome[i] = "held" /\ outcome'[i] = "shed")
    <3>1. outcome' = [i \in Ids |-> IF i \in (IF act.kill THEN Items(pending) \cup Items(buffer) ELSE {})
                                    THEN "shed" ELSE outcome[i]]
      BY <1>2 DEF CancelTake, SetOutcome
    <3> QED  BY <1>2, <3>1, TakeFields, HeldFacts DEF Cancelling
  <2>2. /\ Items(queue) = Items(queue') \cup Items(act'.out) \cup ({act'.rewound} \ {None})
        /\ queue # <<>> => (act'.rewound = queue[1] /\ act'.out = <<>>)
                              \/ (act'.rewound = None /\ queue[1] \in Items(act'.out))
        /\ queue = <<>> => act'.rewound = None
        /\ act'.rewound \notin Items(queue') /\ Items(act'.out) \cap Items(queue') = {}
    BY <1>2, TakeQueue
  <2>3. /\ act'.task = (IF act.rewind /\ rewindable THEN None ELSE running)
        /\ act'.rewound = (IF (act.rewind /\ rewindable) /\ queue # <<>> THEN queue[1] ELSE None)
    BY <1>2, TakeFields
  <2>4. \A i \in Items(queue') : outcome'[i] = "queued" /\ terminals'[i] = 0
    BY <1>0, <1>l, <1>q, <2>1, <2>2
  <2>5. \A i \in Ids : outcome'[i] \in Incoming => terminals'[i] = 0
    BY <1>l, <2>1 DEF Incoming
  <2>6. OneTerminal'
    BY <1>g, <1>l, <2>1 DEF OneTerminal, Incoming
  <2>7. \A i \in Ids : i \in Items(act'.out) \/ i = act'.rewound =>
          outcome'[i] = "queued" /\ terminals'[i] = 0 /\ i \notin Items(queue')
    BY <1>0, <1>l, <2>1, <2>2
  <2>8. Items(<<>>) = {}
    BY DEF Items
  <2>f. queue # <<>> => queue[1] \in Ids
    BY FrontFacts
  <2>9. \A i \in Items(act'.out) : tstat'[i] # "none" => i = act'.task
    <3> SUFFICES ASSUME NEW i \in Items(act'.out), tstat'[i] # "none" PROVE i = act'.task
      OBVIOUS
    <3>1. i \in Items(queue) /\ i \in Ids /\ queue # <<>> /\ act'.rewound = None
      BY <1>0, <2>2, <2>8
    <3>2. ~(act.rewind /\ rewindable)
      BY <1>0, <2>3, <2>f, <3>1
    <3>3. tstat' = tstat /\ act'.task = running
      BY <1>2, <2>3, <3>2, TakeFields
    <3> QED  BY <3>1, <3>3, FrontFacts
  <2>10. act'.task # None => act'.task \in Items(act'.out)
    BY <1>0, <2>1, <2>2, <2>3, FrontFacts
  <2>11. act'.rewound # None => act'.out = <<>> /\ act'.task = None
    BY <1>0, <2>2, <2>3
  <2>12. ASSUME NEW u \in Users
         PROVE  /\ outcome'[u] # "dropped"
                /\ outcome'[u] = "queued" => u \in Items(queue') \/ u \in Items(act'.out) \/ u = act'.rewound
    <3>1. outcome[u] # "dropped" /\ (outcome[u] = "queued" => u \in Items(queue)) /\ u \in Ids
      BY <1>0, <2>1 DEF LedgerInv
    <3> QED  BY <2>1, <2>2, <3>1
  <2> QED  BY <1>h, <1>i, <2>1, <2>4, <2>5, <2>6, <2>7, <2>9, <2>10, <2>11, <2>12 DEF LedgerInv
<1>3. CASE CancelDone
  <2>1. act.pc \in Cancelling /\ act'.pc \notin Cancelling /\ UNCHANGED <<queue, tstat>>
    BY <1>3, CancelEffect DEF Resets, Moves, Cancelling
  <2>2. /\ \A i \in Ids : i \in Items(act.out) \/ i = act.rewound =>
              outcome[i] = "queued" /\ terminals[i] = 0 /\ i \notin Items(queue)
        /\ \A i \in Items(act.out) : tstat[i] # "none" => i = act.task
        /\ act.task # None => act.task \in Items(act.out)
        /\ act.rewound # None => act.out = <<>> /\ act.task = None
    BY <2>1 DEF LedgerInv
  <2>3. \A u \in Users : /\ outcome[u] # "dropped"
                         /\ outcome[u] = "queued" =>
                              u \in Items(queue) \/ u \in Items(act.out) \/ u = act.rewound
    BY DEF LedgerInv
  <2>4. Items(<<>>) = {}
    BY DEF Items
  <2>5. CASE act.rewound # None
    <3>1. /\ outcome' = [i \in Ids |-> IF i \in {act.rewound} THEN "rewound" ELSE outcome[i]]
          /\ UNCHANGED terminals /\ act.rewound \in Ids
      BY <1>0, <1>3, <2>5 DEF CancelDone, SetOutcome
    <3>2. \A i \in Items(queue') : outcome'[i] = "queued" /\ terminals'[i] = 0
      BY <1>0, <1>l, <2>1, <2>2, <3>1
    <3>3. \A i \in Ids : outcome'[i] \in Incoming => terminals'[i] = 0
      BY <1>l, <3>1 DEF Incoming
    <3>4. OneTerminal'
      BY <1>l, <2>1, <2>2, <3>1 DEF OneTerminal
    <3>5. \A u \in Users : outcome'[u] # "dropped" /\ (outcome'[u] = "queued" => u \in Items(queue'))
      BY <1>0, <2>1, <2>2, <2>3, <2>4, <2>5, <3>1
    <3> QED  BY <1>h, <1>i, <2>1, <3>2, <3>3, <3>4, <3>5 DEF LedgerInv
  <2>6. CASE act.rewound = None
    <3> DEFINE id == IF act.task # None THEN act.task ELSE act.snap
    <3>1. /\ outcome' = [i \in Ids |-> IF i \in Items(act.out) THEN "cancelled" ELSE outcome[i]]
          /\ terminals' = [i \in Ids |-> terminals[i] + (IF i = id THEN 1 ELSE 0)]
      BY <1>3, <2>6 DEF CancelDone, SetOutcome
    <3>2. id = act.task
      BY <2>1, <2>6 DEF PinInv
    <3> HIDE DEF id
    <3>3. \A i \in Ids : /\ i # act.task => terminals'[i] = terminals[i]
                         /\ i = act.task => terminals'[i] = 1
      BY <1>0, <2>2, <3>1, <3>2
    <3>4. \A i \in Items(queue') : outcome'[i] = "queued" /\ terminals'[i] = 0
      BY <1>0, <1>l, <2>1, <2>2, <3>1, <3>3
    <3>5. \A i \in Ids : outcome'[i] \in Incoming => terminals'[i] = 0
      BY <1>0, <1>l, <2>2, <3>1, <3>3 DEF Incoming
    <3>6. OneTerminal'
      <4>1. ASSUME NEW i \in Ids, i \in Items(act.out)
            PROVE  /\ terminals'[i] <= 1 /\ outcome'[i] = "cancelled"
                   /\ tstat'[i] # "none" => terminals'[i] = 1
        BY <2>1, <2>2, <3>1, <3>3, <4>1
      <4>2. ASSUME NEW i \in Ids, i \notin Items(act.out)
            PROVE  terminals'[i] = terminals[i] /\ outcome'[i] = outcome[i] /\ tstat'[i] = tstat[i]
        BY <1>0, <2>1, <2>2, <3>1, <3>3, <4>2
      <4> QED  BY <1>l, <4>1, <4>2 DEF OneTerminal
    <3>7. \A u \in Users : outcome'[u] # "dropped" /\ (outcome'[u] = "queued" => u \in Items(queue'))
      BY <1>0, <2>1, <2>2, <2>3, <2>6, <3>1
    <3> QED  BY <1>h, <1>i, <2>1, <3>4, <3>5, <3>6, <3>7 DEF LedgerInv
  <2> QED  BY <2>5, <2>6
<1>4. CASE Complete
  <2>1. /\ act.pc = "complete" /\ act'.pc = "flush" /\ UNCHANGED tstat
        /\ queue' = (IF Owned(act.id) THEN Tail(queue) ELSE queue)
        /\ outcome' = [i \in Ids |-> IF i \in (IF Owned(act.id) THEN {act.id} ELSE {}) THEN "done" ELSE outcome[i]]
        /\ terminals' = (IF Owned(act.id) THEN [terminals EXCEPT ![act.id] = @ + 1] ELSE terminals)
    BY <1>4, CompletionEffect DEF Complete, SetOutcome, EmitsTerminal, Resets
  <2>2. /\ Items(queue') \subseteq Items(queue)
        /\ \A i \in Items(queue) : i \in Items(queue') \/ (Owned(act.id) /\ i = act.id)
        /\ Owned(act.id) => act.id \in Ids /\ act.id \in Items(queue) /\ act.id \notin Items(queue')
    <3>1. CASE Owned(act.id)
      <4>1. queue # <<>> /\ queue[1] = act.id /\ queue' = Tail(queue) /\ Distinct(queue)
        BY <2>1, <3>1 DEF Owned, QueueInv, QueueFresh
      <4>2. /\ Items(queue) = {queue[1]} \cup Items(Tail(queue))
            /\ Items(Tail(queue)) \subseteq Items(queue) \ {queue[1]}
        BY <1>0, <4>1, TailItems, TailFacts
      <4>3. act.id \in Ids /\ act.id \in Items(queue)
        BY <1>0, <4>1, ItemsOf
      <4> QED  BY <3>1, <4>1, <4>2, <4>3
    <3>2. CASE ~Owned(act.id)
      BY <2>1, <3>2
    <3> QED  BY <3>1, <3>2
  <2>3. \A i \in Items(queue') : outcome'[i] = "queued" /\ terminals'[i] = 0
    BY <1>0, <1>l, <2>1, <2>2
  <2>4. \A i \in Ids : outcome'[i] \in Incoming => terminals'[i] = 0
    BY <1>0, <1>l, <2>1, <2>2 DEF Incoming
  <2>5. OneTerminal'
    <3>1. ASSUME NEW i \in Ids, Owned(act.id), i = act.id
          PROVE  terminals'[i] = 1 /\ outcome'[i] = "done"
      BY <1>0, <1>l, <2>1, <2>2, <3>1
    <3>2. ASSUME NEW i \in Ids, ~Owned(act.id) \/ i # act.id
          PROVE  terminals'[i] = terminals[i] /\ outcome'[i] = outcome[i] /\ tstat'[i] = tstat[i]
      BY <1>0, <2>1, <2>2, <3>2
    <3> QED  BY <1>l, <3>1, <3>2 DEF OneTerminal
  <2>6. \A u \in Users : outcome'[u] # "dropped" /\ (outcome'[u] = "queued" => u \in Items(queue'))
    <3>1. \A u \in Users : outcome[u] # "dropped" /\ (outcome[u] = "queued" => u \in Items(queue))
      BY <2>1 DEF LedgerInv, Cancelling
    <3> QED  BY <1>0, <2>1, <2>2, <3>1
  <2>7. act'.pc \notin Cancelling
    BY <2>1 DEF Cancelling
  <2> QED  BY <1>h, <1>i, <2>3, <2>4, <2>5, <2>6, <2>7 DEF LedgerInv
<1> QED  BY <1>1, <1>2, <1>3, <1>4, FlowNext

-----------------------------------------------------------------------------
(* Nothing is left behind *)

(* The places from which the actor goes back to its select without passing *)
(* through maybe_start_running_task.                                       *)
Steady == {"select", "drain", "cancel", "cancel_take", "complete_goal", "complete"}

(* There, with no turn in flight, what waits was queued beside the actor   *)
(* by a task that is about to promote it.                                  *)
ServedInv ==
  act.pc \in Steady /\ running = None =>
     \A i \in Items(queue) : i \in Resumes /\ side[i] \in {"start", "promote"}

(* A command that adds to an idle queue goes on to start a turn. *)
LEMMA CommandServes ==
  ASSUME TypeOK, QueueInv, Commands, running = None, act'.pc \in Steady
  PROVE  Items(queue') \subseteq Items(queue)
<1> DEFINE G == Items(queue') \subseteq Items(queue)
<1>0. queue \in Seq(Ids) /\ Distinct(queue)
  BY DEF TypeOK, QueueInv, QueueFresh
<1>p. /\ \A pc \in ActorPc : AtPc(pc).pc = pc
      /\ \A next \in {"select", "drain"} : StartThen(next).pc = "start"
      /\ "start" \notin Steady /\ "ended" \notin Steady /\ "ended" \in ActorPc
  BY PlaceFields DEF ActorPc, Steady
<1>1. ASSUME NEW id, NEW now, Prompt(id, now) PROVE G
  BY <1>1, <1>p DEF Prompt, CancelsTurn
<1>2. ASSUME NEW g, GoalSummaryTurn(g) PROVE G
  BY <1>2, <1>p DEF GoalSummaryTurn
<1>3. ASSUME NEW u, NEW v, NEW o, RemoveQueuedPrompt(u, v, o) PROVE G
  BY <1>0, <1>3, KeepFacts DEF RemoveQueuedPrompt
<1>4. ASSUME NEW o, ClearQueue(o) PROVE G
  BY <1>0, <1>4, KeepFacts DEF ClearQueue
<1>5. ASSUME NEW u, NEW v, NEW o, NEW edit, InterjectQueuedPrompt(u, v, o, edit) PROVE G
  BY <1>5, <1>p DEF InterjectQueuedPrompt
<1>6. ASSUME NEW order \in Orders, ReorderQueue(order) PROVE G
  <2>1. order \in Seq(Ids) /\ Distinct(order)
    BY <1>0, ReorderType
  <2> QED  BY <1>0, <1>6, <2>1, ReorderFacts DEF ReorderQueue
<1>7. ASSUME NEW u, EditQueuedPrompt(u) PROVE G
  BY <1>7 DEF EditQueuedPrompt
<1>8. ASSUME NEW f, Interject(f) PROVE G
  BY <1>8 DEF Interject
<1>9. ASSUME NEW n, InjectNotification(n) \/ DropMonitorNotifications(n) PROVE G
  BY <1>9 DEF InjectNotification, DropMonitorNotifications, NoteFrame
<1>10. ASSUME NEW rewind, NEW kill, Cancel(rewind, kill) PROVE G
  BY <1>10 DEF Cancel
<1>11. ASSUME Shutdown PROVE G
  BY <1>11, <1>p DEF Shutdown
<1> HIDE DEF G
<1>12. G
  BY <1>1, <1>2, <1>3, <1>4, <1>5, <1>6, <1>7, <1>8, <1>9, <1>10, <1>11, Zenon DEF Commands
<1> QED  BY <1>12 DEF G

(* No step leaves work behind. *)
LEMMA ServedNext ==
  ASSUME TypeOK, QueueInv, RunningIsFront, ServedInv, Next
  PROVE  ServedInv'
<1>0. /\ running \in Ids \cup {None} /\ None \notin Ids /\ Resumes \subseteq Sides
      /\ side \in [Sides -> {"idle", "start", "promote", "over"}]
      /\ queue # <<>> => queue[1] \in Ids
  BY ConstantsAssumption, FrontFacts DEF TypeOK, Sides
<1>i. Items(queue)' = Items(queue')
  BY DEF Items
<1> DEFINE Kept == /\ Items(queue') \subseteq Items(queue) /\ UNCHANGED <<running, side>>
                   /\ act.pc \in Steady
           G == (act'.pc \in Steady /\ running' = None => Kept) \/ ServedInv'
<1>1. ASSUME Commands PROVE G
  <2>1. act.pc \in Steady /\ UNCHANGED <<running, side>>
    BY <1>1, CommandEffect DEF Tables, Steady
  <2> QED  BY <1>1, <2>1, CommandServes
<1>2. ASSUME Calm PROVE G
  BY <1>2 DEF Calm, Tables
<1>3. ASSUME QueueFallback PROVE G
  BY <1>3, StartEffect DEF Resets, Steady
<1>4. ASSUME ActorSkip PROVE G
  <2>1. /\ UNCHANGED <<running, queue>> /\ (running # None \/ queue = <<>>)
    BY <1>4, StartEffect DEF Tables
  <2> QED  BY <1>i, <2>1 DEF ServedInv, Items
<1>5. ASSUME ActorPin PROVE G
  BY <1>5, StartEffect DEF Moves, Steady
<1>6. ASSUME NEW p \in {"actor"} \cup Sides, PromoteFront(p) PROVE G
  <2>1. running' # None
    BY <1>0, <1>6, PromoteType
  <2> QED  BY <2>1
<1>7. ASSUME ActorPromote PROVE G
  BY <1>6, <1>7 DEF ActorPromote
<1>8. ASSUME CancelBegin \/ CancelResume \/ CancelGoal \/ CancelAbort \/ CancelDone PROVE G
  BY <1>8, CancelEffect DEF Resets, Moves, Tables, Steady
<1>9. ASSUME CancelTake PROVE G
  BY <1>9, TakeFields DEF Steady
<1>10. ASSUME TakeCompletion \/ CompleteGoal \/ Complete \/ FlushTurnEnd PROVE G
  BY <1>10, CompletionEffect DEF Resets, Moves, Tables, Steady
<1>11. ASSUME NEW all \in BOOLEAN, DrainNotifications(all) PROVE G
  BY <1>11, CompletionEffect DEF Resets, Tables, Steady
<1>12. ASSUME NEW s \in Sides, SideSkip(s) PROVE G
  <2>1. /\ UNCHANGED <<running, queue>> /\ (running # None \/ queue = <<>>)
    BY <1>12, SideEffect
  <2> QED  BY <1>i, <2>1 DEF ServedInv, Items
<1>13. ASSUME NEW s \in Sides, SidePin(s) PROVE G
  <2>1. UNCHANGED <<act, queue, running>> /\ side' = [side EXCEPT ![s] = "promote"]
    BY <1>13, SideEffect DEF PinFront
  <2> QED  BY <1>0, <1>i, <2>1 DEF ServedInv
<1>14. ASSUME NEW s \in Sides, SidePromote(s) PROVE G
  BY <1>6, <1>14 DEF SidePromote
<1>15. ASSUME NEW r \in Resumes, ResumeQueue(r) PROVE G
  <2>1. /\ UNCHANGED <<act, running, terminals>> /\ side' = [side EXCEPT ![r] = "start"]
        /\ outcome[r] = "new" /\ QueueInput(r, FALSE)
    BY <1>15, ResumeEffect
  <2>2. r \in Ids /\ r \in Synthetic
    BY KindsAreIds DEF Synthetic
  <2>3. Items(queue') = Items(queue) \cup {r}
    BY <2>1, <2>2, QueueInputFlow DEF Incoming
  <2> QED  BY <1>0, <1>i, <2>1, <2>3 DEF ServedInv
<1>16. ASSUME NEW t \in Ids, TurnStart(t) \/ TurnScopeEnd(t) \/ TurnDone(t) \/ TurnDropped(t) PROVE G
  BY <1>16, TurnEffect
<1>17. G
  <2> HIDE DEF G
  <2> QED  BY <1>1, <1>2, <1>3, <1>4, <1>5, <1>7, <1>8, <1>9, <1>10, <1>11, <1>12, <1>13, <1>14, <1>15,
              <1>16, StepCases, Zenon
<1>18. ASSUME Kept PROVE ServedInv'
  BY <1>18, <1>i DEF ServedInv
<1> HIDE DEF Kept
<1>19. (act'.pc \in Steady /\ running' = None => ServedInv') => ServedInv'
  BY DEF ServedInv
<1> QED  BY <1>17, <1>18, <1>19

(* The interjections of a session are buffered by a command, and otherwise *)
(* only ever taken out.                                                    *)
LEMMA InterjFrame ==
  ASSUME Next
  PROVE  \/ interj' = interj
         \/ interj' = <<>>
         \/ act.pc = "select" /\ act' = act /\ pin # None /\ UNCHANGED <<running, lock>>
<1> DEFINE G == \/ interj' = interj
                \/ interj' = <<>>
                \/ act.pc = "select" /\ act' = act /\ pin # None /\ UNCHANGED <<running, lock>>
<1>1. ASSUME Commands PROVE G
  <2>1. ASSUME NEW id, NEW now, Prompt(id, now) PROVE G
    BY <2>1 DEF Prompt
  <2>2. ASSUME NEW g, GoalSummaryTurn(g) PROVE G
    BY <2>2 DEF GoalSummaryTurn
  <2>3. ASSUME NEW u, NEW v, NEW o, RemoveQueuedPrompt(u, v, o) \/ ClearQueue(o) \/ EditQueuedPrompt(u) PROVE G
    BY <2>3 DEF RemoveQueuedPrompt, ClearQueue, EditQueuedPrompt, EditFrame
  <2>4. ASSUME NEW u, NEW v, NEW o, NEW edit, InterjectQueuedPrompt(u, v, o, edit) PROVE G
    BY <2>4 DEF InterjectQueuedPrompt, EditFrame
  <2>5. ASSUME NEW order, ReorderQueue(order) PROVE G
    BY <2>5 DEF ReorderQueue, EditFrame
  <2>6. ASSUME NEW f, Interject(f) PROVE G
    BY <2>6 DEF Interject, AtCommand
  <2>7. ASSUME NEW n, InjectNotification(n) \/ DropMonitorNotifications(n) PROVE G
    BY <2>7 DEF InjectNotification, DropMonitorNotifications, NoteFrame
  <2>8. ASSUME NEW rewind, NEW kill, Cancel(rewind, kill) PROVE G
    BY <2>8 DEF Cancel
  <2>9. ASSUME Shutdown PROVE G
    BY <2>9 DEF Shutdown
  <2> HIDE DEF G
  <2> QED  BY <1>1, <2>1, <2>2, <2>3, <2>4, <2>5, <2>6, <2>7, <2>8, <2>9, Zenon DEF Commands
<1>2. ASSUME ActorStep PROVE G
  BY <1>2 DEF ActorStep, QueueFallback, ActorSkip, ActorPin, ActorPromote, StartFrame,
     CancelBegin, CancelTake, CancelGoal, CancelAbort, CancelDone, CancelResume, CancelFrame,
     TakeCompletion, CompleteGoal, Complete, FlushTurnEnd, DrainNotifications
<1>3. ASSUME NEW s \in Sides, SideStep(s) PROVE G
  BY <1>3 DEF SideStep, SideSkip, SidePin, SidePromote, StartFrame
<1>4. ASSUME NEW r \in Resumes, ResumeQueue(r) PROVE G
  BY <1>4 DEF ResumeQueue
<1>5. ASSUME NEW t \in Ids, TurnStart(t) \/ TurnStep(t) \/ TurnDone(t) \/ TurnDropped(t) PROVE G
  BY <1>5 DEF TurnStart, TurnStep, TurnDone, TurnDropped, TurnEmit, TurnMerge, TurnInject,
     TurnRemind, TurnGoal, TurnConsume, TurnScopeEnd, RequestWait, EnterWait, LeaveWait,
     AbandonWait, WaitFrame
<1>6. ASSUME NEW w \in Wakes, TaskExits(w) \/ BridgeWake(w) PROVE G
  BY <1>6 DEF TaskExits, BridgeWake, BridgeFrame
<1>7. ASSUME Quiet \/ SiblingStep PROVE G
  BY <1>7 DEF Quiet, SiblingStep, SiblingTurn, SiblingPush, SiblingFrame
<1> HIDE DEF G
<1>8. G
  BY <1>1, <1>2, <1>3, <1>4, <1>5, <1>6, <1>7, Zenon DEF Next
<1> QED  BY <1>8 DEF G

(* The window in which the interjections have been cleared by a cancel. *)
Clearing == Cancelling \cup {"cancel_take", "cancel_resume"}

(* An interjection waits for a turn in flight or about to be promoted, or  *)
(* for the flush at the end of the turn; a cancel starts by clearing them. *)
InterjInv ==
  /\ interj # <<>> => running # None \/ lock # None \/ act.pc = "flush"
  /\ act.pc \in Clearing => interj = <<>>

(* No step strands an interjection. *)
LEMMA InterjNext ==
  ASSUME TypeOK, QueueInv, RunningIsFront, PinInv, InterjInv, Next
  PROVE  InterjInv'
<1>0. None \notin Ids /\ None # "actor" /\ None \notin Sides
  BY ConstantsAssumption
<1>c. Clearing = {"cancel_goal", "cancel_abort", "cancel_done", "cancel_take", "cancel_resume"}
  BY DEF Clearing, Cancelling
<1>1. CASE interj' = <<>>
  BY <1>1 DEF InterjInv
<1>2. CASE act.pc = "select" /\ act' = act /\ pin # None /\ UNCHANGED <<running, lock>>
  <2>1. running # None \/ lock # None
    BY <1>2 DEF PinInv, Cancelling
  <2> QED  BY <1>2, <1>c, <2>1 DEF InterjInv
<1>3. CASE interj' = interj
  <2> DEFINE Window == /\ running # None \/ lock # None \/ act.pc = "flush" =>
                            running' # None \/ lock' # None \/ act'.pc = "flush" \/ interj' = <<>>
                       /\ act'.pc \in Clearing => act.pc \in Clearing \/ interj' = <<>>
  <2>1. ASSUME Commands PROVE Window
    BY <1>c, <2>1, CommandEffect DEF Tables
  <2>2. ASSUME Calm PROVE Window
    BY <2>2 DEF Calm, Tables
  <2>3. ASSUME QueueFallback \/ ActorSkip \/ ActorPin PROVE Window
    BY <1>0, <1>c, <2>3, StartEffect DEF Tables, Resets, Moves, PinFront
  <2>4. ASSUME NEW p \in {"actor"} \cup Sides, PromoteFront(p) PROVE running' # None
    BY <1>0, <2>4, PromoteType
  <2>5. ASSUME ActorPromote PROVE Window
    BY <1>c, <2>4, <2>5, StartEffect DEF Resets
  <2>6. ASSUME CancelBegin PROVE Window
    BY <2>6, CancelEffect DEF CancelBegin, Tables
  <2>7. ASSUME CancelTake PROVE Window
    BY <1>3, <1>c, <2>7, TakeFields DEF InterjInv
  <2>8. ASSUME CancelGoal \/ CancelAbort \/ CancelDone \/ CancelResume PROVE Window
    BY <1>c, <2>8, CancelEffect DEF Tables, Moves, Resets
  <2>9. ASSUME TakeCompletion \/ CompleteGoal PROVE Window
    BY <1>c, <2>9, CompletionEffect DEF Tables, Moves, Resets
  <2>10. ASSUME Complete PROVE Window
    BY <1>c, <2>10, CompletionEffect DEF Resets
  <2>11. ASSUME FlushTurnEnd PROVE Window
    BY <1>c, <2>11, CompletionEffect DEF FlushTurnEnd, Resets
  <2>12. ASSUME NEW all \in BOOLEAN, DrainNotifications(all) PROVE Window
    BY <1>c, <2>12, CompletionEffect DEF Tables, Resets
  <2>13. ASSUME NEW s \in Sides, SideSkip(s) \/ SidePin(s) PROVE Window
    BY <1>0, <2>13, SideEffect DEF PinFront
  <2>14. ASSUME NEW s \in Sides, SidePromote(s) PROVE Window
    BY <2>4, <2>14, SideEffect
  <2>15. ASSUME NEW r \in Resumes, ResumeQueue(r) PROVE Window
    BY <2>15, ResumeEffect
  <2>16. ASSUME NEW t \in Ids, TurnStart(t) \/ TurnScopeEnd(t) \/ TurnDone(t) \/ TurnDropped(t) PROVE Window
    BY <2>16, TurnEffect
  <2>17. Window
    <3> HIDE DEF Window
    <3> QED  BY <2>1, <2>2, <2>3, <2>5, <2>6, <2>7, <2>8, <2>9, <2>10, <2>11, <2>12, <2>13, <2>14, <2>15,
                <2>16, StepCases, Zenon
  <2> QED  BY <1>3, <2>17 DEF InterjInv
<1> QED  BY <1>1, <1>2, <1>3, InterjFrame

-----------------------------------------------------------------------------
(* What the answers say *)

(* The flags of a cancel come from the command that asked for it. *)
FlagsInv ==
  /\ act.kill => KillAllowed
  /\ act.rewind => RewindAllowed
  /\ act.now => ~act.kill /\ ~act.rewind

(* Only a Cancel command sets the flags. *)
LEMMA FlagsNext ==
  ASSUME TypeOK, QueueInv, FlagsInv, Next
  PROVE  FlagsInv'
<1> DEFINE Same == act'.kill = act.kill /\ act'.rewind = act.rewind /\ act'.now = act.now
           Clear == ~act'.kill /\ ~act'.rewind
           G == Same \/ Clear \/ FlagsInv'
<1>p. /\ \A pc \in ActorPc : ~AtPc(pc).kill /\ ~AtPc(pc).rewind
      /\ \A next \in {"select", "drain"} : ~StartThen(next).kill /\ ~StartThen(next).rewind
      /\ {"drain", "ended"} \subseteq ActorPc
  BY PlaceFields DEF ActorPc
<1>n. LET n == [AtPc("cancel") EXCEPT !.now = TRUE] IN ~n.kill /\ ~n.rewind
  BY DEF AtPc
<1>1. ASSUME Commands PROVE G
  <2>1. ASSUME NEW id, NEW now, Prompt(id, now) PROVE G
    BY <2>1, <1>p, <1>n DEF Prompt
  <2>2. ASSUME NEW g, GoalSummaryTurn(g) PROVE G
    BY <2>2, <1>p DEF GoalSummaryTurn
  <2>3. ASSUME NEW u, NEW v, NEW o, RemoveQueuedPrompt(u, v, o) \/ ClearQueue(o) \/ EditQueuedPrompt(u) PROVE G
    BY <2>3 DEF RemoveQueuedPrompt, ClearQueue, EditQueuedPrompt
  <2>4. ASSUME NEW u, NEW v, NEW o, NEW edit, InterjectQueuedPrompt(u, v, o, edit) PROVE G
    BY <2>4, <1>p, <1>n DEF InterjectQueuedPrompt
  <2>5. ASSUME NEW order, ReorderQueue(order) PROVE G
    BY <2>5 DEF ReorderQueue
  <2>6. ASSUME NEW f, Interject(f) PROVE G
    <3>1. act' = act \/ act' = [AtPc("fallback") EXCEPT !.out = <<f>>]
      BY <2>6 DEF Interject
    <3> QED  BY <3>1 DEF AtPc
  <2>7. ASSUME NEW n, InjectNotification(n) \/ DropMonitorNotifications(n) PROVE G
    BY <2>7, <1>p DEF InjectNotification, DropMonitorNotifications
  <2>8. ASSUME NEW rewind \in BOOLEAN, NEW kill \in BOOLEAN, Cancel(rewind, kill) PROVE G
    <3>1. act' = [AtPc("cancel") EXCEPT !.rewind = rewind, !.kill = kill]
          /\ (rewind => RewindAllowed) /\ (kill => KillAllowed)
      BY <2>8 DEF Cancel
    <3>2. act'.kill = kill /\ act'.rewind = rewind /\ act'.now = FALSE
      BY <3>1 DEF AtPc
    <3> QED  BY <3>1, <3>2 DEF FlagsInv
  <2>9. ASSUME Shutdown PROVE G
    BY <2>9, <1>p DEF Shutdown
  <2> HIDE DEF G
  <2> QED  BY <1>1, <2>1, <2>2, <2>3, <2>4, <2>5, <2>6, <2>7, <2>8, <2>9, Zenon DEF Commands
<1>2. ASSUME Calm PROVE G
  BY <1>2 DEF Calm
<1>3. ASSUME QueueFallback \/ ActorSkip \/ ActorPin \/ ActorPromote PROVE G
  BY <1>3, StartEffect DEF Resets, Moves
<1>4. ASSUME CancelTake PROVE G
  BY <1>4, TakeFields
<1>5. ASSUME CancelBegin \/ CancelGoal \/ CancelAbort \/ CancelDone \/ CancelResume PROVE G
  BY <1>5, CancelEffect DEF Resets, Moves
<1>8. ASSUME TakeCompletion \/ CompleteGoal \/ Complete \/ FlushTurnEnd PROVE G
  BY <1>8, CompletionEffect DEF Resets, Moves
<1>9. ASSUME NEW all \in BOOLEAN, DrainNotifications(all) PROVE G
  BY <1>9, CompletionEffect DEF Resets
<1>10. ASSUME NEW s \in Sides, SideSkip(s) \/ SidePin(s) \/ SidePromote(s) PROVE G
  BY <1>10, SideEffect
<1>11. ASSUME NEW r \in Resumes, ResumeQueue(r) PROVE G
  BY <1>11, ResumeEffect
<1>12. ASSUME NEW t \in Ids, TurnStart(t) \/ TurnScopeEnd(t) \/ TurnDone(t) \/ TurnDropped(t) PROVE G
  BY <1>12, TurnEffect
<1>13. G
  <2> HIDE DEF G
  <2> QED  BY <1>1, <1>2, <1>3, <1>4, <1>5, <1>8, <1>9, <1>10, <1>11, <1>12, StepCases, Zenon
<1> QED  BY <1>13 DEF FlagsInv

(* Without a teardown, what a cancel answers to a user had started. *)
AnswerInv ==
  ~KillAllowed =>
    /\ AnswerIsTrue
    /\ act.pc \in Cancelling =>
         \A u \in Users : u \in Items(act.out) \/ u = act.rewound => tstat[u] # "none"

(* The answers stay true. *)
LEMMA AnswerNext ==
  ASSUME TypeOK, QueueInv, RunningIsFront, TaskInv, LedgerInv, FlagsInv, ServedInv, AnswerInv, Next
  PROVE  AnswerInv'
<1> SUFFICES ASSUME ~KillAllowed
             PROVE  /\ AnswerIsTrue'
                    /\ act'.pc \in Cancelling =>
                         \A u \in Users : u \in Items(act.out)' \/ u = act'.rewound => tstat'[u] # "none"
  BY DEF AnswerInv
<1>0. Users \subseteq Ids /\ None \notin Ids /\ Users \cap Resumes = {}
  BY KindsAreIds, ConstantsAssumption, KindsAssumption DEF Synthetic
<1>i. Items(act.out)' = Items(act'.out)
  BY DEF Items
<1>g. \A i \in Ids : /\ tstat[i] # "none" => tstat'[i] # "none"
                     /\ tstat[i] = "none" /\ tstat'[i] # "none" =>
                          i \in Items(queue) /\ UNCHANGED outcome
  BY TasksGrow
<1>l. \A i \in Items(queue) : outcome[i] = "queued"
  BY DEF LedgerInv
<1>a. /\ \A u \in Users : /\ outcome[u] = "removed" => tstat[u] = "none"
                          /\ outcome[u] \in {"cancelled", "rewound", "done"} => tstat[u] # "none"
      /\ act.pc \in Cancelling =>
            \A u \in Users : u \in Items(act.out) \/ u = act.rewound => tstat[u] # "none"
  BY DEF AnswerInv, AnswerIsTrue
<1> DEFINE A(u) == /\ outcome'[u] = "removed" => tstat'[u] = "none"
                   /\ outcome'[u] \in {"cancelled", "rewound", "done"} => tstat'[u] # "none"
<1>s. ASSUME NEW u \in Users, outcome'[u] = outcome[u] PROVE A(u)
  BY <1>0, <1>g, <1>l, <1>a, <1>s
<1>1. CASE Flow /\ ~CancelTake /\ ~CancelDone
  <2>1. ASSUME NEW u \in Users PROVE A(u)
    <3>1. CASE outcome'[u] = outcome[u]
      BY <1>s, <3>1
    <3>2. CASE Arrives(u)
      BY <3>2 DEF Arrives, Incoming
    <3>3. CASE Leaves(u)
      <4>1. u \in Items(queue) /\ u # running /\ outcome'[u] # outcome[u] /\ outcome'[u] = "removed"
        BY <1>l, <3>3 DEF Leaves
      <4>2. tstat[u] = "none"
        BY <4>1, FrontFacts
      <4> QED  BY <1>0, <1>g, <4>1, <4>2
    <3> QED  BY <1>0, <1>1, <3>1, <3>2, <3>3 DEF Flow
  <2>2. act'.pc \in Cancelling => /\ act.pc \in Cancelling /\ act'.out = act.out
                                  /\ act'.rewound = act.rewound
    BY <1>1, CancelHolds
  <2>3. act'.pc \in Cancelling =>
           \A u \in Users : u \in Items(act'.out) \/ u = act'.rewound => tstat'[u] # "none"
    BY <1>0, <1>a, <1>g, <2>2
  <2> QED  BY <1>i, <2>1, <2>3 DEF AnswerIsTrue
<1>2. CASE CancelTake
  <2>1. /\ act.pc = "cancel_take" /\ ~act.kill
        /\ \A i \in Ids : outcome'[i] = outcome[i]
    BY <1>2, TakeFields DEF FlagsInv, CancelTake, SetOutcome
  <2>2. \A u \in Users : A(u)
    BY <1>0, <1>s, <2>1
  <2>3. ASSUME NEW u \in Users, u \in Items(act'.out) \/ u = act'.rewound PROVE tstat'[u] # "none"
    <3>1. queue # <<>> /\ u = queue[1]
      <4>1. /\ Items(act'.out) \subseteq {queue[1]}
            /\ Items(act'.out) \subseteq Items(queue)
            /\ queue # <<>> => (act'.rewound = queue[1] /\ act'.out = <<>>) \/ act'.rewound = None
            /\ queue = <<>> => act'.rewound = None
        BY <1>2, <2>1, TakeQueue
      <4>2. queue = <<>> => Items(queue) = {}
        BY DEF Items
      <4> QED  BY <1>0, <2>3, <4>1, <4>2
    <3>2. running # None
      <4>1. u \in Items(queue)
        BY <3>1, FrontFacts
      <4> QED  BY <1>0, <2>1, <4>1 DEF ServedInv, Steady
    <3>3. running = u /\ tstat[running] # "none"
      BY <2>1, <3>1, <3>2, FrontFacts DEF TaskInv, NoWedge
    <3> QED  BY <1>0, <1>g, <3>3
  <2> QED  BY <1>i, <2>2, <2>3 DEF AnswerIsTrue
<1>3. CASE CancelDone
  <2>1. act.pc \in Cancelling /\ act'.pc \notin Cancelling /\ UNCHANGED tstat
    BY <1>3, CancelEffect DEF Resets, Moves, Cancelling
  <2>2. \A i \in Ids : \/ outcome'[i] = outcome[i]
                       \/ outcome'[i] \in {"cancelled", "rewound"} /\ (i \in Items(act.out) \/ i = act.rewound)
    BY <1>3 DEF CancelDone, SetOutcome
  <2>3. \A u \in Users : A(u)
    BY <1>0, <1>s, <1>a, <2>1, <2>2
  <2> QED  BY <2>1, <2>3 DEF AnswerIsTrue
<1>4. CASE Complete
  <2>1. /\ act.pc = "complete" /\ act'.pc = "flush" /\ UNCHANGED tstat
        /\ \A i \in Ids : outcome'[i] = outcome[i] \/ (outcome'[i] = "done" /\ i = act.id)
    BY <1>4, CompletionEffect DEF Complete, SetOutcome, Resets
  <2>2. tstat[act.id] = "done"
    BY <2>1 DEF TaskInv, Completing
  <2>3. \A u \in Users : A(u)
    BY <1>0, <1>s, <2>1, <2>2
  <2>4. act'.pc \notin Cancelling
    BY <2>1 DEF Cancelling
  <2> QED  BY <2>3, <2>4 DEF AnswerIsTrue
<1> QED  BY <1>1, <1>2, <1>3, <1>4, FlowNext

-----------------------------------------------------------------------------
(* Notifications in an idle session *)

(* An event is buffered that came while a prompt ran or waited here. *)
Owed == ~(Items(buffer) \subseteq stray)

(* Nothing runs, nothing waits, and yet a notification is pending. *)
HeldIdle == pending # <<>> /\ running = None /\ queue = <<>> /\ ~suppressed

(* The actor is on its way to the drain, or over. *)
Draining ==
  \/ act.pc \in {"flush", "drain", "ended"}
  \/ act.pc \in {"fallback", "start"} /\ act.next = "drain"

(* Without rewinds: a cancel suppresses the notifications until it has     *)
(* answered, and has emptied the buffer; a send-now cancel keeps a user's  *)
(* prompt to run next; a buffered event that came while a prompt ran or    *)
(* waited has a turn, a prompt or a flush ahead of it, whatever the shared *)
(* flag says; and a notification is pending in an idle session only until  *)
(* the drain the actor is on its way to.                                   *)
IdleInv ==
  ~RewindAllowed =>
    /\ act.pc \in Cancelling => suppressed /\ act.rewound = None
    /\ act.now /\ act.pc \in {"cancel", "cancel_take"} =>
         running # None /\ \E u \in Users : u \in Items(queue) /\ u # running
    /\ (act.now /\ act.pc \in Cancelling) \/ act.pc = "cancel_resume" =>
         \E u \in Users : u \in Items(queue)
    /\ act.pc \in Cancelling => buffer = <<>>
    /\ Owed => running # None \/ queue # <<>> \/ act.pc \in {"flush", "ended"}
    /\ HeldIdle => Draining

(* What the commands do to the notifications and to an idle session. *)
LEMMA CommandIdle ==
  ASSUME TypeOK, QueueInv, RunningIsFront, ServedInv, Commands
  PROVE  /\ ~suppressed' => ~suppressed \/ queue' # <<>>
         /\ Owed' => Owed \/ running # None \/ queue # <<>>
         /\ pending' # <<>> => pending # <<>> \/ act'.pc = "drain"
         /\ running = None /\ queue # <<>> => queue' # <<>> \/ act'.pc = "ended"
         /\ act'.now /\ act'.pc = "cancel" =>
              running # None /\ \E u \in Users : u \in Items(queue') /\ u # running
<1> DEFINE G == /\ ~suppressed' => ~suppressed \/ queue' # <<>>
                /\ Owed' => Owed \/ running # None \/ queue # <<>>
                /\ pending' # <<>> => pending # <<>> \/ act'.pc = "drain"
                /\ running = None /\ queue # <<>> => queue' # <<>> \/ act'.pc = "ended"
                /\ act'.now /\ act'.pc = "cancel" =>
                     running # None /\ \E u \in Users : u \in Items(queue') /\ u # running
<1>0. /\ queue \in Seq(Ids) /\ Distinct(queue) /\ act.pc = "select" /\ Users \cap Resumes = {}
      /\ buffer \in Seq(Notes) /\ pending \in Seq(Notes) /\ Users \cap Synthetic = {}
      /\ Items(<<>>) = {} /\ suppressed \in BOOLEAN
  BY CommandEffect, KindsAssumption DEF TypeOK, QueueInv, QueueFresh, Synthetic, Items
<1>e. \A s : s \in Seq(Ids) /\ s # <<>> => Items(s) # {}
  BY ItemsOf
<1>n. \A s : s \in Seq(Notes) /\ s # <<>> => Items(s) # {}
  BY ItemsOf
<1>o. UNCHANGED <<buffer, stray>> => (Owed' => Owed)
  BY DEF Owed
<1>p. /\ \A pc \in ActorPc : AtPc(pc).pc = pc /\ ~AtPc(pc).now
      /\ \A next \in {"select", "drain"} : StartThen(next).pc = "start"
      /\ {"drain", "ended"} \subseteq ActorPc
  BY PlaceFields DEF ActorPc
<1>1. ASSUME NEW id \in Users \cup Crons \cup Wakes, NEW now \in BOOLEAN, Prompt(id, now) PROVE G
  <2>1. /\ id \in Ids /\ outcome[id] \in {"new", "sent"} /\ QueueInput(id, now)
        /\ UNCHANGED <<buffer, stray, pending, terminals>>
        /\ act' = IF CancelsTurn(id, now) THEN [AtPc("cancel") EXCEPT !.now = TRUE] ELSE StartThen("select")
    BY <1>1, KindsAreIds DEF Prompt
  <2>2. outcome[id] \in Incoming
    BY <2>1 DEF Incoming
  <2>3. Flow /\ outcome'[id] = "queued"
    BY <2>1, <2>2, QueueInputFlow
  <2>4. id \in Items(queue')
    BY <2>1, <2>2, <2>3 DEF Flow, Arrives, Leaves, Incoming
  <2>5. queue' # <<>>
    BY <1>0, <2>4
  <2>6. id \notin Items(queue)
    BY <2>1, <2>2 DEF QueueInv, QueueFresh
  <2>7. CancelsTurn(id, now) => running # None /\ id \in Users /\ id # running
    <3>1. running # None => running \in Items(queue)
      BY <1>0, FrontFacts
    <3> QED  BY <1>1, <2>6, <3>1 DEF CancelsTurn, RunsNext, Synthetic
  <2>8. ~CancelsTurn(id, now) => act'.pc = "start"
    BY <1>p, <2>1
  <2> QED  BY <1>o, <2>1, <2>4, <2>5, <2>7, <2>8
<1>2. ASSUME NEW g \in Summaries, GoalSummaryTurn(g) PROVE G
  <2>1. queue' # <<>>
    <3>1. g \in Ids /\ queue' = Append(queue, g)
      BY <1>2, KindsAreIds DEF GoalSummaryTurn
    <3> QED  BY <1>0, <3>1, AppendFacts
  <2> QED  BY <1>2, <1>o, <1>p, <2>1 DEF GoalSummaryTurn
<1>3. ASSUME NEW gone \in SUBSET Rows, queue' = Keep(queue, Items(queue) \ gone), act' = act,
             UNCHANGED <<suppressed, buffer, stray, pending>>
      PROVE  G
  <2>1. running = None => gone = {}
    BY <1>0, <1>3 DEF ServedInv, Steady, Rows, Waiting
  <2>2. Items(queue') = Items(queue) \cap (Items(queue) \ gone)
    BY <1>0, <1>3, KeepFacts
  <2>3. running = None /\ queue # <<>> => queue' # <<>>
    BY <1>0, <1>e, <2>1, <2>2
  <2> QED  BY <1>0, <1>3, <1>o, <2>3
<1>4. ASSUME NEW u \in Users, NEW v, NEW o, RemoveQueuedPrompt(u, v, o) PROVE G
  <2>1. {x \in {u} : RowMatches(x, v, o)} \in SUBSET Rows
    BY DEF RowMatches
  <2> DEFINE gone == {x \in {u} : RowMatches(x, v, o)}
  <2>2. queue' = Keep(queue, Items(queue) \ gone) /\ act' = act
        /\ UNCHANGED <<suppressed, buffer, stray, pending>>
    BY <1>4 DEF RemoveQueuedPrompt, EditFrame
  <2> HIDE DEF G
  <2> QED  BY <1>3, <2>1, <2>2
<1>5. ASSUME NEW o, ClearQueue(o) PROVE G
  <2>1. {u \in Rows : Owns(o, u)} \in SUBSET Rows
    OBVIOUS
  <2> DEFINE gone == {u \in Rows : Owns(o, u)}
  <2>2. queue' = Keep(queue, Items(queue) \ gone) /\ act' = act
        /\ UNCHANGED <<suppressed, buffer, stray, pending>>
    BY <1>5 DEF ClearQueue, EditFrame
  <2> HIDE DEF G
  <2> QED  BY <1>3, <2>1, <2>2
<1>6. ASSUME NEW order \in Orders, ReorderQueue(order) PROVE G
  <2>1. order \in Seq(Ids) /\ Distinct(order) /\ queue' = Reorder(queue, Users \ {running}, order)
        /\ act' = act /\ UNCHANGED <<suppressed, buffer, stray, pending>>
    BY <1>0, <1>6, ReorderType DEF ReorderQueue, EditFrame
  <2>2. Items(queue') = Items(queue)
    BY <1>0, <2>1, ReorderFacts
  <2>3. queue # <<>> => queue' # <<>>
    BY <1>0, <1>e, <2>2
  <2> QED  BY <1>0, <1>o, <2>1, <2>3
<1>7. ASSUME NEW u, EditQueuedPrompt(u) PROVE G
  <2>1. UNCHANGED <<queue, act, suppressed, buffer, stray, pending>>
    BY <1>7 DEF EditQueuedPrompt, EditFrame
  <2> QED  BY <1>0, <1>o, <2>1
<1>8. ASSUME NEW u \in Users, NEW v, NEW o, NEW edit, InterjectQueuedPrompt(u, v, o, edit) PROVE G
  <2> DEFINE hit == RowMatches(u, v, o)
             rest == Drop(queue, u)
             slot == SendNowSlot(rest, running, sendNow)
  <2>1. /\ UNCHANGED <<suppressed, buffer, stray, pending>>
        /\ act' = IF hit /\ running # None /\ ~goal
                  THEN [AtPc("cancel") EXCEPT !.now = TRUE] ELSE StartThen("select")
        /\ queue' = IF hit THEN InsertSlot(rest, slot, u) ELSE queue
    BY <1>8 DEF InterjectQueuedPrompt, EditFrame
  <2>2. ASSUME hit PROVE u \in Items(queue') /\ u # running
    <3>1. u \in Items(queue) /\ u # running /\ u \in Ids
      BY <2>2, KindsAreIds DEF RowMatches, Rows, Waiting
    <3>2. rest \in Seq(Ids)
      BY <1>0, KeepFacts DEF Drop
    <3> HIDE DEF rest
    <3>3. slot \in 0 .. Len(rest)
      BY <3>2, SendNowSlotFacts
    <3> HIDE DEF slot
    <3>4. Items(InsertSlot(rest, slot, u)) = Items(rest) \cup {u}
      BY <3>1, <3>2, <3>3, InsertSlotFacts
    <3> QED  BY <2>1, <2>2, <3>1, <3>4
  <2> HIDE DEF hit
  <2>3. queue # <<>> => queue' # <<>>
    BY <1>0, <2>1, <2>2
  <2>4. ~(hit /\ running # None /\ ~goal) => act'.pc = "start"
    BY <1>p, <2>1
  <2> QED  BY <1>o, <2>1, <2>2, <2>3, <2>4
<1>9. ASSUME NEW f, Interject(f) PROVE G
  <2>1. act' = act \/ act' = [AtPc("fallback") EXCEPT !.out = <<f>>]
    BY <1>9 DEF Interject
  <2>2. act'.pc # "cancel"
    BY <1>0, <2>1 DEF AtPc
  <2> QED  BY <1>9, <1>o, <2>2 DEF Interject
<1>10. ASSUME NEW n \in Notes, InjectNotification(n) PROVE G
  <2>1. /\ UNCHANGED <<queue, suppressed>>
        /\ \/ pending' = pending /\ act' = act
           \/ buffer' = buffer /\ act' = AtPc("drain")
    BY <1>10 DEF InjectNotification, NoteFrame
  <2>2. ASSUME running = None, queue = <<>> PROVE Owed' => Owed
    <3>1. \/ buffer' = LastOf(Append(buffer, n), NoteCap) /\ stray' = stray \cup {n}
          \/ buffer' = buffer /\ stray' = stray
      <4>1. CASE turnActive /\ n \in NextNotes
        BY <1>10, <2>2, <4>1, Zenon DEF InjectNotification
      <4>2. CASE ~(turnActive /\ n \in NextNotes)
        BY <1>10, <4>2, Zenon DEF InjectNotification
      <4> QED  BY <4>1, <4>2
    <3>2. Append(buffer, n) \in Seq(Notes) /\ Items(Append(buffer, n)) = Items(buffer) \cup {n}
      BY <1>0, AppendFacts
    <3>3. NoteCap \in Nat
      BY ConstantsAssumption
    <3>4. Items(LastOf(Append(buffer, n), NoteCap)) \subseteq Items(buffer) \cup {n}
      BY <3>2, <3>3, LastOfFacts
    <3>5. Items(buffer') \subseteq Items(buffer) \cup {n}
      BY <3>1, <3>4
    <3>6. Items(buffer)' = Items(buffer')
      BY DEF Items
    <3> QED  BY <3>1, <3>5, <3>6 DEF Owed
  <2> QED  BY <1>0, <1>p, <2>1, <2>2
<1>11. ASSUME NEW w, DropMonitorNotifications(w) PROVE G
  <2>1. /\ UNCHANGED <<queue, stray, suppressed, act>>
        /\ \E K : pending' = Keep(pending, K) /\ buffer' = Keep(buffer, K)
    BY <1>11 DEF DropMonitorNotifications, NoteFrame
  <2>2. PICK K : pending' = Keep(pending, K) /\ buffer' = Keep(buffer, K)
    BY <2>1
  <2>3. /\ pending' \in Seq(Notes) /\ Items(pending') = Items(pending) \cap K
        /\ buffer' \in Seq(Notes) /\ Items(buffer') = Items(buffer) \cap K
    BY <1>0, <2>2, KeepFacts
  <2>4. pending' # <<>> => pending # <<>>
    BY <1>0, <1>n, <2>3
  <2>5. Items(buffer)' = Items(buffer')
    BY DEF Items
  <2>6. Owed' => Owed
    BY <2>1, <2>3, <2>5 DEF Owed
  <2> QED  BY <1>0, <2>1, <2>4, <2>6
<1>12. ASSUME NEW rewind, NEW kill, Cancel(rewind, kill) PROVE G
  <2>1. act' = [AtPc("cancel") EXCEPT !.rewind = rewind, !.kill = kill]
    BY <1>12 DEF Cancel
  <2>2. ~act'.now
    BY <2>1 DEF AtPc
  <2> QED  BY <1>12, <1>o, <2>2 DEF Cancel
<1>13. ASSUME Shutdown PROVE G
  <2>1. act'.pc = "ended" /\ UNCHANGED <<suppressed, buffer, stray>> /\ pending' = <<>>
    BY <1>13, <1>p DEF Shutdown
  <2> QED  BY <1>o, <2>1
<1> HIDE DEF G
<1>14. ASSUME NEW id \in Users, NEW now \in BOOLEAN, Prompt(id, now) PROVE G
  BY <1>1, <1>14
<1>15. ASSUME NEW id \in Crons \cup Wakes, Prompt(id, FALSE) PROVE G
  BY <1>1, <1>15
<1>16. G
  BY <1>2, <1>4, <1>5, <1>6, <1>7, <1>8, <1>9, <1>10, <1>11, <1>12, <1>13, <1>14, <1>15, Zenon DEF Commands
<1> QED  BY <1>16 DEF G

(* The notifications and the flags about them are left alone. *)
Hushed == UNCHANGED <<suppressed, buffer, stray, pending>>

(* What the other steps do to the notifications. *)
LEMMA HushEffect ==
  ASSUME TypeOK
  PROVE  /\ QueueFallback \/ ActorSkip \/ ActorPin \/ ActorPromote => Hushed
         /\ CancelBegin \/ CancelGoal \/ CancelAbort \/ CancelDone => Hushed
         /\ CancelResume => UNCHANGED <<buffer, stray, pending>>
         /\ CancelTake => buffer' = <<>>
         /\ TakeCompletion \/ CompleteGoal \/ Complete => Hushed
         /\ FlushTurnEnd => buffer' = <<>> /\ UNCHANGED suppressed
         /\ \A all \in BOOLEAN : DrainNotifications(all) =>
              /\ UNCHANGED <<suppressed, stray>> /\ buffer' \in {buffer, <<>>}
              /\ running = None /\ queue = <<>> /\ ~suppressed => pending' = <<>>
         /\ \A s \in Sides : SideSkip(s) \/ SidePin(s) \/ SidePromote(s) => Hushed
         /\ \A r \in Resumes : ResumeQueue(r) => Hushed
         /\ \A t \in Ids :
              TurnStart(t) \/ TurnScopeEnd(t) \/ TurnDone(t) \/ TurnDropped(t) => Hushed
<1>1. QueueFallback \/ ActorSkip \/ ActorPin \/ ActorPromote => Hushed
  BY DEF QueueFallback, ActorSkip, ActorPin, ActorPromote, StartFrame, Hushed
<1>2. CancelBegin \/ CancelGoal \/ CancelAbort \/ CancelDone => Hushed
  BY DEF CancelBegin, CancelGoal, CancelAbort, CancelDone, CancelFrame, Hushed
<1>3. CancelResume => UNCHANGED <<buffer, stray, pending>>
  BY DEF CancelResume, CancelFrame
<1>4. CancelTake => buffer' = <<>>
  BY DEF CancelTake
<1>5. TakeCompletion \/ CompleteGoal \/ Complete => Hushed
  BY DEF TakeCompletion, CompleteGoal, Complete, CompleteFrame, Hushed
<1>6. FlushTurnEnd => buffer' = <<>> /\ UNCHANGED suppressed
  BY DEF FlushTurnEnd, CompleteFrame
<1>7. ASSUME NEW all \in BOOLEAN, DrainNotifications(all)
      PROVE  /\ UNCHANGED <<suppressed, stray>> /\ buffer' \in {buffer, <<>>}
             /\ running = None /\ queue = <<>> /\ ~suppressed => pending' = <<>>
  <2>1. pending \in Seq(Notes) /\ buffer \in Seq(Notes)
    BY DEF TypeOK
  <2>2. pending \o buffer = <<>> => pending = <<>>
    BY <2>1
  <2> QED  BY <1>7, <2>2 DEF DrainNotifications, IdleForInjection
<1>8. \A s \in Sides : SideSkip(s) \/ SidePin(s) \/ SidePromote(s) => Hushed
  BY DEF SideSkip, SidePin, SidePromote, StartFrame, Hushed
<1>9. \A r \in Resumes : ResumeQueue(r) => Hushed
  BY DEF ResumeQueue, Hushed
<1>10. ASSUME NEW t \in Ids
       PROVE  TurnStart(t) \/ TurnScopeEnd(t) \/ TurnDone(t) \/ TurnDropped(t) => Hushed
  BY DEF TurnScopeEnd, TurnStart, TurnDone, TurnDropped, TurnFrame, Hushed
<1> QED  BY <1>1, <1>2, <1>3, <1>4, <1>5, <1>6, <1>7, <1>8, <1>9, <1>10, Zenon

(* The events in the buffer do not become more. *)
BufferThins == (buffer' # <<>> => buffer # <<>>) /\ (Owed' => Owed)

(* They do not when the buffer is left alone or emptied, or when another   *)
(* session's event pushes this session's oldest one out.                   *)
LEMMA BufferThinsWhen ==
  ASSUME TypeOK, UNCHANGED stray,
         buffer' \in {buffer, <<>>} \/ (buffer # <<>> /\ buffer' = Tail(buffer))
  PROVE  BufferThins
<1>1. Items(buffer)' = Items(buffer') /\ Items(<<>>) = {} /\ buffer \in Seq(Notes)
  BY DEF Items, TypeOK
<1>2. buffer # <<>> => Items(Tail(buffer)) \subseteq Items(buffer)
  BY <1>1, OldestDropped
<1> QED  BY <1>1, <1>2 DEF BufferThins, Owed

(* A turn's steps beside its start and its end, and the bridge's. *)
LEMMA CalmNotes ==
  ASSUME TypeOK
  PROVE  LET Q == UNCHANGED suppressed /\ BufferThins /\ (pending' # <<>> => pending # <<>>)
         IN  /\ \A t \in Ids : TurnStep(t) => Q
             /\ \A w \in Wakes : TaskExits(w) \/ BridgeWake(w) => Q
             /\ Quiet \/ SiblingStep => Q
<1> DEFINE Q == UNCHANGED suppressed /\ BufferThins /\ (pending' # <<>> => pending # <<>>)
<1>1. ASSUME NEW t \in Ids, TurnStep(t) PROVE Q
  <2>1. ASSUME TurnEmit(t) \/ TurnMerge(t) \/ TurnInject(t) \/ TurnRemind(t) \/ TurnScopeEnd(t) PROVE Q
    BY <2>1, BufferThinsWhen DEF TurnEmit, TurnMerge, TurnInject, TurnRemind, TurnScopeEnd, TurnFrame
  <2>2. ASSUME NEW active, TurnGoal(t, active) PROVE Q
    BY <2>2, BufferThinsWhen DEF TurnGoal, TurnFrame
  <2>3. ASSUME NEW w \in Wakes, TurnConsume(t, w) PROVE Q
    <3>1. /\ UNCHANGED <<suppressed, buffer, stray>> /\ pending \in Seq(Notes)
          /\ \E K : pending' = Keep(pending, K)
      BY <2>3 DEF TurnConsume, TurnFrame, TypeOK
    <3>2. PICK K : pending' = Keep(pending, K)
      BY <3>1
    <3>3. pending' \in Seq(Notes) /\ Items(pending') = Items(pending) \cap K
      BY <3>1, <3>2, KeepFacts
    <3>4. pending' # <<>> => Items(pending') # {}
      BY <3>3, ItemsOf
    <3>5. Items(<<>>) = {}
      BY DEF Items
    <3> QED  BY <3>1, <3>3, <3>4, <3>5, BufferThinsWhen
  <2>4. ASSUME RequestWait(t) \/ EnterWait(t) \/ LeaveWait(t) \/ AbandonWait(t) PROVE Q
    BY <2>4, BufferThinsWhen DEF RequestWait, EnterWait, LeaveWait, AbandonWait, WaitFrame, TurnFrame
  <2> HIDE DEF Q
  <2> QED  BY <1>1, <2>1, <2>2, <2>3, <2>4, Zenon DEF TurnStep
<1>2. ASSUME NEW w \in Wakes, TaskExits(w) \/ BridgeWake(w) PROVE Q
  BY <1>2, BufferThinsWhen DEF TaskExits, BridgeWake, BridgeFrame
<1>3. ASSUME Quiet \/ SiblingStep PROVE Q
  BY <1>3, BufferThinsWhen DEF Quiet, SiblingStep, SiblingTurn, SiblingPush, SiblingFrame
<1> QED  BY <1>1, <1>2, <1>3

(* A calm step that is not a turn's end leaves the notifications in place. *)
CalmQuiet == Calm /\ UNCHANGED suppressed /\ BufferThins /\ (pending' # <<>> => pending # <<>>)

(* The cases of a step, as far as the notifications are concerned. *)
LEMMA IdleCases ==
  ASSUME TypeOK, QueueInv, Next
  PROVE  \/ Commands \/ CalmQuiet
         \/ QueueFallback \/ ActorSkip \/ ActorPin \/ ActorPromote
         \/ CancelBegin \/ CancelTake \/ CancelGoal \/ CancelAbort \/ CancelDone \/ CancelResume
         \/ TakeCompletion \/ CompleteGoal \/ Complete \/ FlushTurnEnd
         \/ \E all \in BOOLEAN : DrainNotifications(all)
         \/ \E s \in Sides : SideSkip(s) \/ SidePin(s) \/ SidePromote(s)
         \/ \E r \in Resumes : ResumeQueue(r)
         \/ \E t \in Ids : TurnStart(t) \/ TurnScopeEnd(t) \/ TurnDone(t) \/ TurnDropped(t)
<1>1. ASSUME NEW t \in Ids, TurnStep(t) PROVE CalmQuiet \/ TurnScopeEnd(t)
  BY <1>1, CalmEffect, CalmNotes DEF CalmQuiet
<1>2. ASSUME NEW w \in Wakes, TaskExits(w) \/ BridgeWake(w) PROVE CalmQuiet
  BY <1>2, CalmEffect, CalmNotes DEF CalmQuiet
<1>3. ASSUME Quiet \/ SiblingStep PROVE CalmQuiet
  BY <1>3, CalmEffect, CalmNotes DEF CalmQuiet
<1> QED  BY <1>1, <1>2, <1>3, Zenon DEF Next, ActorStep, SideStep

(* An idle session never gets stuck with a notification. *)
LEMMA IdleNext ==
  ASSUME TypeOK, QueueInv, RunningIsFront, TaskInv, FlagsInv, ServedInv, IdleInv, QueueInv', RunningIsFront', Next
  PROVE  IdleInv'
<1>s. SUFFICES ASSUME ~RewindAllowed
               PROVE  /\ act'.pc \in Cancelling => suppressed' /\ act'.rewound = None
                      /\ act'.now /\ act'.pc \in {"cancel", "cancel_take"} =>
                           running' # None /\ \E u \in Users : u \in Items(queue') /\ u # running'
                      /\ (act'.now /\ act'.pc \in Cancelling) \/ act'.pc = "cancel_resume" =>
                           \E u \in Users : u \in Items(queue')
                      /\ act'.pc \in Cancelling => buffer' = <<>>
                      /\ Owed' => running' # None \/ queue' # <<>> \/ act'.pc \in {"flush", "ended"}
                      /\ HeldIdle' => Draining'
  <2>1. Items(queue)' = Items(queue')
    BY DEF Items
  <2> QED  BY <2>1 DEF IdleInv
<1>0. /\ tstat \in [Ids -> TaskStates] /\ None \notin Ids /\ None # "actor" /\ None \notin Sides
      /\ running \in Ids \cup {None} /\ suppressed \in BOOLEAN
      /\ queue \in Seq(Ids) /\ Items(<<>>) = {} /\ Users \subseteq Ids
      /\ Users \cap Wakes = {} /\ act.now \in BOOLEAN
  BY ConstantsAssumption, KindsAreIds, KindsAssumption DEF TypeOK, Items, ActorState, Synthetic
<1>h. /\ act.pc \in Cancelling => suppressed /\ act.rewound = None
      /\ act.now /\ act.pc \in {"cancel", "cancel_take"} =>
           running # None /\ \E u \in Users : u \in Items(queue) /\ u # running
      /\ (act.now /\ act.pc \in Cancelling) \/ act.pc = "cancel_resume" =>
           \E u \in Users : u \in Items(queue)
      /\ act.pc \in Cancelling => buffer = <<>>
      /\ Owed => running # None \/ queue # <<>> \/ act.pc \in {"flush", "ended"}
      /\ HeldIdle => Draining
      /\ ~act.rewind /\ (act.now => ~act.kill)
  BY <1>s DEF IdleInv, FlagsInv
<1> DEFINE
      C1 == act'.pc \in Cancelling => suppressed' /\ act'.rewound = None
      C2 == act'.now /\ act'.pc \in {"cancel", "cancel_take"} =>
              running' # None /\ \E u \in Users : u \in Items(queue') /\ u # running'
      C3 == (act'.now /\ act'.pc \in Cancelling) \/ act'.pc = "cancel_resume" => \E u \in Users : u \in Items(queue')
      C4 == act'.pc \in Cancelling => buffer' = <<>>
      C5 == Owed' => running' # None \/ queue' # <<>> \/ act'.pc \in {"flush", "ended"}
      C6 == HeldIdle' => Draining'
      G == C1 /\ C2 /\ C3 /\ C4 /\ C5 /\ C6
<1>t. /\ UNCHANGED <<buffer, stray>> => (Owed' => Owed)
      /\ buffer' = <<>> => ~Owed'
      /\ buffer = <<>> => ~Owed
  <2>1. Items(buffer)' = Items(buffer')
    BY DEF Items
  <2> QED  BY <1>0, <2>1 DEF Owed
<1>1. ASSUME Commands PROVE G
  <2>1. /\ act.pc = "select" /\ UNCHANGED <<running, tstat>>
        /\ act'.pc \in {"select", "start", "cancel", "fallback", "drain", "ended"}
    BY <1>1, CommandEffect DEF Tables
  <2>2. /\ ~suppressed' => ~suppressed \/ queue' # <<>>
        /\ Owed' => Owed \/ running # None \/ queue # <<>>
        /\ pending' # <<>> => pending # <<>> \/ act'.pc = "drain"
        /\ running = None /\ queue # <<>> => queue' # <<>> \/ act'.pc = "ended"
        /\ act'.now /\ act'.pc = "cancel" =>
             running # None /\ \E u \in Users : u \in Items(queue') /\ u # running
    BY <1>1, CommandIdle
  <2>3. C1 /\ C3 /\ C4
    BY <2>1 DEF Cancelling
  <2>4. C2
    BY <2>1, <2>2
  <2>5. C5
    BY <1>h, <2>1, <2>2
  <2>6. C6
    BY <1>h, <2>1, <2>2 DEF HeldIdle, Draining
  <2> QED  BY <2>3, <2>4, <2>5, <2>6
<1>2. ASSUME CalmQuiet PROVE G
  <2>1. /\ UNCHANGED <<act, running, tstat, suppressed>>
        /\ (buffer' # <<>> => buffer # <<>>) /\ (Owed' => Owed)
        /\ pending' # <<>> => pending # <<>>
        /\ Items(queue) \ Items(queue') \subseteq Wakes
        /\ UNCHANGED queue \/ \E t \in Ids : tstat[t] = "live"
    BY <1>2 DEF CalmQuiet, Calm, Tables, BufferThins
  <2>2. \A u \in Users : u \in Items(queue) => u \in Items(queue')
    BY <1>0, <2>1
  <2>3. C1 /\ C2 /\ C3 /\ C4
    BY <1>h, <2>1, <2>2
  <2>4. running = None /\ act.pc \notin Cancelling => UNCHANGED queue
    <3> SUFFICES ASSUME running = None, NEW t \in Ids, tstat[t] = "live" PROVE act.pc \in Cancelling
      BY <2>1
    <3> QED  BY <1>0 DEF TaskInv, Alive, Cancelling
  <2>5. C5
    BY <1>h, <1>t, <2>1, <2>4
  <2>6. C6
    BY <1>h, <2>1, <2>4 DEF HeldIdle, Draining
  <2> QED  BY <2>3, <2>5, <2>6
<1>3. ASSUME QueueFallback PROVE G
  <2>1. /\ act.pc = "fallback" /\ UNCHANGED <<running, tstat>> /\ act'.pc \in {"fallback", "start"}
    BY <1>3, StartEffect DEF Tables, Resets
  <2>2. Hushed
    BY <1>3, HushEffect
  <2>3. queue' # <<>>
    <3>1. PICK f \in Fallbacks : queue' = InsertSlot(queue, FrontSlot(queue, running), f)
      BY <1>3, NextFallback DEF QueueFallback
    <3>2. f \in Ids /\ FrontSlot(queue, running) \in 0 .. Len(queue)
      BY <1>0, KindsAreIds, SendNowSlotFacts
    <3> QED  BY <1>0, <3>1, <3>2, InsertSlotFacts
  <2> QED  BY <1>h, <1>t, <2>1, <2>2, <2>3 DEF Hushed, HeldIdle, Cancelling
<1>4. ASSUME ActorSkip PROVE G
  <2>1. /\ act.pc = "start" /\ UNCHANGED <<queue, running, tstat>> /\ act'.pc \in {"select", "drain"}
        /\ act'.pc = act.next
    BY <1>4, StartEffect DEF Tables, Resets
  <2>2. Hushed
    BY <1>4, HushEffect
  <2> QED  BY <1>h, <1>t, <2>1, <2>2 DEF Hushed, HeldIdle, Draining, Cancelling
<1>5. ASSUME ActorPin PROVE G
  <2>1. /\ act.pc = "start" /\ act'.pc = "promote" /\ UNCHANGED <<queue, running, tstat>> /\ queue # <<>>
    BY <1>5, StartEffect DEF Moves, PinFront
  <2>2. Hushed
    BY <1>5, HushEffect
  <2> QED  BY <1>h, <1>t, <2>1, <2>2 DEF Hushed, HeldIdle, Cancelling
<1>p. ASSUME NEW p \in {"actor"} \cup Sides, PromoteFront(p)
      PROVE  running' # None /\ running = None /\ UNCHANGED queue
  <2>1. /\ queue # <<>> /\ queue[1] \in Ids /\ running' = queue[1] /\ running = None
    BY <1>p, PromoteType
  <2>2. UNCHANGED queue
    BY <1>p DEF PromoteFront
  <2> QED  BY <1>0, <2>1, <2>2
<1>6. ASSUME ActorPromote PROVE G
  <2>1. act'.pc \in {"select", "drain"} /\ PromoteFront("actor")
    BY <1>6, StartEffect DEF Resets
  <2>2. Hushed
    BY <1>6, HushEffect
  <2>3. running' # None
    BY <1>p, <2>1
  <2> QED  BY <1>h, <2>1, <2>2, <2>3 DEF Hushed, HeldIdle, Cancelling
<1>7. ASSUME CancelBegin PROVE G
  <2>1. /\ act.pc = "cancel" /\ act'.pc = "cancel_take" /\ UNCHANGED <<queue, running, tstat>>
        /\ act'.now = act.now
    BY <1>7, CancelEffect DEF Tables
  <2>2. Hushed
    BY <1>7, HushEffect
  <2> QED  BY <1>h, <1>t, <2>1, <2>2 DEF Hushed, HeldIdle, Draining, Cancelling
<1>8. ASSUME CancelTake PROVE G
  <2>1. /\ act.pc = "cancel_take" /\ act'.pc = "cancel_goal" /\ act'.now = act.now
        /\ act'.rewound = None /\ suppressed' /\ UNCHANGED tstat
    BY <1>8, <1>h, TakeFields
  <2>2. buffer' = <<>>
    BY <1>8, HushEffect
  <2>3. ASSUME act.now PROVE \E u \in Users : u \in Items(queue')
    <3>1. PICK u \in Users : u \in Items(queue) /\ u # running /\ running # None
      BY <1>h, <2>1, <2>3
    <3>2. queue[1] = running
      BY <2>1, <3>1, FrontFacts
    <3>3. /\ Items(queue) = Items(queue') \cup Items(act'.out) \cup ({act'.rewound} \ {None})
          /\ Items(act'.out) \subseteq {queue[1]}
      BY <1>8, <1>h, <2>3, TakeQueue
    <3> QED  BY <2>1, <3>1, <3>2, <3>3
  <2> QED  BY <1>h, <1>t, <2>1, <2>2, <2>3 DEF HeldIdle
<1>9. ASSUME CancelGoal PROVE G
  <2>1. /\ act.pc = "cancel_goal" /\ act'.pc = "cancel_abort" /\ UNCHANGED <<queue, running, tstat>>
        /\ act'.now = act.now /\ act'.rewound = act.rewound
    BY <1>9, CancelEffect DEF Tables, Moves
  <2>2. Hushed
    BY <1>9, HushEffect
  <2> QED  BY <1>h, <1>t, <2>1, <2>2 DEF Hushed, HeldIdle, Draining, Cancelling
<1>10. ASSUME CancelAbort PROVE G
  <2>1. /\ act.pc = "cancel_abort" /\ act'.pc = "cancel_done" /\ UNCHANGED <<queue, running>>
        /\ act'.now = act.now /\ act'.rewound = act.rewound /\ Abort(act.task)
    BY <1>10, CancelEffect DEF Moves
  <2>2. Hushed
    BY <1>10, HushEffect
  <2> QED  BY <1>h, <1>t, <2>1, <2>2 DEF Hushed, HeldIdle, Draining, Cancelling
<1>11. ASSUME CancelDone PROVE G
  <2>1. /\ act.pc = "cancel_done" /\ act'.pc \in {"cancel_resume", "start"} /\ UNCHANGED <<queue, running, tstat>>
        /\ act'.now \/ act'.pc = "cancel_resume" => act.now
    BY <1>11, CancelEffect DEF Moves, Resets
  <2>2. Hushed
    BY <1>11, HushEffect
  <2> QED  BY <1>h, <1>t, <2>1, <2>2 DEF Hushed, HeldIdle, Draining, Cancelling
<1>12. ASSUME CancelResume PROVE G
  <2>1. /\ act.pc = "cancel_resume" /\ act'.pc = "start" /\ ~act'.now /\ UNCHANGED <<queue, running, tstat>>
    BY <1>12, CancelEffect DEF Tables, Resets
  <2>2. UNCHANGED <<buffer, stray, pending>>
    BY <1>12, HushEffect
  <2>3. queue # <<>>
    BY <1>0, <1>h, <2>1
  <2> QED  BY <1>h, <1>t, <2>1, <2>2, <2>3 DEF HeldIdle, Cancelling
<1>13. ASSUME TakeCompletion PROVE G
  <2>1. /\ act.pc = "select" /\ act'.pc \in {"complete_goal", "complete"}
        /\ UNCHANGED <<queue, running, tstat>>
    BY <1>13, CompletionEffect
  <2>2. Hushed
    BY <1>13, HushEffect
  <2> QED  BY <1>h, <1>t, <2>1, <2>2 DEF Hushed, HeldIdle, Draining, Cancelling
<1>14. ASSUME CompleteGoal PROVE G
  <2>1. /\ act.pc = "complete_goal" /\ act'.pc = "complete" /\ UNCHANGED <<queue, running, tstat>>
    BY <1>14, CompletionEffect DEF Tables, Moves
  <2>2. Hushed
    BY <1>14, HushEffect
  <2> QED  BY <1>h, <1>t, <2>1, <2>2 DEF Hushed, HeldIdle, Draining, Cancelling
<1>15. ASSUME Complete PROVE G
  <2>1. act'.pc = "flush" /\ UNCHANGED tstat
    BY <1>15, CompletionEffect DEF Resets
  <2>2. Hushed
    BY <1>15, HushEffect
  <2> QED  BY <1>h, <1>t, <2>1, <2>2 DEF Hushed, Draining, Cancelling
<1>16. ASSUME FlushTurnEnd PROVE G
  <2>1. act'.pc \in {"start", "fallback"} /\ act'.next = "drain" /\ UNCHANGED <<queue, running, tstat>>
    BY <1>16, CompletionEffect DEF Tables, Resets
  <2>2. buffer' = <<>> /\ UNCHANGED suppressed
    BY <1>16, HushEffect
  <2> QED  BY <1>h, <1>t, <2>1, <2>2 DEF Draining, Cancelling
<1>17. ASSUME NEW all \in BOOLEAN, DrainNotifications(all) PROVE G
  <2>1. /\ act.pc = "drain" /\ act'.pc \in {"select", "start"} /\ UNCHANGED <<running, tstat>>
        /\ act'.pc = "select" => UNCHANGED queue
    BY <1>17, CompletionEffect DEF Tables, Resets
  <2>2. /\ UNCHANGED <<suppressed, stray>> /\ buffer' \in {buffer, <<>>}
        /\ running = None /\ queue = <<>> /\ ~suppressed => pending' = <<>>
    BY <1>17, HushEffect
  <2>3. queue' = <<>> => queue = <<>>
    <3>1. queue' = queue \/ \E n \in Notes : queue' = Append(queue, n)
      BY <1>17, DrainedFacts DEF DrainNotifications
    <3>2. \A n \in Notes : Append(queue, n) # <<>>
      BY <1>0, AppendFacts, KindsAreIds
    <3> QED  BY <3>1, <3>2
  <2> QED  BY <1>h, <1>t, <2>1, <2>2, <2>3 DEF HeldIdle, Cancelling
<1>18. ASSUME NEW s \in Sides, SideSkip(s) PROVE G
  <2>1. UNCHANGED <<act, queue, running, tstat>>
    BY <1>18, SideEffect
  <2>2. Hushed
    BY <1>18, HushEffect
  <2> QED  BY <1>h, <1>t, <2>1, <2>2 DEF Hushed, HeldIdle, Draining
<1>19. ASSUME NEW s \in Sides, SidePin(s) PROVE G
  <2>1. UNCHANGED <<act, queue, running, tstat>>
    BY <1>19, SideEffect DEF PinFront
  <2>2. Hushed
    BY <1>19, HushEffect
  <2> QED  BY <1>h, <1>t, <2>1, <2>2 DEF Hushed, HeldIdle, Draining
<1>20. ASSUME NEW s \in Sides, SidePromote(s) PROVE G
  <2>1. act' = act /\ PromoteFront(s)
    BY <1>20, SideEffect
  <2>2. Hushed
    BY <1>20, HushEffect
  <2>3. running' # None /\ running = None /\ UNCHANGED queue
    BY <1>p, <2>1
  <2> QED  BY <1>h, <2>1, <2>2, <2>3 DEF Hushed, HeldIdle
<1>21. ASSUME NEW r \in Resumes, ResumeQueue(r) PROVE G
  <2>1. /\ UNCHANGED <<act, running, tstat, terminals>> /\ outcome[r] = "new" /\ QueueInput(r, FALSE)
    BY <1>21, ResumeEffect
  <2>2. Hushed
    BY <1>21, HushEffect
  <2>3. r \in Ids /\ r \in Synthetic
    BY KindsAreIds DEF Synthetic
  <2>4. Items(queue') = Items(queue) \cup {r}
    BY <2>1, <2>3, QueueInputFlow DEF Incoming
  <2>5. queue' # <<>>
    BY <1>0, <2>4
  <2> QED  BY <1>h, <1>t, <2>1, <2>2, <2>4, <2>5 DEF Hushed, HeldIdle
<1>22. ASSUME NEW t \in Ids, TurnStart(t) \/ TurnScopeEnd(t) \/ TurnDone(t) \/ TurnDropped(t) PROVE G
  <2>1. UNCHANGED <<act, queue, running>>
    BY <1>22, TurnEffect
  <2>2. Hushed
    BY <1>22, HushEffect
  <2> QED  BY <1>h, <1>t, <2>1, <2>2 DEF Hushed, HeldIdle, Draining
<1> HIDE DEF G
<1>23. G
  BY <1>1, <1>2, <1>3, <1>4, <1>5, <1>6, <1>7, <1>8, <1>9, <1>10, <1>11, <1>12, <1>13, <1>14, <1>15, <1>16,
     <1>17, <1>18, <1>19, <1>20, <1>21, <1>22, IdleCases, Zenon
<1> QED  BY <1>23 DEF G

-----------------------------------------------------------------------------
(* The theorems *)

(* The inductive invariant of the turns, on top of the queue's. *)
TurnInv ==
  /\ TypeOK /\ QueueInv /\ RunningIsFront
  /\ TaskInv /\ PinInv /\ LedgerInv /\ ServedInv /\ InterjInv /\ FlagsInv /\ AnswerInv /\ IdleInv

(* A session starts with no turn, no promoter under the lock and nothing   *)
(* to answer.                                                              *)
LEMMA TurnInit == Init => TurnInv
<1> SUFFICES ASSUME Init PROVE TurnInv
  OBVIOUS
<1>1. TypeOK /\ QueueInv /\ RunningIsFront
  BY TypeInit, QueueInit
<1>2. /\ Items(queue) = {} /\ Items(completions) = {} /\ Items(interj) = {}
      /\ act = AtPc("select") /\ running = None /\ lock = None /\ pin = None
      /\ \A i \in Ids : tstat[i] = "none" /\ outcome[i] = "new" /\ terminals[i] = 0
      /\ interj = <<>> /\ pending = <<>> /\ buffer = <<>>
  BY DEF Init, Items, Select
<1>3. /\ act.pc = "select" /\ ~act.kill /\ ~act.rewind /\ ~act.now
  BY <1>2, PlaceFields DEF ActorPc
<1>4. /\ None # "actor" /\ None \notin Sides /\ Users \subseteq Ids
      /\ \A s \in Sides : side[s] # "promote"
  BY ConstantsAssumption, KindsAreIds DEF Init
<1>5. TaskInv
  BY <1>2, <1>3 DEF TaskInv, NoWedge, Alive, Completing, Cancelling
<1>6. PinInv
  BY <1>2, <1>3, <1>4 DEF PinInv, Completing, Cancelling
<1>7. InterjHeld
  BY <1>2 DEF InterjHeld
<1>8. LedgerInv
  BY <1>2, <1>3, <1>4, <1>7 DEF LedgerInv, OneTerminal, Cancelling
<1>9. ServedInv /\ InterjInv /\ FlagsInv
  BY <1>2, <1>3 DEF ServedInv, InterjInv, FlagsInv, Clearing, Cancelling
<1>10. AnswerInv
  BY <1>2, <1>3, <1>4 DEF AnswerInv, AnswerIsTrue, Cancelling
<1>11. IdleInv
  BY <1>2, <1>3 DEF IdleInv, HeldIdle, Cancelling, Owed, Items
<1> QED  BY <1>1, <1>5, <1>6, <1>8, <1>9, <1>10, <1>11 DEF TurnInv

(* Every step of the session keeps it, and so does a step of nobody. *)
LEMMA TurnNext == TurnInv /\ [Next]_vars /\ TypeOK' /\ QueueInv' /\ RunningIsFront' => TurnInv'
<1> SUFFICES ASSUME TurnInv, [Next]_vars, TypeOK', QueueInv', RunningIsFront'
             PROVE  TurnInv'
  OBVIOUS
<1>1. CASE Next
  <2>1. /\ TypeOK /\ QueueInv /\ RunningIsFront /\ TaskInv /\ PinInv /\ LedgerInv /\ ServedInv
        /\ InterjInv /\ FlagsInv /\ AnswerInv /\ IdleInv
    BY DEF TurnInv
  <2>2. TaskInv' /\ PinInv'
    BY <1>1, <2>1, TaskNext, PinNext
  <2>3. LedgerInv' /\ ServedInv'
    BY <1>1, <2>1, LedgerNext, ServedNext
  <2>4. InterjInv' /\ FlagsInv'
    BY <1>1, <2>1, InterjNext, FlagsNext
  <2>5. AnswerInv' /\ IdleInv'
    BY <1>1, <2>1, AnswerNext, IdleNext
  <2> QED  BY <2>2, <2>3, <2>4, <2>5 DEF TurnInv
<1>2. CASE UNCHANGED vars
  <2>1. TaskInv' /\ PinInv'
    BY <1>2 DEF TurnInv, TaskInv, PinInv, NoWedge, Items
  <2>2. LedgerInv'
    <3>1. /\ Items(queue)' = Items(queue) /\ Items(act.out)' = Items(act.out)
          /\ Items(interj)' = Items(interj)
      BY <1>2 DEF Items
    <3>2. InterjHeld'
      BY <1>2, <3>1 DEF TurnInv, LedgerInv, InterjHeld
    <3> QED  BY <1>2, <3>1, <3>2 DEF TurnInv, LedgerInv, OneTerminal
  <2>3. ServedInv' /\ InterjInv' /\ FlagsInv'
    BY <1>2 DEF TurnInv, ServedInv, InterjInv, FlagsInv, Items
  <2>4. AnswerInv' /\ IdleInv'
    BY <1>2 DEF TurnInv, AnswerInv, AnswerIsTrue, IdleInv, HeldIdle, Draining, Owed, Items
  <2> QED  BY <2>1, <2>2, <2>3, <2>4 DEF TurnInv
<1> QED  BY <1>1, <1>2

(* The turns' invariant holds of every session. *)
THEOREM TurnInvariant == Spec => []TurnInv
  BY TurnInit, TurnNext, SafetyInvariant, PTL DEF Spec

(* running_task names only a task that completes, in every session. *)
THEOREM NeverWedged == Spec => []NoWedge
<1>1. TurnInv => NoWedge
  BY DEF TurnInv, TaskInv
<1> QED  BY <1>1, TurnInvariant, PTL

(* What a cancel took out of running_task has been aborted by the time the *)
(* actor is back at its select.                                            *)
THEOREM NoOrphans == Spec => []NoOrphanTurn
<1>1. TurnInv => NoOrphanTurn
  BY DEF TurnInv, TaskInv, NoOrphanTurn, Alive
<1> QED  BY <1>1, TurnInvariant, PTL

(* The debug assertion of cancel_running_task never fires. *)
THEOREM PinsAgree == Spec => []PinAgrees
<1>1. TurnInv => PinAgrees
  BY DEF TurnInv, PinInv, PinAgrees
<1> QED  BY <1>1, TurnInvariant, PTL

(* No user's prompt is lost between the queue and its answer. *)
THEOREM UsersAccounted == Spec => []UserAccounted
<1>1. TurnInv => UserAccounted
  BY DEF TurnInv, LedgerInv, UserAccounted
<1> QED  BY <1>1, TurnInvariant, PTL

(* A cancel and a completion that races it never both emit a terminal. *)
THEOREM TerminalsOnce == Spec => []OneTerminal
<1>1. TurnInv => OneTerminal
  BY DEF TurnInv, LedgerInv
<1> QED  BY <1>1, TurnInvariant, PTL

(* Every handler that can leave work at the front starts it. *)
THEOREM QueueServed == Spec => []QueueIsServed
<1>1. TurnInv => QueueIsServed
  <2> SUFFICES ASSUME TurnInv, act.pc = "select", queue # <<>>, running = None
               PROVE  \E s \in Sides : side[s] \in {"start", "promote"}
    BY DEF QueueIsServed
  <2>1. queue \in Seq(Ids)
    BY DEF TurnInv, TypeOK
  <2>2. PICK i : i \in Items(queue)
    BY <2>1, ItemsOf
  <2>3. i \in Resumes /\ side[i] \in {"start", "promote"} 
    BY <2>2 DEF TurnInv, ServedInv, Steady
  <2> QED  BY <2>3 DEF Sides
<1> QED  BY <1>1, TurnInvariant, PTL

(* No interjection waits for a turn that is not there. *)
THEOREM InterjectionsLand == Spec => []NoStrandedInterjection
<1>1. TurnInv => NoStrandedInterjection
  BY DEF TurnInv, InterjInv, NoStrandedInterjection
<1> QED  BY <1>1, TurnInvariant, PTL

(* Where no client tears a session down with its prompts, the answer it    *)
(* gets says what happened.                                                *)
THEOREM AnswersAreTrue ==
  ASSUME ~KillAllowed
  PROVE  Spec => []AnswerIsTrue
<1>1. TurnInv => (~KillAllowed => AnswerIsTrue)
  BY DEF TurnInv, AnswerInv
<1> QED  BY <1>1, TurnInvariant, PTL

(* Where no client rewinds, an idle session holds back no notification     *)
(* that came while one of its prompts ran or waited, whatever the other    *)
(* sessions of the agent do with the flag and the buffer they share.       *)
THEOREM IdleIsEmpty ==
  ASSUME ~RewindAllowed
  PROVE  Spec => []IdleHoldsNothing
<1>1. TurnInv => (~RewindAllowed => IdleHoldsNothing)
  BY DEF TurnInv, IdleInv, IdleHoldsNothing, AtCommand, IdleForInjection, HeldIdle, Draining, Owed
<1> QED  BY <1>1, TurnInvariant, PTL
=============================================================================
