---------------------------- MODULE SessionActor ----------------------------
(***************************************************************************)
(* One session of the shell: the actor task that reads commands and        *)
(* completions (run_session), the turn tasks it spawns, and the tasks      *)
(* beside it that also promote the front of the queue.  The actor and the  *)
(* turns share one thread, so the model interleaves them at their awaits;  *)
(* `lock` is the tokio mutex around `State`, which the promoter holds over *)
(* an await.                                                               *)
(*                                                                         *)
(* A prompt id is also the identity of what it came from: a wake is the    *)
(* background task whose completion it reports, a fallback is the          *)
(* interjection it would carry, a note is the notification and, when it is *)
(* the first of a drained batch, the batch's prompt.                       *)
(***************************************************************************)
EXTENDS PromptQueue

CONSTANTS
    Users,          \* prompts typed by a client (shown as queue rows)
    Crons,          \* scheduler-fired prompts sent by the pager
    Wakes,          \* background tasks whose completion wakes the model
    MonitorWakes,   \* the ones that are monitors
    Resumes,        \* plan-resume prompts, injected by a task of their own
    Summaries,      \* goal-summary prompts
    Fallbacks,      \* interjections
    Notes,          \* notifications (monitor events, task completions)
    NextNotes,      \* the notes with priority Next (monitor events)
    GoalTurnNotes,  \* the notes whose source task a goal turn started
    TaskOf,         \* the background task a note comes from
    Clients,        \* client identifiers
    OwnerOf,        \* the client that owns a user prompt
    NoteCap,        \* MAX_PENDING_NOTIFICATIONS and MAX_BUFFER_EVENTS
    MaxVersion,     \* bound: edits of one row
    MaxCancels,     \* bound: Cancel commands
    MaxReorders,    \* bound: ReorderQueue commands
    GoalHarness,    \* goal_harness_enabled()
    RewindAllowed,  \* whether a client cancels with rewind_if_pristine
    KillAllowed,    \* whether a cancel may tear down (subagent shutdown)
    ShutdownAllowed, \* whether the Shutdown command arrives
    Siblings,       \* whether other sessions of the agent run turns
    None

Synthetic == Crons \cup Wakes \cup Resumes \cup Summaries \cup Notes

Ids == Users \cup Fallbacks \cup Synthetic

(* The tasks beside the actor that call maybe_start_running_task. *)
Sides == {"mcp"} \cup Resumes

ASSUME ConstantsAssumption ==
    /\ None \notin Ids \cup Clients \cup Sides \cup {"actor"}
    /\ "actor" \notin Sides
    /\ NextNotes \subseteq Notes
    /\ GoalTurnNotes \subseteq Notes
    /\ MonitorWakes \subseteq Wakes
    /\ OwnerOf \in [Users -> Clients]
    /\ NoteCap \in Nat \ {0}
    /\ MaxVersion \in Nat /\ MaxCancels \in Nat /\ MaxReorders \in Nat
    /\ {GoalHarness, RewindAllowed, KillAllowed, ShutdownAllowed, Siblings} \subseteq BOOLEAN

ASSUME KindsAssumption ==
    /\ Users \cap Fallbacks = {} /\ (Users \cup Fallbacks) \cap Synthetic = {}
    /\ Crons \cap Wakes = {} /\ (Crons \cup Wakes) \cap Resumes = {}
    /\ (Crons \cup Wakes \cup Resumes) \cap Summaries = {}
    /\ (Crons \cup Wakes \cup Resumes \cup Summaries) \cap Notes = {}

VARIABLES
    queue,       \* State::pending_inputs, front first
    sendNow,     \* ids whose item carries send_now
    version,     \* QueueEntryMeta::version of the user rows
    wire,        \* rows of the last queue/changed broadcast
    running,     \* prompt id of State::running_task
    pin,         \* current_prompt_id
    lock,        \* holder of the state mutex across an await
    rewindable,  \* State::rewindable
    suppressed,  \* State::notifications_suppressed
    goal,        \* goal_loop_active_gate
    turnActive,  \* is_turn_active, one flag for all sessions of the agent
    depth,       \* blocking_wait_depth
    waitReq,     \* turns whose foreground wait is requested, not yet entered
    waits,       \* turns whose BlockingWaitGuard exists
    interj,      \* pending_interjections
    buffer,      \* monitor_event_buffer, this session's events of it
    pending,     \* State::pending_notifications
    stray,       \* notes buffered while the session had nothing to do
    tstat,       \* state of each prompt's turn task
    completions, \* the completion channel
    act,         \* the actor's place in its handler, and its locals
    side,        \* place of each side promoter
    outcome,     \* what became of each id
    terminals,   \* TurnCompleted terminals emitted for each id
    delivered,   \* AutoWakeDeliveredIds
    reported,    \* ReportedTaskCompletions
    told,        \* completions shown to the model by a reminder
    cancels,     \* Cancel commands so far
    reorders     \* ReorderQueue commands so far

qVars == <<queue, sendNow, version, wire>>
runVars == <<running, pin, lock, rewindable>>
waitVars == <<depth, waitReq, waits>>
noteVars == <<buffer, pending, stray>>
taskVars == <<tstat, completions>>
wakeVars == <<delivered, reported, told>>
budgetVars == <<cancels, reorders>>

vars == <<qVars, runVars, suppressed, goal, turnActive, waitVars, interj, noteVars,
          taskVars, act, side, outcome, terminals, wakeVars, budgetVars>>

-----------------------------------------------------------------------------
(* The actor's local state *)

ActorPc == {"select", "fallback", "cancel", "cancel_take", "cancel_goal",
            "cancel_abort", "cancel_done", "cancel_resume", "complete_goal", "complete",
            "flush", "start", "promote", "drain", "ended"}

(* Locals of a handler: the id it works on, where the promotion returns,   *)
(* the cancel flags, the pin snapshot, the task taken, the items to answer *)
(* and the rewound item.                                                   *)
AtPc(pc) == [pc |-> pc, id |-> None, next |-> "select", rewind |-> FALSE,
             kill |-> FALSE, now |-> FALSE, snap |-> None, task |-> None,
             out |-> <<>>, rewound |-> None]

ActorState == [pc : ActorPc, id : Ids \cup {None}, next : {"select", "drain"},
               rewind : BOOLEAN, kill : BOOLEAN, now : BOOLEAN,
               snap : Ids \cup {None}, task : Ids \cup {None}, out : Seq(Ids),
               rewound : Ids \cup {None}]

Select == AtPc("select")

StartThen(next) == [AtPc("start") EXCEPT !.next = next]

TaskStates == {"none", "spawned", "live", "ending", "done", "aborting", "gone"}

Outcomes == {"new", "queued", "done", "cancelled", "rewound", "removed", "dropped",
             "interject", "cleared", "merged", "held", "shed", "exited", "purge", "sent", "quiet"}

-----------------------------------------------------------------------------
(* Shorthands *)

Waiting == Items(queue) \ {running}

LastOf(s, n) == SubSeq(s, IF Len(s) > n THEN Len(s) - n + 1 ELSE 1, Len(s))

SetOutcome(S, o) == outcome' = [i \in Ids |-> IF i \in S THEN o ELSE outcome[i]]

(* broadcast_queue_changed, after the queue and the running task changed. *)
Broadcast == wire' = QueueWire(queue', running', Users, version')

(* is_session_idle_for_injection *)
IdleForInjection == running = None /\ queue = <<>> /\ ~suppressed

(* The select is biased: commands are read only when no completion waits. *)
AtCommand == act.pc = "select" /\ completions = <<>>

Init ==
    /\ queue = <<>> /\ sendNow = {} /\ version = [u \in Users |-> 0] /\ wire = <<>>
    /\ running = None /\ pin = None /\ lock = None /\ rewindable = FALSE
    /\ suppressed = FALSE /\ goal = FALSE /\ turnActive = FALSE
    /\ depth = 0 /\ waitReq = {} /\ waits = {}
    /\ interj = <<>> /\ buffer = <<>> /\ pending = <<>> /\ stray = {}
    /\ tstat = [i \in Ids |-> "none"] /\ completions = <<>>
    /\ act = Select
    /\ side = [s \in Sides |-> IF s = "mcp" THEN "start" ELSE "idle"]
    /\ outcome = [i \in Ids |-> "new"] /\ terminals = [i \in Ids |-> 0]
    /\ delivered = {} /\ reported = {} /\ told = {}
    /\ cancels = 0 /\ reorders = 0

-----------------------------------------------------------------------------
(* queue_input *)

(* A prompt runs next when the client asks for it, or when the turn in     *)
(* flight is blocked in a wait and no other user prompt is held.           *)
RunsNext(id, now) ==
    /\ id \notin Synthetic
    /\ \/ now
       \/ running # None /\ depth > 0 /\ Waiting \subseteq Synthetic

CancelsTurn(id, now) == RunsNext(id, now) /\ running # None /\ ~goal

(* Faulty variant: nothing is swept. *)
Preempted_Never(id) == queue

(* A user prompt sweeps the waiting synthetic prompts when one of them is  *)
(* a wake.                                                                 *)
Preempted(id) ==
    IF id \notin Synthetic /\ Waiting \cap Wakes # {}
    THEN Sweep(queue, running, Synthetic)
    ELSE queue

QueueInput(id, now) ==
    LET swept   == Preempted(id)
        dropped == Items(queue) \ Items(swept)
    IN  /\ queue' = IF RunsNext(id, now)
                    THEN InsertSlot(swept, SendNowSlot(swept, running, sendNow), id)
                    ELSE Append(swept, id)
        /\ sendNow' = IF RunsNext(id, now) THEN sendNow \cup {id} ELSE sendNow
        /\ delivered' = delivered \ dropped
        /\ reported' = reported \cup ({id} \cap Wakes)
        /\ outcome' = [i \in Ids |-> IF i = id THEN "queued"
                                     ELSE IF i \in dropped THEN "dropped" ELSE outcome[i]]
        /\ UNCHANGED <<version, told>>

(* SessionCommand::Prompt *)
Prompt(id, now) ==
    /\ AtCommand /\ lock = None
    /\ outcome[id] = IF id \in Wakes THEN "sent" ELSE "new"
    /\ QueueInput(id, now)
    /\ suppressed' = (suppressed /\ id \in Synthetic)
    /\ act' = IF CancelsTurn(id, now)
              THEN [AtPc("cancel") EXCEPT !.now = TRUE]
              ELSE StartThen("select")
    /\ UNCHANGED <<runVars, goal, turnActive, waitVars, interj, noteVars, taskVars,
                   side, terminals, budgetVars>>
    /\ Broadcast

(* SessionCommand::GoalSummaryTurn *)
GoalSummaryTurn(g) ==
    /\ AtCommand /\ lock = None
    /\ outcome[g] = "new"
    /\ queue' = Append(queue, g)
    /\ SetOutcome({g}, "queued")
    /\ act' = StartThen("select")
    /\ UNCHANGED <<sendNow, version, wire, runVars, suppressed, goal, turnActive, waitVars,
                   interj, noteVars, taskVars, side, terminals, wakeVars, budgetVars>>

-----------------------------------------------------------------------------
(* Edits of the shared queue by a client *)

(* What an edit of the queue leaves alone, beside the queue itself. *)
EditFrame == UNCHANGED <<runVars, suppressed, goal, turnActive, waitVars, interj, noteVars,
                         taskVars, side, terminals, wakeVars, cancels>>

Owns(o, u) == o = None \/ OwnerOf[u] = o

(* Faulty variant: the turn in flight counts as a row. *)
Rows_Running == Items(queue) \cap Users

(* Rows a client may still change: the turn in flight is not one. *)
Rows == Waiting \cap Users

RowMatches(u, v, o) == u \in Rows /\ version[u] = v /\ Owns(o, u)

RemoveQueuedPrompt(u, v, o) ==
    /\ AtCommand /\ lock = None
    /\ LET gone == {x \in {u} : RowMatches(x, v, o)}
       IN  /\ queue' = Keep(queue, Items(queue) \ gone)
           /\ SetOutcome(gone, "removed")
    /\ UNCHANGED <<sendNow, version, act, reorders>>
    /\ EditFrame
    /\ Broadcast

ClearQueue(o) ==
    /\ AtCommand /\ lock = None
    /\ LET gone == {u \in Rows : Owns(o, u)}
       IN  /\ queue' = Keep(queue, Items(queue) \ gone)
           /\ SetOutcome(gone, "removed")
    /\ UNCHANGED <<sendNow, version, act, reorders>>
    /\ EditFrame
    /\ Broadcast

(* The orders a client can name: sequences of row ids without repetition. *)
Orders ==
    {s \in UNION {[1 .. n -> Users] : n \in 1 .. Cardinality(Users)} : Distinct(s)}

ReorderQueue(order) ==
    /\ AtCommand /\ lock = None
    /\ reorders < MaxReorders
    /\ reorders' = reorders + 1
    /\ queue' = Reorder(queue, Users \ {running}, order)
    /\ UNCHANGED <<sendNow, version, act, outcome>>
    /\ EditFrame
    /\ Broadcast

(* Returns early, without a broadcast, when the id is not a waiting row. *)
EditQueuedPrompt(u) ==
    /\ AtCommand /\ lock = None
    /\ u \in Rows
    /\ version[u] < MaxVersion
    /\ version' = [version EXCEPT ![u] = @ + 1]
    /\ UNCHANGED <<queue, sendNow, act, outcome, reorders>>
    /\ EditFrame
    /\ Broadcast

(* Send-now of a row that already waits: it moves to the send-now slot and *)
(* the turn in flight is cancelled, unless it is a goal turn.              *)
InterjectQueuedPrompt(u, v, o, edit) ==
    /\ AtCommand /\ lock = None
    /\ LET hit  == RowMatches(u, v, o)
           rest == Drop(queue, u)
       IN  /\ hit /\ edit => version[u] < MaxVersion
           /\ queue' = IF hit
                       THEN InsertSlot(rest, SendNowSlot(rest, running, sendNow), u)
                       ELSE queue
           /\ sendNow' = IF hit THEN sendNow \cup {u} ELSE sendNow
           /\ version' = IF hit /\ edit THEN [version EXCEPT ![u] = @ + 1] ELSE version
           /\ act' = IF hit /\ running # None /\ ~goal
                     THEN [AtPc("cancel") EXCEPT !.now = TRUE]
                     ELSE StartThen("select")
    /\ UNCHANGED <<outcome, reorders>>
    /\ EditFrame
    /\ Broadcast

-----------------------------------------------------------------------------
(* maybe_start_running_task, called by the actor and by the side tasks *)

StartBlocked == lock = None /\ (running # None \/ queue = <<>>)

(* First half: the front is pinned under the lock, which is then held over *)
(* the update of the tool resources.                                       *)
PinFront(p) ==
    /\ lock = None /\ running = None /\ queue # <<>>
    /\ lock' = p
    /\ pin' = queue[1]
    /\ rewindable' = TRUE
    /\ UNCHANGED <<qVars, running, taskVars>>

(* Faulty variant: the promotion forgets the broadcast. *)
PromoteFront_Silent(p) ==
    /\ lock = p
    /\ lock' = None
    /\ running' = queue[1]
    /\ tstat' = [tstat EXCEPT ![queue[1]] = "spawned"]
    /\ UNCHANGED <<queue, sendNow, version, wire, pin, rewindable, completions>>

(* Second half: the turn task is spawned and the queue broadcast. *)
PromoteFront(p) ==
    /\ lock = p
    /\ lock' = None
    /\ running' = queue[1]
    /\ tstat' = [tstat EXCEPT ![queue[1]] = "spawned"]
    /\ UNCHANGED <<queue, sendNow, version, pin, rewindable, completions>>
    /\ Broadcast

StartFrame == UNCHANGED <<suppressed, goal, turnActive, waitVars, interj, noteVars,
                          outcome, terminals, wakeVars, budgetVars>>

ActorSkip ==
    /\ act.pc = "start" /\ StartBlocked
    /\ act' = AtPc(act.next)
    /\ UNCHANGED <<qVars, runVars, taskVars, side>>
    /\ StartFrame

ActorPin ==
    /\ act.pc = "start" /\ PinFront("actor")
    /\ act' = [act EXCEPT !.pc = "promote"]
    /\ UNCHANGED side
    /\ StartFrame

ActorPromote ==
    /\ act.pc = "promote" /\ PromoteFront("actor")
    /\ act' = AtPc(act.next)
    /\ UNCHANGED side
    /\ StartFrame

SideSkip(s) ==
    /\ side[s] = "start" /\ StartBlocked
    /\ side' = [side EXCEPT ![s] = "over"]
    /\ UNCHANGED <<qVars, runVars, taskVars, act>>
    /\ StartFrame

SidePin(s) ==
    /\ side[s] = "start" /\ PinFront(s)
    /\ side' = [side EXCEPT ![s] = "promote"]
    /\ UNCHANGED act
    /\ StartFrame

SidePromote(s) ==
    /\ side[s] = "promote" /\ PromoteFront(s)
    /\ side' = [side EXCEPT ![s] = "over"]
    /\ UNCHANGED act
    /\ StartFrame

(* start_resume_turn: the task that waited for the plan approval queues    *)
(* the follow-up prompt itself, beside the actor.                          *)
ResumeQueue(r) ==
    /\ side[r] = "idle" /\ lock = None
    /\ outcome[r] = "new"
    /\ side' = [side EXCEPT ![r] = "start"]
    /\ QueueInput(r, FALSE)
    /\ UNCHANGED <<runVars, suppressed, goal, turnActive, waitVars, interj, noteVars,
                   taskVars, act, terminals, budgetVars>>
    /\ Broadcast

-----------------------------------------------------------------------------
(* Interjections *)

(* SessionCommand::Interject: buffered for the turn whose pin is seen, a   *)
(* prompt of its own when no pin is set.                                   *)
Interject(f) ==
    /\ AtCommand
    /\ outcome[f] = "new"
    /\ SetOutcome({f}, "interject")
    /\ IF pin # None
       THEN interj' = Append(interj, f) /\ UNCHANGED act
       ELSE act' = [AtPc("fallback") EXCEPT !.out = <<f>>] /\ UNCHANGED interj
    /\ UNCHANGED <<qVars, runVars, suppressed, goal, turnActive, waitVars, noteVars,
                   taskVars, side, terminals, wakeVars, budgetVars>>

(* queue_interjection_fallback_prompt for the last entry of the batch that *)
(* is not placed yet; flush_stranded_interjections goes from last to       *)
(* first and takes the state lock anew for each.                           *)
QueueFallback ==
    LET left == Keep(act.out, {f \in Fallbacks : outcome[f] = "interject"})
        f    == left[Len(left)]
    IN  /\ act.pc = "fallback" /\ lock = None
        /\ left # <<>>
        /\ queue' = InsertSlot(queue, FrontSlot(queue, running), f)
        /\ sendNow' = sendNow \cup {f}
        /\ SetOutcome({f}, "queued")
        /\ act' = IF Len(left) = 1 THEN StartThen(act.next) ELSE act
        /\ UNCHANGED <<version, wire, runVars, suppressed, goal, turnActive, waitVars, interj,
                       noteVars, taskVars, side, terminals, wakeVars, budgetVars>>

-----------------------------------------------------------------------------
(* Notifications *)

NoteFrame == UNCHANGED <<qVars, runVars, suppressed, goal, turnActive, waitVars, interj,
                         taskVars, side, terminals, wakeVars, budgetVars>>

(* SessionCommand::InjectNotification: a monitor event that arrives while  *)
(* some session's turn is active goes to the buffer, anything else to the  *)
(* pending list; both drop their oldest entries over the cap.              *)
InjectNotification(n) ==
    /\ AtCommand
    /\ outcome[n] = "new"
    /\ LET buffered == turnActive /\ n \in NextNotes
           list     == Append(IF buffered THEN buffer ELSE pending, n)
           kept     == LastOf(list, NoteCap)
       IN  /\ outcome' = [i \in Ids |-> IF i = n THEN "held"
                                        ELSE IF i \in Items(list) \ Items(kept) THEN "shed"
                                        ELSE outcome[i]]
           /\ IF buffered
              THEN /\ buffer' = kept
                   /\ stray' = IF running = None /\ queue = <<>> THEN stray \cup {n} ELSE stray
                   /\ UNCHANGED <<pending, act>>
              ELSE /\ lock = None
                   /\ pending' = kept
                   /\ act' = AtPc("drain")
                   /\ UNCHANGED <<buffer, stray>>
    /\ NoteFrame

(* SessionCommand::DropMonitorNotifications, which the bridge sends ahead  *)
(* of a monitor's wake prompt.                                             *)
DropMonitorNotifications(w) ==
    LET stale == {n \in NextNotes : TaskOf[n] = w}
    IN  /\ AtCommand /\ lock = None
        /\ outcome[w] = "purge"
        /\ pending' = Keep(pending, Notes \ stale)
        /\ buffer' = Keep(buffer, Notes \ stale)
        /\ outcome' = [i \in Ids |->
                          IF i = w THEN "sent"
                          ELSE IF i \in stale \cap (Items(pending) \cup Items(buffer))
                          THEN "shed" ELSE outcome[i]]
        /\ UNCHANGED <<stray, act>>
        /\ NoteFrame

(* maybe_drain_notifications.  `all` is the goal gate that drops the whole *)
(* batch; the goal tracker's status is not part of this module.            *)
DrainNotifications(all) ==
    LET batch  == pending \o buffer
        shown  == IF all THEN <<>> ELSE Keep(batch, Notes \ GoalTurnNotes)
    IN  /\ act.pc = "drain" /\ lock = None
        /\ all => GoalHarness
        /\ IF IdleForInjection /\ batch # <<>>
           THEN /\ pending' = <<>> /\ buffer' = <<>>
                /\ reported' = reported \cup {TaskOf[n] : n \in Items(batch)}
                /\ outcome' = [i \in Ids |->
                                  IF i \notin Items(batch) THEN outcome[i]
                                  ELSE IF i \notin Items(shown) THEN "shed"
                                  ELSE IF i = shown[1] THEN "queued" ELSE "merged"]
                /\ queue' = IF shown = <<>> THEN queue ELSE Append(queue, shown[1])
                /\ act' = IF shown = <<>> THEN Select ELSE StartThen("select")
           ELSE act' = Select /\ UNCHANGED <<buffer, pending, reported, outcome, queue>>
        /\ UNCHANGED <<stray, sendNow, version, wire, runVars, suppressed, goal, turnActive, waitVars,
                       interj, taskVars, side, terminals, delivered, told, budgetVars>>

-----------------------------------------------------------------------------
(* Cancellation *)

(* SessionCommand::Cancel *)
Cancel(rewind, kill) ==
    /\ AtCommand
    /\ cancels < MaxCancels
    /\ rewind => RewindAllowed
    /\ kill => KillAllowed
    /\ cancels' = cancels + 1
    /\ act' = [AtPc("cancel") EXCEPT !.rewind = rewind, !.kill = kill]
    /\ UNCHANGED <<qVars, runVars, suppressed, goal, turnActive, waitVars, interj, noteVars,
                   taskVars, side, outcome, terminals, wakeVars, reorders>>

(* Clears the interjections and snapshots the pin; also the entry of       *)
(* cancel_turn_for_send_now.                                               *)
CancelBegin ==
    /\ act.pc = "cancel"
    /\ interj' = <<>>
    /\ SetOutcome(Items(interj), "cleared")
    /\ act' = [act EXCEPT !.pc = "cancel_take", !.snap = pin]
    /\ UNCHANGED <<qVars, runVars, suppressed, goal, turnActive, waitVars, noteVars,
                   taskVars, side, terminals, wakeVars, budgetVars>>

(* Faulty variants: the cancel aborts the task that is running now and not *)
(* the one it took; a task that was never polled is not aborted.           *)
Abort_Current(t) ==
    LET a == IF running # None THEN running ELSE t
    IN  tstat' = [i \in Ids |-> IF i = a /\ tstat[i] \in {"spawned", "live", "ending"}
                                THEN "gone" ELSE tstat[i]]
Abort_Polled(t) ==
    tstat' = [i \in Ids |-> IF i = t /\ tstat[i] \in {"live", "ending"}
                            THEN "aborting" ELSE tstat[i]]

(* AgentTask::abort: a task that never ran is simply dropped, one that did *)
(* drops its guards the next time it is scheduled.                         *)
Abort(t) ==
    tstat' = [i \in Ids |->
                IF i # t THEN tstat[i]
                ELSE IF tstat[i] = "spawned" THEN "gone"
                ELSE IF tstat[i] \in {"live", "ending"} THEN "aborting"
                ELSE tstat[i]]

(* The items a cancel removes and answers: the whole queue on a teardown,  *)
(* else the front.                                                         *)
CancelledItems(kill) == IF kill \/ queue = <<>> THEN queue ELSE <<queue[1]>>

(* The section of cancel_running_task under the state lock. *)
CancelTake ==
    LET rewinding == act.rewind /\ rewindable
        rewound   == IF rewinding /\ queue # <<>> THEN queue[1] ELSE None
        out       == IF rewound # None THEN <<>> ELSE CancelledItems(act.kill)
    IN  /\ act.pc = "cancel_take" /\ lock = None
        /\ pending' = IF act.kill THEN <<>> ELSE pending \o buffer
        /\ buffer' = <<>>
        /\ SetOutcome(IF act.kill THEN Items(pending) \cup Items(buffer) ELSE {}, "shed")
        /\ IF rewinding THEN Abort(running) ELSE UNCHANGED tstat
        /\ rewindable' = (rewindable /\ ~rewinding)
        /\ suppressed' = (rewound = None)
        /\ running' = None
        /\ queue' = IF rewound # None THEN Tail(queue)
                    ELSE SubSeq(queue, Len(out) + 1, Len(queue))
        /\ act' = [act EXCEPT !.pc = "cancel_goal", !.rewound = rewound, !.out = out,
                              !.task = IF rewinding THEN None ELSE running]
        /\ UNCHANGED <<stray, sendNow, version, wire, pin, lock, goal, turnActive, waitVars, interj,
                       completions, side, terminals, wakeVars, budgetVars>>

CancelFrame == UNCHANGED <<qVars, running, lock, rewindable, turnActive, waitReq, waits,
                           interj, noteVars, completions, side, budgetVars>>

(* set_goal_loop_active_resource(false) *)
CancelGoal ==
    /\ act.pc = "cancel_goal"
    /\ goal' = FALSE
    /\ act' = [act EXCEPT !.pc = "cancel_abort"]
    /\ CancelFrame
    /\ UNCHANGED <<pin, suppressed, depth, tstat, outcome, terminals, wakeVars>>

(* Aborts the task taken under the lock and zeroes the wait window. *)
CancelAbort ==
    /\ act.pc = "cancel_abort"
    /\ Abort(act.task)
    /\ depth' = 0
    /\ act' = [act EXCEPT !.pc = "cancel_done"]
    /\ CancelFrame
    /\ UNCHANGED <<pin, suppressed, goal, outcome, terminals, wakeVars>>

(* Clears the pin, emits the terminal and answers what was removed.  The   *)
(* rewound branch returns before the un-mark.                              *)
CancelDone ==
    LET id   == IF act.task # None THEN act.task ELSE act.snap
        done == [act EXCEPT !.pc = "cancel_resume"]
    IN  /\ act.pc = "cancel_done"
        /\ pin' = None
        /\ IF act.rewound # None
           THEN /\ SetOutcome({act.rewound}, "rewound")
                /\ UNCHANGED <<terminals, delivered>>
           ELSE /\ SetOutcome(Items(act.out), "cancelled")
                /\ terminals' = [i \in Ids |->
                                    terminals[i] + (IF i = id THEN 1 ELSE 0)]
                /\ delivered' = delivered \ Items(act.out)
        /\ act' = IF act.now THEN done ELSE StartThen("select")
        /\ CancelFrame
        /\ UNCHANGED <<suppressed, goal, depth, tstat, reported, told>>

(* Faulty variant: the promotion after a send-now cancel is missing. *)
CancelResume_NoStart ==
    /\ act.pc = "cancel_resume" /\ lock = None
    /\ suppressed' = FALSE
    /\ act' = Select
    /\ CancelFrame
    /\ UNCHANGED <<pin, goal, depth, tstat, outcome, terminals, wakeVars>>

(* The tail of cancel_turn_for_send_now. *)
CancelResume ==
    /\ act.pc = "cancel_resume" /\ lock = None
    /\ suppressed' = FALSE
    /\ act' = StartThen("select")
    /\ CancelFrame
    /\ UNCHANGED <<pin, goal, depth, tstat, outcome, terminals, wakeVars>>

-----------------------------------------------------------------------------
(* Completion of a turn *)

CompleteFrame == UNCHANGED <<sendNow, version, lock, rewindable, suppressed, turnActive,
                             waitVars, tstat, side, wakeVars, budgetVars>>

(* Faulty variant: the pin outlives the turn. *)
TakeCompletion_KeepPin ==
    LET id == Head(completions)
    IN  /\ act.pc = "select" /\ completions # <<>>
        /\ completions' = Tail(completions)
        /\ act' = [AtPc("complete_goal") EXCEPT !.id = id]
        /\ CompleteFrame
        /\ UNCHANGED <<queue, wire, pin, running, goal, interj, noteVars, outcome, terminals>>

(* The completion arm of the select: handle_completion clears the pin if   *)
(* it is still this prompt's.                                              *)
TakeCompletion ==
    LET id == Head(completions)
    IN  /\ act.pc = "select" /\ completions # <<>>
        /\ completions' = Tail(completions)
        /\ pin' = IF pin = id THEN None ELSE pin
        /\ act' = [AtPc(IF pin' = None THEN "complete_goal" ELSE "complete") EXCEPT !.id = id]
        /\ CompleteFrame
        /\ UNCHANGED <<queue, wire, running, goal, interj, noteVars, outcome, terminals>>

CompleteGoal ==
    /\ act.pc = "complete_goal"
    /\ goal' = FALSE
    /\ act' = [act EXCEPT !.pc = "complete"]
    /\ CompleteFrame
    /\ UNCHANGED <<queue, wire, pin, running, completions, interj, noteVars, outcome, terminals>>

(* The completion matches the front of the queue. *)
Owned(id) == queue # <<>> /\ queue[1] = id

(* Faulty variant: any completion, a stale one too, nulls running_task. *)
ReleasesTask_Any(id) == TRUE

(* running_task is nulled by the completion of its own prompt only. *)
ReleasesTask(id) == running = id \/ Owned(id)

(* Faulty variant: a stale completion emits its terminal as well. *)
EmitsTerminal_Any(id) == TRUE

(* emit_terminal *)
EmitsTerminal(id) == Owned(id)

(* The rest of handle_completion: a completion that matches the front pops *)
(* it and answers its client; a stale one leaves a promoted turn alone.    *)
Complete ==
    LET id == act.id
    IN  /\ act.pc = "complete" /\ lock = None
        /\ queue' = IF Owned(id) THEN Tail(queue) ELSE queue
        /\ running' = IF ReleasesTask(id) THEN None ELSE running
        /\ SetOutcome(IF Owned(id) THEN {id} ELSE {}, "done")
        /\ terminals' = IF EmitsTerminal(id) THEN [terminals EXCEPT ![id] = @ + 1]
                        ELSE terminals
        /\ act' = AtPc("flush")
        /\ CompleteFrame
        /\ UNCHANGED <<pin, goal, completions, interj, noteVars>>
        /\ IF Owned(id) /\ id \in Users THEN Broadcast ELSE UNCHANGED wire

(* Faulty variant: the end of a turn only starts the next one. *)
FlushTurnEnd_StartOnly ==
    /\ act.pc = "flush" /\ lock = None
    /\ act' = StartThen("select")
    /\ CompleteFrame
    /\ UNCHANGED <<queue, wire, pin, running, goal, completions, interj, noteVars, outcome,
                   terminals>>

(* drain_monitor_buffer_to_pending, then flush_stranded_interjections. *)
FlushTurnEnd ==
    /\ act.pc = "flush" /\ lock = None
    /\ pending' = pending \o buffer
    /\ buffer' = <<>>
    /\ interj' = <<>>
    /\ act' = IF interj = <<>>
              THEN StartThen("drain")
              ELSE [AtPc("fallback") EXCEPT !.out = interj, !.next = "drain"]
    /\ CompleteFrame
    /\ UNCHANGED <<stray, queue, wire, pin, running, goal, completions, outcome, terminals>>

-----------------------------------------------------------------------------
(* Faulty variant: the shutdown forgets the user prompts too. *)
KeptAtShutdown_Synthetic == Synthetic

(* drop_pending_synthetic_items *)
KeptAtShutdown == Ids \ Synthetic

(* SessionCommand::Shutdown: the synthetic items, the one of the turn in   *)
(* flight too, and the notifications are dropped and the actor returns.    *)
Shutdown ==
    /\ AtCommand /\ lock = None
    /\ ShutdownAllowed
    /\ queue' = Keep(queue, KeptAtShutdown)
    /\ pending' = <<>>
    /\ outcome' = [i \in Ids |-> IF i \in Synthetic \cap Items(queue) THEN "dropped"
                                 ELSE IF i \in Items(pending) THEN "shed" ELSE outcome[i]]
    /\ act' = AtPc("ended")
    /\ UNCHANGED <<sendNow, version, wire, runVars, suppressed, goal, turnActive, waitVars,
                   interj, buffer, stray, taskVars, side, terminals, wakeVars, budgetVars>>

-----------------------------------------------------------------------------
(* Turn tasks *)

TurnFrame == UNCHANGED <<sendNow, version, wire, running, lock, suppressed, act, side,
                         terminals, budgetVars>>

(* Background tasks that have exited. *)
Exited == {w \in Wakes : outcome[w] # "new"}

(* The first poll of the task: the turn becomes active and the completions *)
(* that arrived between turns are shown (dropped in a goal loop).  The     *)
(* local task queue is FIFO, so an aborted task has been dropped before.   *)
TurnStart(t) ==
    /\ tstat[t] = "spawned"
    /\ \A i \in Ids : tstat[i] # "aborting"
    /\ tstat' = [tstat EXCEPT ![t] = "live"]
    /\ turnActive' = TRUE
    /\ reported' = reported \cup Exited
    /\ told' = told \cup (IF goal THEN {} ELSE Exited \ reported)
    /\ TurnFrame
    /\ UNCHANGED <<queue, pin, rewindable, goal, waitVars, interj, noteVars, completions,
                   outcome, delivered>>

(* The first prompt-scoped event closes the rewind window. *)
TurnEmit(t) ==
    /\ tstat[t] = "live" /\ lock = None
    /\ rewindable
    /\ rewindable' = FALSE
    /\ TurnFrame
    /\ UNCHANGED <<queue, pin, goal, turnActive, waitVars, interj, noteVars, taskVars,
                   outcome, wakeVars>>

(* drain_pending_interjections *)
TurnMerge(t) ==
    /\ tstat[t] = "live"
    /\ interj # <<>>
    /\ interj' = <<>>
    /\ SetOutcome(Items(interj), "merged")
    /\ TurnFrame
    /\ UNCHANGED <<queue, pin, rewindable, goal, turnActive, waitVars, noteVars, taskVars,
                   wakeVars>>

(* inject_pending_monitor_events *)
TurnInject(t) ==
    /\ tstat[t] = "live"
    /\ buffer # <<>>
    /\ buffer' = <<>>
    /\ SetOutcome(Items(buffer), "merged")
    /\ TurnFrame
    /\ UNCHANGED <<queue, pin, rewindable, goal, turnActive, waitVars, interj, pending, stray,
                   taskVars, wakeVars>>

(* Top of a goal round: the gate follows the goal's status. *)
TurnGoal(t, active) ==
    /\ tstat[t] = "live"
    /\ GoalHarness
    /\ goal' = active
    /\ TurnFrame
    /\ UNCHANGED <<queue, pin, rewindable, turnActive, waitVars, interj, noteVars, taskVars,
                   outcome, wakeVars>>

(* A turn calls a tool that waits.  The guard is entered by the task that  *)
(* runs the tool (the drainer, or the subagent coordinator on its own      *)
(* thread), so the turn may be aborted between the two.                    *)
WaitFrame ==
    /\ TurnFrame
    /\ UNCHANGED <<queue, pin, rewindable, goal, turnActive, interj, noteVars, taskVars,
                   outcome, wakeVars>>

RequestWait(t) ==
    /\ tstat[t] = "live"
    /\ t \notin waitReq \cup waits
    /\ waitReq' = waitReq \cup {t}
    /\ UNCHANGED <<depth, waits>>
    /\ WaitFrame

EnterWait(t) ==
    /\ t \in waitReq
    /\ waitReq' = waitReq \ {t}
    /\ waits' = waits \cup {t}
    /\ depth' = depth + 1
    /\ WaitFrame

(* Faulty variants: the decrement does not saturate; it wraps (width cut   *)
(* to 16 bits).                                                            *)
LeaveWait_Unchecked(t) ==
    /\ t \in waits
    /\ waits' = waits \ {t}
    /\ depth' = depth - 1
    /\ UNCHANGED waitReq
    /\ WaitFrame

LeaveWait_Wrap(t) ==
    /\ t \in waits
    /\ waits' = waits \ {t}
    /\ depth' = (depth + 2^16 - 1) % 2^16
    /\ UNCHANGED waitReq
    /\ WaitFrame

(* BlockingWaitGuard::drop: the tool returned, or its future was dropped.  *)
(* The decrement saturates.                                                *)
LeaveWait(t) ==
    /\ t \in waits
    /\ waits' = waits \ {t}
    /\ depth' = IF depth = 0 THEN 0 ELSE depth - 1
    /\ UNCHANGED waitReq
    /\ WaitFrame

(* The drainer of a dropped turn is aborted before it polled the tool. *)
AbandonWait(t) ==
    /\ t \in waitReq /\ tstat[t] = "gone"
    /\ waitReq' = waitReq \ {t}
    /\ UNCHANGED <<depth, waits>>
    /\ WaitFrame

(* drop_pending_items_for_consumed_completions: a tool result carries the  *)
(* output of task w, so what still waits to report it is dropped.          *)
TurnConsume(t, w) ==
    LET stale == {n \in Notes : TaskOf[n] = w}
    IN  /\ tstat[t] = "live" /\ lock = None
        /\ w \in Exited /\ w \notin told
        /\ queue' = Sweep(queue, running, {w})
        /\ pending' = Keep(pending, Notes \ stale)
        /\ outcome' = [i \in Ids |->
                          IF i \in Items(queue) \ Items(queue') THEN "merged"
                          ELSE IF i \in stale \cap Items(pending) THEN "shed"
                          ELSE outcome[i]]
        /\ reported' = reported \cup {w}
        /\ told' = told \cup {w}
        /\ TurnFrame
        /\ UNCHANGED <<pin, rewindable, goal, turnActive, waitVars, interj, buffer, stray,
                       taskVars, delivered>>

(* TaskCompletionReminder after a tool call: what was delivered by a wake  *)
(* or reported before is not shown again.                                  *)
TurnRemind(t) ==
    /\ tstat[t] = "live"
    /\ Exited # {}
    /\ reported' = reported \cup delivered \cup Exited
    /\ told' = told \cup (IF goal THEN {} ELSE Exited \ (reported \cup delivered))
    /\ delivered' = {}
    /\ TurnFrame
    /\ UNCHANGED <<queue, pin, rewindable, goal, turnActive, waitVars, interj, noteVars,
                   taskVars, outcome>>

(* TurnSubagentScopeGuard drops at the end of the turn's work. *)
TurnScopeEnd(t) ==
    /\ tstat[t] = "live"
    /\ t \notin waitReq \cup waits
    /\ tstat' = [tstat EXCEPT ![t] = "ending"]
    /\ pin' = IF pin = t THEN None ELSE pin
    /\ TurnFrame
    /\ UNCHANGED <<queue, rewindable, goal, turnActive, waitVars, interj, noteVars,
                   completions, outcome, wakeVars>>

(* handle_prompt returns, at its end or early, and run_task posts the      *)
(* completion.  The guard clears the flag, whoever else has set it.        *)
TurnDone(t) ==
    /\ tstat[t] \in {"live", "ending"}
    /\ t \notin waitReq \cup waits
    /\ tstat' = [tstat EXCEPT ![t] = "done"]
    /\ turnActive' = FALSE
    /\ completions' = Append(completions, t)
    /\ TurnFrame
    /\ UNCHANGED <<queue, pin, rewindable, goal, waitVars, interj, noteVars, outcome, wakeVars>>

(* An aborted task is dropped, and its guards with it. *)
TurnDropped(t) ==
    /\ tstat[t] = "aborting"
    /\ tstat' = [tstat EXCEPT ![t] = "gone"]
    /\ turnActive' = FALSE
    /\ pin' = IF pin = t THEN None ELSE pin
    /\ TurnFrame
    /\ UNCHANGED <<queue, rewindable, goal, waitVars, interj, noteVars, completions, outcome,
                   wakeVars>>

-----------------------------------------------------------------------------
(* Background tasks and the notification bridge *)

BridgeFrame == UNCHANGED <<qVars, runVars, suppressed, goal, turnActive, waitVars, interj,
                           noteVars, taskVars, act, side, terminals, reported, told,
                           budgetVars>>

TaskExits(w) ==
    /\ outcome[w] = "new"
    /\ SetOutcome({w}, "exited")
    /\ UNCHANGED delivered
    /\ BridgeFrame

(* ToolNotification::TaskCompleted: no wake during a goal loop; otherwise  *)
(* the id is marked as delivered and the wake prompt is sent.              *)
BridgeWake(w) ==
    /\ outcome[w] = "exited"
    /\ IF goal
       THEN SetOutcome({w}, "quiet") /\ UNCHANGED delivered
       ELSE /\ SetOutcome({w}, IF w \in MonitorWakes THEN "purge" ELSE "sent")
            /\ delivered' = delivered \cup {w}
    /\ BridgeFrame

-----------------------------------------------------------------------------
(* The other sessions of the agent, which share the is_turn_active flag    *)
(* and the monitor event buffer with this one                              *)

SiblingFrame == UNCHANGED <<qVars, runVars, suppressed, goal, waitVars, interj, pending, stray,
                            taskVars, act, side, terminals, wakeVars, budgetVars>>

(* A turn of another session starts or ends: its TurnActiveGuard stores to *)
(* the shared flag.                                                        *)
SiblingTurn(active) ==
    /\ Siblings
    /\ turnActive' = active
    /\ UNCHANGED <<buffer, outcome>>
    /\ SiblingFrame

(* Another session buffers an event of its own and push_capped drops the   *)
(* oldest event of the shared buffer, which may be this session's.         *)
SiblingPush ==
    /\ Siblings /\ turnActive
    /\ buffer # <<>>
    /\ buffer' = Tail(buffer)
    /\ SetOutcome(Items(buffer) \ Items(Tail(buffer)), "shed")
    /\ UNCHANGED turnActive
    /\ SiblingFrame

-----------------------------------------------------------------------------
(* The session *)

(* The session is idle, waiting for a command, or over. *)
Quiet ==
    /\ \/ AtCommand /\ running = None /\ queue = <<>> /\ lock = None
       \/ act.pc = "ended"
    /\ UNCHANGED vars

Commands ==
    \/ \E id \in Users, now \in BOOLEAN : Prompt(id, now)
    \/ \E id \in Crons \cup Wakes : Prompt(id, FALSE)
    \/ \E g \in Summaries : GoalSummaryTurn(g)
    \/ \E u \in Users, v \in 0 .. MaxVersion, o \in Clients \cup {None} :
          \/ RemoveQueuedPrompt(u, v, o)
          \/ \E edit \in BOOLEAN : InterjectQueuedPrompt(u, v, o, edit)
    \/ \E o \in Clients \cup {None} : ClearQueue(o)
    \/ \E order \in Orders : ReorderQueue(order)
    \/ \E u \in Users : EditQueuedPrompt(u)
    \/ \E f \in Fallbacks : Interject(f)
    \/ \E n \in Notes : InjectNotification(n)
    \/ \E w \in MonitorWakes : DropMonitorNotifications(w)
    \/ \E rewind, kill \in BOOLEAN : Cancel(rewind, kill)
    \/ Shutdown

ActorStep ==
    \/ QueueFallback \/ ActorSkip \/ ActorPin \/ ActorPromote
    \/ CancelBegin \/ CancelTake \/ CancelGoal \/ CancelAbort \/ CancelDone \/ CancelResume
    \/ TakeCompletion \/ CompleteGoal \/ Complete \/ FlushTurnEnd
    \/ \E all \in BOOLEAN : DrainNotifications(all)

SideStep(s) == SideSkip(s) \/ SidePin(s) \/ SidePromote(s)

TurnStep(t) ==
    \/ TurnEmit(t) \/ TurnMerge(t) \/ TurnInject(t) \/ TurnRemind(t)
    \/ \E active \in BOOLEAN : TurnGoal(t, active)
    \/ \E w \in Wakes : TurnConsume(t, w)
    \/ RequestWait(t) \/ EnterWait(t) \/ LeaveWait(t) \/ AbandonWait(t)
    \/ TurnScopeEnd(t)

SiblingStep == SiblingPush \/ \E active \in BOOLEAN : SiblingTurn(active)

Next ==
    \/ Commands
    \/ ActorStep
    \/ \E s \in Sides : SideStep(s)
    \/ \E r \in Resumes : ResumeQueue(r)
    \/ \E t \in Ids : TurnStart(t) \/ TurnStep(t) \/ TurnDone(t) \/ TurnDropped(t)
    \/ \E w \in Wakes : TaskExits(w) \/ BridgeWake(w)
    \/ SiblingStep
    \/ Quiet

(* The runtime polls every ready task: the actor, the promoters and the    *)
(* turn tasks make progress.  That a turn ends at all is an assumption on  *)
(* the model and the tools behind it.                                      *)
Fairness ==
    /\ WF_vars(ActorStep)
    /\ \A s \in Sides : WF_vars(SideStep(s))
    /\ \A t \in Ids : /\ WF_vars(TurnStart(t)) /\ WF_vars(TurnDropped(t))
                      /\ WF_vars(EnterWait(t)) /\ WF_vars(LeaveWait(t))
                      /\ SF_vars(TurnDone(t))

Spec == Init /\ [][Next]_vars

FairSpec == Spec /\ Fairness

-----------------------------------------------------------------------------
(* Properties *)

(* Every variable keeps its type. *)
TypeOK ==
    /\ queue \in Seq(Ids) /\ sendNow \subseteq Ids
    /\ version \in [Users -> 0 .. MaxVersion]
    /\ running \in Ids \cup {None} /\ pin \in Ids \cup {None}
    /\ lock \in {None, "actor"} \cup Sides
    /\ rewindable \in BOOLEAN /\ suppressed \in BOOLEAN
    /\ goal \in BOOLEAN /\ turnActive \in BOOLEAN
    /\ depth \in Nat /\ waitReq \subseteq Ids /\ waits \subseteq Ids
    /\ interj \in Seq(Fallbacks) /\ buffer \in Seq(Notes) /\ pending \in Seq(Notes)
    /\ stray \subseteq Notes
    /\ tstat \in [Ids -> TaskStates] /\ completions \in Seq(Ids)
    /\ act \in ActorState
    /\ side \in [Sides -> {"idle", "start", "promote", "over"}]
    /\ outcome \in [Ids -> Outcomes] /\ terminals \in [Ids -> Nat]
    /\ delivered \subseteq Wakes /\ told \subseteq Wakes
    /\ cancels \in 0 .. MaxCancels /\ reorders \in 0 .. MaxReorders

(* The turn in flight is the front of the queue while the actor lives:     *)
(* handle_completion and cancel_running_task pop index 0 on that belief,   *)
(* whatever was inserted, removed, swept or reordered meanwhile.           *)
RunningIsFront ==
    running # None /\ act.pc # "ended" => queue # <<>> /\ queue[1] = running

(* No prompt's turn is spawned twice: a stale completion or a promoter     *)
(* beside the actor cannot make maybe_start_running_task spawn it again.   *)
SpawnOnce ==
    [][\A i \in Ids : tstat'[i] = "spawned" /\ tstat[i] # "spawned" => tstat[i] = "none"]_vars

(* running_task never names a task that will not complete: otherwise       *)
(* maybe_start_running_task would be blocked for ever.                     *)
NoWedge ==
    running # None /\ act.pc # "ended" =>
        \/ tstat[running] \in {"spawned", "live", "ending"}
        \/ /\ tstat[running] = "done"
           /\ \/ running \in Items(completions)
              \/ act.pc \in {"complete_goal", "complete"} /\ act.id = running

(* Between handlers at most the turn in flight is alive: what a cancel     *)
(* took out of running_task has been aborted.                              *)
NoOrphanTurn ==
    act.pc = "select" =>
        \A i \in Ids : tstat[i] \in {"spawned", "live", "ending"} => i = running

(* Between handlers a non-empty queue has a turn in flight, or a promoter  *)
(* on its way: every handler that can leave work at the front starts it.   *)
QueueIsServed ==
    act.pc = "select" /\ queue # <<>> =>
        running # None \/ \E s \in Sides : side[s] \in {"start", "promote"}

(* The debug assertion of cancel_running_task: under the lock, the pin     *)
(* snapshot and the running task do not name two different prompts.        *)
PinAgrees ==
    act.pc = "cancel_take" /\ lock = None =>
        act.snap = None \/ running = None \/ running = act.snap

(* Exactly one durable terminal for a turn that ran to its end or was      *)
(* cancelled, none for a prompt that was rewound or removed: the cancel    *)
(* path and a completion that raced it never both emit.                    *)
OneTerminal ==
    \A i \in Ids :
        /\ terminals[i] <= 1
        /\ outcome[i] = "done" => terminals[i] = 1
        /\ outcome[i] = "cancelled" /\ tstat[i] # "none" => terminals[i] = 1
        /\ outcome[i] \in {"removed", "rewound"} => terminals[i] = 0

(* A user's prompt is never dropped unanswered: once queued it is in the   *)
(* queue or in the hands of the cancel that will answer it.                *)
UserAccounted ==
    \A u \in Users :
        /\ outcome[u] # "dropped"
        /\ outcome[u] = "queued" =>
              u \in Items(queue) \/ u \in Items(act.out) \/ u = act.rewound

(* The answer a client gets says what happened: a prompt reported removed  *)
(* never ran, one reported cancelled, rewound or done did.  In particular  *)
(* a cancel never destroys a prompt that was only waiting.                 *)
AnswerIsTrue ==
    \A u \in Users :
        /\ outcome[u] = "removed" => tstat[u] = "none"
        /\ outcome[u] \in {"cancelled", "rewound", "done"} => tstat[u] # "none"

(* Waiting send-now prompts come before the other waiting prompts (no      *)
(* client reorders).                                                       *)
SendNowFirst ==
    \A i, j \in DOMAIN queue :
        i < j /\ queue[i] # running /\ queue[j] \in sendNow => queue[i] \in sendNow

(* No waiting wake is ahead of a waiting user prompt (no client reorders).  *)
UserBeforeWake ==
    \A i, j \in DOMAIN queue :
        i < j /\ queue[i] # running /\ queue[i] \in Wakes => queue[j] \notin Users

(* Between handlers the last broadcast shows the queue as it is, versions  *)
(* included: no path that changes the rows forgets to broadcast.           *)
WireFresh ==
    act.pc = "select" => wire = QueueWire(queue, running, Users, version)

(* The wait window never counts more guards than exist, in spite of the    *)
(* store of 0 by a cancel and the late drops after it.                     *)
DepthBounded == depth <= Cardinality(waits)

(* Between handlers an interjection is buffered only while a turn that can *)
(* merge it, or whose completion will flush it, is in flight.              *)
NoStrandedInterjection ==
    act.pc = "select" /\ interj # <<>> => running # None \/ lock # None

(* A session that is idle and not suppressed holds no notification back    *)
(* that a turn of its own could have taken (no client rewinds): whatever   *)
(* the shared is_turn_active flag said when it arrived, what came while a  *)
(* prompt ran or waited is shown by that turn, or drained behind it or     *)
(* behind the cancel of it.  Only an event that came to a session with     *)
(* nothing to do may wait in the buffer: another session's turn, or one    *)
(* that was aborted, held the flag.                                        *)
IdleHoldsNothing ==
    AtCommand /\ IdleForInjection => pending = <<>> /\ Items(buffer) \subseteq stray

(* Outcomes of an id that has not been put in the queue. *)
Incoming == {"new", "exited", "quiet", "purge", "sent", "interject", "held"}

(* The queue's bookkeeping agrees with the turn tasks: no id sits in two   *)
(* slots; the promoter's lock freezes the queue; what waits has never been *)
(* spawned; and what has not arrived is neither queued nor spawned.        *)
QueueFresh ==
    /\ Distinct(queue)
    /\ lock # None => running = None /\ queue # <<>>
    /\ \A i \in Waiting : tstat[i] = "none"
    /\ \A i \in Ids : outcome[i] \in Incoming => i \notin Items(queue) /\ tstat[i] = "none"

(* A held notification is in exactly one of the two lists, and none is     *)
(* among the items a handler is about to answer.                           *)
NotesHeld ==
    /\ \A n \in Items(pending) \cup Items(buffer) : outcome[n] = "held"
    /\ Items(pending) \cap Items(buffer) = {}
    /\ \A n \in Notes : n \in Items(act.out) \/ n = act.rewound => outcome[n] \notin Incoming

(* Together with TypeOK and RunningIsFront this is inductive. *)
QueueInv == QueueFresh /\ NotesHeld

(* Where a user's prompt stands for its client: one that is queued and not *)
(* in the queue is in the hands of the cancel that will answer it.         *)
PromptStatus ==
    [u \in Users |->
        IF outcome[u] # "queued" THEN outcome[u]
        ELSE IF u \notin Items(queue) THEN "stopping"
        ELSE IF u = running THEN "running" ELSE "waiting"]

Service ==
    INSTANCE PromptService
    WITH Prompts <- Users, Teardown <- KillAllowed, status <- PromptStatus

(* The session keeps what PromptService promises: turns of two users do    *)
(* not overlap, a prompt in flight cannot be removed nor one that waits be *)
(* cancelled, what a cancel took is not also answered as done by the       *)
(* completion it raced, and no answer is ever replaced.                    *)
IsService == Service!ServiceSpec

(* Every queued user prompt is eventually answered. *)
UserAnswered ==
    \A u \in Users :
        outcome[u] = "queued" ~> outcome[u] \in {"done", "cancelled", "rewound", "removed"}

(* Every interjection reaches a turn, becomes one, or is discarded by a    *)
(* cancel.                                                                 *)
InterjectionSettles ==
    \A f \in Fallbacks :
        outcome[f] = "interject" ~>
            outcome[f] \in {"merged", "cleared", "done", "cancelled", "rewound"}

-----------------------------------------------------------------------------
(* What comments in the code claim and the code does not do *)

(* sweep_pending_inputs: dropping unanswered is correct "for synthetic     *)
(* items (no client RPC awaits them)"; the pager awaits its cron prompts.  *)
AwaitedNotDropped == \A c \in Crons : outcome[c] # "dropped"

(* queue_input and cancel_running_task un-mark a preempted or cancelled    *)
(* wake "so TaskCompletionReminder can report them on the next pass        *)
(* instead of permanently suppressing them".                               *)
PreemptedIsReportable ==
    \A w \in Wakes : outcome[w] = "dropped" => w \notin reported \/ w \in told
=============================================================================
