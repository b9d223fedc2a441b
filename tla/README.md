# Verification of ds-build

ds-build is a coding agent: a shell process that hosts sessions, runs model turns and tools in them, and serves one or
more clients (a terminal pager, a leader process, subagents). This directory holds TLA+ modules that model its parts,
TLC configurations that check them on small instances, and TLAPS proofs of the central theorems. `PROJECT.json` lists the
components, the runs, what line each definition stands for, the hazards, the findings and the theorems. All source paths
below are relative to `src/crates/`.

## 1. Inventory

### Session actor (modelled)

`codegen/ds-shell/src/session/acp_session.rs` and `acp_session_impl/*`. One actor task per session (`run_session` in
`run_loop.rs`) owns the prompt queue and spawns one turn task at a time.

* State: `pending_inputs` (the queue), `running_task`, `rewindable`, `notifications_suppressed`,
  `pending_notifications` behind one tokio mutex; and, outside the mutex, `current_prompt_id` (the pin),
  `blocking_wait_depth`, `pending_interjections`, `goal_loop_active_gate`, the completion channel and the sets
  `AutoWakeDeliveredIds` and `ReportedTaskCompletions`. Two fields belong to the agent and are shared by its sessions:
  `is_turn_active`, which the turns of every session set and clear, and `monitor_event_buffer`, of which a session drains
  its own events only.
* Operations: `Prompt` (with send-now), the queue edits (`RemoveQueuedPrompt`, `ClearQueue`, `ReorderQueue`,
  `EditQueuedPrompt`, `InterjectQueuedPrompt`), `Interject`, `InjectNotification`, `DropMonitorNotifications`, `Cancel` and
  the internal send-now cancel, `GoalSummaryTurn`, `Shutdown`, `handle_completion`, `maybe_start_running_task`, and the
  steps of a turn task.
* Interaction: commands arrive on a channel, completions on another, the select is biased to completions. Two kinds of
  task beside the actor (the MCP start-up and a plan resume) promote the queue on their own. The notification bridge turns
  the exit of a background task into a wake prompt. Clients see the queue through `queue/changed`. The other sessions of
  the agent show in the shared turn flag and in the shared buffer, which sheds its oldest events when it is full.
* What is hard: the handlers are long sequences of awaits; most shared fields are read outside the lock; the promoter
  holds the lock across an await with the pin already set; a cancel races the completion of the turn it cancels; an abort
  takes effect only when the task is next polled, and the tool futures of the turn live in tasks of their own.
* Correct when: the turn in flight is the front of the queue; every user prompt is answered once, truthfully; no prompt is
  spawned twice; the session is never stuck with a task that will not complete, nor idle with work in the queue; each turn
  has one durable terminal; interjections and notifications are never stranded; the rows clients see are current.

### Circuit breaker (modelled)

`common/ds-circuit-breaker`, used by `codegen/ds-file-utils/src/storage_client.rs`. Shared by the concurrent requests of a
storage client.

* State: `state`, `opened_at_millis`, `half_open_probes`, `probe_claimed_at_millis`, `is_open_fast` (five atomics) and a
  sliding window of outcomes behind a std mutex.
* Operations: `check` (with `check_open` and `try_half_open_probe`), `record` (with `trip` and `close`), `error_rate`.
* What is hard: every operation is several atomic accesses, with no lock around them; a caller may be dropped between
  `check` and `record`; counters are reset by one thread while another is about to decrement them; time passes.
* Correct when: the window counts what it holds; the mirror agrees with the state; a cool-down is served; at most the
  configured number of probes is out; and the breaker always lets some request through again.

### Credential refresh (modelled in part)

`codegen/ds-shell/src/auth`: `manager.rs`, `manager/lock.rs`, `manager/sleep_gate.rs`, `manager/enrichment.rs`,
`refresh/`, `oidc/`, `storage.rs`, `flow.rs`, and the writers of `auth.json` elsewhere in `ds-shell`. Several processes
(shells, the leader, subagents) share one rotating OIDC credential.

* State: `auth.json` and `auth.json.lock` on disk; per process the cached credential, `refresh_lock`, the cached verdict
  (`permanent_failure`), the budget of transient failures, the sleep gate and the count of refreshes in flight; at the
  identity provider, the refresh token it honours next and whether it has revoked the family.
* Operations: the acquire routine of the lock (an instant try, a blocking wait with a deadline, the recovery of a stale
  lock) and the drop of its guard; `refresh_chain` with the OIDC refresher, whose exchange repeats its request up to three
  times; `update()`; the `/user` enrichment; the expired path of `run_auth_flow`; a new login; the power listener; and four
  writers that take no lock: `initialize()`, a headless start, `setCodingDataRetention` and the API key commands.
* Interaction: processes see each other only through the two files and the provider. The flow holds the file lock while it
  calls `auth()`, which takes it too. `update()` spawns the enrichment, which takes the lock later, on its own.
* What is hard: the lock is broken by unlinking a file, and its holder is not told; a deadline leaves a thread in the
  kernel's queue; a process may be suspended anywhere; a token is spent at the provider before its successor is on disk, and
  presenting it once more costs the user the whole family; the cache, the disk and the verdict go stale separately.
* Correct when: the lock has one live owner; no refresh token is presented twice unless a fault hit its first use or a
  writer without the lock put it back on disk; a cached verdict blocks only dead credentials and a dead credential is not
  sent again; no guard or slot is left behind; no token is on the wire when the machine is let go to sleep.

### Components that are not modelled yet

| Component | State and operations | What is hard |
|---|---|---|
| Leader process (`ds-shell/src/leader`) | lock file, socket, client table; elect, hand over, unload | two candidates, stale socket, idle unload against a new client |
| Subagent coordinator (`ds-shell/src/agent/subagent`) | child sessions; spawn, await, cancel, roll up usage | cancel against completion, foreground turned background |
| Scheduler actor (`ds-tools/.../scheduler`) | jobs, timers; add, fire, remove | late timers, fire against delete |
| Sampler (`ds-sampler`) | requests in flight; send, retry, cancel | a retry after a partial stream, cancel against a late event |
| Chat state (`ds-chat-state`) | conversation, persisted log; mutate, persist, load | order of persistence, torn tail |
| Hub SDK (`ds-computer-hub-sdk`) | admission, pool, reference counts | reconnect, generation of a connection, last release |
| Permission manager, hooks (`ds-workspace`, `ds-hooks`) | pending requests; ask, answer, cancel | answers after a cancel, duplicate requests |
| Memory (`ds-memory`) | dream lock file; acquire, expire, roll back | two processes, crash with the lock held |
| Goal tracker, plan mode (`ds-shell/src/session`) | goal phases; the orchestrator's rounds | budget, pause against a verdict in flight |
| Upload queue (`ds-file-utils/src/queue.rs`) | persisted entries with leases; enqueue, claim, retry, recover | crash with a lease held, retry of what was uploaded |
| Hunk tracker (`ds-hunk-tracker`) | attribution of edits | file watcher events after a tool write |

Clients and rendering, parsers, compaction (a language model's text), telemetry, configuration, update, voice and the
protocol types are I/O, data transformation or declarations and stay out; the pager appears as the source of commands.

## 2. Modules

| Module | Stands for |
|---|---|
| `PromptQueue` | the algorithms on the queue: sweep, send-now slot, reorder, rows of the broadcast |
| `PromptService` | what a session promises to the clients that prompt it: an abstract specification |
| `SessionActor` | the actor, its turn tasks, the side promoters and the notification bridge |
| `MCSessionActor` | owners of rows and sources of notes for TLC's instances |
| `PromptQueueProofs` | lemmas on `Keep`, insertion, concatenation, suffixes and reorder |
| `SessionActorTypes` | one step preserves the types |
| `SessionActorProofs` | the invariant of the queue and of the turn in flight, and its theorems |
| `SessionActorTurns` | the invariant of the turns, the answers and the notifications, and its theorems |
| `SessionActorClients` | the order of the queue, the broadcast, and that the session implements the service |
| `SlidingWindow` | the window of outcomes with its running count |
| `CircuitBreaker` | the breaker, one step per access to shared memory |
| `CircuitBreakerProofs` | its types, its window, and what holds until two operations overlap |
| `LeaseLock` | what the lock of the credentials promises: an abstract specification |
| `AuthLock` | `auth.json.lock`: flock, holder info, stale recovery, inode comparison |
| `MCAuthLock` | its calls and faults bounded, and its fairness |
| `AuthLockProofs` | its inductive invariant, exclusion, and that it implements the lease |
| `CredentialRefresh` | the refresh of one credential by several processes that use the lease |
| `MCCredentialRefresh` | the callers of each process for TLC's instance |
| `CredentialRefreshProofs` | its types, its use of the lock, that no token is presented twice, and its verdicts |

### SessionActor and the code

The session runs on one thread (a `LocalSet`), so tasks interleave only at awaits. A handler without an await that matters
is one action; a handler with awaits is split there, and `act` holds its place and its locals. `cancel_running_task` is
`CancelBegin` (pin snapshot), `CancelTake` (the section under the lock: pop, rewind, sweep), `CancelGoal`, `CancelAbort`
(abort, depth to 0), `CancelDone` (pin, terminal, answers), and `CancelResume` for the tail of `cancel_turn_for_send_now`.
`maybe_start_running_task` is `ActorSkip` or `ActorPin` followed by `ActorPromote`, and `SideSkip`, `SidePin`,
`SidePromote` for the tasks beside the actor; between pin and promotion `lock` names the holder, and every action that
needs the mutex waits for it. `handle_completion` is `TakeCompletion`, `CompleteGoal`, `Complete`, then `FlushTurnEnd` once
per stranded interjection and `DrainNotifications`.

A turn task goes through `none`, `spawned`, `live`, `ending`, `done`; an abort makes it `aborting` and the runtime drops
it later (`gone`). While live it merges interjections, reads the monitor buffer, writes the goal gate, consumes
completions and waits in the foreground. Its tool future is a task of its own, so `EnterWait` may still happen after the
abort.

With `Siblings` the agent has other sessions. `SiblingTurn` sets or clears the shared turn flag at any time, so a note that
comes to an idle session may find it set (`InjectNotif` then buffers), and one that comes in the middle of a turn may find it
cleared. `SiblingPush` fills the shared buffer with events of other sessions, which costs this session its oldest one.
`stray` is history: the notes that were buffered while this session had neither a turn nor a prompt waiting for one.

Data is abstracted to identities. A prompt is an id of one of six kinds; a wake is also the background task it reports; a
fallback is also the interjection it carries; a note is the notification and, when first of its batch, the batch's prompt.
Row versions count edits. Prompt text, images, traces, usage and telemetry are left out. `outcome` and `terminals` are
history: what the client was told, and how many durable terminals were written.

`PromptService` forgets the pin, the lock, the places of the handlers and every prompt that is not a user's. A prompt is new,
waits, runs, is being stopped, or has one of four answers. `PromptStatus` is the refinement mapping: a prompt that is queued
but in no slot is being stopped, because only a cancel takes a prompt out before it answers it. `IsService` says that each
step of the session is a step of the service or none.

### CircuitBreaker and the code

One action is one access to an atomic or one section under the window's lock; a reading of the clock belongs to the access
next to it. Instants are ages, which stop growing once they are past every comparison, so time is unbounded in a finite
model; `loc.now` is the age of the reading an operation carries. A caller that was admitted either records an outcome or
never does (`Abandon`: a dropped future, a 404, 403, transport error or unparsable body, which the storage client does not
record). The counter of probes is an unsigned integer of `Width` bits, and its `fetch_sub` wraps. `tripAge` and `overlap`
are history.

### LeaseLock, AuthLock, CredentialRefresh and the code

The two are composed by refinement. `LeaseLock` is the promise: at most one caller owns the lock, an owner may lose it at
any time without being told, and goes on holding its guard. `AuthLock` is shown to implement it (`IsLease`), and
`CredentialRefresh` extends it and touches the lock only through its actions (`RefreshUsesLease`). So the refresh is checked
against everything a lock of that kind may do, and not only against what the file lock does in one run.

`AuthLock` is `try_lock_auth_file_async` step by step: one action per system call. `phase` tells the instant try (1) from
the blocking wait (2) and the two tries of the stale recovery (3, 4). A lock file is an inode; `path` is the one the name
refers to, `content` the PID in it and whether its timestamp is past the limit. A holder is judged by the inode that was
opened and removed by the name, as in the code. `Timeout` abandons the blocking thread (`abandoned`), which the kernel may
still grant the lock (`GhostGrant`); it then stamps the file and closes it (`GhostDrop`). A thread whose deadline passes
before its open is taken to have opened the file first, which is the same as being queued on the inode it would find.
`flock` excludes open files and not processes, so callers of one process behave like callers of two, except that they die
together.

In `CredentialRefresh` a credential is its generation: number n + 1 comes from one exchange of refresh token n, and
`expiredTo` says which access tokens have expired. `stage` is the place of the refresh that holds `refresh_lock`: `lock`
(`acquire_refresh_lock_or_adopt`), `locked` (deferral and `revalidate_lock_or_reacquire`), `relock`, `ready` and `claimed`
(the in-flight slot, then the gate again), `wire` and `reply` (the refresher), `apply` (`apply_refresh_outcome`). Between two
stages other processes run, the lock may be lost and the process may die. `run` holds the locals. `excused`, `reused`,
`placed` (whether a credential has come onto the disk never, once or again) and the fields `cut` and `blind` are history.

`refresh_tokens` repeats a request that failed without a terminal answer. `run.attempt` counts the requests of an exchange,
and `Again` goes back from `reply` to `wire` with the same token, the lock and the slot kept; only the last one becomes a
transient failure. So an answer that is lost leads to the second presentation of a spent token within the same exchange.

The writers that take no lock copy a credential first (`Initialize`, `SetRetention`, `StoreApiKey`, and `Backfill` after a
flow) and write it later (`SaveUnlocked`): `saving` is the copy a process has, and anything may happen between the two. The
cached credential is copied, or for the API key what is on disk. A copy that is not what `auth.json` holds when it is written
puts an old credential back (`PutBack`).

A token is excused when its answer or the write of its successor is lost, when the process that spent it dies, when the lock
is broken under its user, when it was sent from the cache because `auth.json` could not be read, when an enrichment writes it
back without owning the lock, and when one of the unlocked writers puts it back. The provider is external: it honours a token
once, and a second presentation within the family revokes the family.

## 3. Runs

| Run | Instance | Shows |
|---|---|---|
| `QueueEdits` | users u1 (alice), u2 (bob), a goal summary; one edit per row, one reorder | types; the turn in flight keeps the front; no user prompt is lost; every answer is true; the broadcast rows are current |
| `Preemption` | u1, u2, wake w1, goal turns | send-now prompts run first, users before wakes, a non-empty queue always has a turn or a promoter; the session implements the service, without teardowns |
| `CancelRaces` | u1, plan resume r1, interjection f1; one cancel with or without rewind or teardown; shutdown | one terminal per turn, no second spawn, no orphan, no wedge, the debug assertion on the pin, no stranded interjection; the session implements the service, with rewinds and teardowns |
| `Notifications` | u1, monitor w1, notes n1 (from w1) and n2 (from a goal turn), caps of 1; other sessions | an idle session holds nothing back that a turn of its own could have taken, the wait counter is bounded, and the proof's strengthening |
| `Progress` | u1, u2, f1, fair | every queued user prompt is answered; every interjection settles |
| `Breaker` | two callers, cool-down 2, lag 1, window of 2, one slot, 2-bit counter, fair | the window is exact and the breaker never sheds for ever in all interleavings; mirror, cool-down and probe limit for operations that do not overlap |
| `FileLock` | two callers in two processes, four inodes; three calls, two faults, four in all; fair | the file lock implements the lease; exclusion until a lock is broken; no kernel lock is left to nobody; every call returns |
| `Refresh` | two processes, a budget of two transient failures, two requests per exchange, three calls, two events, one unlocked save, four in all, generations 0 to 3 | no token is presented twice without an excuse; verdicts block only dead credentials, and dead ones are not sent again; nothing is on the wire across a sleep; nothing is left behind |
| `ClaimSyntheticUnawaited` | u1, u2, cron c1, w1 | a sweep drops a cron prompt whose client awaits it |
| `ClaimWakeReportable` | u1, u2, w1 | a preempted wake stays marked as reported |
| `ClaimOneProbe` | two callers, no lag | two callers get the only probe slot |
| `ClaimUpdateLocked` | two processes, two calls, one unlocked save, no fault | a write without the lock undoes a rotation, and the spent token is presented |

Bounds. Two user prompts are the least for a prompt that waits while another runs, for a send-now that cancels a turn, for a
reorder that changes something and for a clear that touches one owner's rows only; the id of a prompt is never reused, so a
prompt that is done takes no further part. With a wake as the turn in flight both users wait, which is how send-now prompts
stack up. One wake and one user are enough for preemption in both directions. With a cap of 1 two notes overflow either list.
In `Notifications` the cancels are those of send-now; commands to cancel are in `CancelRaces`. Other sessions (`Siblings`) are
in this run, where the flag and the buffer they share matter; a session reads the flag nowhere else. One interjection is
enough to be stranded; the order of two is not checked. In `Breaker` two callers give every pairwise race; a cool-down of 2
with a lag of 1 separates "old enough" from "late", and a window of 2 overflows at the third sample. A 2-bit counter wraps as
a 64-bit one does: what matters is that the wrapped value is above the number of slots.

In `FileLock` three calls are the least for a holder, a waiter that breaks its lock and a third that finds the path gone or
renamed; four inodes suffice because each call has one file open and one more may be abandoned; unused inodes are handed out
again. In `Refresh` two processes give every race for one token; three calls let a second task of a process wait while a
sibling rotates the credential; with two events a fault can hit the recovery from another; a budget of two is the least that
counts anything; three new generations allow a rotation, a login and a rotation after it. The code sends a request three
times; two are the least for a repetition, and a third behaves as the second. One unlocked save is enough to put one spent
token back, and the bound on calls, events and saves together keeps the product small. The theorems have no such bounds. The
processes are interchangeable, and the properties name none, so the symmetry is sound.

Deadlock. An idle session, or one that has ended, takes the step `Quiet`, and the breaker's clock always ticks, so their runs
check for deadlock. `FileLock` and `Refresh` do not: once the bounded calls and events are used up everybody may be at rest.
That no caller is stuck inside the lock routine is `LockReturns`.

Fairness. `FairSpec` of the session assumes weak fairness of the actor, of each promoter, of the start and the drop of a
task and of the guards of a wait: the runtime polls what is ready, and the mutex is fair. `TurnDone` is strongly fair: a
turn whose foreground wait opens and closes is disabled again and again, and that it ends at all is an assumption about
the model and the tools behind it (their timeouts). Commands are not fair: nobody needs to type. `FairSpec` of the breaker
assumes that time passes, threads run, requests end (HTTP timeouts) and clients keep asking. `MCSpec` of the lock assumes only
that the acquire routine is polled and its timer fires; no holder need drop its guard, no abandoned thread need be granted
anything.

### What the violated runs show

* `ClaimSyntheticUnawaited`: `acp_session.rs:306` justifies the silent sweep by "no client RPC awaits them"; the pager
  awaits its cron prompts, which the sweep takes too.
* `ClaimWakeReportable`: `queue_input` marks a wake in two sets and un-marks it in one, so the reminder that the comment
  at `prompt_queue.rs:140` promises never comes.
* `ClaimOneProbe`: a slot is claimed (`breaker.rs:279`) before it is stamped (281). A second caller in between finds the
  slot taken, reads an old stamp, and takes the claim over.
* `ClaimUpdateLocked`: `manager.rs:784` requires of the callers of `update()` that they hold the lock. `initialize()`
  (`acp_agent.rs:67`) does not, and writes its cached credential over what a sibling has rotated to. No fault is needed; the
  next refresh presents the spent token. A headless start (`agent/app.rs:503`), `setCodingDataRetention`
  (`extensions/privacy.rs:86`) and the API key commands (`storage.rs:354-380`) write in the same way.

Overlapping operations of the breaker. `MirrorExact`, `CoolDownHonoured` and `ProbesLimited` are about operations that do not
overlap. For those that do the code has three promises, and in the model none of them holds. Of the probe slot
`ClaimOneProbe` shows it. The other two fail in one interleaving: `trip` stores the state, then `opened_at`, the slot counter
and the mirror, and a check between the first two stores that finds an old `opened_at` goes to half-open.

* `breaker.rs:41` calls `is_open_fast` a mirror of `state == Open` that is written after the state. The check has stored
  false before the trip stores true, so `is_open()` says open in a half-open breaker until the next transition.
* `breaker.rs:211-213` leaves out a reset because the slot counter "is already 0" in the open state. The check wins its
  compare-and-swap before the trip has zeroed the counter. In that order the cool-down is skipped too.

`WindowExact` and `NeverShedsForever` hold in every interleaving. A decrement after a reset wraps the counter, and the lease
still lets probes through.

Other behaviour of the session that the model shows:

* The store of 0 at `tasks_cancel.rs:499`, there so that no stale count makes a prompt cancel the next turn (494), may come
  before a tool future that has not been dropped yet enters its guard. The next turn then looks blocked in a wait.
* An urgent (`Next`) note that comes to an idle session while another session runs a turn is buffered and waits for the next
  turn or drain, while a `Later` one is drained at once; `session/commands.rs:84` calls `Next` the more urgent. These notes
  are the ones in `stray`, which `IdleHoldsNothing` exempts.
* The sweep of the monitor buffer into the pending notifications can exceed their cap, and events of other sessions can push
  this session's out of the shared buffer.
* The pin is cleared at the end of a cancel even when a promoter has already pinned the next turn; a goal turn can set the
  goal gate again between its clearing and the abort; entries flushed at the end of a turn may start out of order.

In the credential refresh:

* A holder is judged by the inode that was opened and removed by its path (`manager/lock.rs:277`). A waiter can remove the
  lock file of a caller that has just taken it properly. `still_live` notices; exclusion is lost until then.
* The start-up flow holds the lock while `auth()` asks for it (`flow.rs:501`), so its own refresh waits out the timeouts and
  ends as a transient failure, unless the flow did not get the lock or has lost it meanwhile.
* After a failed write the cache has the new credential and the disk the spent one (`manager.rs:831`), and the next refresh
  sends what is on disk.
* `update()` and the final write of a refresh do not look at the lock again, although `storage.rs:26` asks every writer of
  `auth.json` to; a lock that had to be acquired a second time is not revalidated either (`manager.rs:1714`). A login calls
  `update()` without the lock, which `manager.rs:784` rules out.
* The enrichment goes on without the lock when it cannot get it (`manager/enrichment.rs:147`) and may write a spent token
  back. That token then counts as excused.

## 4. Proofs

The theorems hold for every choice of the constants that satisfies the modules' assumptions; sets may be infinite and the
bounds any numbers. TLC evaluates the assumptions in the runs.

### Session: the queue

From `ConstantsAssumption` and `KindsAssumption`: the kinds of prompt are disjoint, caps and bounds are naturals, `None` is
nothing else. All theorems about the session rest on these two.

| Theorem | States |
|---|---|
| `SafetyInvariant` | `Spec => [](TypeOK /\ QueueInv /\ RunningIsFront)` |
| `TypeCorrect`, `FrontIsRunning`, `QueueBookkeeping` | its parts |
| `SpawnsOnce` | no prompt is given a second turn task |
| `WindowBounded` | the wait counter never exceeds the guards that exist |

`RunningIsFront` is not inductive. A step that changes the queue preserves it because the running id is in one slot only
(`Distinct`), and a promotion because what waits was never spawned; a promoter that resumes after its await still finds
its prompt in front because the lock freezes the queue; a note that becomes a prompt is not in the queue already because
held notes have not arrived there (`NotesHeld`). These are the parts of `QueueInv`, and `TypeOK /\ QueueInv /\
RunningIsFront` is inductive. The run `Notifications` checks `QueueInv` on an instance, `QueueEdits` the other two.

The argument goes through lemmas about single operations on a queue (`FreshEdited`, `FreshShrunk`, `QueueInputFresh`,
`PromoteFresh`, `FreshPopped`): each says what an edit must satisfy to keep `QueueFresh`, and the case of an action shows
that the action's edit does. They rest on `PromptQueueProofs`: `Keep` returns exactly the kept ids in order, once each;
an insertion shifts the rest; a reorder is a permutation that leaves what is not a row in front. `Keep` is written by
rank, because what a recursive definition computes cannot be proved by induction here.

`WindowBounded` has an invariant of its own (`WaitInv`): the guards are finite in number, and a wait that is requested is
not one that was entered, so that entering adds exactly one guard. `SpawnsOnce` follows
from the invariant: only the promoter spawns, it spawns the front, and the front was never spawned.

### Session: turns and answers

| Theorem | States |
|---|---|
| `TurnInvariant` | `Spec => []TurnInv` |
| `NeverWedged`, `NoOrphans`, `PinsAgree` | `NoWedge`, `NoOrphanTurn`, `PinAgrees` |
| `UsersAccounted`, `TerminalsOnce`, `QueueServed`, `InterjectionsLand` | `UserAccounted`, `OneTerminal`, `QueueIsServed`, `NoStrandedInterjection` |
| `AnswersAreTrue` | `AnswerIsTrue`, where no client tears a session down (`~KillAllowed`) |
| `IdleIsEmpty` | `IdleHoldsNothing`, where no client rewinds (`~RewindAllowed`), whatever the other sessions do to the turn flag |

`TurnInv` is the invariant of the queue and eight parts, each preserved with the help of the ones before it.

* `TaskInv`: a task that will complete is the one in flight or the one a cancel has taken and not yet aborted; every
  completion, in the channel or in the actor's hands, is of a task that is done. So `running_task` cannot outlive its task.
* `PinInv`: where the pin may point. It is the subtle part: a promoter sets the pin before it sets `running_task`, a cancel
  takes its snapshot before it takes the lock, and the pin is cleared by four different steps. A snapshot that is not empty
  names the turn in flight, or the front while a promoter has the lock; so under the lock the two agree.
* `LedgerInv`: what is in the queue is unanswered and has no terminal; what a cancel took is in its hands until it has
  answered it; a user's prompt is in one of the two places. `OneTerminal` needs this together with `PinInv`, because a cancel
  emits the terminal of its task or else of its snapshot.
* `ServedInv`: from where the actor can return to its select without a promotion, an idle queue holds at most plan resumes
  whose own task is on its way.
* `InterjInv`, `FlagsInv`: a buffered interjection has a turn in flight, a promotion or a flush ahead of it; a cancel's flags
  come from its command.
* `AnswerInv`, `IdleInv`: conditional on the constant that their theorems assume. A teardown answers waiting prompts as
  cancelled and a rewind leaves the session idle without a drain, so without the condition both are false. This is what the
  code does, and the properties say what holds otherwise. `IdleInv` takes nothing from the turn flag, which is not this
  session's: a note that is held and not in `stray` came when a prompt ran or waited (`Owed`), and while that is so the
  queue is not empty or a flush is ahead; an idle session that holds such a note is about to drain (`HeldIdle`).

All outcomes change along one relation (`Flow`) except in the two steps of a cancel and the one of a completion that answer
prompts (`FlowNext`), so that most parts have four cases and not forty.

### Session: what clients see

| Theorem | States |
|---|---|
| `OrderInvariant`, `SendNowOrder`, `UsersFirst` | `SendNowFirst` and `UserBeforeWake`, where no client reorders (`MaxReorders = 0`) |
| `WireInvariant`, `WireKept` | `WireFresh`, where no client tears a session down |
| `ImplementsService` | `Spec => Service!ServiceSpec` |

A reorder may put anything anywhere, so the order is stated without it. `OrderInv` speaks of which id is ahead of which
(`Prec`) and not of slots: a sweep, a removal and a pop only thin that relation, an append adds pairs with the new id last,
and an insertion at the send-now slot has send-now prompts before it and others after it (`SendNowAhead`). It also needs that
the ids in `sendNow` are of users or of interjections and have arrived (`NowInv`): the mark stays when its prompt is gone.

`WireInv` says that the rows last broadcast are the rows there are, at every await. A step broadcasts, or is `Silent`: it keeps
the set of waiting rows and their order. That the broadcast is then the same *sequence* is `SameKept`: the k-th kept id is the
one with k - 1 kept ids ahead of it (`KeptRank`), so set and order determine the sequence. A teardown takes rows without a
broadcast of its own, which is why it is excluded.

For `ImplementsService`, a prompt that is being stopped is one that the cancel in progress holds (`LedgerInv`); a cancel takes
the front, and a user's prompt in front is the turn in flight (`ServedInv`); a completion that matches the front is of the
turn in flight, because what waits has no task (`QueueInv`, `TaskInv`). No constant is restricted: with teardowns the service
allows a stop to take waiting prompts, without them it does not. The mapping keeps the queue and the turn in flight, so a user
whose prompt was taken by a cancel is answered by that cancel even when the turn completed in between.

### Circuit breaker

From `BreakerAssumption` and `WindowAssumption`: times and bounds are naturals, an operation is suspended for less than the
cool-down (`MaxLag < OpenDuration`), the window holds at least one sample, the rate has a positive denominator, and the probe
counter is wide enough for the slots (`2^Width > Slots + 1`).

| Theorem | States |
|---|---|
| `BreakerInvariant` | `Spec => []BreakerInv` |
| `BreakerTypes`, `WindowCounts` | `TypeOK`, `WindowExact`: in every interleaving of any number of callers |
| `MirrorAgrees`, `CoolDownKept`, `ProbesWithinSlots` | `MirrorExact`, `CoolDownHonoured`, `ProbesLimited`: until two operations overlap |

`BreakerInv` is `TypeOK /\ WindowExact /\ LagBounded /\ SeqInv`. `LagBounded` says how long an operation may be suspended after
its reading of the clock, which bounds the age of what it stores. `SeqInv` is about the history up to the first overlap of
two operations, since after one the three sequential properties are false (section 3): at most one caller is inside an
operation (`Alone`), and each place of that operation says what has been stored and what is still to come (`PlaceFacts`);
half-open is reached only after the cool-down (`Cooled`); no probe on the wire is younger than the last claim, the trip of an
open breaker or the operation under way (`Aged`); and the probes within a lease hold slots, all counted while the breaker is
half-open (`Slotted`). That the window's count is right is
independent of all this, as the window is only touched under its lock; the lemmas are on the number of failures in a sequence
when a sample is added, ages or is dropped.

### File lock

From `LockAssumption`: every caller belongs to a process, and `None` is no caller, process or inode.

| Theorem | States |
|---|---|
| `Inductive` | `LockSpec => []IInv` |
| `LockTypes`, `FlockNotLeaked`, `Exclusion` | `LockTypeOK`, `NoLeakedFlock`, `ExclusiveUnlessBroken` |
| `ImplementsLease` | `LockSpec => Lease!LeaseSpec`, with the owner and the holders computed from the kernel's locks |

`IInv` says that open files, kernel locks and places in the routine agree (`FdInv`, `FlockInv`) and that there is one lock
file until some waiter unlinks it (`OneFile`). A step of the lock is a step of the lease because a caller owns the lock only
if it has the kernel lock of the inode that the path names: there is one such caller, it got there in `Verify`, and an
unlink takes the ownership and leaves the guard.

### Credential refresh

From `RefreshAssumption`: the three callers of each process are callers of the lock and all different, the budget is
positive, an exchange sends at least one request and the bounds are naturals.

| Theorem | States |
|---|---|
| `RefreshTypes` | `Spec => []TypeOK` |
| `RefreshLock` | `Spec => [](TypeOK /\ LockInv)` |
| `RefreshCleans`, `RefreshSleeps` | `IdleIsClean`, `NoStraddle` |
| `RefreshUsesLease` | `Spec => LeaseSpec` |
| `RefreshNoReuse` | `Spec => []ReuseExcused` |
| `RefreshVerdicts` | `Spec => []VerdictInv` |
| `RefreshBlocks`, `RefreshNoResend` | `BlockedOnlyIfDead`, `DeadNotResent` |

`LockInv` ties each stage to the guard, the slot and the gate. Its centre is `OwnAt`: past its last look at the lock a refresh
owns it, unless it was broken since (`cut`). Two refreshes that are not cut off therefore never are past that point together
(`Exclusive`). A repeated request changes none of this, as it keeps the lock and the slot. `TokenInv` rests on this. Call a
token live if presenting it again would be reuse without an excuse. A live token on the wire is the one the provider honours,
sent by a refresh that owns the lock (`SentAt`). A live token on disk is the newest, or is about to be replaced by the owner
(`DiskInv`). A live credential about to be written is the newest, and if its refresh has lost the lock nobody else has it
(`FreshAt`); so even a write without the lock does no harm. An enrichment that owns the lock writes the newest back
(`WriteAt`). An unlocked writer leaves `auth.json` as it is or excuses what it puts back, so it needs no clause: a token it
restores is not live. A repeated request is sent by the refresh that owns the lock, and either the first one never reached the
provider, which then still honours the token, or its answer was lost and the token is excused. Reuse within the family would
need a live token on the wire that is not the honoured one. Most actions move no token and share one lemma (`TokenQuiet`);
those that do have one each. That `TokenInv` holds was checked with TLC on the instance of `Refresh` before it was proved.

`VerdictInv` is about what a process believes to be dead. No cache, disk or reply names a credential that the provider has not
issued (`CacheAt`, `OnDisk`), nor does the copy of an unlocked writer (`SaveAt`). A refresh that says so for good was refused
for a credential that is retired and that was on disk (`RunAt`): the refresher reads the disk again and retries before it
gives a verdict, and this is where that retry is needed. A verdict that blocks is therefore about a retired credential
(`VerdictAt`), and credentials stay retired. A refresh goes on in spite of a verdict only if the disk has another credential,
and it goes on having one unless a late writer puts the old one back; as a request may be repeated, this is claimed while an
answer is awaited as well. `placed` records the late writer, and `DeadNotResent` exempts that case only, and a refresh that
could not read the disk.

### Only model-checked

The progress properties (`UserAnswered`, `InterjectionSettles`, `NeverShedsForever`, `LockReturns`) need fairness, which is out
of the provers' reach. Every other property of a passing run is stated by a theorem. The claims of the violated runs are false
and have counterexamples instead.

## 5. Not modelled

Of the credential refresh: the deferral in a dark wake, which is one more way back before the token is sent; the non-blocking
lock and the clean-up of scopes that uses it; logout (`remove_scope`); `recovery.rs`, which retries a rejected request; the
refreshers that run an external binary or take a devbox credential, which have no rotating token; terminal answers that blame
the client and not the token; the saves of the devbox mint and of its recovery (`manager.rs:1428`, `flow.rs:592` and `760`,
`agent/app.rs:727`, `acp_agent.rs:571`); the clean-up of a web login at start-up (`manager.rs:317`). The provider of the model
is strict: it has no grace window in which a token just rotated is honoured once more (60 s, `oidc/refresh.rs:29-32`), so it
revokes where the real one may forgive; and no request that the client gave up on reaches it after the one that repeats it. Of
the session, the parts marked `partly` in `PROJECT.json` say what is missing. The other
components are in the table of section 1; those without a state machine of their own stay out.

## 6. Plan

1. Breaker: an abstract three-state breaker that the detailed one refines as long as operations do not overlap.
2. The other files used as locks, on the pattern of `AuthLock`: the dream lock and the leader lock.
3. Upload queue: claims, retries and the recovery of interrupted uploads, with crashes.
4. Sampler: request task, retries and cancellation, composed with the turn task's view of it. Properties: one outcome per
   request, nothing after a cancel, retries bounded.
5. Scheduler actor and subagent coordinator, composed with the session's wakes.
6. Chat state: the order of mutations and of their persistence, with a crash and a reload.
