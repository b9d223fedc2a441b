-------------------------- MODULE CredentialRefresh --------------------------
(***************************************************************************)
(* Several processes share one rotating OIDC credential: `auth.json` on    *)
(* disk, a copy in each process, the `auth.json.lock` between them and an  *)
(* identity provider that honours each refresh token once and revokes the  *)
(* whole family when one is presented again.  The module is                *)
(* AuthManager::refresh_chain (auth/manager.rs) with the refresher it      *)
(* calls, the verdicts it caches, the system-sleep gate, the `/user`       *)
(* enrichment it spawns, the start-up flow that takes the same lock around *)
(* it, and the writers of auth.json that take no lock.                     *)
(*                                                                         *)
(* The lock is used only for what it promises, the lease of LeaseLock:     *)
(* AuthLock is shown to implement that lease, so what holds here holds     *)
(* with the file lock in its place.                                        *)
(*                                                                         *)
(* A credential is its generation: access and refresh token number n + 1   *)
(* come from one successful exchange of refresh token n.                   *)
(***************************************************************************)
EXTENDS LeaseLock, Integers

CONSTANTS
    Procs,          \* operating-system processes
    Task, Flow, Enrich, \* the callers of a process that take the lock
    TransientMax,   \* MAX_CONSECUTIVE_TRANSIENT_FAILURES
    MaxAttempts,    \* requests of one exchange: 1 + refresh_retry_policy's max_times
    MaxCalls,       \* bound: refreshes that are asked for
    MaxEvents,      \* bound: start-up flows, enrichments, sleeps, broken locks,
                    \* crashes, lost replies, failed reads and writes
    MaxSaves,       \* bound: copies of the credential kept to be written unlocked
    MaxTotal,       \* bound: calls, events and saves together
    MaxGen          \* bound: credentials the identity provider issues

Gens == 0..MaxGen

Reasons == {"PreRequest", "ServerRejected"}

ASSUME RefreshAssumption ==
    /\ Task \in [Procs -> Callers]
    /\ Flow \in [Procs -> Callers]
    /\ Enrich \in [Procs -> Callers]
    /\ \A p, q \in Procs :
        /\ Task[p] # Flow[q] /\ Task[p] # Enrich[q] /\ Flow[p] # Enrich[q]
        /\ Task[p] = Task[q] \/ Flow[p] = Flow[q] \/ Enrich[p] = Enrich[q] => p = q
    /\ None \notin Callers
    /\ TransientMax \in Nat \ {0} /\ MaxAttempts \in Nat \ {0}
    /\ MaxCalls \in Nat /\ MaxEvents \in Nat /\ MaxTotal \in Nat
    /\ MaxSaves \in Nat /\ MaxGen \in Nat

VARIABLES
    alive,      \* the processes that run
    disk,       \* the credential in auth.json
    mem,        \* the credential each process has cached
    expiredTo,  \* access tokens up to this generation have expired
    idp,        \* the refresh token the identity provider honours next
    family,     \* the first credential of the family it honours (a login's)
    revoked,    \* it has revoked that family
    waiting,    \* refreshes queued on the process's refresh_lock
    stage,      \* where the refresh that holds refresh_lock is
    run,        \* that refresh: its reason, what it sent and what came back
                \* (history: blind, sent what was cached; cut, its lock was
                \* broken after it had been found live)
    verdict,    \* the cached permanent failure, scoped to a credential
    budget,     \* consecutive transient failures and the credential they count for
    gate,       \* the sleep gate
    sleeper,    \* the power listener: awake, raised, asleep, forced
    inflight,   \* a refresh has claimed the in-flight slot
    flow,       \* the start-up flow of each process
    flowDisk,   \* the credential the flow read before it refreshed
    enrich,     \* the enrichment task of each process
    enrichGen,  \* the credential it was spawned for
    saving,     \* the copy each process is about to write without the lock
    saves,      \* how many such copies were made
    excused,    \* history: refresh tokens hit by a fault that can duplicate them
    reused,     \* history: refresh tokens presented after they were spent
    placed,     \* history: whether each credential has come onto the disk, and again
    calls, events   \* the bounded events so far

credVars == <<alive, disk, mem, expiredTo, idp, family, revoked>>
chainVars == <<waiting, stage, run, verdict, budget>>
sleepVars == <<gate, sleeper, inflight>>
flowVars == <<flow, flowDisk>>
enrichVars == <<enrich, enrichGen>>
saveVars == <<saving, saves>>
sideVars == <<enrichVars, saveVars>>
historyVars == <<excused, reused, placed>>
boundVars == <<calls, events>>
vars == <<leaseVars, credVars, chainVars, sleepVars, flowVars, sideVars, historyVars, boundVars>>

NoRun == [reason |-> "PreRequest", flow |-> FALSE, tried |-> 0, retried |-> FALSE,
          blind |-> FALSE, attempt |-> 1, reply |-> "none", got |-> 0, cut |-> FALSE]

NoBudget == [tried |-> 0, count |-> 0]

NoVerdict == [key |-> 0, kind |-> "none"]

NoSave == [by |-> "none", gen |-> 0]

Stages == {"idle", "lock", "locked", "relock", "ready", "claimed", "wire", "reply", "apply"}

\* `reply` is the identity provider's answer, then the refresher's outcome.
Replies == {"none", "ok", "terminal", "failed", "success", "sticky", "other", "transient"}

Runs == [reason : Reasons, flow : BOOLEAN, tried : Gens, retried : BOOLEAN,
         blind : BOOLEAN, attempt : 1..MaxAttempts, reply : Replies, got : Gens, cut : BOOLEAN]

Calls == [reason : Reasons, pre : -1..MaxGen, flow : BOOLEAN]

Verdicts == [key : Gens, kind : {"none", "sticky", "other"}]

Placings == {"never", "once", "again"}

Saves == [by : {"none", "update", "retention", "apikey"}, gen : Gens]

Budgets == [tried : Gens, count : 0..(TransientMax - 1)]

TypeOK ==
    /\ LeaseTypeOK
    /\ alive \subseteq Procs
    /\ disk \in Gens /\ mem \in [Procs -> Gens]
    /\ expiredTo \in -1..MaxGen
    /\ idp \in Gens /\ family \in Gens /\ revoked \in BOOLEAN
    /\ waiting \in [Procs -> SUBSET Calls]
    /\ stage \in [Procs -> Stages]
    /\ run \in [Procs -> Runs]
    /\ verdict \in [Procs -> Verdicts]
    /\ budget \in [Procs -> Budgets]
    /\ gate \in [Procs -> BOOLEAN] /\ inflight \in [Procs -> BOOLEAN]
    /\ sleeper \in [Procs -> {"awake", "raised", "asleep", "forced"}]
    /\ flow \in [Procs -> {"off", "lock", "run", "ok", "transient", "permanent"}]
    /\ flowDisk \in [Procs -> Gens]
    /\ enrich \in [Procs -> {"off", "lock", "read", "write"}]
    /\ enrichGen \in [Procs -> Gens]
    /\ saving \in [Procs -> Saves] /\ saves \in 0..MaxSaves
    /\ excused \subseteq Gens /\ reused \subseteq Gens
    /\ placed \in [Gens -> Placings]
    /\ calls \in 0..MaxCalls /\ events \in 0..MaxEvents

Init ==
    /\ LeaseInit
    /\ alive = Procs
    /\ disk = 0 /\ mem = [p \in Procs |-> 0]
    /\ expiredTo = -1
    /\ idp = 0 /\ family = 0 /\ revoked = FALSE
    /\ waiting = [p \in Procs |-> {}]
    /\ stage = [p \in Procs |-> "idle"]
    /\ run = [p \in Procs |-> NoRun]
    /\ verdict = [p \in Procs |-> NoVerdict]
    /\ budget = [p \in Procs |-> NoBudget]
    /\ gate = [p \in Procs |-> FALSE]
    /\ sleeper = [p \in Procs |-> "awake"]
    /\ inflight = [p \in Procs |-> FALSE]
    /\ flow = [p \in Procs |-> "off"]
    /\ flowDisk = [p \in Procs |-> 0]
    /\ enrich = [p \in Procs |-> "off"]
    /\ enrichGen = [p \in Procs |-> 0]
    /\ saving = [p \in Procs |-> NoSave] /\ saves = 0
    /\ excused = {} /\ reused = {}
    /\ placed = [g \in Gens |-> IF g = 0 THEN "once" ELSE "never"]
    /\ calls = 0 /\ events = 0

-----------------------------------------------------------------------------
(* Reading the state the way the code does.                                *)

is_expired(g) == g <= expiredTo

\* current(): the cached credential unless its access token has expired (-1).
current(p) == IF is_expired(mem[p]) THEN -1 ELSE mem[p]

\* resolve_refresh_credential: the refresh token on disk comes first, and
\* auth.json holds one.
resolved == disk

\* Mutant: a verdict counts whatever the credential.
permanent_failure_Unscoped(p) == verdict[p].kind # "none"

\* permanent_failure(): the verdict counts for the credential a refresh would send.
permanent_failure(p) == verdict[p].kind # "none" /\ verdict[p].key = resolved

\* try_adopt_disk_token would succeed.
CanAdopt(p, reason) ==
    /\ ~is_expired(disk)
    /\ reason = "ServerRejected" => disk # mem[p]

Adopt(p, reason) == mem' = IF CanAdopt(p, reason) THEN [mem EXCEPT ![p] = disk] ELSE mem

\* Write credential g to auth.json.
WriteDisk(g) ==
    /\ disk' = g
    /\ placed' = IF g = disk THEN placed
                 ELSE [placed EXCEPT ![g] = IF @ = "never" THEN "once" ELSE "again"]

\* still_live: the guard is the live lock.
still_live(c) == owner = c

\* The guard of caller c is dropped.  A caller that goes on without the lock may
\* have none.
DropGuard(c) == Release({c})

DropIfHeld(c) == IF c \in holders THEN DropGuard(c) ELSE UNCHANGED leaseVars

\* The refresh of p is over; the start-up flow learns how its own ended.
Finish(p, result) ==
    /\ stage' = [stage EXCEPT ![p] = "idle"]
    /\ run' = [run EXCEPT ![p] = NoRun]
    /\ flow' = IF run[p].flow THEN [flow EXCEPT ![p] = result] ELSE flow

To(p, s) == stage' = [stage EXCEPT ![p] = s]

Events(n) ==
    /\ events + n <= MaxEvents
    /\ calls + events + saves + n <= MaxTotal
    /\ events' = events + n

Event == Events(1)

-----------------------------------------------------------------------------
(* Entering refresh_chain.                                                 *)

\* Step 0, before refresh_lock: a cached verdict ends the call, after a look at
\* the disk.  Otherwise remember the current key and queue on refresh_lock.
\* PreRequest calls come only when the cached token has expired (auth_dispatch).
Call(p, reason) ==
    /\ p \in alive
    /\ calls < MaxCalls /\ calls + events + saves < MaxTotal /\ calls' = calls + 1
    /\ reason = "PreRequest" => is_expired(mem[p])
    /\ \/ /\ permanent_failure(p)
          /\ Adopt(p, reason)
          /\ UNCHANGED waiting
       \/ /\ ~permanent_failure(p)
          /\ waiting' = [waiting EXCEPT ![p] =
                            @ \cup {[reason |-> reason, pre |-> current(p), flow |-> FALSE]}]
          /\ UNCHANGED mem
    /\ UNCHANGED <<leaseVars, alive, disk, expiredTo, idp, family, revoked, stage, run, verdict, budget,
                   sleepVars, flowVars, sideVars, historyVars, events>>

\* Step 1: another task may have refreshed while this one waited.
AlreadyRefreshed(p, w) ==
    /\ ~is_expired(mem[p])
    /\ w.reason # "ServerRejected" \/ w.pre # mem[p]

\* Mutant: the verdict is not looked at again under refresh_lock.
Enter_Unverified(p) ==
    /\ stage[p] = "idle"
    /\ \E w \in waiting[p] :
        /\ waiting' = [waiting EXCEPT ![p] = @ \ {w}]
        /\ \/ /\ AlreadyRefreshed(p, w)
              /\ flow' = IF w.flow THEN [flow EXCEPT ![p] = "ok"] ELSE flow
              /\ UNCHANGED <<stage, run>>
           \/ /\ ~AlreadyRefreshed(p, w)
              /\ To(p, "lock")
              /\ run' = [run EXCEPT ![p] = [NoRun EXCEPT !.reason = w.reason, !.flow = w.flow]]
              /\ UNCHANGED flow
    /\ UNCHANGED <<leaseVars, credVars, verdict, budget, sleepVars, flowDisk, sideVars,
                   historyVars, boundVars>>

\* Steps 1 and 1b under refresh_lock: return the token that is there, or the
\* verdict that was recorded meanwhile, or go for the file lock.
Enter(p) ==
    /\ stage[p] = "idle"
    /\ \E w \in waiting[p] :
        /\ waiting' = [waiting EXCEPT ![p] = @ \ {w}]
        /\ \/ /\ AlreadyRefreshed(p, w)
              /\ flow' = IF w.flow THEN [flow EXCEPT ![p] = "ok"] ELSE flow
              /\ UNCHANGED <<stage, run>>
           \/ /\ ~AlreadyRefreshed(p, w)
              /\ permanent_failure(p)
              /\ flow' = IF w.flow THEN [flow EXCEPT ![p] = "permanent"] ELSE flow
              /\ UNCHANGED <<stage, run>>
           \/ /\ ~AlreadyRefreshed(p, w)
              /\ ~permanent_failure(p)
              /\ To(p, "lock")
              /\ run' = [run EXCEPT ![p] = [NoRun EXCEPT !.reason = w.reason, !.flow = w.flow]]
              /\ UNCHANGED flow
    /\ UNCHANGED <<leaseVars, credVars, verdict, budget, sleepVars, flowDisk, sideVars,
                   historyVars, boundVars>>

\* acquire_refresh_lock_or_adopt with the lock: use a token a sibling wrote, else
\* keep the guard.  The disk is read after the lock is had.
LockHeld(p) ==
    /\ stage[p] = "lock"
    /\ Task[p] \in holders
    /\ Adopt(p, run[p].reason)
    /\ \/ /\ CanAdopt(p, run[p].reason)
          /\ DropGuard(Task[p])
          /\ Finish(p, "ok")
       \/ /\ ~CanAdopt(p, run[p].reason)
          /\ To(p, "locked")
          /\ UNCHANGED <<leaseVars, run, flow>>
    /\ UNCHANGED <<alive, disk, expiredTo, idp, family, revoked, waiting, verdict, budget, sleepVars,
                   flowDisk, sideVars, historyVars, boundVars>>

\* ... without it: wait a little, adopt if a sibling finished, never go on unguarded.
LockRefused(p) ==
    /\ stage[p] = "lock"
    /\ Task[p] \notin holders
    /\ Adopt(p, run[p].reason)
    /\ Finish(p, IF CanAdopt(p, run[p].reason) THEN "ok" ELSE "transient")
    /\ UNCHANGED <<leaseVars, alive, disk, expiredTo, idp, family, revoked, waiting, verdict, budget,
                   sleepVars, flowDisk, sideVars, historyVars, boundVars>>

\* check_refresh_deferral (3a): the machine is about to sleep.
Defer(p) ==
    /\ stage[p] = "locked"
    /\ gate[p]
    /\ DropGuard(Task[p])
    /\ Finish(p, "transient")
    /\ UNCHANGED <<credVars, waiting, verdict, budget, sleepVars, flowDisk, sideVars,
                   historyVars, boundVars>>

\* Mutant: a guard, once had, is taken for the lock.
Revalidate_Trusting(p) ==
    /\ stage[p] = "locked"
    /\ ~gate[p]
    /\ To(p, "ready")
    /\ UNCHANGED <<leaseVars, credVars, waiting, run, verdict, budget, sleepVars, flowVars,
                   sideVars, historyVars, boundVars>>

\* revalidate_lock_or_reacquire (3b): the guard must still be the live lock.
Revalidate(p) ==
    /\ stage[p] = "locked"
    /\ ~gate[p]
    /\ \/ /\ still_live(Task[p])
          /\ To(p, "ready")
          /\ UNCHANGED leaseVars
       \/ /\ ~still_live(Task[p])
          /\ DropGuard(Task[p])
          /\ To(p, "relock")
    /\ UNCHANGED <<credVars, waiting, run, verdict, budget, sleepVars, flowVars, sideVars,
                   historyVars, boundVars>>

\* The lock is had again: adopt what landed meanwhile, or go on.
RelockHeld(p) ==
    /\ stage[p] = "relock"
    /\ Task[p] \in holders
    /\ Adopt(p, run[p].reason)
    /\ \/ /\ CanAdopt(p, run[p].reason)
          /\ DropGuard(Task[p])
          /\ Finish(p, "ok")
       \/ /\ ~CanAdopt(p, run[p].reason)
          /\ To(p, "ready")
          /\ UNCHANGED <<leaseVars, run, flow>>
    /\ UNCHANGED <<alive, disk, expiredTo, idp, family, revoked, waiting, verdict, budget, sleepVars,
                   flowDisk, sideVars, historyVars, boundVars>>

RelockRefused(p) ==
    /\ stage[p] = "relock"
    /\ Task[p] \notin holders
    /\ Finish(p, "transient")
    /\ UNCHANGED <<leaseVars, credVars, waiting, verdict, budget, sleepVars, flowDisk,
                   sideVars, historyVars, boundVars>>

\* 3c: claim the in-flight slot first ...
ClaimSlot(p) ==
    /\ stage[p] = "ready"
    /\ inflight' = [inflight EXCEPT ![p] = TRUE]
    /\ To(p, "claimed")
    /\ UNCHANGED <<leaseVars, credVars, waiting, run, verdict, budget, gate, sleeper,
                   flowVars, sideVars, historyVars, boundVars>>

\* Mutant: the slot is not given back.
BackOut_KeepsSlot(p) ==
    /\ stage[p] = "claimed"
    /\ gate[p]
    /\ DropGuard(Task[p])
    /\ Finish(p, "transient")
    /\ UNCHANGED <<credVars, waiting, verdict, budget, sleepVars, flowDisk, sideVars,
                   historyVars, boundVars>>

\* ... then look at the gate again, and back out if a sleep was announced.
BackOut(p) ==
    /\ stage[p] = "claimed"
    /\ gate[p]
    /\ inflight' = [inflight EXCEPT ![p] = FALSE]
    /\ DropGuard(Task[p])
    /\ Finish(p, "transient")
    /\ UNCHANGED <<credVars, waiting, verdict, budget, gate, sleeper, flowDisk, sideVars,
                   historyVars, boundVars>>

-----------------------------------------------------------------------------
(* The refresher: what it sends, and what comes back.                      *)

\* The refresher has its outcome; the in-flight slot is given back.
Outcome(p, r) ==
    /\ run' = [run EXCEPT ![p] = r]
    /\ inflight' = [inflight EXCEPT ![p] = FALSE]
    /\ To(p, "apply")

note_refresh_progress(p) == budget' = [budget EXCEPT ![p] = NoBudget]

\* History: a refresh whose lock was broken after its last look at it handles
\* token g while a sibling may be handling it too.
Excuse(p, g) == excused' = IF run[p].cut THEN excused \cup {g} ELSE excused

\* Refresh token g goes on the wire.
Exchange(p, g, retried) ==
    /\ run' = [run EXCEPT ![p] = [@ EXCEPT !.tried = g, !.got = g, !.retried = retried,
                                           !.attempt = 1, !.reply = "none"]]
    /\ To(p, "wire")
    /\ Excuse(p, g)
    /\ UNCHANGED <<budget, inflight>>

\* Mutant: the gate is not looked at again once the slot is claimed.
Send_Ungated(p) ==
    /\ stage[p] = "claimed"
    /\ is_expired(disk) \/ current(p) = disk
    /\ Exchange(p, resolved, FALSE)
    /\ UNCHANGED <<leaseVars, credVars, waiting, verdict, gate, sleeper, flowVars, sideVars,
                   reused, placed, boundVars>>

\* OidcRefresher::refresh: a valid token on disk that is not the one in memory is
\* taken as it is; otherwise the refresh token on disk goes to the provider.
Send(p) ==
    /\ stage[p] = "claimed"
    /\ ~gate[p]
    /\ \/ /\ ~is_expired(disk) /\ current(p) # disk
          /\ note_refresh_progress(p)
          /\ Outcome(p, [run[p] EXCEPT !.reply = "success", !.tried = disk, !.got = disk])
          /\ Excuse(p, disk)
       \/ /\ is_expired(disk) \/ current(p) = disk
          /\ Exchange(p, resolved, FALSE)
    /\ UNCHANGED <<leaseVars, credVars, waiting, verdict, gate, sleeper, flowVars, sideVars,
                   reused, placed, boundVars>>

\* auth.json cannot be read just now: the cached credential is sent in its place
\* (a live one only when the server has rejected it), or nothing can be.
SendUnreadable(p) ==
    /\ stage[p] = "claimed"
    /\ ~gate[p]
    /\ Event
    /\ IF is_expired(mem[p]) \/ run[p].reason = "ServerRejected"
       THEN /\ run' = [run EXCEPT ![p] = [@ EXCEPT !.tried = mem[p], !.got = mem[p], !.blind = TRUE]]
            /\ To(p, "wire")
            /\ excused' = excused \cup {mem[p]}
            /\ UNCHANGED inflight
       ELSE /\ Outcome(p, [run[p] EXCEPT !.reply = "transient"])
            /\ UNCHANGED excused
    /\ UNCHANGED <<leaseVars, credVars, waiting, verdict, budget, gate, sleeper, flowVars,
                   sideVars, reused, placed, calls>>

\* The identity provider (external): the token it honours is rotated; one that
\* was spent before is reuse and revokes the family (one of an earlier login is
\* just refused); or it is not reached.
IdpAnswers(p) ==
    /\ stage[p] = "wire"
    /\ LET g == run[p].tried IN
       \/ /\ g = idp /\ ~revoked /\ idp < MaxGen
          /\ idp' = idp + 1
          /\ run' = [run EXCEPT ![p] = [@ EXCEPT !.reply = "ok", !.got = g + 1]]
          /\ UNCHANGED <<revoked, reused>>
       \/ /\ g < idp \/ revoked
          /\ revoked' = (revoked \/ g >= family)
          /\ reused' = IF g \in family..(idp - 1) THEN reused \cup {g} ELSE reused
          /\ run' = [run EXCEPT ![p] = [@ EXCEPT !.reply = "terminal"]]
          /\ UNCHANGED idp
       \/ /\ run' = [run EXCEPT ![p] = [@ EXCEPT !.reply = "failed"]]
          /\ UNCHANGED <<idp, revoked, reused>>
    /\ To(p, "reply")
    /\ UNCHANGED <<leaseVars, alive, disk, mem, expiredTo, family, waiting, verdict, budget,
                   sleepVars, flowVars, sideVars, excused, placed, boundVars>>

\* A fresh token arrives.
ReplySuccess(p) ==
    /\ stage[p] = "reply"
    /\ run[p].reply = "ok"
    /\ note_refresh_progress(p)
    /\ Outcome(p, [run[p] EXCEPT !.reply = "success"])
    /\ UNCHANGED <<leaseVars, credVars, waiting, verdict, gate, sleeper, flowVars, sideVars,
                   historyVars, boundVars>>

\* invalid_grant.  Once, the refresher looks whether the disk has moved on: a valid
\* token there is adopted, another refresh token there is tried.
ReplyTerminal(p) ==
    /\ stage[p] = "reply"
    /\ run[p].reply = "terminal"
    /\ \/ /\ ~run[p].retried /\ disk # run[p].tried
          /\ ~is_expired(disk)
          /\ note_refresh_progress(p)
          /\ Outcome(p, [run[p] EXCEPT !.reply = "success", !.got = disk])
          /\ Excuse(p, disk)
       \/ /\ ~run[p].retried /\ disk # run[p].tried
          /\ is_expired(disk)
          /\ Exchange(p, disk, TRUE)
       \/ /\ run[p].retried \/ disk = run[p].tried
          /\ Outcome(p, [run[p] EXCEPT !.reply = "sticky"])
          /\ UNCHANGED <<budget, excused>>
    /\ UNCHANGED <<leaseVars, credVars, waiting, verdict, gate, sleeper, flowVars, sideVars,
                   reused, placed, boundVars>>

\* Mutant: one blip too many, and the count is kept when it escalates.
record_transient_failure_Kept(p) ==
    LET n == IF budget[p].tried = run[p].tried THEN budget[p].count + 1 ELSE 1
    IN /\ budget' = [budget EXCEPT ![p] = [tried |-> run[p].tried, count |-> n]]
       /\ Outcome(p, [run[p] EXCEPT !.reply = IF n > TransientMax THEN "other" ELSE "transient"])

\* record_transient_failure: blips are counted per credential, and the last of
\* the budget is escalated to a verdict that expires.  The disk retry has none.
record_transient_failure(p) ==
    LET n == IF budget[p].tried = run[p].tried THEN budget[p].count + 1 ELSE 1
        escalate == n >= TransientMax
    IN IF run[p].retried
       THEN UNCHANGED budget /\ Outcome(p, [run[p] EXCEPT !.reply = "transient"])
       ELSE /\ budget' = [budget EXCEPT ![p] = [tried |-> run[p].tried,
                                                count |-> IF escalate THEN 0 ELSE n]]
            /\ Outcome(p, [run[p] EXCEPT !.reply = IF escalate THEN "other" ELSE "transient"])

\* refresh_tokens: a request that failed, or whose answer never came, is sent once
\* more with the same token, neither the lock nor the sleep gate looked at again.
Again(p) ==
    /\ run[p].attempt < MaxAttempts
    /\ run' = [run EXCEPT ![p] = [@ EXCEPT !.got = run[p].tried, !.attempt = run[p].attempt + 1,
                                           !.reply = "none"]]
    /\ To(p, "wire")
    /\ UNCHANGED <<budget, inflight>>

\* The provider was not reached, or answered with an error that is not final.  The
\* outcome comes with the last attempt, or at once when the discovery that goes
\* before the first request is what failed.
ReplyFailed(p) ==
    /\ stage[p] = "reply"
    /\ run[p].reply = "failed"
    /\ \/ Again(p)
       \/ run[p].attempt \in {1, MaxAttempts} /\ record_transient_failure(p)
    /\ UNCHANGED <<leaseVars, credVars, waiting, verdict, gate, sleeper, flowVars, sideVars,
                   historyVars, boundVars>>

\* The provider rotated the token but its answer is lost on the way: to the client
\* a failed request like any other.
ReplyLost(p) ==
    /\ stage[p] = "reply"
    /\ run[p].reply = "ok"
    /\ Event
    /\ excused' = excused \cup {run[p].tried}
    /\ \/ Again(p)
       \/ run[p].attempt = MaxAttempts /\ record_transient_failure(p)
    /\ UNCHANGED <<leaseVars, credVars, waiting, verdict, gate, sleeper, flowVars, sideVars,
                   reused, placed, calls>>

-----------------------------------------------------------------------------
(* apply_refresh_outcome, still under the lock.                            *)

\* update() spawns the `/user` enrichment: its fetch fails and nothing more comes
\* of it, or it will go for the lock.  (n: the bounded events of the step besides.)
SpawnEnrichment(p, g, n) ==
    \/ UNCHANGED enrichVars /\ Events(n)
    \/ /\ Events(n + 1)
       /\ enrich[p] = "off"
       /\ enrich' = [enrich EXCEPT ![p] = "lock"]
       /\ enrichGen' = [enrichGen EXCEPT ![p] = g]

\* Success: update() writes the disk, then the cache.
ApplySuccess(p) ==
    /\ stage[p] = "apply"
    /\ run[p].reply = "success"
    /\ WriteDisk(run[p].got)
    /\ mem' = [mem EXCEPT ![p] = run[p].got]
    /\ SpawnEnrichment(p, run[p].got, 0)
    /\ DropGuard(Task[p])
    /\ Finish(p, "ok")
    /\ UNCHANGED <<alive, expiredTo, idp, family, revoked, waiting, verdict, budget, sleepVars,
                   flowDisk, saveVars, excused, reused, calls>>

\* auth.json is not written: the cache is updated and the enrichment spawned all the
\* same.  The call succeeds if the file could not be read, and fails if the write did.
ApplyPersistFails(p) ==
    /\ stage[p] = "apply"
    /\ run[p].reply = "success"
    /\ mem' = [mem EXCEPT ![p] = run[p].got]
    /\ excused' = excused \cup {disk}
    /\ SpawnEnrichment(p, run[p].got, 1)
    /\ DropGuard(Task[p])
    /\ \E result \in {"ok", "transient"} : Finish(p, result)
    /\ UNCHANGED <<alive, disk, expiredTo, idp, family, revoked, waiting, verdict, budget,
                   sleepVars, flowDisk, saveVars, reused, placed, calls>>

\* The user logs in again: a new family, written by update() without the lock.  The
\* provider is taken to retire the family before.
Login(p) ==
    /\ p \in alive
    /\ idp < MaxGen
    /\ idp' = idp + 1
    /\ family' = idp + 1
    /\ revoked' = FALSE
    /\ WriteDisk(idp + 1)
    /\ mem' = [mem EXCEPT ![p] = idp + 1]
    /\ SpawnEnrichment(p, idp + 1, 1)
    /\ UNCHANGED <<leaseVars, alive, expiredTo, chainVars, sleepVars, flowVars, saveVars, excused,
                   reused, calls>>

\* Permanent failure: adopt a sibling's token; do not blame the credential if the
\* disk holds a live sibling's refresh token; otherwise cache the verdict for the
\* credential that was sent.
ApplyPermanent(p) ==
    /\ stage[p] = "apply"
    /\ run[p].reply \in {"sticky", "other"}
    /\ Adopt(p, run[p].reason)
    /\ LET adopted == CanAdopt(p, run[p].reason)
           rotated == ~is_expired(disk) /\ (is_expired(mem[p]) => mem[p] # disk)
       IN /\ verdict' = IF adopted \/ rotated THEN verdict
                        ELSE [verdict EXCEPT ![p] = [key |-> run[p].tried, kind |-> run[p].reply]]
          /\ Finish(p, CASE adopted -> "ok"
                         [] ~adopted /\ rotated -> "transient"
                         [] OTHER -> "permanent")
    /\ DropGuard(Task[p])
    /\ UNCHANGED <<alive, disk, expiredTo, idp, family, revoked, waiting, budget, sleepVars, flowDisk,
                   sideVars, historyVars, boundVars>>

ApplyTransient(p) ==
    /\ stage[p] = "apply"
    /\ run[p].reply = "transient"
    /\ DropGuard(Task[p])
    /\ Finish(p, "transient")
    /\ UNCHANGED <<credVars, waiting, verdict, budget, sleepVars, flowDisk, sideVars,
                   historyVars, boundVars>>

-----------------------------------------------------------------------------
(* run_user_info_enrichment: read, change and write auth.json.             *)

\* The lock is had, or its timeout passes: the enrichment goes on either way.
EnrichLocked(p) ==
    /\ enrich[p] = "lock"
    /\ enrich' = [enrich EXCEPT ![p] = "read"]
    /\ UNCHANGED <<leaseVars, credVars, chainVars, sleepVars, flowVars, enrichGen, saveVars,
                   historyVars, boundVars>>

\* Read the disk; skip when a sibling has rotated the credential meanwhile.
EnrichRead(p) ==
    /\ enrich[p] = "read"
    /\ \/ /\ disk = enrichGen[p]
          /\ enrich' = [enrich EXCEPT ![p] = "write"]
          /\ UNCHANGED leaseVars
       \/ /\ disk # enrichGen[p]
          /\ enrich' = [enrich EXCEPT ![p] = "off"]
          /\ DropIfHeld(Enrich[p])
    /\ UNCHANGED <<credVars, chainVars, sleepVars, flowVars, enrichGen, saveVars, historyVars,
                   boundVars>>

\* Write back what was read, tokens included.  Without the live lock this may put
\* a spent refresh token back on disk.
EnrichWrite(p) ==
    /\ enrich[p] = "write"
    /\ WriteDisk(enrichGen[p])
    /\ mem' = [mem EXCEPT ![p] = enrichGen[p]]
    /\ excused' = IF still_live(Enrich[p]) THEN excused ELSE excused \cup {enrichGen[p]}
    /\ enrich' = [enrich EXCEPT ![p] = "off"]
    /\ DropIfHeld(Enrich[p])
    /\ UNCHANGED <<alive, expiredTo, idp, family, revoked, chainVars, sleepVars, flowVars, enrichGen,
                   saveVars, reused, boundVars>>

\* auth.json cannot be read or written: nothing comes of the enrichment.
EnrichFails(p) ==
    /\ enrich[p] \in {"read", "write"}
    /\ Event
    /\ enrich' = [enrich EXCEPT ![p] = "off"]
    /\ DropIfHeld(Enrich[p])
    /\ UNCHANGED <<credVars, chainVars, sleepVars, flowVars, enrichGen, saveVars, historyVars,
                   calls>>

-----------------------------------------------------------------------------
(* The writers that take no lock: a copy of the credential is taken first   *)
(* and written to auth.json later, whatever was written in between.         *)

Take(p, by, g) ==
    /\ saving[p].by = "none"
    /\ saves < MaxSaves /\ calls + events + saves < MaxTotal
    /\ saves' = saves + 1
    /\ saving' = [saving EXCEPT ![p] = [by |-> by, gen |-> g]]

\* initialize() hands the current credential to update() if it names no user, to have
\* the user looked up, as does a headless start that may not open a browser.
Initialize(p) ==
    /\ p \in alive
    /\ ~is_expired(mem[p])
    /\ Take(p, "update", mem[p])
    /\ UNCHANGED <<leaseVars, credVars, chainVars, sleepVars, flowVars, enrichVars, historyVars,
                   boundVars>>

\* setCodingDataRetention keeps the credential auth() gave it over an awaited PUT.
SetRetention(p) ==
    /\ p \in alive
    /\ ~is_expired(mem[p])
    /\ Take(p, "retention", mem[p])
    /\ UNCHANGED <<leaseVars, credVars, chainVars, sleepVars, flowVars, enrichVars, historyVars,
                   boundVars>>

\* store_api_key and clear_api_key read auth.json, and write all of it back.
StoreApiKey(p) ==
    /\ p \in alive
    /\ Take(p, "apikey", disk)
    /\ UNCHANGED <<leaseVars, credVars, chainVars, sleepVars, flowVars, enrichVars, historyVars,
                   boundVars>>

\* A copy that is no longer what auth.json holds puts an old credential back.
PutBack(g) ==
    /\ WriteDisk(g)
    /\ excused' = IF g = disk THEN excused ELSE excused \cup {g}

\* update(), save_without_enrichment() or write_auth_json(): the copy is written, or
\* auth.json can be neither read nor written; the first two set the cache either way.
SaveUnlocked(p) ==
    LET s == saving[p] IN
    /\ s.by # "none"
    /\ \/ PutBack(s.gen)
       \/ UNCHANGED <<disk, placed, excused>>
    /\ mem' = IF s.by = "apikey" THEN mem ELSE [mem EXCEPT ![p] = s.gen]
    /\ IF s.by = "update" THEN SpawnEnrichment(p, s.gen, 0) ELSE UNCHANGED <<enrichVars, events>>
    /\ saving' = [saving EXCEPT ![p] = NoSave]
    /\ UNCHANGED <<leaseVars, alive, expiredTo, idp, family, revoked, chainVars, sleepVars, flowVars,
                   saves, reused, calls>>

\* The PUT fails, and nothing is saved.
RetentionRefused(p) ==
    /\ saving[p].by = "retention"
    /\ saving' = [saving EXCEPT ![p] = NoSave]
    /\ UNCHANGED <<leaseVars, credVars, chainVars, sleepVars, flowVars, enrichVars, saves,
                   historyVars, boundVars>>

-----------------------------------------------------------------------------
(* run_auth_flow, when the cached credential has expired: it takes the      *)
(* file lock itself and keeps it while it calls auth(), which takes it too. *)

\* The flow returns credential g.  A headless start that misses the user's name in
\* it hands it to update(), and the flow's lock is no longer held then.
Backfill(p, g) == UNCHANGED saveVars \/ Take(p, "update", g)

FlowStart(p) ==
    /\ p \in alive
    /\ flow[p] = "off"
    /\ is_expired(mem[p])
    /\ Event
    /\ flow' = [flow EXCEPT ![p] = "lock"]
    /\ UNCHANGED <<leaseVars, credVars, chainVars, sleepVars, flowDisk, sideVars,
                   historyVars, calls>>

\* With or without the lock it goes on: a valid token on disk is used, otherwise
\* auth() is called, which under a verdict fails at once and else refreshes.
FlowLocked(p) ==
    /\ flow[p] = "lock"
    /\ flowDisk' = [flowDisk EXCEPT ![p] = disk]
    /\ \/ /\ ~is_expired(disk)
          /\ mem' = [mem EXCEPT ![p] = disk]
          /\ flow' = [flow EXCEPT ![p] = "off"]
          /\ DropIfHeld(Flow[p])
          /\ Backfill(p, disk)
          /\ UNCHANGED waiting
       \/ /\ is_expired(disk)
          /\ UNCHANGED <<leaseVars, mem, saveVars>>
          /\ \/ /\ ~is_expired(mem[p])
                /\ flow' = [flow EXCEPT ![p] = "ok"]
                /\ UNCHANGED waiting
             \/ /\ is_expired(mem[p])
                /\ permanent_failure(p)
                /\ flow' = [flow EXCEPT ![p] = "permanent"]
                /\ UNCHANGED waiting
             \/ /\ is_expired(mem[p])
                /\ ~permanent_failure(p)
                /\ flow' = [flow EXCEPT ![p] = "run"]
                /\ waiting' = [waiting EXCEPT ![p] =
                                  @ \cup {[reason |-> "PreRequest", pre |-> -1, flow |-> TRUE]}]
    /\ UNCHANGED <<alive, disk, expiredTo, idp, family, revoked, stage, run, verdict, budget, sleepVars,
                   enrichVars, historyVars, boundVars>>

\* auth() came back.  On a transient failure the credential read before it is put
\* back into the cache and left to a later refresh.
FlowEnd(p) ==
    /\ flow[p] \in {"ok", "transient", "permanent"}
    /\ mem' = IF flow[p] = "transient" THEN [mem EXCEPT ![p] = flowDisk[p]] ELSE mem
    /\ flow' = [flow EXCEPT ![p] = "off"]
    /\ DropIfHeld(Flow[p])
    /\ IF flow[p] = "permanent" THEN UNCHANGED saveVars ELSE Backfill(p, mem'[p])
    /\ UNCHANGED <<alive, disk, expiredTo, idp, family, revoked, chainVars, sleepVars, flowDisk,
                   enrichVars, historyVars, boundVars>>

-----------------------------------------------------------------------------
(* The lock (try_lock_auth_file_async, as a lease).                        *)

\* Caller c of process p is inside the acquire routine.
Asking(p) ==
    {c \in {Task[p], Flow[p], Enrich[p]} \ holders :
        \/ c = Task[p] /\ stage[p] \in {"lock", "relock"}
        \/ c = Flow[p] /\ flow[p] = "lock"
        \/ c = Enrich[p] /\ enrich[p] = "lock"}

\* The lock is granted to a caller that asks for it.
Grant(p) ==
    /\ \E c \in Asking(p) : Acquire(c)
    /\ UNCHANGED <<credVars, chainVars, sleepVars, flowVars, sideVars, historyVars, boundVars>>

\* The stages in which the lock is not looked at again: a lock that had to be
\* acquired a second time is not revalidated.
PastRevalidation == {"relock", "ready", "claimed", "wire", "reply", "apply"}

\* The refresh tokens that would be duplicated if the owner lost its lock now.
AtStake(p) ==
    CASE owner = Task[p] /\ stage[p] \in {"wire", "reply", "apply"} -> {run[p].tried, run[p].got}
      [] owner = Enrich[p] /\ enrich[p] = "write" -> {enrichGen[p]}
      [] OTHER -> {}

\* A waiter takes the lock for stale and breaks it.
Break ==
    /\ Event
    /\ Revoke
    /\ excused' = excused \cup UNION {AtStake(p) : p \in Procs}
    /\ run' = [p \in Procs |->
                  [run[p] EXCEPT !.cut = @ \/ (owner = Task[p] /\ stage[p] \in PastRevalidation)]]
    /\ UNCHANGED <<credVars, waiting, stage, verdict, budget, sleepVars, flowVars, sideVars,
                   reused, placed, calls>>

-----------------------------------------------------------------------------
(* The power listener, and the world around the processes.                 *)

\* WillSleep: raise the gate, then look at the in-flight slot.
WillSleep(p) ==
    /\ p \in alive
    /\ sleeper[p] = "awake"
    /\ Event
    /\ gate' = [gate EXCEPT ![p] = TRUE]
    /\ sleeper' = [sleeper EXCEPT ![p] = "raised"]
    /\ UNCHANGED <<leaseVars, credVars, chainVars, inflight, flowVars, sideVars, historyVars, calls>>

\* hold_sleep_ack_until_refresh_drains: nothing in flight, let the machine sleep ...
AckDrained(p) ==
    /\ sleeper[p] = "raised"
    /\ ~inflight[p]
    /\ sleeper' = [sleeper EXCEPT ![p] = "asleep"]
    /\ UNCHANGED <<leaseVars, credVars, chainVars, gate, inflight, flowVars, sideVars,
                   historyVars, boundVars>>

\* ... or give up after SLEEP_ACK_MAX_WAIT.
AckForced(p) ==
    /\ sleeper[p] = "raised"
    /\ inflight[p]
    /\ sleeper' = [sleeper EXCEPT ![p] = "forced"]
    /\ UNCHANGED <<leaseVars, credVars, chainVars, gate, inflight, flowVars, sideVars,
                   historyVars, boundVars>>

\* DidWake, or the gate outlives SLEEP_GATE_MAX because the event was missed.
Wake(p) ==
    /\ sleeper[p] \in {"asleep", "forced"}
    /\ sleeper' = [sleeper EXCEPT ![p] = "awake"]
    /\ gate' = [gate EXCEPT ![p] = FALSE]
    /\ UNCHANGED <<leaseVars, credVars, chainVars, inflight, flowVars, sideVars, historyVars, boundVars>>

\* PERMANENT_FAILURE_TTL passes for a verdict that is not sticky.
VerdictExpires(p) ==
    /\ verdict[p].kind = "other"
    /\ verdict' = [verdict EXCEPT ![p] = NoVerdict]
    /\ UNCHANGED <<leaseVars, credVars, waiting, stage, run, budget, sleepVars, flowVars,
                   sideVars, historyVars, boundVars>>

\* Access tokens expire, the older ones first.
Expire ==
    /\ expiredTo < idp
    /\ expiredTo' = expiredTo + 1
    /\ UNCHANGED <<leaseVars, alive, disk, mem, idp, family, revoked, chainVars, sleepVars, flowVars,
                   sideVars, historyVars, boundVars>>

\* A process dies and its guards with it; what it had spent and not yet written
\* is lost.
Crash(p) ==
    LET mine == {Task[p], Flow[p], Enrich[p]} \cap holders IN
    /\ p \in alive
    /\ Event
    /\ alive' = alive \ {p}
    /\ IF mine = {} THEN UNCHANGED leaseVars ELSE Release(mine)
    /\ excused' = IF stage[p] \in {"reply", "apply"} THEN excused \cup {run[p].tried} ELSE excused
    /\ waiting' = [waiting EXCEPT ![p] = {}]
    /\ stage' = [stage EXCEPT ![p] = "idle"]
    /\ run' = [run EXCEPT ![p] = NoRun]
    /\ verdict' = [verdict EXCEPT ![p] = NoVerdict]
    /\ budget' = [budget EXCEPT ![p] = NoBudget]
    /\ gate' = [gate EXCEPT ![p] = FALSE]
    /\ sleeper' = [sleeper EXCEPT ![p] = "awake"]
    /\ inflight' = [inflight EXCEPT ![p] = FALSE]
    /\ flow' = [flow EXCEPT ![p] = "off"]
    /\ enrich' = [enrich EXCEPT ![p] = "off"]
    /\ saving' = [saving EXCEPT ![p] = NoSave]
    /\ UNCHANGED <<disk, mem, expiredTo, idp, family, revoked, flowDisk, enrichGen, saves, reused, placed,
                   calls>>

\* The steps of a refresh that holds refresh_lock, up to its result.
ChainStep(p) ==
    \/ Enter(p) \/ LockHeld(p) \/ LockRefused(p) \/ Defer(p) \/ Revalidate(p)
    \/ RelockHeld(p) \/ RelockRefused(p) \/ ClaimSlot(p) \/ BackOut(p) \/ Send(p)
    \/ IdpAnswers(p) \/ ReplySuccess(p) \/ ReplyTerminal(p) \/ ReplyFailed(p)
    \/ ApplySuccess(p) \/ ApplyPermanent(p) \/ ApplyTransient(p)

FlowStep(p) == FlowLocked(p) \/ FlowEnd(p)

\* The writers without the lock.
SaveStep(p) ==
    Initialize(p) \/ SetRetention(p) \/ StoreApiKey(p) \/ SaveUnlocked(p) \/ RetentionRefused(p)

Next ==
    \/ \E p \in Procs :
        \/ \E reason \in Reasons : Call(p, reason)
        \/ ChainStep(p)
        \/ SendUnreadable(p) \/ ReplyLost(p) \/ ApplyPersistFails(p)
        \/ EnrichLocked(p) \/ EnrichRead(p) \/ EnrichWrite(p) \/ EnrichFails(p)
        \/ FlowStart(p) \/ FlowStep(p) \/ SaveStep(p) \/ Login(p)
        \/ Grant(p)
        \/ WillSleep(p) \/ AckDrained(p) \/ AckForced(p) \/ Wake(p)
        \/ VerdictExpires(p) \/ Crash(p)
    \/ Break
    \/ Expire

Spec == Init /\ [][Next]_vars

-----------------------------------------------------------------------------
\* A refresh token is presented a second time only for one of these reasons: the
\* answer to its first use was lost (refresh_tokens then sends it again by itself)
\* or the write of what it bought; its spender died; its lock was broken under it;
\* the disk could not be read; or a writer that does not hold the lock (an
\* enrichment that went on without it, update() from initialize() or a headless
\* start, setCodingDataRetention, store_api_key) put it back on disk after it had
\* been replaced there.  Under the lock no interleaving of processes, retries,
\* timeouts, deferred refreshes and adoptions spends a token twice.
ReuseExcused == reused \subseteq excused

\* What update() asks of its callers, that they hold the lock, is there so that no
\* sibling reuses a rotated token: none is presented twice.  (Violated with no
\* fault at all: initialize() writes the credential it has cached.)
NoDoubleSpend == reused = {}

\* A sticky verdict keeps a process from refreshing only while the credential it
\* would send is one the provider will never honour again.
BlockedOnlyIfDead ==
    \A p \in Procs :
        permanent_failure(p) /\ verdict[p].kind = "sticky" => revoked \/ resolved < idp

\* A process that knows a credential to be dead does not send it again, however
\* many of its tasks were already waiting when it found out (unless auth.json
\* cannot be read and the dead credential is the one it has cached, or a late
\* writer has put the dead credential back on disk after it had been replaced).
DeadNotResent ==
    \A p \in Procs :
        stage[p] = "wire" /\ ~run[p].blind /\ verdict[p].kind = "sticky"
            /\ placed[run[p].tried] # "again" => run[p].tried # verdict[p].key

\* Once the machine was allowed to sleep because nothing was in flight, no refresh
\* token is on the wire until it has woken.
NoStraddle == \A p \in Procs : sleeper[p] = "asleep" => stage[p] \notin {"wire", "reply"}

\* Nothing is left behind when a process is idle: no guard, no claimed slot.
IdleIsClean ==
    \A p \in Procs :
        /\ stage[p] = "idle" => Task[p] \notin holders /\ ~inflight[p]
        /\ flow[p] = "off" => Flow[p] \notin holders
        /\ enrich[p] = "off" => Enrich[p] \notin holders
=============================================================================
