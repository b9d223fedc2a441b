----------------------- MODULE CredentialRefreshProofs -----------------------
(***************************************************************************)
(* The credential refresh, for any number of processes and any bounds: its *)
(* type invariant, that it uses the lock as a lease and leaves no guard or *)
(* slot behind, that no token is on the wire across a sleep that was       *)
(* waited for, that no refresh token is presented twice unless a fault hit *)
(* its first use or a writer without the lock put it back, and that a      *)
(* cached verdict blocks dead credentials only and is never forgotten by a *)
(* task that waited.                                                       *)
(***************************************************************************)
EXTENDS CredentialRefresh, TLAPS

USE RefreshAssumption

-----------------------------------------------------------------------------
(* Types, one group of variables at a time.                                *)

FlowStates == {"off", "lock", "run", "ok", "transient", "permanent"}

CredTypes ==
    /\ alive \subseteq Procs
    /\ disk \in Gens /\ mem \in [Procs -> Gens]
    /\ expiredTo \in -1..MaxGen
    /\ idp \in Gens /\ family \in Gens /\ revoked \in BOOLEAN

ChainTypes ==
    /\ waiting \in [Procs -> SUBSET Calls]
    /\ stage \in [Procs -> Stages]
    /\ run \in [Procs -> Runs]
    /\ verdict \in [Procs -> Verdicts]
    /\ budget \in [Procs -> Budgets]

SleepTypes ==
    /\ gate \in [Procs -> BOOLEAN] /\ inflight \in [Procs -> BOOLEAN]
    /\ sleeper \in [Procs -> {"awake", "raised", "asleep", "forced"}]

FlowTypes == flow \in [Procs -> FlowStates] /\ flowDisk \in [Procs -> Gens]

EnrichTypes ==
    /\ enrich \in [Procs -> {"off", "lock", "read", "write"}]
    /\ enrichGen \in [Procs -> Gens]

SaveTypes == saving \in [Procs -> Saves] /\ saves \in 0..MaxSaves

HistoryTypes == excused \subseteq Gens /\ reused \subseteq Gens /\ placed \in [Gens -> Placings]

BoundTypes == calls \in 0..MaxCalls /\ events \in 0..MaxEvents

Types ==
    /\ LeaseTypeOK /\ CredTypes /\ ChainTypes /\ SleepTypes /\ FlowTypes /\ EnrichTypes
    /\ SaveTypes /\ HistoryTypes /\ BoundTypes

\* The groups make up the type invariant.
LEMMA TypeGroups == (TypeOK <=> Types) /\ (TypeOK' <=> Types')
  BY DEF TypeOK, Types, CredTypes, ChainTypes, SleepTypes, FlowTypes, EnrichTypes, SaveTypes,
         HistoryTypes, BoundTypes, FlowStates

\* A group that is left alone keeps its types.
LEMMA TypeFrames ==
    ASSUME Types
    PROVE  /\ UNCHANGED leaseVars => LeaseTypeOK'
           /\ UNCHANGED credVars => CredTypes'
           /\ UNCHANGED chainVars => ChainTypes'
           /\ UNCHANGED sleepVars => SleepTypes'
           /\ UNCHANGED flowVars => FlowTypes'
           /\ UNCHANGED enrichVars => EnrichTypes'
           /\ UNCHANGED saveVars => SaveTypes'
           /\ UNCHANGED sideVars => EnrichTypes' /\ SaveTypes'
           /\ UNCHANGED historyVars => HistoryTypes'
           /\ UNCHANGED boundVars => BoundTypes'
<1>1. /\ UNCHANGED leaseVars => LeaseTypeOK'
      /\ UNCHANGED credVars => CredTypes'
      /\ UNCHANGED chainVars => ChainTypes'
    BY DEF Types, LeaseTypeOK, leaseVars, CredTypes, credVars, ChainTypes, chainVars
<1>2. /\ UNCHANGED sleepVars => SleepTypes'
      /\ UNCHANGED flowVars => FlowTypes'
    BY DEF Types, SleepTypes, sleepVars, FlowTypes, flowVars
<1>5. /\ UNCHANGED enrichVars => EnrichTypes'
      /\ UNCHANGED saveVars => SaveTypes'
    BY DEF Types, EnrichTypes, enrichVars, SaveTypes, saveVars
<1>6. UNCHANGED sideVars => UNCHANGED enrichVars /\ UNCHANGED saveVars
    BY DEF sideVars
<1>3. /\ UNCHANGED historyVars => HistoryTypes'
      /\ UNCHANGED boundVars => BoundTypes'
    BY DEF Types, HistoryTypes, historyVars, BoundTypes, boundVars
<1>4. QED
    BY <1>1, <1>2, <1>3, <1>5, <1>6

\* The fields of a refresh, and the ways it is changed.
LEMMA RunFields ==
    \A r \in Runs :
        /\ r.tried \in Gens /\ r.got \in Gens /\ r.attempt \in 1..MaxAttempts
        /\ r.cut \in BOOLEAN /\ r.flow \in BOOLEAN /\ r.reply \in Replies /\ r.reason \in Reasons
  BY DEF Runs

\* The empty refresh is a refresh.
LEMMA NoRunType ==
    /\ NoRun \in Runs
    /\ NoRun.cut = FALSE
    /\ NoRun.attempt = 1
  BY DEF Runs, NoRun, Reasons, Replies, Gens

\* A refresh begins with its reason and whether the start-up flow waits for it.
LEMMA RunEnter ==
    \A r \in Runs, w \in Reasons, f \in BOOLEAN : [r EXCEPT !.reason = w, !.flow = f] \in Runs
  BY DEF Runs

\* An answer or an outcome is noted.
LEMMA RunReply ==
    ASSUME NEW r \in Runs, NEW x \in Replies
    PROVE  LET n == [r EXCEPT !.reply = x] IN
           n \in Runs /\ n.reply = x /\ n.tried = r.tried /\ n.got = r.got /\ n.cut = r.cut
  BY DEF Runs

\* ... with the credential it brings.
LEMMA RunGot ==
    ASSUME NEW r \in Runs, NEW x \in Replies, NEW h \in Gens
    PROVE  LET n == [r EXCEPT !.reply = x, !.got = h] IN
           n \in Runs /\ n.reply = x /\ n.tried = r.tried /\ n.got = h /\ n.cut = r.cut
  BY DEF Runs

\* ... or with the credential found on disk, which nothing was sent for.
LEMMA RunTaken ==
    ASSUME NEW r \in Runs, NEW x \in Replies, NEW g \in Gens, NEW h \in Gens
    PROVE  LET n == [r EXCEPT !.reply = x, !.tried = g, !.got = h] IN
           n \in Runs /\ n.reply = x /\ n.tried = g /\ n.got = h /\ n.cut = r.cut
  BY DEF Runs

\* A token is sent.
LEMMA RunSent ==
    ASSUME NEW r \in Runs, NEW x \in Replies, NEW g \in Gens, NEW h \in Gens, NEW b \in BOOLEAN
    PROVE  LET n == [r EXCEPT !.tried = g, !.got = h, !.retried = b, !.attempt = 1, !.reply = x] IN
           n \in Runs /\ n.tried = g /\ n.got = h /\ n.cut = r.cut
<1>1. PICK a \in 1..MaxAttempts : a = 1
    OBVIOUS
<1>2. LET n == [r EXCEPT !.tried = g, !.got = h, !.retried = b, !.attempt = a, !.reply = x] IN
      n \in Runs /\ n.tried = g /\ n.got = h /\ n.cut = r.cut
    BY DEF Runs
<1>3. QED
    BY <1>1, <1>2

\* The cached token is sent because the disk could not be read.
LEMMA RunBlind ==
    ASSUME NEW r \in Runs, NEW g \in Gens, NEW h \in Gens, NEW b \in BOOLEAN
    PROVE  LET n == [r EXCEPT !.tried = g, !.got = h, !.blind = b] IN
           n \in Runs /\ n.tried = g /\ n.got = h /\ n.cut = r.cut
  BY DEF Runs

\* The lock is broken under a refresh.
LEMMA RunCut ==
    ASSUME NEW r \in Runs, NEW b \in BOOLEAN
    PROVE  LET n == [r EXCEPT !.cut = b] IN
           n \in Runs /\ n.cut = b /\ n.tried = r.tried /\ n.got = r.got /\ n.reply = r.reply
  BY DEF Runs

-----------------------------------------------------------------------------
(* What the shared parts of the actions do to the types.                   *)

\* Guards are dropped.
LEMMA DropTypes ==
    ASSUME LeaseTypeOK, NEW c, DropGuard(c) \/ DropIfHeld(c)
    PROVE  LeaseTypeOK'
  BY DEF LeaseTypeOK, DropGuard, DropIfHeld, Release, leaseVars

\* A refresh ends.
LEMMA FinishTypes ==
    ASSUME Types, NEW p \in Procs, NEW result \in FlowStates, Finish(p, result)
    PROVE  /\ stage' \in [Procs -> Stages]
           /\ run' \in [Procs -> Runs]
           /\ flow' \in [Procs -> FlowStates]
<1>1. "idle" \in Stages
    BY DEF Stages
<1>2. QED
    BY <1>1, NoRunType DEF Types, ChainTypes, FlowTypes, Finish

\* A refresh goes on.
LEMMA ToTypes ==
    ASSUME Types, NEW p \in Procs, NEW s \in Stages, To(p, s)
    PROVE  stage' \in [Procs -> Stages]
  BY DEF Types, ChainTypes, To

\* try_adopt_disk_token: the cache keeps its credential or takes the one on disk.
LEMMA AdoptTypes ==
    ASSUME Types, NEW p \in Procs, NEW reason, Adopt(p, reason)
    PROVE  mem' \in [Procs -> Gens]
  BY DEF Types, CredTypes, Adopt

\* The refresher comes back.
LEMMA OutcomeTypes ==
    ASSUME Types, NEW p \in Procs, NEW r \in Runs, Outcome(p, r)
    PROVE  /\ stage' \in [Procs -> Stages]
           /\ run' \in [Procs -> Runs]
           /\ inflight' \in [Procs -> BOOLEAN]
<1>1. "apply" \in Stages
    BY DEF Stages
<1>2. QED
    BY <1>1, ToTypes DEF Types, ChainTypes, SleepTypes, Outcome

\* A token is excused.
LEMMA ExcuseTypes ==
    ASSUME Types, NEW p \in Procs, NEW g \in Gens, Excuse(p, g)
    PROVE  excused' \subseteq Gens
  BY DEF Types, HistoryTypes, Excuse

\* A token goes on the wire.
LEMMA ExchangeTypes ==
    ASSUME Types, NEW p \in Procs, NEW g \in Gens, NEW b \in BOOLEAN, Exchange(p, g, b)
    PROVE  /\ stage' \in [Procs -> Stages]
           /\ run' \in [Procs -> Runs]
           /\ excused' \subseteq Gens
           /\ budget' \in [Procs -> Budgets]
           /\ inflight' \in [Procs -> BOOLEAN]
<1>1. "wire" \in Stages /\ "none" \in Replies
    BY DEF Stages, Replies
<1>2. [run[p] EXCEPT !.tried = g, !.got = g, !.retried = b, !.attempt = 1, !.reply = "none"] \in Runs
  <2>1. run[p] \in Runs
      BY DEF Types, ChainTypes
  <2>2. QED
      BY <1>1, <2>1, RunSent
<1>3. run' \in [Procs -> Runs]
    BY <1>2 DEF Exchange, Types, ChainTypes
<1>4. QED
    BY <1>1, <1>3, ToTypes, ExcuseTypes DEF Exchange, Types, ChainTypes, SleepTypes

\* A request is repeated: what the refresh becomes.
LEMMA AgainRun ==
    ASSUME Types, NEW p \in Procs, Again(p)
    PROVE  /\ run' \in [Procs -> Runs]
           /\ run'[p].tried = run[p].tried /\ run'[p].got = run[p].tried
           /\ run'[p].cut = run[p].cut /\ run'[p].blind = run[p].blind /\ run'[p].reply = "none"
           /\ run'[p].retried = run[p].retried
<1>1. run \in [Procs -> Runs] /\ run[p] \in Runs
    BY DEF Types, ChainTypes
<1>2. "none" \in Replies
    BY DEF Replies
<1>3. run[p].tried \in Gens /\ run[p].attempt \in 1..MaxAttempts
    BY <1>1, RunFields
<1>4. run[p].attempt < MaxAttempts
    BY DEF Again
<1>5. PICK a \in 1..MaxAttempts : a = run[p].attempt + 1
    BY <1>3, <1>4
<1>6. PICK g \in Gens : g = run[p].tried
    BY <1>3
<1> DEFINE r == [run[p] EXCEPT !.got = g, !.attempt = a, !.reply = "none"]
<1>7. /\ r \in Runs /\ r.tried = run[p].tried /\ r.got = g /\ r.cut = run[p].cut
      /\ r.blind = run[p].blind /\ r.reply = "none" /\ r.retried = run[p].retried
    BY <1>1, <1>2 DEF Runs
<1>8. run' = [run EXCEPT ![p] = r]
    BY <1>5, <1>6 DEF Again
<1> HIDE DEF r
<1>9. QED
    BY <1>1, <1>6, <1>7, <1>8

\* A request is repeated.
LEMMA AgainTypes ==
    ASSUME Types, NEW p \in Procs, Again(p)
    PROVE  /\ stage' \in [Procs -> Stages]
           /\ run' \in [Procs -> Runs]
           /\ budget' \in [Procs -> Budgets]
           /\ inflight' \in [Procs -> BOOLEAN]
<1>1. "wire" \in Stages
    BY DEF Stages
<1>2. QED
    BY <1>1, AgainRun, ToTypes DEF Again, Types, ChainTypes, SleepTypes

\* The empty budget, the empty verdict and the empty copy have their types.
LEMMA NoBudgetType == NoBudget \in Budgets /\ NoVerdict \in Verdicts /\ NoSave \in Saves
  BY DEF NoBudget, Budgets, NoVerdict, Verdicts, NoSave, Saves, Gens

\* note_refresh_progress resets the budget.
LEMMA ProgressTypes ==
    ASSUME Types, NEW p \in Procs, note_refresh_progress(p)
    PROVE  budget' \in [Procs -> Budgets]
  BY NoBudgetType DEF Types, ChainTypes, note_refresh_progress

\* The bounded events stay within their bound.
LEMMA EventTypes ==
    ASSUME Types, NEW n \in Nat, Events(n)
    PROVE  events' \in 0..MaxEvents
  BY DEF Types, BoundTypes, Events

\* update() may spawn the enrichment.
LEMMA SpawnTypes ==
    ASSUME Types, NEW p \in Procs, NEW g \in Gens, NEW n \in Nat, SpawnEnrichment(p, g, n)
    PROVE  EnrichTypes' /\ events' \in 0..MaxEvents
  BY EventTypes, TypeFrames DEF Types, EnrichTypes, SpawnEnrichment, enrichVars

\* A copy is taken to be written without the lock.
LEMMA TakeTypes ==
    ASSUME Types, NEW p \in Procs, NEW g \in Gens, NEW by \in {"update", "retention", "apikey"},
           Take(p, by, g)
    PROVE  SaveTypes'
<1>1. [by |-> by, gen |-> g] \in Saves
    BY DEF Saves
<1>2. saves' \in 0..MaxSaves
    BY DEF Take, Types, SaveTypes
<1>3. QED
    BY <1>1, <1>2 DEF Take, Types, SaveTypes

\* The start-up flow may take one.
LEMMA BackfillTypes ==
    ASSUME Types, NEW p \in Procs, NEW g \in Gens, Backfill(p, g)
    PROVE  SaveTypes'
  BY TakeTypes, TypeFrames DEF Backfill

\* auth.json is written.
LEMMA WriteTypes ==
    ASSUME Types, NEW g \in Gens, WriteDisk(g)
    PROVE  disk' \in Gens /\ placed' \in [Gens -> Placings]
  BY DEF Types, HistoryTypes, CredTypes, WriteDisk, Placings

\* An old credential is put back.
LEMMA PutBackTypes ==
    ASSUME Types, NEW g \in Gens, PutBack(g)
    PROVE  disk' \in Gens /\ placed' \in [Gens -> Placings] /\ excused' \subseteq Gens
  BY WriteTypes DEF Types, HistoryTypes, PutBack

\* record_transient_failure keeps the count below the budget.
LEMMA TransientTypes ==
    ASSUME Types, NEW p \in Procs, record_transient_failure(p)
    PROVE  /\ stage' \in [Procs -> Stages]
           /\ run' \in [Procs -> Runs]
           /\ inflight' \in [Procs -> BOOLEAN]
           /\ budget' \in [Procs -> Budgets]
<1>1. "transient" \in Replies /\ "other" \in Replies
    BY DEF Replies
<1>2. run[p] \in Runs /\ budget[p] \in Budgets /\ run[p].tried \in Gens
    BY RunFields DEF Types, ChainTypes
<1>3. \A x \in {"transient", "other"} : [run[p] EXCEPT !.reply = x] \in Runs
    BY <1>1, <1>2, RunReply
<1>4. budget[p].count \in 0..(TransientMax - 1)
    BY <1>2 DEF Budgets
<1>5. \A n \in 0..(TransientMax - 1) : [tried |-> run[p].tried, count |-> n] \in Budgets
    BY <1>2 DEF Budgets
<1>6. CASE run[p].retried
    BY <1>3, <1>6, OutcomeTypes DEF record_transient_failure, Types, ChainTypes
<1>7. CASE ~run[p].retried
  <2> DEFINE n == IF budget[p].tried = run[p].tried THEN budget[p].count + 1 ELSE 1
             kept == IF n >= TransientMax THEN 0 ELSE n
             reply == IF n >= TransientMax THEN "other" ELSE "transient"
  <2>1. kept \in 0..(TransientMax - 1)
      BY <1>4
  <2>2. /\ budget' = [budget EXCEPT ![p] = [tried |-> run[p].tried, count |-> kept]]
        /\ Outcome(p, [run[p] EXCEPT !.reply = reply])
      BY <1>7 DEF record_transient_failure
  <2>3. [run[p] EXCEPT !.reply = reply] \in Runs
      BY <1>3
  <2> HIDE DEF kept, reply
  <2>4. budget' \in [Procs -> Budgets]
      BY <1>5, <2>1, <2>2 DEF Types, ChainTypes
  <2>5. QED
      BY <2>2, <2>3, <2>4, OutcomeTypes
<1>8. QED
    BY <1>6, <1>7

-----------------------------------------------------------------------------
(* Every step keeps the types.                                             *)

\* The values that the actions give to places, results and replies.
LEMMA Names ==
    /\ {"idle", "lock", "locked", "relock", "ready", "claimed", "wire", "reply"} \subseteq Stages
    /\ FlowStates = {"off", "lock", "run", "ok", "transient", "permanent"}
    /\ {"ok", "terminal", "failed", "success", "sticky", "transient"} \subseteq Replies
  BY DEF Stages, FlowStates, Replies

\* The values that are copied from one place to another.
LEMMA Copied ==
    ASSUME Types, NEW p \in Procs
    PROVE  /\ run[p] \in Runs /\ run[p].tried \in Gens /\ run[p].got \in Gens
           /\ run[p].flow \in BOOLEAN /\ run[p].reply \in Replies /\ run[p].cut \in BOOLEAN
           /\ disk \in Gens /\ idp \in Gens
           /\ mem[p] \in Gens /\ flowDisk[p] \in Gens /\ enrichGen[p] \in Gens
           /\ saving[p] \in Saves /\ saving[p].gen \in Gens
<1>1. saving[p] \in Saves /\ saving[p].gen \in Gens
    BY DEF Types, SaveTypes, Saves
<1>2. QED
    BY <1>1, RunFields DEF Types, ChainTypes, CredTypes, FlowTypes, EnrichTypes

\* A call queues on refresh_lock.
LEMMA AskTypes ==
    ASSUME Types, NEW p \in Procs, NEW w \in Calls, waiting' = [waiting EXCEPT ![p] = @ \cup {w}]
    PROVE  waiting' \in [Procs -> SUBSET Calls]
  BY DEF Types, ChainTypes

\* Asking for a refresh, and the file lock of one.
LEMMA EntryTypes ==
    ASSUME Types, NEW p \in Procs,
           \/ \E reason \in Reasons : Call(p, reason)
           \/ Enter(p) \/ LockHeld(p) \/ LockRefused(p) \/ Defer(p) \/ Revalidate(p)
           \/ RelockHeld(p) \/ RelockRefused(p) \/ ClaimSlot(p) \/ BackOut(p)
    PROVE  Types'
<1>1. ASSUME NEW reason \in Reasons, Call(p, reason)
      PROVE  Types'
  <2>1. current(p) \in -1..MaxGen
      BY Copied DEF current, Gens
  <2>2. [reason |-> reason, pre |-> current(p), flow |-> FALSE] \in Calls
      BY <2>1 DEF Calls
  <2>3. waiting' \in [Procs -> SUBSET Calls]
      BY <1>1, <2>2, AskTypes DEF Call, Types, ChainTypes
  <2>4. mem' \in [Procs -> Gens]
      BY <1>1, AdoptTypes DEF Call, Types, CredTypes
  <2>5. calls' \in 0..MaxCalls
      BY <1>1 DEF Call, Types, BoundTypes
  <2>6. ChainTypes' /\ CredTypes' /\ BoundTypes'
      BY <1>1, <2>3, <2>4, <2>5 DEF Call, Types, ChainTypes, CredTypes, BoundTypes
  <2>7. QED
      BY <1>1, <2>6, TypeFrames DEF Call, Types
<1>2. CASE Enter(p)
  <2>1. PICK w \in waiting[p] :
            /\ waiting' = [waiting EXCEPT ![p] = @ \ {w}]
            /\ flow' = flow \/ \E x \in {"ok", "permanent"} : flow' = [flow EXCEPT ![p] = x]
            /\ \/ UNCHANGED <<stage, run>>
               \/ /\ To(p, "lock")
                  /\ run' = [run EXCEPT ![p] = [NoRun EXCEPT !.reason = w.reason, !.flow = w.flow]]
      BY <1>2 DEF Enter
  <2>2. w.reason \in Reasons /\ w.flow \in BOOLEAN
      BY DEF Types, ChainTypes, Calls
  <2>3. [NoRun EXCEPT !.reason = w.reason, !.flow = w.flow] \in Runs
      BY <2>2, NoRunType, RunEnter
  <2>4. run' \in [Procs -> Runs] /\ stage' \in [Procs -> Stages]
      BY <2>1, <2>3, ToTypes, Names DEF Types, ChainTypes
  <2>5. waiting' \in [Procs -> SUBSET Calls] /\ flow' \in [Procs -> FlowStates]
      BY <2>1, Names DEF Types, ChainTypes, FlowTypes
  <2>6. ChainTypes' /\ FlowTypes'
      BY <1>2, <2>4, <2>5 DEF Enter, Types, ChainTypes, FlowTypes
  <2>7. QED
      BY <1>2, <2>6, TypeFrames DEF Enter, Types
<1>3. CASE LockHeld(p)
  <2>1. LeaseTypeOK'
      BY <1>3, DropTypes, TypeFrames DEF LockHeld, Types
  <2>2. /\ stage' \in [Procs -> Stages] /\ run' \in [Procs -> Runs]
        /\ flow' \in [Procs -> FlowStates]
      BY <1>3, FinishTypes, ToTypes, Names DEF LockHeld, Types, ChainTypes, FlowTypes
  <2>3. mem' \in [Procs -> Gens]
      BY <1>3, AdoptTypes DEF LockHeld
  <2>4. CredTypes' /\ ChainTypes' /\ FlowTypes'
      BY <1>3, <2>2, <2>3 DEF LockHeld, Types, CredTypes, ChainTypes, FlowTypes
  <2>5. QED
      BY <1>3, <2>1, <2>4, TypeFrames DEF LockHeld, Types
<1>4. CASE LockRefused(p)
  <2>1. /\ stage' \in [Procs -> Stages] /\ run' \in [Procs -> Runs]
        /\ flow' \in [Procs -> FlowStates]
      BY <1>4, FinishTypes, Names DEF LockRefused
  <2>2. mem' \in [Procs -> Gens]
      BY <1>4, AdoptTypes DEF LockRefused
  <2>3. CredTypes' /\ ChainTypes' /\ FlowTypes'
      BY <1>4, <2>1, <2>2 DEF LockRefused, Types, CredTypes, ChainTypes, FlowTypes
  <2>4. QED
      BY <1>4, <2>3, TypeFrames DEF LockRefused, Types
<1>5. CASE Defer(p)
  <2>1. LeaseTypeOK'
      BY <1>5, DropTypes DEF Defer, Types
  <2>2. /\ stage' \in [Procs -> Stages] /\ run' \in [Procs -> Runs]
        /\ flow' \in [Procs -> FlowStates]
      BY <1>5, FinishTypes, Names DEF Defer
  <2>3. ChainTypes' /\ FlowTypes'
      BY <1>5, <2>2 DEF Defer, Types, ChainTypes, FlowTypes
  <2>4. QED
      BY <1>5, <2>1, <2>3, TypeFrames DEF Defer, Types
<1>6. CASE Revalidate(p)
  <2>1. LeaseTypeOK'
      BY <1>6, DropTypes, TypeFrames DEF Revalidate, Types
  <2>2. stage' \in [Procs -> Stages]
      BY <1>6, ToTypes, Names DEF Revalidate
  <2>3. ChainTypes'
      BY <1>6, <2>2 DEF Revalidate, Types, ChainTypes
  <2>4. QED
      BY <1>6, <2>1, <2>3, TypeFrames DEF Revalidate, Types
<1>7. CASE RelockHeld(p)
  <2>1. LeaseTypeOK'
      BY <1>7, DropTypes, TypeFrames DEF RelockHeld, Types
  <2>2. /\ stage' \in [Procs -> Stages] /\ run' \in [Procs -> Runs]
        /\ flow' \in [Procs -> FlowStates]
      BY <1>7, FinishTypes, ToTypes, Names DEF RelockHeld, Types, ChainTypes, FlowTypes
  <2>3. mem' \in [Procs -> Gens]
      BY <1>7, AdoptTypes DEF RelockHeld
  <2>4. CredTypes' /\ ChainTypes' /\ FlowTypes'
      BY <1>7, <2>2, <2>3 DEF RelockHeld, Types, CredTypes, ChainTypes, FlowTypes
  <2>5. QED
      BY <1>7, <2>1, <2>4, TypeFrames DEF RelockHeld, Types
<1>8. CASE RelockRefused(p)
  <2>1. /\ stage' \in [Procs -> Stages] /\ run' \in [Procs -> Runs]
        /\ flow' \in [Procs -> FlowStates]
      BY <1>8, FinishTypes, Names DEF RelockRefused
  <2>2. ChainTypes' /\ FlowTypes'
      BY <1>8, <2>1 DEF RelockRefused, Types, ChainTypes, FlowTypes
  <2>3. QED
      BY <1>8, <2>2, TypeFrames DEF RelockRefused, Types
<1>9. CASE ClaimSlot(p)
  <2>1. stage' \in [Procs -> Stages]
      BY <1>9, ToTypes, Names DEF ClaimSlot
  <2>2. ChainTypes' /\ SleepTypes'
      BY <1>9, <2>1 DEF ClaimSlot, Types, ChainTypes, SleepTypes
  <2>3. QED
      BY <1>9, <2>2, TypeFrames DEF ClaimSlot, Types
<1>10. CASE BackOut(p)
  <2>1. LeaseTypeOK'
      BY <1>10, DropTypes DEF BackOut, Types
  <2>2. /\ stage' \in [Procs -> Stages] /\ run' \in [Procs -> Runs]
        /\ flow' \in [Procs -> FlowStates]
      BY <1>10, FinishTypes, Names DEF BackOut
  <2>3. ChainTypes' /\ FlowTypes' /\ SleepTypes'
      BY <1>10, <2>2 DEF BackOut, Types, ChainTypes, FlowTypes, SleepTypes
  <2>4. QED
      BY <1>10, <2>1, <2>3, TypeFrames DEF BackOut, Types
<1>11. QED
    BY <1>1, <1>2, <1>3, <1>4, <1>5, <1>6, <1>7, <1>8, <1>9, <1>10

\* The exchange with the provider, and its outcome.
LEMMA ExchangeStepTypes ==
    ASSUME Types, NEW p \in Procs,
           \/ Send(p) \/ SendUnreadable(p) \/ IdpAnswers(p)
           \/ ReplySuccess(p) \/ ReplyTerminal(p) \/ ReplyFailed(p) \/ ReplyLost(p)
    PROVE  Types'
<1>1. CASE Send(p)
  <2>1. [run[p] EXCEPT !.reply = "success", !.tried = disk, !.got = disk] \in Runs
      BY Copied, RunTaken, Names
  <2>2. /\ stage' \in [Procs -> Stages] /\ run' \in [Procs -> Runs]
        /\ budget' \in [Procs -> Budgets]
        /\ inflight' \in [Procs -> BOOLEAN] /\ excused' \subseteq Gens
      BY <1>1, <2>1, Copied, ExchangeTypes, OutcomeTypes, ProgressTypes, ExcuseTypes
      DEF Send, resolved
  <2>3. ChainTypes' /\ SleepTypes' /\ HistoryTypes'
      BY <1>1, <2>2 DEF Send, Types, ChainTypes, SleepTypes, HistoryTypes
  <2>4. QED
      BY <1>1, <2>3, TypeFrames DEF Send, Types
<1>2. CASE SendUnreadable(p)
  <2>1. /\ [run[p] EXCEPT !.tried = mem[p], !.got = mem[p], !.blind = TRUE] \in Runs
        /\ [run[p] EXCEPT !.reply = "transient"] \in Runs
      BY Copied, RunBlind, RunReply, Names
  <2>2. /\ stage' \in [Procs -> Stages] /\ run' \in [Procs -> Runs]
        /\ inflight' \in [Procs -> BOOLEAN]
      BY <1>2, <2>1, OutcomeTypes, ToTypes, Names
      DEF SendUnreadable, Types, ChainTypes, SleepTypes
  <2>3. excused' \subseteq Gens
      BY <1>2, Copied DEF SendUnreadable, Types, HistoryTypes
  <2>4. events' \in 0..MaxEvents
      BY <1>2, EventTypes DEF SendUnreadable, Event
  <2>5. ChainTypes' /\ SleepTypes' /\ HistoryTypes' /\ BoundTypes'
      BY <1>2, <2>2, <2>3, <2>4
      DEF SendUnreadable, Types, ChainTypes, SleepTypes, HistoryTypes, BoundTypes
  <2>6. QED
      BY <1>2, <2>5, TypeFrames DEF SendUnreadable, Types
<1>3. CASE IdpAnswers(p)
  <2>1. PICK x \in {"ok", "terminal", "failed"} :
            /\ \/ x = "ok" /\ run[p].tried = idp /\ idp < MaxGen /\ idp' = idp + 1
                  /\ run' = [run EXCEPT ![p] = [@ EXCEPT !.reply = x, !.got = run[p].tried + 1]]
               \/ idp' = idp /\ run' = [run EXCEPT ![p] = [@ EXCEPT !.reply = x]]
            /\ revoked' \in BOOLEAN
      BY <1>3 DEF IdpAnswers, Types, CredTypes
  <2>2. idp' \in Gens
      BY <2>1, Copied DEF Gens
  <2>3. run' \in [Procs -> Runs]
    <3>1. CASE run' = [run EXCEPT ![p] = [@ EXCEPT !.reply = x]]
      <4>1. [run[p] EXCEPT !.reply = x] \in Runs
          BY RunReply, Copied, Names
      <4>2. QED
          BY <3>1, <4>1 DEF Types, ChainTypes
    <3>2. CASE /\ run[p].tried = idp /\ idp < MaxGen
               /\ run' = [run EXCEPT ![p] = [@ EXCEPT !.reply = x, !.got = run[p].tried + 1]]
      <4>1. PICK h \in Gens : h = run[p].tried + 1
          BY <3>2, Copied DEF Gens
      <4>2. run[p] \in Runs /\ x \in Replies
          BY Copied, Names
      <4>3. [run[p] EXCEPT !.reply = x, !.got = h] \in Runs
          BY <4>2, RunGot
      <4>4. QED
          BY <3>2, <4>1, <4>3 DEF Types, ChainTypes
    <3>3. QED
        BY <2>1, <3>1, <3>2
  <2>4. stage' \in [Procs -> Stages]
      BY <1>3, ToTypes, Names DEF IdpAnswers
  <2>5. reused' \subseteq Gens
      BY <1>3, Copied DEF IdpAnswers, Types, HistoryTypes
  <2>6. CredTypes' /\ ChainTypes' /\ HistoryTypes'
      BY <1>3, <2>1, <2>2, <2>3, <2>4, <2>5
      DEF IdpAnswers, Types, CredTypes, ChainTypes, HistoryTypes
  <2>7. QED
      BY <1>3, <2>6, TypeFrames DEF IdpAnswers, Types
<1>4. CASE ReplySuccess(p)
  <2>1. [run[p] EXCEPT !.reply = "success"] \in Runs
      BY Copied, RunReply, Names
  <2>2. /\ stage' \in [Procs -> Stages] /\ run' \in [Procs -> Runs]
        /\ budget' \in [Procs -> Budgets] /\ inflight' \in [Procs -> BOOLEAN]
      BY <1>4, <2>1, OutcomeTypes, ProgressTypes DEF ReplySuccess
  <2>3. ChainTypes' /\ SleepTypes'
      BY <1>4, <2>2 DEF ReplySuccess, Types, ChainTypes, SleepTypes
  <2>4. QED
      BY <1>4, <2>3, TypeFrames DEF ReplySuccess, Types
<1>5. CASE ReplyTerminal(p)
  <2>1. /\ [run[p] EXCEPT !.reply = "success", !.got = disk] \in Runs
        /\ [run[p] EXCEPT !.reply = "sticky"] \in Runs
      BY Copied, RunGot, RunReply, Names
  <2>2. /\ stage' \in [Procs -> Stages] /\ run' \in [Procs -> Runs]
        /\ budget' \in [Procs -> Budgets]
        /\ inflight' \in [Procs -> BOOLEAN] /\ excused' \subseteq Gens
      BY <1>5, <2>1, Copied, ExchangeTypes, OutcomeTypes, ProgressTypes, ExcuseTypes
      DEF ReplyTerminal, Types, ChainTypes, HistoryTypes
  <2>3. ChainTypes' /\ SleepTypes' /\ HistoryTypes'
      BY <1>5, <2>2 DEF ReplyTerminal, Types, ChainTypes, SleepTypes, HistoryTypes
  <2>4. QED
      BY <1>5, <2>3, TypeFrames DEF ReplyTerminal, Types
<1>6. CASE ReplyFailed(p)
  <2>1. ChainTypes' /\ SleepTypes'
      BY <1>6, TransientTypes, AgainTypes DEF ReplyFailed, Types, ChainTypes, SleepTypes
  <2>2. QED
      BY <1>6, <2>1, TypeFrames DEF ReplyFailed, Types
<1>7. CASE ReplyLost(p)
  <2>1. ChainTypes' /\ SleepTypes'
      BY <1>7, TransientTypes, AgainTypes DEF ReplyLost, Types, ChainTypes, SleepTypes
  <2>2. events' \in 0..MaxEvents
      BY <1>7, EventTypes DEF ReplyLost, Event
  <2>3. HistoryTypes' /\ BoundTypes'
      BY <1>7, <2>2, Copied DEF ReplyLost, Types, HistoryTypes, BoundTypes
  <2>4. QED
      BY <1>7, <2>1, <2>3, TypeFrames DEF ReplyLost, Types
<1>8. QED
    BY <1>1, <1>2, <1>3, <1>4, <1>5, <1>6, <1>7

\* Applying the outcome, and a login.
LEMMA ApplyTypes ==
    ASSUME Types, NEW p \in Procs,
           \/ ApplySuccess(p) \/ ApplyPersistFails(p) \/ ApplyPermanent(p) \/ ApplyTransient(p)
           \/ Login(p)
    PROVE  Types'
<1>1. CASE ApplySuccess(p)
  <2>1. LeaseTypeOK'
      BY <1>1, DropTypes DEF ApplySuccess, Types
  <2>2. /\ stage' \in [Procs -> Stages] /\ run' \in [Procs -> Runs]
        /\ flow' \in [Procs -> FlowStates]
      BY <1>1, FinishTypes, Names DEF ApplySuccess
  <2>3. EnrichTypes' /\ events' \in 0..MaxEvents
      BY <1>1, SpawnTypes, Copied DEF ApplySuccess
  <2>4. disk' \in Gens /\ placed' \in [Gens -> Placings] /\ mem' \in [Procs -> Gens]
      BY <1>1, WriteTypes, Copied DEF ApplySuccess, Types, CredTypes
  <2>5. CredTypes' /\ ChainTypes' /\ FlowTypes' /\ HistoryTypes' /\ BoundTypes'
      BY <1>1, <2>2, <2>3, <2>4
      DEF ApplySuccess, Types, CredTypes, ChainTypes, FlowTypes, HistoryTypes, BoundTypes
  <2>6. QED
      BY <1>1, <2>1, <2>3, <2>5, TypeFrames DEF ApplySuccess, Types
<1>2. CASE ApplyPersistFails(p)
  <2>1. LeaseTypeOK'
      BY <1>2, DropTypes DEF ApplyPersistFails, Types
  <2>2. /\ stage' \in [Procs -> Stages] /\ run' \in [Procs -> Runs]
        /\ flow' \in [Procs -> FlowStates]
      BY <1>2, FinishTypes, Names DEF ApplyPersistFails
  <2>3. EnrichTypes' /\ events' \in 0..MaxEvents
      BY <1>2, SpawnTypes, Copied DEF ApplyPersistFails
  <2>4. excused' \subseteq Gens /\ mem' \in [Procs -> Gens]
      BY <1>2, Copied DEF ApplyPersistFails, Types, CredTypes, HistoryTypes
  <2>5. CredTypes' /\ ChainTypes' /\ FlowTypes' /\ HistoryTypes' /\ BoundTypes'
      BY <1>2, <2>2, <2>3, <2>4
      DEF ApplyPersistFails, Types, CredTypes, ChainTypes, FlowTypes, HistoryTypes, BoundTypes
  <2>6. QED
      BY <1>2, <2>1, <2>3, <2>5, TypeFrames DEF ApplyPersistFails, Types
<1>3. CASE ApplyPermanent(p)
  <2>1. LeaseTypeOK'
      BY <1>3, DropTypes DEF ApplyPermanent, Types
  <2>2. /\ stage' \in [Procs -> Stages] /\ run' \in [Procs -> Runs]
        /\ flow' \in [Procs -> FlowStates]
      BY <1>3, FinishTypes, Names DEF ApplyPermanent
  <2>3. mem' \in [Procs -> Gens]
      BY <1>3, AdoptTypes DEF ApplyPermanent
  <2>4. [key |-> run[p].tried, kind |-> run[p].reply] \in Verdicts
      BY <1>3, Copied DEF ApplyPermanent, Verdicts
  <2>5. verdict' \in [Procs -> Verdicts]
      BY <1>3, <2>4 DEF ApplyPermanent, Types, ChainTypes
  <2>6. CredTypes' /\ ChainTypes' /\ FlowTypes'
      BY <1>3, <2>2, <2>3, <2>5 DEF ApplyPermanent, Types, CredTypes, ChainTypes, FlowTypes
  <2>7. QED
      BY <1>3, <2>1, <2>6, TypeFrames DEF ApplyPermanent, Types
<1>4. CASE ApplyTransient(p)
  <2>1. LeaseTypeOK'
      BY <1>4, DropTypes DEF ApplyTransient, Types
  <2>2. /\ stage' \in [Procs -> Stages] /\ run' \in [Procs -> Runs]
        /\ flow' \in [Procs -> FlowStates]
      BY <1>4, FinishTypes, Names DEF ApplyTransient
  <2>3. ChainTypes' /\ FlowTypes'
      BY <1>4, <2>2 DEF ApplyTransient, Types, ChainTypes, FlowTypes
  <2>4. QED
      BY <1>4, <2>1, <2>3, TypeFrames DEF ApplyTransient, Types
<1>5. CASE Login(p)
  <2>1. idp + 1 \in Gens
      BY <1>5, Copied DEF Login, Gens
  <2>2. EnrichTypes' /\ events' \in 0..MaxEvents
      BY <1>5, <2>1, SpawnTypes DEF Login
  <2>3. disk' \in Gens /\ placed' \in [Gens -> Placings] /\ mem' \in [Procs -> Gens]
      BY <1>5, <2>1, WriteTypes DEF Login, Types, CredTypes
  <2>4. CredTypes' /\ HistoryTypes' /\ BoundTypes'
      BY <1>5, <2>1, <2>2, <2>3 DEF Login, Types, CredTypes, HistoryTypes, BoundTypes
  <2>5. QED
      BY <1>5, <2>2, <2>4, TypeFrames DEF Login, Types
<1>6. QED
    BY <1>1, <1>2, <1>3, <1>4, <1>5

\* The enrichment and the start-up flow.
LEMMA SideTypes ==
    ASSUME Types, NEW p \in Procs,
           \/ EnrichLocked(p) \/ EnrichRead(p) \/ EnrichWrite(p) \/ EnrichFails(p)
           \/ FlowStart(p) \/ FlowLocked(p) \/ FlowEnd(p)
    PROVE  Types'
<1>1. CASE EnrichLocked(p)
  <2>1. EnrichTypes'
      BY <1>1 DEF EnrichLocked, Types, EnrichTypes
  <2>2. QED
      BY <1>1, <2>1, TypeFrames DEF EnrichLocked, Types
<1>2. CASE EnrichRead(p)
  <2>1. EnrichTypes' /\ LeaseTypeOK'
      BY <1>2, DropTypes, TypeFrames DEF EnrichRead, Types, EnrichTypes
  <2>2. QED
      BY <1>2, <2>1, TypeFrames DEF EnrichRead, Types
<1>3. CASE EnrichWrite(p)
  <2>1. EnrichTypes' /\ LeaseTypeOK'
      BY <1>3, DropTypes DEF EnrichWrite, Types, EnrichTypes
  <2>2. disk' \in Gens /\ placed' \in [Gens -> Placings] /\ mem' \in [Procs -> Gens]
      BY <1>3, WriteTypes, Copied DEF EnrichWrite, Types, CredTypes
  <2>3. excused' \subseteq Gens
      BY <1>3, Copied DEF EnrichWrite, Types, HistoryTypes
  <2>4. CredTypes' /\ HistoryTypes'
      BY <1>3, <2>2, <2>3 DEF EnrichWrite, Types, CredTypes, HistoryTypes
  <2>5. QED
      BY <1>3, <2>1, <2>4, TypeFrames DEF EnrichWrite, Types
<1>4. CASE EnrichFails(p)
  <2>1. EnrichTypes' /\ LeaseTypeOK'
      BY <1>4, DropTypes DEF EnrichFails, Types, EnrichTypes
  <2>2. BoundTypes'
      BY <1>4, EventTypes DEF EnrichFails, Event, Types, BoundTypes
  <2>3. QED
      BY <1>4, <2>1, <2>2, TypeFrames DEF EnrichFails, Types
<1>5. CASE FlowStart(p)
  <2>1. FlowTypes'
      BY <1>5, Names DEF FlowStart, Types, FlowTypes
  <2>2. BoundTypes'
      BY <1>5, EventTypes DEF FlowStart, Event, Types, BoundTypes
  <2>3. QED
      BY <1>5, <2>1, <2>2, TypeFrames DEF FlowStart, Types
<1>6. CASE FlowLocked(p)
  <2>1. LeaseTypeOK'
      BY <1>6, DropTypes, TypeFrames DEF FlowLocked, Types
  <2>2. FlowTypes' /\ mem' \in [Procs -> Gens]
      BY <1>6, Names, Copied DEF FlowLocked, Types, FlowTypes, CredTypes
  <2>3. [reason |-> "PreRequest", pre |-> -1, flow |-> TRUE] \in Calls
      BY DEF Calls, Reasons
  <2>4. waiting' \in [Procs -> SUBSET Calls]
      BY <1>6, <2>3, AskTypes DEF FlowLocked, Types, ChainTypes
  <2>5. CredTypes' /\ ChainTypes'
      BY <1>6, <2>2, <2>4 DEF FlowLocked, Types, CredTypes, ChainTypes
  <2>6. SaveTypes'
      BY <1>6, BackfillTypes, Copied, TypeFrames DEF FlowLocked
  <2>7. QED
      BY <1>6, <2>1, <2>2, <2>5, <2>6, TypeFrames DEF FlowLocked, Types
<1>7. CASE FlowEnd(p)
  <2>1. LeaseTypeOK'
      BY <1>7, DropTypes DEF FlowEnd, Types
  <2>2. FlowTypes' /\ mem' \in [Procs -> Gens]
      BY <1>7, Names, Copied DEF FlowEnd, Types, FlowTypes, CredTypes
  <2>3. CredTypes'
      BY <1>7, <2>2 DEF FlowEnd, Types, CredTypes
  <2>4. SaveTypes'
    <3>1. mem'[p] \in Gens
        BY <2>2
    <3>2. QED
        BY <1>7, <3>1, BackfillTypes, TypeFrames DEF FlowEnd
  <2>5. QED
      BY <1>7, <2>1, <2>2, <2>3, <2>4, TypeFrames DEF FlowEnd, Types
<1>8. QED
    BY <1>1, <1>2, <1>3, <1>4, <1>5, <1>6, <1>7

\* The writers without the lock.
LEMMA SaveStepTypes ==
    ASSUME Types, NEW p \in Procs, SaveStep(p)
    PROVE  Types'
<1>1. CASE Initialize(p) \/ SetRetention(p) \/ StoreApiKey(p)
  <2>1. SaveTypes'
      BY <1>1, TakeTypes, Copied DEF Initialize, SetRetention, StoreApiKey
  <2>2. QED
      BY <1>1, <2>1, TypeFrames DEF Initialize, SetRetention, StoreApiKey, Types
<1>2. CASE SaveUnlocked(p)
  <2>1. disk' \in Gens /\ placed' \in [Gens -> Placings] /\ excused' \subseteq Gens
      BY <1>2, PutBackTypes, Copied DEF SaveUnlocked, Types, CredTypes, HistoryTypes
  <2>2. mem' \in [Procs -> Gens]
      BY <1>2, Copied DEF SaveUnlocked, Types, CredTypes
  <2>3. EnrichTypes' /\ events' \in 0..MaxEvents
      BY <1>2, SpawnTypes, TypeFrames, Copied DEF SaveUnlocked, Types, BoundTypes
  <2>4. SaveTypes'
      BY <1>2, NoBudgetType DEF SaveUnlocked, Types, SaveTypes
  <2>5. CredTypes' /\ HistoryTypes' /\ BoundTypes'
      BY <1>2, <2>1, <2>2, <2>3 DEF SaveUnlocked, Types, CredTypes, HistoryTypes, BoundTypes
  <2>6. QED
      BY <1>2, <2>3, <2>4, <2>5, TypeFrames DEF SaveUnlocked, Types
<1>3. CASE RetentionRefused(p)
  <2>1. SaveTypes'
      BY <1>3, NoBudgetType DEF RetentionRefused, Types, SaveTypes
  <2>2. QED
      BY <1>3, <2>1, TypeFrames DEF RetentionRefused, Types
<1>4. QED
    BY <1>1, <1>2, <1>3 DEF SaveStep

\* The lock, the power listener, time and crashes.
LEMMA WorldTypes ==
    ASSUME Types,
           \/ \E p \in Procs :
                 \/ Grant(p) \/ VerdictExpires(p) \/ Crash(p)
                 \/ WillSleep(p) \/ AckDrained(p) \/ AckForced(p) \/ Wake(p)
           \/ Break \/ Expire
    PROVE  Types'
<1>1. ASSUME NEW p \in Procs, Grant(p)
      PROVE  Types'
  <2>1. LeaseTypeOK'
      BY <1>1 DEF Grant, Asking, Acquire, Types, LeaseTypeOK
  <2>2. QED
      BY <1>1, <2>1, TypeFrames DEF Grant, Types
<1>2. ASSUME NEW p \in Procs, VerdictExpires(p)
      PROVE  Types'
  <2>1. ChainTypes'
      BY <1>2, NoBudgetType DEF VerdictExpires, Types, ChainTypes
  <2>2. QED
      BY <1>2, <2>1, TypeFrames DEF VerdictExpires, Types
<1>3. ASSUME NEW p \in Procs, Crash(p)
      PROVE  Types'
  <2>1. LeaseTypeOK'
      BY <1>3 DEF Crash, Release, Types, LeaseTypeOK, leaseVars
  <2>2. CredTypes' /\ FlowTypes' /\ EnrichTypes' /\ SaveTypes'
      BY <1>3, Names, NoBudgetType DEF Crash, Types, CredTypes, FlowTypes, EnrichTypes, SaveTypes
  <2>3. ChainTypes'
      BY <1>3, NoBudgetType, NoRunType, Names DEF Crash, Types, ChainTypes
  <2>4. SleepTypes'
      BY <1>3 DEF Crash, Types, SleepTypes
  <2>5. HistoryTypes'
      BY <1>3, Copied DEF Crash, Types, HistoryTypes
  <2>6. BoundTypes'
      BY <1>3, EventTypes DEF Crash, Event, Types, BoundTypes
  <2>7. QED
      BY <2>1, <2>2, <2>3, <2>4, <2>5, <2>6 DEF Types
<1>4. ASSUME NEW p \in Procs, WillSleep(p)
      PROVE  Types'
  <2>1. SleepTypes'
      BY <1>4 DEF WillSleep, Types, SleepTypes
  <2>2. BoundTypes'
      BY <1>4, EventTypes DEF WillSleep, Event, Types, BoundTypes
  <2>3. QED
      BY <1>4, <2>1, <2>2, TypeFrames DEF WillSleep, Types
<1>5. ASSUME NEW p \in Procs, AckDrained(p) \/ AckForced(p) \/ Wake(p)
      PROVE  Types'
  <2>1. SleepTypes'
      BY <1>5 DEF AckDrained, AckForced, Wake, Types, SleepTypes
  <2>2. QED
      BY <1>5, <2>1, TypeFrames DEF AckDrained, AckForced, Wake, Types
<1>6. CASE Break
  <2>1. LeaseTypeOK'
      BY <1>6 DEF Break, Revoke, Types, LeaseTypeOK
  <2>2. run' \in [Procs -> Runs]
    <3>1. ASSUME NEW p \in Procs
          PROVE  run'[p] \in Runs
      <4>1. PICK b \in BOOLEAN : b = (run[p].cut \/ (owner = Task[p] /\ stage[p] \in PastRevalidation))
          BY Copied
      <4>2. [run[p] EXCEPT !.cut = b] \in Runs
          BY RunCut, Copied
      <4>3. QED
          BY <1>6, <4>1, <4>2 DEF Break
    <3>2. QED
        BY <1>6, <3>1 DEF Break
  <2>3. ChainTypes'
      BY <1>6, <2>2 DEF Break, Types, ChainTypes
  <2>4. \A p \in Procs : AtStake(p) \subseteq Gens
      BY Copied DEF AtStake
  <2>5. HistoryTypes'
      BY <1>6, <2>4 DEF Break, Types, HistoryTypes
  <2>6. BoundTypes'
      BY <1>6, EventTypes DEF Break, Event, Types, BoundTypes
  <2>7. QED
      BY <1>6, <2>1, <2>3, <2>5, <2>6, TypeFrames DEF Break, Types
<1>7. CASE Expire
  <2>1. CredTypes'
      BY <1>7 DEF Expire, Types, CredTypes, Gens
  <2>2. QED
      BY <1>7, <2>1, TypeFrames DEF Expire, Types
<1>8. QED
    BY <1>1, <1>2, <1>3, <1>4, <1>5, <1>6, <1>7

\* Every step keeps the types.
LEMMA TypeStep == TypeOK /\ [Next]_vars => TypeOK'
<1> SUFFICES ASSUME Types, [Next]_vars PROVE Types'
    BY TypeGroups
<1>1. CASE UNCHANGED vars
    BY <1>1, TypeFrames DEF vars, Types
<1>2. CASE Next
    BY <1>2, EntryTypes, ExchangeStepTypes, ApplyTypes, SideTypes, SaveStepTypes, WorldTypes
    DEF Next, ChainStep, FlowStep
<1>3. QED
    BY <1>1, <1>2

\* The types hold at the start.
LEMMA TypeInit == Init => TypeOK
<1> SUFFICES ASSUME Init PROVE Types
    BY TypeGroups
<1>1. LeaseTypeOK /\ BoundTypes /\ HistoryTypes
  <2>1. LeaseTypeOK
      BY DEF Init, LeaseInit, LeaseTypeOK
  <2>2. BoundTypes
      BY DEF Init, BoundTypes
  <2>3. HistoryTypes
      BY DEF Init, HistoryTypes, Placings
  <2>4. QED
      BY <2>1, <2>2, <2>3
<1>2. CredTypes
  <2>1. 0 \in Gens /\ -1 \in -1..MaxGen
      BY DEF Gens
  <2>2. QED
      BY <2>1 DEF Init, CredTypes
<1>3. ChainTypes
    BY NoRunType, NoBudgetType, Names DEF Init, ChainTypes
<1>4. SleepTypes /\ FlowTypes /\ EnrichTypes /\ SaveTypes
    BY Names, NoBudgetType DEF Init, SleepTypes, FlowTypes, EnrichTypes, SaveTypes, Gens
<1>5. QED
    BY <1>1, <1>2, <1>3, <1>4 DEF Types

\* Every variable of the refresh keeps its type, for any processes and any bounds;
\* in particular the count of transient failures stays below the budget.
THEOREM RefreshTypes == Spec => []TypeOK
  BY TypeInit, TypeStep, PTL DEF Spec

-----------------------------------------------------------------------------
(* The lock, the in-flight slot and the sleep gate.                        *)

\* The stages in which a refresh holds a guard, those past its last look at the
\* lock, and those in which it has claimed the slot.
Past == {"ready", "claimed", "wire", "reply", "apply"}
Holding == {"locked"} \cup Past
Slotted == {"claimed", "wire", "reply"}

\* A guard is held exactly while it is used.
GuardAt(p) ==
    /\ stage[p] \in Holding => Task[p] \in holders
    /\ stage[p] = "idle" => Task[p] \notin holders
    /\ flow[p] = "off" => Flow[p] \notin holders
    /\ enrich[p] = "off" => Enrich[p] \notin holders

\* The slot is claimed before the gate is looked at for the last time, and the gate
\* is up from the announcement of a sleep to the wake.
SlotAt(p) ==
    /\ inflight[p] <=> stage[p] \in Slotted
    /\ gate[p] <=> sleeper[p] # "awake"
    /\ sleeper[p] = "asleep" => stage[p] \notin {"wire", "reply"}

\* Past its last look at the lock a refresh owns it, unless it was broken since.
OwnAt(p) ==
    /\ stage[p] \in Past /\ ~run[p].cut => owner = Task[p]
    /\ stage[p] = "relock" /\ Task[p] \in holders /\ ~run[p].cut => owner = Task[p]

LockAt(p) == GuardAt(p) /\ SlotAt(p) /\ OwnAt(p)

OwnerInv == owner # None => owner \in holders

LockInv == OwnerInv /\ \A p \in Procs : LockAt(p)

\* The callers of one process.
CallersOf(p) == {Task[p], Flow[p], Enrich[p]}

\* A step of process p leaves the others alone, and its guards are its own.
SameAt(q) ==
    /\ stage'[q] = stage[q] /\ run'[q] = run[q] /\ flow'[q] = flow[q]
    /\ enrich'[q] = enrich[q] /\ enrichGen'[q] = enrichGen[q]
    /\ inflight'[q] = inflight[q] /\ gate'[q] = gate[q] /\ sleeper'[q] = sleeper[q]

Local(p) == \A q \in Procs \ {p} : SameAt(q)

OwnLease(p) ==
    \/ UNCHANGED leaseVars
    \/ \E c \in CallersOf(p) : Acquire(c)
    \/ \E S \in SUBSET CallersOf(p) : Release(S)

\* The callers of different processes, and of one, are different.
LEMMA Distinct ==
    ASSUME NEW p \in Procs
    PROVE  /\ CallersOf(p) \subseteq Callers
           /\ Task[p] # None /\ Flow[p] # None /\ Enrich[p] # None
           /\ Task[p] # Flow[p] /\ Task[p] # Enrich[p] /\ Flow[p] # Enrich[p]
           /\ \A q \in Procs \ {p} : CallersOf(p) \cap CallersOf(q) = {}
  BY DEF CallersOf

\* The owner of the lock has a guard, whatever is done with the lock.
LEMMA OwnerKept ==
    ASSUME OwnerInv, [LeaseNext]_leaseVars, None \notin Callers
    PROVE  OwnerInv'
  BY DEF OwnerInv, LeaseNext, Acquire, Release, Revoke, leaseVars

\* What a process does with the lock is a step of the lease.
LEMMA LeaseOfProcess ==
    ASSUME NEW p \in Procs, OwnLease(p)
    PROVE  [LeaseNext]_leaseVars
<1>1. CallersOf(p) \subseteq Callers
    BY Distinct
<1>2. QED
    BY <1>1 DEF OwnLease, LeaseNext

\* A local step keeps what holds of the other processes.
LEMMA LocalLock ==
    ASSUME LockInv, NEW p \in Procs, Local(p), OwnLease(p), LockAt(p)'
    PROVE  LockInv'
<1>1. OwnerInv'
    BY LeaseOfProcess, OwnerKept DEF LockInv
<1>2. ASSUME NEW q \in Procs \ {p}
      PROVE  LockAt(q)'
  <2>1. SameAt(q) /\ LockAt(q)
      BY DEF Local, LockInv
  <2>2. \A c \in CallersOf(q) : (c \in holders' <=> c \in holders) /\ (owner = c => owner' = c)
    <3>1. CallersOf(p) \cap CallersOf(q) = {} /\ None \notin CallersOf(q)
        BY Distinct DEF CallersOf
    <3>2. QED
        BY <3>1 DEF OwnLease, Acquire, Release, leaseVars
  <2>3. GuardAt(q)' /\ OwnAt(q)'
      BY <2>1, <2>2 DEF LockAt, GuardAt, OwnAt, SameAt, CallersOf
  <2>4. SlotAt(q)'
      BY <2>1 DEF LockAt, SlotAt, SameAt
  <2>5. QED
      BY <2>3, <2>4 DEF LockAt
<1>3. QED
    BY <1>1, <1>2 DEF LockInv

\* The functions of the refresh are functions on the processes.
LEMMA Domains ==
    ASSUME Types
    PROVE  /\ DOMAIN stage = Procs /\ DOMAIN run = Procs /\ DOMAIN flow = Procs
           /\ DOMAIN enrich = Procs /\ DOMAIN enrichGen = Procs
           /\ DOMAIN inflight = Procs /\ DOMAIN gate = Procs /\ DOMAIN sleeper = Procs
  BY DEF Types, ChainTypes, FlowTypes, EnrichTypes, SleepTypes

\* What the shared parts of the actions do to one process.
LEMMA FinishEffect ==
    ASSUME Types, NEW p \in Procs, NEW result, Finish(p, result)
    PROVE  /\ stage'[p] = "idle" /\ run'[p] = NoRun
           /\ flow'[p] = flow[p] \/ flow'[p] = result
           /\ \A q \in Procs \ {p} : stage'[q] = stage[q] /\ run'[q] = run[q] /\ flow'[q] = flow[q]
  BY Domains DEF Finish

\* A refresh goes to another stage: the others stay where they are.
LEMMA ToEffect ==
    ASSUME Types, NEW p \in Procs, NEW s, To(p, s)
    PROVE  /\ stage'[p] = s
           /\ \A q \in Procs \ {p} : stage'[q] = stage[q]
  BY Domains DEF To

\* The refresher comes back and the slot is free.
LEMMA OutcomeEffect ==
    ASSUME Types, NEW p \in Procs, NEW r, Outcome(p, r)
    PROVE  /\ stage'[p] = "apply" /\ run'[p] = r /\ inflight'[p] = FALSE
           /\ \A q \in Procs \ {p} :
                 stage'[q] = stage[q] /\ run'[q] = run[q] /\ inflight'[q] = inflight[q]
  BY Domains DEF Outcome, To

\* A token goes on the wire; the slot stays claimed, and a cut refresh stays cut.
LEMMA ExchangeEffect ==
    ASSUME Types, NEW p \in Procs, NEW g \in Gens, NEW b \in BOOLEAN, Exchange(p, g, b)
    PROVE  /\ stage'[p] = "wire"
           /\ run'[p].tried = g /\ run'[p].got = g /\ run'[p].cut = run[p].cut
           /\ inflight' = inflight
           /\ \A q \in Procs \ {p} : stage'[q] = stage[q] /\ run'[q] = run[q]
<1>1. "none" \in Replies /\ run[p] \in Runs
    BY Copied DEF Replies
<1>2. \A x \in Replies, r \in Runs :
          LET n == [r EXCEPT !.tried = g, !.got = g, !.retried = b, !.attempt = 1, !.reply = x] IN
          n.tried = g /\ n.got = g /\ n.cut = r.cut
    BY DEF Runs
<1>3. QED
    BY <1>1, <1>2, Domains DEF Exchange, To

\* A request is repeated: the slot stays claimed, and a cut refresh stays cut.
LEMMA AgainEffect ==
    ASSUME Types, NEW p \in Procs, Again(p)
    PROVE  /\ stage'[p] = "wire" /\ inflight' = inflight
           /\ run'[p].tried = run[p].tried /\ run'[p].got = run[p].tried
           /\ run'[p].cut = run[p].cut /\ run'[p].blind = run[p].blind
           /\ \A q \in Procs \ {p} : stage'[q] = stage[q] /\ run'[q] = run[q]
<1>1. \A q \in Procs \ {p} : run'[q] = run[q]
    BY Domains DEF Again
<1>2. stage'[p] = "wire" /\ \A q \in Procs \ {p} : stage'[q] = stage[q]
    BY ToEffect DEF Again
<1>3. inflight' = inflight
    BY DEF Again
<1>4. QED
    BY <1>1, <1>2, <1>3, AgainRun

\* record_transient_failure ends in one of two outcomes.
LEMMA TransientEffect ==
    ASSUME Types, NEW p \in Procs, record_transient_failure(p)
    PROVE  \E x \in {"transient", "other"} : Outcome(p, [run[p] EXCEPT !.reply = x])
  BY DEF record_transient_failure

\* The enrichment is spawned for the credential written, or not at all.
LEMMA SpawnEffect ==
    ASSUME Types, NEW p \in Procs, NEW g, NEW n, SpawnEnrichment(p, g, n)
    PROVE  /\ \/ enrich'[p] = enrich[p] /\ enrichGen'[p] = enrichGen[p]
              \/ enrich[p] = "off" /\ enrich'[p] = "lock" /\ enrichGen'[p] = g
           /\ \A q \in Procs \ {p} : enrich'[q] = enrich[q] /\ enrichGen'[q] = enrichGen[q]
  BY Domains DEF SpawnEnrichment, enrichVars

\* Dropping a guard is a step of the lease by its process.
LEMMA DropIsOwn ==
    ASSUME NEW p \in Procs, NEW c \in CallersOf(p), DropGuard(c) \/ DropIfHeld(c)
    PROVE  /\ OwnLease(p)
           /\ holders' = holders \ {c}
           /\ owner' = owner \/ owner = c
<1>1. CASE Release({c})
    BY <1>1 DEF Release, OwnLease
<1>2. CASE c \notin holders /\ UNCHANGED leaseVars
    BY <1>2 DEF OwnLease, leaseVars
<1>3. QED
    BY <1>1, <1>2 DEF DropGuard, DropIfHeld

\* A step of a process changes its own state only, and the lock as its own callers.
LEMMA LocalStep ==
    ASSUME Types, NEW p \in Procs,
           \/ \E reason \in Reasons : Call(p, reason)
           \/ ChainStep(p)
           \/ SendUnreadable(p) \/ ReplyLost(p) \/ ApplyPersistFails(p)
           \/ EnrichLocked(p) \/ EnrichRead(p) \/ EnrichWrite(p) \/ EnrichFails(p)
           \/ FlowStart(p) \/ FlowStep(p) \/ SaveStep(p) \/ Login(p)
           \/ Grant(p)
           \/ WillSleep(p) \/ AckDrained(p) \/ AckForced(p) \/ Wake(p)
           \/ VerdictExpires(p) \/ Crash(p)
    PROVE  Local(p) /\ OwnLease(p)
<1>0. Task[p] \in CallersOf(p) /\ Flow[p] \in CallersOf(p) /\ Enrich[p] \in CallersOf(p)
    BY DEF CallersOf
<1>1. ASSUME NEW reason \in Reasons, Call(p, reason)
      PROVE  Local(p) /\ OwnLease(p)
    BY <1>1 DEF Call, Local, SameAt, OwnLease, sleepVars, flowVars, sideVars, enrichVars
<1>2. CASE Enter(p)
  <2>1. Local(p)
      BY <1>2, Domains, ToEffect
      DEF Enter, Local, SameAt, credVars, chainVars, sleepVars, flowVars, sideVars, enrichVars
  <2>2. OwnLease(p)
      BY <1>2 DEF Enter, OwnLease
  <2>3. QED
      BY <2>1, <2>2
<1>3. CASE LockHeld(p)
  <2>1. Local(p)
      BY <1>3, Domains, FinishEffect, ToEffect
      DEF LockHeld, Local, SameAt, credVars, chainVars, sleepVars, flowVars, sideVars, enrichVars
  <2>2. OwnLease(p)
      BY <1>3, <1>0, DropIsOwn DEF LockHeld, OwnLease
  <2>3. QED
      BY <2>1, <2>2
<1>4. CASE LockRefused(p)
  <2>1. Local(p)
      BY <1>4, Domains, FinishEffect
      DEF LockRefused, Local, SameAt, credVars, chainVars, sleepVars, flowVars, sideVars, enrichVars
  <2>2. OwnLease(p)
      BY <1>4 DEF LockRefused, OwnLease
  <2>3. QED
      BY <2>1, <2>2
<1>5. CASE Defer(p)
  <2>1. Local(p)
      BY <1>5, Domains, FinishEffect
      DEF Defer, Local, SameAt, credVars, chainVars, sleepVars, flowVars, sideVars, enrichVars
  <2>2. OwnLease(p)
      BY <1>5, <1>0, DropIsOwn DEF Defer, OwnLease
  <2>3. QED
      BY <2>1, <2>2
<1>6. CASE Revalidate(p)
  <2>1. Local(p)
      BY <1>6, Domains, ToEffect
      DEF Revalidate, Local, SameAt, credVars, chainVars, sleepVars, flowVars, sideVars, enrichVars
  <2>2. OwnLease(p)
      BY <1>6, <1>0, DropIsOwn DEF Revalidate, OwnLease
  <2>3. QED
      BY <2>1, <2>2
<1>7. CASE RelockHeld(p)
  <2>1. Local(p)
      BY <1>7, Domains, FinishEffect, ToEffect
      DEF RelockHeld, Local, SameAt, credVars, chainVars, sleepVars, flowVars, sideVars, enrichVars
  <2>2. OwnLease(p)
      BY <1>7, <1>0, DropIsOwn DEF RelockHeld, OwnLease
  <2>3. QED
      BY <2>1, <2>2
<1>8. CASE RelockRefused(p)
  <2>1. Local(p)
      BY <1>8, Domains, FinishEffect
      DEF RelockRefused, Local, SameAt, credVars, chainVars, sleepVars, flowVars, sideVars, enrichVars
  <2>2. OwnLease(p)
      BY <1>8 DEF RelockRefused, OwnLease
  <2>3. QED
      BY <2>1, <2>2
<1>9. CASE ClaimSlot(p)
  <2>1. Local(p)
      BY <1>9, Domains, ToEffect
      DEF ClaimSlot, Local, SameAt, credVars, chainVars, sleepVars, flowVars, sideVars, enrichVars
  <2>2. OwnLease(p)
      BY <1>9 DEF ClaimSlot, OwnLease
  <2>3. QED
      BY <2>1, <2>2
<1>10. CASE BackOut(p)
  <2>1. Local(p)
      BY <1>10, Domains, FinishEffect
      DEF BackOut, Local, SameAt, credVars, chainVars, sleepVars, flowVars, sideVars, enrichVars
  <2>2. OwnLease(p)
      BY <1>10, <1>0, DropIsOwn DEF BackOut, OwnLease
  <2>3. QED
      BY <2>1, <2>2
<1>11. CASE Send(p)
  <2>1. Local(p)
      BY <1>11, Domains, OutcomeEffect, ExchangeEffect, Copied
      DEF Send, resolved, Local, SameAt, credVars, chainVars, sleepVars, flowVars,
          sideVars, enrichVars
  <2>2. OwnLease(p)
      BY <1>11 DEF Send, OwnLease
  <2>3. QED
      BY <2>1, <2>2
<1>12. CASE SendUnreadable(p)
  <2>1. Local(p)
    <3>1. \A q \in Procs \ {p} :
              stage'[q] = stage[q] /\ run'[q] = run[q] /\ inflight'[q] = inflight[q]
      <4>1. CASE Outcome(p, [run[p] EXCEPT !.reply = "transient"])
          BY <4>1, OutcomeEffect
      <4>2. CASE /\ run' = [run EXCEPT ![p] = [@ EXCEPT !.tried = mem[p], !.got = mem[p],
                                                        !.blind = TRUE]]
                 /\ To(p, "wire") /\ UNCHANGED inflight
          BY <4>2, Domains, ToEffect
      <4>3. QED
          BY <1>12, <4>1, <4>2 DEF SendUnreadable
    <3>2. QED
        BY <1>12, <3>1 DEF SendUnreadable, Local, SameAt, flowVars, sideVars, enrichVars
  <2>2. OwnLease(p)
      BY <1>12 DEF SendUnreadable, OwnLease
  <2>3. QED
      BY <2>1, <2>2
<1>13. CASE IdpAnswers(p)
  <2>1. Local(p)
      BY <1>13, Domains, ToEffect
      DEF IdpAnswers, Local, SameAt, credVars, chainVars, sleepVars, flowVars, sideVars, enrichVars
  <2>2. OwnLease(p)
      BY <1>13 DEF IdpAnswers, OwnLease
  <2>3. QED
      BY <2>1, <2>2
<1>14. CASE ReplySuccess(p)
  <2>1. Local(p)
      BY <1>14, Domains, OutcomeEffect
      DEF ReplySuccess, Local, SameAt, credVars, chainVars, sleepVars, flowVars, sideVars, enrichVars
  <2>2. OwnLease(p)
      BY <1>14 DEF ReplySuccess, OwnLease
  <2>3. QED
      BY <2>1, <2>2
<1>15. CASE ReplyTerminal(p)
  <2>1. Local(p)
    <3>1. \A q \in Procs \ {p} :
              stage'[q] = stage[q] /\ run'[q] = run[q] /\ inflight'[q] = inflight[q]
      <4>1. ASSUME NEW r, Outcome(p, r)
            PROVE  \A q \in Procs \ {p} :
                       stage'[q] = stage[q] /\ run'[q] = run[q] /\ inflight'[q] = inflight[q]
          BY <4>1, OutcomeEffect
      <4>2. CASE Exchange(p, disk, TRUE)
          BY <4>2, ExchangeEffect, Copied
      <4>3. QED
          BY <1>15, <4>1, <4>2 DEF ReplyTerminal
    <3>2. QED
        BY <1>15, <3>1 DEF ReplyTerminal, Local, SameAt, flowVars, sideVars, enrichVars
  <2>2. OwnLease(p)
      BY <1>15 DEF ReplyTerminal, OwnLease
  <2>3. QED
      BY <2>1, <2>2
<1>16. CASE ReplyFailed(p)
  <2>1. Local(p)
      BY <1>16, Domains, TransientEffect, OutcomeEffect, AgainEffect
      DEF ReplyFailed, Local, SameAt, credVars, chainVars, sleepVars, flowVars, sideVars, enrichVars
  <2>2. OwnLease(p)
      BY <1>16 DEF ReplyFailed, OwnLease
  <2>3. QED
      BY <2>1, <2>2
<1>17. CASE ReplyLost(p)
  <2>1. Local(p)
      BY <1>17, Domains, TransientEffect, OutcomeEffect, AgainEffect
      DEF ReplyLost, Local, SameAt, credVars, chainVars, sleepVars, flowVars, sideVars, enrichVars
  <2>2. OwnLease(p)
      BY <1>17 DEF ReplyLost, OwnLease
  <2>3. QED
      BY <2>1, <2>2
<1>18. CASE ApplySuccess(p)
  <2>1. Local(p)
      BY <1>18, Domains, FinishEffect, SpawnEffect
      DEF ApplySuccess, Local, SameAt, credVars, chainVars, sleepVars, flowVars, sideVars, enrichVars
  <2>2. OwnLease(p)
      BY <1>18, <1>0, DropIsOwn DEF ApplySuccess, OwnLease
  <2>3. QED
      BY <2>1, <2>2
<1>19. CASE ApplyPersistFails(p)
  <2>1. Local(p)
      BY <1>19, Domains, FinishEffect, SpawnEffect
      DEF ApplyPersistFails, Local, SameAt, credVars, chainVars, sleepVars, flowVars,
          sideVars, enrichVars
  <2>2. OwnLease(p)
      BY <1>19, <1>0, DropIsOwn DEF ApplyPersistFails, OwnLease
  <2>3. QED
      BY <2>1, <2>2
<1>20. CASE ApplyPermanent(p)
  <2>1. Local(p)
      BY <1>20, Domains, FinishEffect
      DEF ApplyPermanent, Local, SameAt, credVars, chainVars, sleepVars, flowVars,
          sideVars, enrichVars
  <2>2. OwnLease(p)
      BY <1>20, <1>0, DropIsOwn DEF ApplyPermanent, OwnLease
  <2>3. QED
      BY <2>1, <2>2
<1>21. CASE ApplyTransient(p)
  <2>1. Local(p)
      BY <1>21, Domains, FinishEffect
      DEF ApplyTransient, Local, SameAt, credVars, chainVars, sleepVars, flowVars,
          sideVars, enrichVars
  <2>2. OwnLease(p)
      BY <1>21, <1>0, DropIsOwn DEF ApplyTransient, OwnLease
  <2>3. QED
      BY <2>1, <2>2
<1>22. CASE EnrichLocked(p)
  <2>1. Local(p)
      BY <1>22, Domains
      DEF EnrichLocked, Local, SameAt, credVars, chainVars, sleepVars, flowVars, sideVars, enrichVars
  <2>2. OwnLease(p)
      BY <1>22 DEF EnrichLocked, OwnLease
  <2>3. QED
      BY <2>1, <2>2
<1>23. CASE EnrichRead(p)
  <2>1. Local(p)
      BY <1>23, Domains
      DEF EnrichRead, Local, SameAt, credVars, chainVars, sleepVars, flowVars, sideVars, enrichVars
  <2>2. OwnLease(p)
      BY <1>23, <1>0, DropIsOwn DEF EnrichRead, OwnLease
  <2>3. QED
      BY <2>1, <2>2
<1>24. CASE EnrichWrite(p)
  <2>1. Local(p)
      BY <1>24, Domains
      DEF EnrichWrite, Local, SameAt, credVars, chainVars, sleepVars, flowVars, sideVars, enrichVars
  <2>2. OwnLease(p)
      BY <1>24, <1>0, DropIsOwn DEF EnrichWrite, OwnLease
  <2>3. QED
      BY <2>1, <2>2
<1>25. CASE EnrichFails(p)
  <2>1. Local(p)
      BY <1>25, Domains
      DEF EnrichFails, Local, SameAt, credVars, chainVars, sleepVars, flowVars, sideVars, enrichVars
  <2>2. OwnLease(p)
      BY <1>25, <1>0, DropIsOwn DEF EnrichFails, OwnLease
  <2>3. QED
      BY <2>1, <2>2
<1>26. CASE FlowStart(p)
  <2>1. Local(p)
      BY <1>26, Domains
      DEF FlowStart, Local, SameAt, credVars, chainVars, sleepVars, flowVars, sideVars, enrichVars
  <2>2. OwnLease(p)
      BY <1>26 DEF FlowStart, OwnLease
  <2>3. QED
      BY <2>1, <2>2
<1>27. CASE FlowLocked(p)
  <2>1. Local(p)
      BY <1>27, Domains
      DEF FlowLocked, Local, SameAt, credVars, chainVars, sleepVars, flowVars, sideVars, enrichVars
  <2>2. OwnLease(p)
      BY <1>27, <1>0, DropIsOwn DEF FlowLocked, OwnLease
  <2>3. QED
      BY <2>1, <2>2
<1>28. CASE FlowEnd(p)
  <2>1. Local(p)
      BY <1>28, Domains
      DEF FlowEnd, Local, SameAt, credVars, chainVars, sleepVars, flowVars, sideVars, enrichVars
  <2>2. OwnLease(p)
      BY <1>28, <1>0, DropIsOwn DEF FlowEnd, OwnLease
  <2>3. QED
      BY <2>1, <2>2
<1>29. CASE Login(p)
  <2>1. Local(p)
      BY <1>29, Domains, SpawnEffect
      DEF Login, Local, SameAt, credVars, chainVars, sleepVars, flowVars, sideVars, enrichVars
  <2>2. OwnLease(p)
      BY <1>29 DEF Login, OwnLease
  <2>3. QED
      BY <2>1, <2>2
<1>30. CASE Grant(p)
  <2>1. Local(p)
      BY <1>30, Domains
      DEF Grant, Local, SameAt, credVars, chainVars, sleepVars, flowVars, sideVars, enrichVars
  <2>2. OwnLease(p)
      BY <1>30 DEF Grant, Asking, OwnLease, CallersOf
  <2>3. QED
      BY <2>1, <2>2
<1>31. CASE WillSleep(p)
  <2>1. Local(p)
      BY <1>31, Domains
      DEF WillSleep, Local, SameAt, credVars, chainVars, sleepVars, flowVars, sideVars, enrichVars
  <2>2. OwnLease(p)
      BY <1>31 DEF WillSleep, OwnLease
  <2>3. QED
      BY <2>1, <2>2
<1>32. CASE AckDrained(p)
  <2>1. Local(p)
      BY <1>32, Domains
      DEF AckDrained, Local, SameAt, credVars, chainVars, sleepVars, flowVars, sideVars, enrichVars
  <2>2. OwnLease(p)
      BY <1>32 DEF AckDrained, OwnLease
  <2>3. QED
      BY <2>1, <2>2
<1>33. CASE AckForced(p)
  <2>1. Local(p)
      BY <1>33, Domains
      DEF AckForced, Local, SameAt, credVars, chainVars, sleepVars, flowVars, sideVars, enrichVars
  <2>2. OwnLease(p)
      BY <1>33 DEF AckForced, OwnLease
  <2>3. QED
      BY <2>1, <2>2
<1>34. CASE Wake(p)
  <2>1. Local(p)
      BY <1>34, Domains
      DEF Wake, Local, SameAt, credVars, chainVars, sleepVars, flowVars, sideVars, enrichVars
  <2>2. OwnLease(p)
      BY <1>34 DEF Wake, OwnLease
  <2>3. QED
      BY <2>1, <2>2
<1>35. CASE VerdictExpires(p)
  <2>1. Local(p)
      BY <1>35, Domains
      DEF VerdictExpires, Local, SameAt, credVars, chainVars, sleepVars, flowVars,
          sideVars, enrichVars
  <2>2. OwnLease(p)
      BY <1>35 DEF VerdictExpires, OwnLease
  <2>3. QED
      BY <2>1, <2>2
<1>36. CASE Crash(p)
  <2>1. Local(p)
      BY <1>36, Domains
      DEF Crash, Local, SameAt, credVars, chainVars, sleepVars, flowVars, sideVars, enrichVars
  <2>2. OwnLease(p)
      BY <1>36 DEF Crash, OwnLease, CallersOf
  <2>3. QED
      BY <2>1, <2>2
<1>37. CASE SaveStep(p)
  <2>1. Local(p)
    <3>1. CASE SaveUnlocked(p)
      <4>1. \A q \in Procs \ {p} : enrich'[q] = enrich[q] /\ enrichGen'[q] = enrichGen[q]
          BY <3>1, SpawnEffect DEF SaveUnlocked, enrichVars
      <4>2. QED
          BY <3>1, <4>1 DEF SaveUnlocked, Local, SameAt, chainVars, sleepVars, flowVars
    <3>2. CASE ~SaveUnlocked(p)
        BY <1>37, <3>2
        DEF SaveStep, Initialize, SetRetention, StoreApiKey, RetentionRefused, Local, SameAt,
            chainVars, sleepVars, flowVars, enrichVars
    <3>3. QED
        BY <3>1, <3>2
  <2>2. OwnLease(p)
      BY <1>37
      DEF SaveStep, Initialize, SetRetention, StoreApiKey, SaveUnlocked, RetentionRefused, OwnLease
  <2>3. QED
      BY <2>1, <2>2
<1>38. QED
    BY <1>1, <1>2, <1>3, <1>4, <1>5, <1>6, <1>7, <1>8, <1>9, <1>10, <1>11, <1>12, <1>13, <1>14,
       <1>15, <1>16, <1>17, <1>18, <1>19, <1>20, <1>21, <1>22, <1>23, <1>24, <1>25, <1>26,
       <1>27, <1>28, <1>29, <1>30, <1>31, <1>32, <1>33, <1>34, <1>35, <1>36, <1>37
    DEF ChainStep, FlowStep

\* What the steps of the exchange do to the refresh.
LEMMA SendEffect ==
    ASSUME Types, NEW p \in Procs, Send(p)
    PROVE  /\ run'[p].cut = run[p].cut /\ run'[p].tried = disk /\ run'[p].got = disk
           /\ \/ stage'[p] = "apply" /\ run'[p].reply = "success" /\ inflight'[p] = FALSE
              \/ stage'[p] = "wire" /\ inflight'[p] = inflight[p]
           /\ Excuse(p, disk)
<1>1. "success" \in Replies /\ run[p] \in Runs /\ disk \in Gens
    BY Copied, Names
<1>2. \A r \in Runs :
          LET n == [r EXCEPT !.reply = "success", !.tried = disk, !.got = disk] IN
          n.reply = "success" /\ n.tried = disk /\ n.got = disk /\ n.cut = r.cut
    BY <1>1 DEF Runs
<1>3. CASE /\ Outcome(p, [run[p] EXCEPT !.reply = "success", !.tried = disk, !.got = disk])
           /\ Excuse(p, disk)
  <2>1. run'[p] = [run[p] EXCEPT !.reply = "success", !.tried = disk, !.got = disk]
        /\ stage'[p] = "apply" /\ inflight'[p] = FALSE
      BY <1>3, OutcomeEffect
  <2>2. QED
      BY <1>1, <1>2, <1>3, <2>1
<1>4. CASE Exchange(p, disk, FALSE)
    BY <1>1, <1>4, ExchangeEffect DEF Exchange
<1>5. QED
    BY <1>3, <1>4 DEF Send, resolved

\* SendUnreadable: the cached token is sent and excused, or nothing is sent.
LEMMA UnreadableEffect ==
    ASSUME Types, NEW p \in Procs, SendUnreadable(p)
    PROVE  /\ run'[p].cut = run[p].cut
           /\ \/ /\ stage'[p] = "wire" /\ run'[p].tried = mem[p] /\ run'[p].got = mem[p]
                 /\ inflight'[p] = inflight[p] /\ excused' = excused \cup {mem[p]}
              \/ /\ stage'[p] = "apply" /\ run'[p].reply = "transient"
                 /\ inflight'[p] = FALSE /\ excused' = excused
<1>1. "transient" \in Replies /\ run[p] \in Runs /\ mem[p] \in Gens
    BY Copied, Names
<1>2. \A r \in Runs :
          LET n == [r EXCEPT !.tried = mem[p], !.got = mem[p], !.blind = TRUE] IN
          n.tried = mem[p] /\ n.got = mem[p] /\ n.cut = r.cut
    BY <1>1 DEF Runs
<1>3. \A r \in Runs :
          LET n == [r EXCEPT !.reply = "transient"] IN n.reply = "transient" /\ n.cut = r.cut
    BY <1>1 DEF Runs
<1>4. CASE /\ run' = [run EXCEPT ![p] = [@ EXCEPT !.tried = mem[p], !.got = mem[p], !.blind = TRUE]]
           /\ To(p, "wire") /\ excused' = excused \cup {mem[p]} /\ UNCHANGED inflight
  <2>1. run'[p] = [run[p] EXCEPT !.tried = mem[p], !.got = mem[p], !.blind = TRUE]
      BY <1>4, Domains
  <2>2. run'[p].tried = mem[p] /\ run'[p].got = mem[p] /\ run'[p].cut = run[p].cut
      BY <1>1, <1>2, <2>1
  <2>3. stage'[p] = "wire" /\ inflight'[p] = inflight[p]
      BY <1>4, ToEffect
  <2>4. QED
      BY <1>4, <2>2, <2>3
<1>5. CASE Outcome(p, [run[p] EXCEPT !.reply = "transient"]) /\ excused' = excused
  <2>1. run'[p] = [run[p] EXCEPT !.reply = "transient"]
        /\ stage'[p] = "apply" /\ inflight'[p] = FALSE
      BY <1>5, OutcomeEffect
  <2>2. QED
      BY <1>1, <1>3, <1>5, <2>1
<1>6. QED
    BY <1>4, <1>5 DEF SendUnreadable

\* IdpAnswers: the honoured token is rotated, or no credential comes back.
LEMMA AnswerEffect ==
    ASSUME Types, NEW p \in Procs, IdpAnswers(p)
    PROVE  /\ run'[p].cut = run[p].cut /\ run'[p].tried = run[p].tried
           /\ stage'[p] = "reply" /\ inflight'[p] = inflight[p]
           /\ \/ /\ run[p].tried = idp /\ idp' = idp + 1 /\ reused' = reused
                 /\ run'[p].reply = "ok" /\ run'[p].got = idp + 1
              \/ /\ idp' = idp
                 /\ run'[p].reply \in {"terminal", "failed"} /\ run'[p].got = run[p].got
<1>1. PICK x \in {"ok", "terminal", "failed"} :
          \/ /\ x = "ok" /\ run[p].tried = idp /\ idp < MaxGen /\ idp' = idp + 1 /\ reused' = reused
             /\ run' = [run EXCEPT ![p] = [@ EXCEPT !.reply = x, !.got = run[p].tried + 1]]
          \/ /\ x # "ok" /\ idp' = idp
             /\ run' = [run EXCEPT ![p] = [@ EXCEPT !.reply = x]]
    BY DEF IdpAnswers
<1>2. run[p] \in Runs /\ x \in Replies /\ idp \in Gens
    BY Copied, Names
<1>3. stage'[p] = "reply" /\ inflight'[p] = inflight[p]
    BY ToEffect DEF IdpAnswers, sleepVars
<1>4. CASE x # "ok" /\ idp' = idp /\ run' = [run EXCEPT ![p] = [@ EXCEPT !.reply = x]]
  <2>1. LET n == [run[p] EXCEPT !.reply = x] IN
        n.reply = x /\ n.tried = run[p].tried /\ n.got = run[p].got /\ n.cut = run[p].cut
      BY <1>2, RunReply
  <2>2. run'[p] = [run[p] EXCEPT !.reply = x]
      BY <1>4, Domains
  <2>3. QED
      BY <1>1, <1>3, <1>4, <2>1, <2>2
<1>5. CASE /\ x = "ok" /\ run[p].tried = idp /\ idp < MaxGen /\ idp' = idp + 1 /\ reused' = reused
           /\ run' = [run EXCEPT ![p] = [@ EXCEPT !.reply = x, !.got = run[p].tried + 1]]
  <2>1. PICK h \in Gens : h = idp + 1
      BY <1>2, <1>5 DEF Gens
  <2>2. \A r \in Runs :
            LET n == [r EXCEPT !.reply = x, !.got = h] IN
            n.reply = x /\ n.tried = r.tried /\ n.got = h /\ n.cut = r.cut
      BY <1>2 DEF Runs
  <2>3. run'[p] = [run[p] EXCEPT !.reply = x, !.got = h]
      BY <1>5, <2>1, Domains
  <2>4. /\ run'[p].reply = x /\ run'[p].tried = run[p].tried /\ run'[p].got = h
        /\ run'[p].cut = run[p].cut
      BY <1>2, <2>2, <2>3
  <2>5. QED
      BY <1>3, <1>5, <2>1, <2>4
<1>6. QED
    BY <1>1, <1>4, <1>5

\* ReplySuccess: the new credential is to be written.
LEMMA SuccessEffect ==
    ASSUME Types, NEW p \in Procs, ReplySuccess(p)
    PROVE  /\ stage'[p] = "apply" /\ inflight'[p] = FALSE
           /\ run'[p].reply = "success" /\ run'[p].tried = run[p].tried
           /\ run'[p].got = run[p].got /\ run'[p].cut = run[p].cut
<1>1. "success" \in Replies /\ run[p] \in Runs
    BY Copied, Names
<1>2. \A r \in Runs :
          LET n == [r EXCEPT !.reply = "success"] IN
          n.reply = "success" /\ n.tried = r.tried /\ n.got = r.got /\ n.cut = r.cut
    BY <1>1 DEF Runs
<1>3. /\ run'[p] = [run[p] EXCEPT !.reply = "success"]
      /\ stage'[p] = "apply" /\ inflight'[p] = FALSE
    BY OutcomeEffect DEF ReplySuccess
<1>4. QED
    BY <1>1, <1>2, <1>3

\* ReplyTerminal: the disk has a token to take or to send, or the verdict is sticky.
LEMMA TerminalEffect ==
    ASSUME Types, NEW p \in Procs, ReplyTerminal(p)
    PROVE  /\ run'[p].cut = run[p].cut
           /\ \/ /\ stage'[p] = "apply" /\ run'[p].reply = "success" /\ run'[p].got = disk
                 /\ inflight'[p] = FALSE /\ Excuse(p, disk)
              \/ /\ stage'[p] = "wire" /\ run'[p].tried = disk /\ run'[p].got = disk
                 /\ inflight'[p] = inflight[p] /\ Excuse(p, disk)
              \/ /\ stage'[p] = "apply" /\ run'[p].reply = "sticky"
                 /\ inflight'[p] = FALSE /\ excused' = excused
<1>1. "success" \in Replies /\ "sticky" \in Replies /\ run[p] \in Runs /\ disk \in Gens
    BY Copied, Names
<1>2. \A r \in Runs :
          LET n == [r EXCEPT !.reply = "success", !.got = disk] IN
          n.reply = "success" /\ n.got = disk /\ n.cut = r.cut
    BY <1>1 DEF Runs
<1>3. \A r \in Runs :
          LET n == [r EXCEPT !.reply = "sticky"] IN n.reply = "sticky" /\ n.cut = r.cut
    BY <1>1 DEF Runs
<1>4. CASE Outcome(p, [run[p] EXCEPT !.reply = "success", !.got = disk]) /\ Excuse(p, disk)
  <2>1. /\ run'[p] = [run[p] EXCEPT !.reply = "success", !.got = disk]
        /\ stage'[p] = "apply" /\ inflight'[p] = FALSE
      BY <1>4, OutcomeEffect
  <2>2. QED
      BY <1>1, <1>2, <1>4, <2>1
<1>5. CASE Exchange(p, disk, TRUE)
    BY <1>1, <1>5, ExchangeEffect DEF Exchange
<1>6. CASE Outcome(p, [run[p] EXCEPT !.reply = "sticky"]) /\ excused' = excused
  <2>1. /\ run'[p] = [run[p] EXCEPT !.reply = "sticky"]
        /\ stage'[p] = "apply" /\ inflight'[p] = FALSE
      BY <1>6, OutcomeEffect
  <2>2. QED
      BY <1>1, <1>3, <1>6, <2>1
<1>7. QED
    BY <1>4, <1>5, <1>6 DEF ReplyTerminal

\* ReplyFailed and ReplyLost: there is nothing to write, or the token is sent again.
LEMMA BlipEffect ==
    ASSUME Types, NEW p \in Procs, ReplyFailed(p) \/ ReplyLost(p)
    PROVE  /\ run'[p].cut = run[p].cut /\ run'[p].tried = run[p].tried
           /\ \/ /\ stage'[p] = "apply" /\ inflight'[p] = FALSE
                 /\ run'[p].reply \in {"transient", "other"}
              \/ /\ stage'[p] = "wire" /\ inflight'[p] = inflight[p]
                 /\ run'[p].got = run[p].tried
<1>1. CASE Again(p)
    BY <1>1, AgainEffect
<1>2. CASE record_transient_failure(p)
  <2>1. PICK x \in {"transient", "other"} : Outcome(p, [run[p] EXCEPT !.reply = x])
      BY <1>2, TransientEffect
  <2>2. x \in Replies /\ run[p] \in Runs
      BY Copied DEF Replies
  <2>3. \A r \in Runs :
            LET n == [r EXCEPT !.reply = x] IN n.reply = x /\ n.cut = r.cut /\ n.tried = r.tried
      BY <2>2 DEF Runs
  <2>4. /\ run'[p] = [run[p] EXCEPT !.reply = x]
        /\ stage'[p] = "apply" /\ inflight'[p] = FALSE
      BY <2>1, OutcomeEffect
  <2>5. QED
      BY <2>2, <2>3, <2>4
<1>3. QED
    BY <1>1, <1>2 DEF ReplyFailed, ReplyLost

\* Every step keeps what is known of the lock, the slot and the gate.
LEMMA LockLocal ==
    ASSUME Types, LockInv, NEW p \in Procs,
           \/ \E reason \in Reasons : Call(p, reason)
           \/ ChainStep(p)
           \/ SendUnreadable(p) \/ ReplyLost(p) \/ ApplyPersistFails(p)
           \/ EnrichLocked(p) \/ EnrichRead(p) \/ EnrichWrite(p) \/ EnrichFails(p)
           \/ FlowStart(p) \/ FlowStep(p) \/ SaveStep(p) \/ Login(p)
           \/ Grant(p)
           \/ WillSleep(p) \/ AckDrained(p) \/ AckForced(p) \/ Wake(p)
           \/ VerdictExpires(p) \/ Crash(p)
    PROVE  LockAt(p)'
<1> DEFINE Quiet ==
            /\ UNCHANGED leaseVars
            /\ stage'[p] = stage[p] /\ run'[p].cut = run[p].cut
            /\ flow'[p] = "off" => flow[p] = "off"
            /\ enrich'[p] = "off" => enrich[p] = "off"
            /\ inflight'[p] = inflight[p] /\ gate'[p] = gate[p] /\ sleeper'[p] = sleeper[p]
<1>0. /\ GuardAt(p) /\ SlotAt(p) /\ OwnAt(p)
      /\ Task[p] # Flow[p] /\ Task[p] # Enrich[p] /\ Flow[p] # Enrich[p]
      /\ Task[p] # None
    BY Distinct DEF LockInv, LockAt
<1>q. Quiet => LockAt(p)'
    BY <1>0 DEF LockAt, GuardAt, SlotAt, OwnAt, leaseVars
<1>d. \A c \in CallersOf(p) : DropGuard(c) \/ DropIfHeld(c) =>
          holders' = holders \ {c} /\ (owner' = owner \/ owner = c)
    BY DropIsOwn
<1>c. Task[p] \in CallersOf(p) /\ Flow[p] \in CallersOf(p) /\ Enrich[p] \in CallersOf(p)
    BY DEF CallersOf
<1>1. ASSUME NEW reason \in Reasons, Call(p, reason)
      PROVE  LockAt(p)'
    BY <1>1, <1>q DEF Call, sleepVars, flowVars, sideVars, enrichVars
<1>2. CASE Enter(p)
  <2>1. GuardAt(p)'
      BY <1>2, <1>0, <1>d, <1>c, Domains, ToEffect, NoRunType
      DEF Enter, GuardAt, Holding, Past, leaseVars, chainVars, flowVars, sideVars, enrichVars
  <2>2. SlotAt(p)'
      BY <1>2, <1>0, Domains, ToEffect, NoRunType
      DEF Enter, SlotAt, Slotted, chainVars, sleepVars
  <2>3. OwnAt(p)'
      BY <1>2, <1>0, <1>d, <1>c, Domains, ToEffect, NoRunType
      DEF Enter, OwnAt, Past, leaseVars, chainVars
  <2>4. QED
      BY <2>1, <2>2, <2>3 DEF LockAt
<1>3. CASE LockHeld(p)
  <2>1. GuardAt(p)'
      BY <1>3, <1>0, <1>d, <1>c, Domains, FinishEffect, ToEffect
      DEF LockHeld, GuardAt, Holding, Past, leaseVars, chainVars, flowVars, sideVars, enrichVars
  <2>2. SlotAt(p)'
      BY <1>3, <1>0, Domains, FinishEffect, ToEffect
      DEF LockHeld, SlotAt, Slotted, chainVars, sleepVars
  <2>3. OwnAt(p)'
      BY <1>3, <1>0, <1>d, <1>c, Domains, FinishEffect, ToEffect
      DEF LockHeld, OwnAt, Past, leaseVars, chainVars
  <2>4. QED
      BY <2>1, <2>2, <2>3 DEF LockAt
<1>4. CASE LockRefused(p)
  <2>1. GuardAt(p)'
      BY <1>4, <1>0, <1>d, <1>c, Domains, FinishEffect
      DEF LockRefused, GuardAt, Holding, Past, leaseVars, chainVars, flowVars, sideVars, enrichVars
  <2>2. SlotAt(p)'
      BY <1>4, <1>0, Domains, FinishEffect
      DEF LockRefused, SlotAt, Slotted, chainVars, sleepVars
  <2>3. OwnAt(p)'
      BY <1>4, <1>0, <1>d, <1>c, Domains, FinishEffect
      DEF LockRefused, OwnAt, Past, leaseVars, chainVars
  <2>4. QED
      BY <2>1, <2>2, <2>3 DEF LockAt
<1>5. CASE Defer(p)
  <2>1. GuardAt(p)'
      BY <1>5, <1>0, <1>d, <1>c, Domains, FinishEffect
      DEF Defer, GuardAt, Holding, Past, leaseVars, chainVars, flowVars, sideVars, enrichVars
  <2>2. SlotAt(p)'
      BY <1>5, <1>0, Domains, FinishEffect
      DEF Defer, SlotAt, Slotted, chainVars, sleepVars
  <2>3. OwnAt(p)'
      BY <1>5, <1>0, <1>d, <1>c, Domains, FinishEffect
      DEF Defer, OwnAt, Past, leaseVars, chainVars
  <2>4. QED
      BY <2>1, <2>2, <2>3 DEF LockAt
<1>6. CASE Revalidate(p)
  <2>1. GuardAt(p)'
      BY <1>6, <1>0, <1>d, <1>c, Domains, ToEffect
      DEF Revalidate, still_live, GuardAt, Holding, Past, leaseVars, chainVars, flowVars,
          sideVars, enrichVars
  <2>2. SlotAt(p)'
      BY <1>6, <1>0, Domains, ToEffect
      DEF Revalidate, still_live, SlotAt, Slotted, chainVars, sleepVars
  <2>3. OwnAt(p)'
      BY <1>6, <1>0, <1>d, <1>c, Domains, ToEffect
      DEF Revalidate, still_live, OwnAt, Past, leaseVars, chainVars
  <2>4. QED
      BY <2>1, <2>2, <2>3 DEF LockAt
<1>7. CASE RelockHeld(p)
  <2>1. GuardAt(p)'
      BY <1>7, <1>0, <1>d, <1>c, Domains, FinishEffect, ToEffect
      DEF RelockHeld, GuardAt, Holding, Past, leaseVars, chainVars, flowVars, sideVars, enrichVars
  <2>2. SlotAt(p)'
      BY <1>7, <1>0, Domains, FinishEffect, ToEffect
      DEF RelockHeld, SlotAt, Slotted, chainVars, sleepVars
  <2>3. OwnAt(p)'
      BY <1>7, <1>0, <1>d, <1>c, Domains, FinishEffect, ToEffect
      DEF RelockHeld, OwnAt, Past, leaseVars, chainVars
  <2>4. QED
      BY <2>1, <2>2, <2>3 DEF LockAt
<1>8. CASE RelockRefused(p)
  <2>1. GuardAt(p)'
      BY <1>8, <1>0, <1>d, <1>c, Domains, FinishEffect
      DEF RelockRefused, GuardAt, Holding, Past, leaseVars, chainVars, flowVars, sideVars, enrichVars
  <2>2. SlotAt(p)'
      BY <1>8, <1>0, Domains, FinishEffect
      DEF RelockRefused, SlotAt, Slotted, chainVars, sleepVars
  <2>3. OwnAt(p)'
      BY <1>8, <1>0, <1>d, <1>c, Domains, FinishEffect
      DEF RelockRefused, OwnAt, Past, leaseVars, chainVars
  <2>4. QED
      BY <2>1, <2>2, <2>3 DEF LockAt
<1>9. CASE ClaimSlot(p)
  <2>1. GuardAt(p)'
      BY <1>9, <1>0, <1>d, <1>c, Domains, ToEffect
      DEF ClaimSlot, GuardAt, Holding, Past, leaseVars, chainVars, flowVars, sideVars, enrichVars
  <2>2. SlotAt(p)'
      BY <1>9, <1>0, Domains, ToEffect
      DEF ClaimSlot, SlotAt, Slotted, chainVars, sleepVars
  <2>3. OwnAt(p)'
      BY <1>9, <1>0, <1>d, <1>c, Domains, ToEffect
      DEF ClaimSlot, OwnAt, Past, leaseVars, chainVars
  <2>4. QED
      BY <2>1, <2>2, <2>3 DEF LockAt
<1>10. CASE BackOut(p)
  <2>1. GuardAt(p)'
      BY <1>10, <1>0, <1>d, <1>c, Domains, FinishEffect
      DEF BackOut, GuardAt, Holding, Past, leaseVars, chainVars, flowVars, sideVars, enrichVars
  <2>2. SlotAt(p)'
      BY <1>10, <1>0, Domains, FinishEffect
      DEF BackOut, SlotAt, Slotted, chainVars, sleepVars
  <2>3. OwnAt(p)'
      BY <1>10, <1>0, <1>d, <1>c, Domains, FinishEffect
      DEF BackOut, OwnAt, Past, leaseVars, chainVars
  <2>4. QED
      BY <2>1, <2>2, <2>3 DEF LockAt
<1>11. CASE Send(p)
  <2>1. GuardAt(p)'
      BY <1>11, <1>0, <1>d, <1>c, Domains, SendEffect
      DEF Send, GuardAt, Holding, Past, leaseVars, chainVars, flowVars, sideVars, enrichVars
  <2>2. SlotAt(p)'
      BY <1>11, <1>0, Domains, SendEffect
      DEF Send, SlotAt, Slotted, chainVars, sleepVars
  <2>3. OwnAt(p)'
      BY <1>11, <1>0, <1>d, <1>c, Domains, SendEffect
      DEF Send, OwnAt, Past, leaseVars, chainVars
  <2>4. QED
      BY <2>1, <2>2, <2>3 DEF LockAt
<1>12. CASE SendUnreadable(p)
  <2>1. GuardAt(p)'
      BY <1>12, <1>0, <1>d, <1>c, Domains, UnreadableEffect
      DEF SendUnreadable, GuardAt, Holding, Past, leaseVars, chainVars, flowVars, sideVars, enrichVars
  <2>2. SlotAt(p)'
      BY <1>12, <1>0, Domains, UnreadableEffect
      DEF SendUnreadable, SlotAt, Slotted, chainVars, sleepVars
  <2>3. OwnAt(p)'
      BY <1>12, <1>0, <1>d, <1>c, Domains, UnreadableEffect
      DEF SendUnreadable, OwnAt, Past, leaseVars, chainVars
  <2>4. QED
      BY <2>1, <2>2, <2>3 DEF LockAt
<1>13. CASE IdpAnswers(p)
  <2>1. GuardAt(p)'
      BY <1>13, <1>0, <1>d, <1>c, Domains, AnswerEffect
      DEF IdpAnswers, GuardAt, Holding, Past, leaseVars, chainVars, flowVars, sideVars, enrichVars
  <2>2. SlotAt(p)'
      BY <1>13, <1>0, Domains, AnswerEffect
      DEF IdpAnswers, SlotAt, Slotted, chainVars, sleepVars
  <2>3. OwnAt(p)'
      BY <1>13, <1>0, <1>d, <1>c, Domains, AnswerEffect
      DEF IdpAnswers, OwnAt, Past, leaseVars, chainVars
  <2>4. QED
      BY <2>1, <2>2, <2>3 DEF LockAt
<1>14. CASE ReplySuccess(p)
  <2>1. GuardAt(p)'
      BY <1>14, <1>0, <1>d, <1>c, Domains, SuccessEffect
      DEF ReplySuccess, GuardAt, Holding, Past, leaseVars, chainVars, flowVars, sideVars, enrichVars
  <2>2. SlotAt(p)'
      BY <1>14, <1>0, Domains, SuccessEffect
      DEF ReplySuccess, SlotAt, Slotted, chainVars, sleepVars
  <2>3. OwnAt(p)'
      BY <1>14, <1>0, <1>d, <1>c, Domains, SuccessEffect
      DEF ReplySuccess, OwnAt, Past, leaseVars, chainVars
  <2>4. QED
      BY <2>1, <2>2, <2>3 DEF LockAt
<1>15. CASE ReplyTerminal(p)
  <2>1. GuardAt(p)'
      BY <1>15, <1>0, <1>d, <1>c, Domains, TerminalEffect
      DEF ReplyTerminal, GuardAt, Holding, Past, leaseVars, chainVars, flowVars, sideVars, enrichVars
  <2>2. SlotAt(p)'
      BY <1>15, <1>0, Domains, TerminalEffect
      DEF ReplyTerminal, SlotAt, Slotted, chainVars, sleepVars
  <2>3. OwnAt(p)'
      BY <1>15, <1>0, <1>d, <1>c, Domains, TerminalEffect
      DEF ReplyTerminal, OwnAt, Past, leaseVars, chainVars
  <2>4. QED
      BY <2>1, <2>2, <2>3 DEF LockAt
<1>16. CASE ReplyFailed(p)
  <2>1. GuardAt(p)'
      BY <1>16, <1>0, <1>d, <1>c, Domains, BlipEffect
      DEF ReplyFailed, GuardAt, Holding, Past, leaseVars, chainVars, flowVars, sideVars, enrichVars
  <2>2. SlotAt(p)'
      BY <1>16, <1>0, Domains, BlipEffect
      DEF ReplyFailed, SlotAt, Slotted, chainVars, sleepVars
  <2>3. OwnAt(p)'
      BY <1>16, <1>0, <1>d, <1>c, Domains, BlipEffect
      DEF ReplyFailed, OwnAt, Past, leaseVars, chainVars
  <2>4. QED
      BY <2>1, <2>2, <2>3 DEF LockAt
<1>17. CASE ReplyLost(p)
  <2>1. GuardAt(p)'
      BY <1>17, <1>0, <1>d, <1>c, Domains, BlipEffect
      DEF ReplyLost, GuardAt, Holding, Past, leaseVars, chainVars, flowVars, sideVars, enrichVars
  <2>2. SlotAt(p)'
      BY <1>17, <1>0, Domains, BlipEffect
      DEF ReplyLost, SlotAt, Slotted, chainVars, sleepVars
  <2>3. OwnAt(p)'
      BY <1>17, <1>0, <1>d, <1>c, Domains, BlipEffect
      DEF ReplyLost, OwnAt, Past, leaseVars, chainVars
  <2>4. QED
      BY <2>1, <2>2, <2>3 DEF LockAt
<1>18. CASE ApplySuccess(p)
  <2>1. GuardAt(p)'
      BY <1>18, <1>0, <1>d, <1>c, Domains, FinishEffect, SpawnEffect
      DEF ApplySuccess, GuardAt, Holding, Past, leaseVars, chainVars, flowVars, sideVars, enrichVars
  <2>2. SlotAt(p)'
      BY <1>18, <1>0, Domains, FinishEffect, SpawnEffect
      DEF ApplySuccess, SlotAt, Slotted, chainVars, sleepVars
  <2>3. OwnAt(p)'
      BY <1>18, <1>0, <1>d, <1>c, Domains, FinishEffect, SpawnEffect
      DEF ApplySuccess, OwnAt, Past, leaseVars, chainVars
  <2>4. QED
      BY <2>1, <2>2, <2>3 DEF LockAt
<1>19. CASE ApplyPersistFails(p)
  <2>1. GuardAt(p)'
      BY <1>19, <1>0, <1>d, <1>c, Domains, FinishEffect, SpawnEffect
      DEF ApplyPersistFails, GuardAt, Holding, Past, leaseVars, chainVars, flowVars,
          sideVars, enrichVars
  <2>2. SlotAt(p)'
      BY <1>19, <1>0, Domains, FinishEffect, SpawnEffect
      DEF ApplyPersistFails, SlotAt, Slotted, chainVars, sleepVars
  <2>3. OwnAt(p)'
      BY <1>19, <1>0, <1>d, <1>c, Domains, FinishEffect, SpawnEffect
      DEF ApplyPersistFails, OwnAt, Past, leaseVars, chainVars
  <2>4. QED
      BY <2>1, <2>2, <2>3 DEF LockAt
<1>20. CASE ApplyPermanent(p)
  <2>1. GuardAt(p)'
      BY <1>20, <1>0, <1>d, <1>c, Domains, FinishEffect
      DEF ApplyPermanent, GuardAt, Holding, Past, leaseVars, chainVars, flowVars, sideVars, enrichVars
  <2>2. SlotAt(p)'
      BY <1>20, <1>0, Domains, FinishEffect
      DEF ApplyPermanent, SlotAt, Slotted, chainVars, sleepVars
  <2>3. OwnAt(p)'
      BY <1>20, <1>0, <1>d, <1>c, Domains, FinishEffect
      DEF ApplyPermanent, OwnAt, Past, leaseVars, chainVars
  <2>4. QED
      BY <2>1, <2>2, <2>3 DEF LockAt
<1>21. CASE ApplyTransient(p)
  <2>1. GuardAt(p)'
      BY <1>21, <1>0, <1>d, <1>c, Domains, FinishEffect
      DEF ApplyTransient, GuardAt, Holding, Past, leaseVars, chainVars, flowVars, sideVars, enrichVars
  <2>2. SlotAt(p)'
      BY <1>21, <1>0, Domains, FinishEffect
      DEF ApplyTransient, SlotAt, Slotted, chainVars, sleepVars
  <2>3. OwnAt(p)'
      BY <1>21, <1>0, <1>d, <1>c, Domains, FinishEffect
      DEF ApplyTransient, OwnAt, Past, leaseVars, chainVars
  <2>4. QED
      BY <2>1, <2>2, <2>3 DEF LockAt
<1>22. CASE EnrichLocked(p)
    BY <1>22, <1>q, Domains DEF EnrichLocked, chainVars, sleepVars, flowVars, sideVars, enrichVars
<1>23. CASE EnrichRead(p)
  <2>1. GuardAt(p)'
      BY <1>23, <1>0, <1>d, <1>c, Domains
      DEF EnrichRead, GuardAt, Holding, Past, leaseVars, chainVars, flowVars, sideVars, enrichVars
  <2>2. SlotAt(p)'
      BY <1>23, <1>0, Domains
      DEF EnrichRead, SlotAt, Slotted, chainVars, sleepVars
  <2>3. OwnAt(p)'
      BY <1>23, <1>0, <1>d, <1>c, Domains
      DEF EnrichRead, OwnAt, Past, leaseVars, chainVars
  <2>4. QED
      BY <2>1, <2>2, <2>3 DEF LockAt
<1>24. CASE EnrichWrite(p)
  <2>1. GuardAt(p)'
      BY <1>24, <1>0, <1>d, <1>c, Domains
      DEF EnrichWrite, GuardAt, Holding, Past, leaseVars, chainVars, flowVars, sideVars, enrichVars
  <2>2. SlotAt(p)'
      BY <1>24, <1>0, Domains
      DEF EnrichWrite, SlotAt, Slotted, chainVars, sleepVars
  <2>3. OwnAt(p)'
      BY <1>24, <1>0, <1>d, <1>c, Domains
      DEF EnrichWrite, OwnAt, Past, leaseVars, chainVars
  <2>4. QED
      BY <2>1, <2>2, <2>3 DEF LockAt
<1>25. CASE EnrichFails(p)
  <2>1. GuardAt(p)'
      BY <1>25, <1>0, <1>d, <1>c, Domains
      DEF EnrichFails, GuardAt, Holding, Past, leaseVars, chainVars, flowVars, sideVars, enrichVars
  <2>2. SlotAt(p)'
      BY <1>25, <1>0, Domains
      DEF EnrichFails, SlotAt, Slotted, chainVars, sleepVars
  <2>3. OwnAt(p)'
      BY <1>25, <1>0, <1>d, <1>c, Domains
      DEF EnrichFails, OwnAt, Past, leaseVars, chainVars
  <2>4. QED
      BY <2>1, <2>2, <2>3 DEF LockAt
<1>26. CASE FlowStart(p)
    BY <1>26, <1>q, Domains DEF FlowStart, chainVars, sleepVars, flowVars, sideVars, enrichVars
<1>27. CASE FlowLocked(p)
  <2>1. GuardAt(p)'
      BY <1>27, <1>0, <1>d, <1>c, Domains
      DEF FlowLocked, GuardAt, Holding, Past, leaseVars, chainVars, flowVars, sideVars, enrichVars
  <2>2. SlotAt(p)'
      BY <1>27, <1>0, Domains
      DEF FlowLocked, SlotAt, Slotted, chainVars, sleepVars
  <2>3. OwnAt(p)'
      BY <1>27, <1>0, <1>d, <1>c, Domains
      DEF FlowLocked, OwnAt, Past, leaseVars, chainVars
  <2>4. QED
      BY <2>1, <2>2, <2>3 DEF LockAt
<1>28. CASE FlowEnd(p)
  <2>1. GuardAt(p)'
      BY <1>28, <1>0, <1>d, <1>c, Domains
      DEF FlowEnd, GuardAt, Holding, Past, leaseVars, chainVars, flowVars, sideVars, enrichVars
  <2>2. SlotAt(p)'
      BY <1>28, <1>0, Domains
      DEF FlowEnd, SlotAt, Slotted, chainVars, sleepVars
  <2>3. OwnAt(p)'
      BY <1>28, <1>0, <1>d, <1>c, Domains
      DEF FlowEnd, OwnAt, Past, leaseVars, chainVars
  <2>4. QED
      BY <2>1, <2>2, <2>3 DEF LockAt
<1>29. CASE Login(p)
    BY <1>29, <1>q, Domains, SpawnEffect DEF Login, chainVars, sleepVars, flowVars,
        sideVars, enrichVars
<1>30. CASE Grant(p)
  <2>1. GuardAt(p)'
      BY <1>30, <1>0, <1>d, <1>c, Domains
      DEF Grant, Asking, Acquire, GuardAt, Holding, Past, leaseVars, chainVars, flowVars,
          sideVars, enrichVars
  <2>2. SlotAt(p)'
      BY <1>30, <1>0, Domains
      DEF Grant, Asking, Acquire, SlotAt, Slotted, chainVars, sleepVars
  <2>3. OwnAt(p)'
      BY <1>30, <1>0, <1>d, <1>c, Domains
      DEF Grant, Asking, Acquire, OwnAt, Past, leaseVars, chainVars
  <2>4. QED
      BY <2>1, <2>2, <2>3 DEF LockAt
<1>31. CASE WillSleep(p)
  <2>1. GuardAt(p)'
      BY <1>31, <1>0, <1>d, <1>c, Domains
      DEF WillSleep, GuardAt, Holding, Past, leaseVars, chainVars, flowVars, sideVars, enrichVars
  <2>2. SlotAt(p)'
      BY <1>31, <1>0, Domains
      DEF WillSleep, SlotAt, Slotted, chainVars, sleepVars
  <2>3. OwnAt(p)'
      BY <1>31, <1>0, <1>d, <1>c, Domains
      DEF WillSleep, OwnAt, Past, leaseVars, chainVars
  <2>4. QED
      BY <2>1, <2>2, <2>3 DEF LockAt
<1>32. CASE AckDrained(p)
  <2>1. GuardAt(p)'
      BY <1>32, <1>0, <1>d, <1>c, Domains
      DEF AckDrained, GuardAt, Holding, Past, leaseVars, chainVars, flowVars, sideVars, enrichVars
  <2>2. SlotAt(p)'
      BY <1>32, <1>0, Domains
      DEF AckDrained, SlotAt, Slotted, chainVars, sleepVars
  <2>3. OwnAt(p)'
      BY <1>32, <1>0, <1>d, <1>c, Domains
      DEF AckDrained, OwnAt, Past, leaseVars, chainVars
  <2>4. QED
      BY <2>1, <2>2, <2>3 DEF LockAt
<1>33. CASE AckForced(p)
  <2>1. GuardAt(p)'
      BY <1>33, <1>0, <1>d, <1>c, Domains
      DEF AckForced, GuardAt, Holding, Past, leaseVars, chainVars, flowVars, sideVars, enrichVars
  <2>2. SlotAt(p)'
      BY <1>33, <1>0, Domains
      DEF AckForced, SlotAt, Slotted, chainVars, sleepVars
  <2>3. OwnAt(p)'
      BY <1>33, <1>0, <1>d, <1>c, Domains
      DEF AckForced, OwnAt, Past, leaseVars, chainVars
  <2>4. QED
      BY <2>1, <2>2, <2>3 DEF LockAt
<1>34. CASE Wake(p)
  <2>1. GuardAt(p)'
      BY <1>34, <1>0, <1>d, <1>c, Domains
      DEF Wake, GuardAt, Holding, Past, leaseVars, chainVars, flowVars, sideVars, enrichVars
  <2>2. SlotAt(p)'
      BY <1>34, <1>0, Domains
      DEF Wake, SlotAt, Slotted, chainVars, sleepVars
  <2>3. OwnAt(p)'
      BY <1>34, <1>0, <1>d, <1>c, Domains
      DEF Wake, OwnAt, Past, leaseVars, chainVars
  <2>4. QED
      BY <2>1, <2>2, <2>3 DEF LockAt
<1>35. CASE VerdictExpires(p)
    BY <1>35, <1>q, Domains DEF VerdictExpires, chainVars, sleepVars, flowVars, sideVars, enrichVars
<1>36. CASE Crash(p)
  <2>1. GuardAt(p)'
      BY <1>36, <1>0, <1>d, <1>c, Domains, NoRunType
      DEF Crash, Release, GuardAt, Holding, Past, leaseVars, chainVars, flowVars, sideVars, enrichVars
  <2>2. SlotAt(p)'
      BY <1>36, <1>0, Domains, NoRunType
      DEF Crash, Release, SlotAt, Slotted, chainVars, sleepVars
  <2>3. OwnAt(p)'
      BY <1>36, <1>0, <1>d, <1>c, Domains, NoRunType
      DEF Crash, Release, OwnAt, Past, leaseVars, chainVars
  <2>4. QED
      BY <2>1, <2>2, <2>3 DEF LockAt
<1>37. CASE SaveStep(p)
  <2>1. CASE SaveUnlocked(p)
    <3>1. enrich'[p] = "off" => enrich[p] = "off"
        BY <2>1, SpawnEffect DEF SaveUnlocked, enrichVars
    <3>2. QED
        BY <1>q, <2>1, <3>1 DEF SaveUnlocked, chainVars, sleepVars, flowVars
  <2>2. CASE ~SaveUnlocked(p)
      BY <1>37, <1>q, <2>2
      DEF SaveStep, Initialize, SetRetention, StoreApiKey, RetentionRefused, chainVars, sleepVars,
          flowVars, enrichVars
  <2>3. QED
      BY <2>1, <2>2
<1>38. QED
    BY <1>1, <1>2, <1>3, <1>4, <1>5, <1>6, <1>7, <1>8, <1>9, <1>10, <1>11, <1>12, <1>13, <1>14,
       <1>15, <1>16, <1>17, <1>18, <1>19, <1>20, <1>21, <1>22, <1>23, <1>24, <1>25, <1>26,
       <1>27, <1>28, <1>29, <1>30, <1>31, <1>32, <1>33, <1>34, <1>35, <1>36, <1>37
    DEF ChainStep, FlowStep

\* A broken lock is no longer owned, and the refreshes past their last look are cut.
LEMMA BreakEffect ==
    ASSUME Types, Break, NEW p \in Procs
    PROVE  /\ stage'[p] = stage[p]
           /\ run'[p].tried = run[p].tried /\ run'[p].got = run[p].got
           /\ run'[p].reply = run[p].reply
           /\ run'[p].cut <=> run[p].cut \/ (owner = Task[p] /\ stage[p] \in PastRevalidation)
<1>1. PICK b \in BOOLEAN : b = (run[p].cut \/ (owner = Task[p] /\ stage[p] \in PastRevalidation))
    BY Copied
<1>2. \A r \in Runs :
          LET n == [r EXCEPT !.cut = b] IN
          n.tried = r.tried /\ n.got = r.got /\ n.reply = r.reply /\ n.cut = b
    BY DEF Runs
<1>3. run'[p] = [run[p] EXCEPT !.cut = b]
    BY <1>1 DEF Break
<1>4. run[p] \in Runs /\ stage'[p] = stage[p]
    BY Copied DEF Break
<1>5. /\ run'[p].tried = run[p].tried /\ run'[p].got = run[p].got
      /\ run'[p].reply = run[p].reply /\ run'[p].cut = b
    BY <1>2, <1>3, <1>4
<1>6. QED
    BY <1>1, <1>4, <1>5

\* Breaking the lock keeps the lock invariant: the refreshes that relied on it are cut.
LEMMA LockBreak ==
    ASSUME Types, LockInv, Break
    PROVE  LockInv'
<1>1. OwnerInv'
    BY DEF Break, Revoke, OwnerInv
<1>2. ASSUME NEW p \in Procs PROVE LockAt(p)'
  <2>1. GuardAt(p) /\ SlotAt(p) /\ OwnAt(p)
      BY DEF LockInv, LockAt
  <2>2. GuardAt(p)'
      BY <2>1, BreakEffect DEF Break, Revoke, GuardAt, flowVars, sideVars, enrichVars
  <2>3. SlotAt(p)'
      BY <2>1, BreakEffect DEF Break, SlotAt, sleepVars
  <2>4. OwnAt(p)'
      BY <2>1, BreakEffect DEF Break, Revoke, OwnAt, Past, PastRevalidation
  <2>5. QED
      BY <2>2, <2>3, <2>4 DEF LockAt
<1>3. QED
    BY <1>1, <1>2 DEF LockInv

\* So does a step that leaves the lock, the refreshes and the gates alone.
LEMMA LockSame ==
    ASSUME LockInv, UNCHANGED <<leaseVars, chainVars, sleepVars, flowVars, sideVars>>
    PROVE  LockInv'
<1>1. OwnerInv'
    BY DEF LockInv, OwnerInv, leaseVars
<1>2. ASSUME NEW p \in Procs PROVE LockAt(p)'
    BY DEF LockInv, LockAt, GuardAt, SlotAt, OwnAt, leaseVars, chainVars, sleepVars, flowVars,
           sideVars, enrichVars
<1>3. QED
    BY <1>1, <1>2 DEF LockInv

\* Every step keeps the lock invariant.
LEMMA LockStep == TypeOK /\ LockInv /\ [Next]_vars => LockInv'
<1> SUFFICES ASSUME Types, LockInv, [Next]_vars PROVE LockInv'
    BY TypeGroups
<1>1. CASE UNCHANGED vars
    BY <1>1, LockSame DEF vars
<1>2. CASE Break
    BY <1>2, LockBreak
<1>3. CASE Expire
    BY <1>3, LockSame DEF Expire
<1>4. CASE Next /\ ~Break /\ ~Expire
    BY <1>4, LocalStep, LockLocal, LocalLock DEF Next
<1>5. QED
    BY <1>1, <1>2, <1>3, <1>4

\* The lock invariant holds at the start.
LEMMA LockInit == Init => LockInv
<1> SUFFICES ASSUME Init PROVE LockInv
    OBVIOUS
<1>1. OwnerInv
    BY DEF Init, LeaseInit, OwnerInv
<1>2. ASSUME NEW p \in Procs PROVE LockAt(p)
  <2>1. /\ stage[p] = "idle" /\ flow[p] = "off" /\ enrich[p] = "off" /\ holders = {}
        /\ inflight[p] = FALSE /\ gate[p] = FALSE /\ sleeper[p] = "awake"
      BY DEF Init, LeaseInit
  <2>2. QED
      BY <2>1 DEF LockAt, GuardAt, SlotAt, OwnAt, Holding, Past, Slotted
<1>3. QED
    BY <1>1, <1>2 DEF LockInv

\* The lock invariant holds in every state.
THEOREM RefreshLock == Spec => [](TypeOK /\ LockInv)
<1>1. Init => TypeOK /\ LockInv
    BY TypeInit, LockInit
<1>2. (TypeOK /\ LockInv) /\ [Next]_vars => (TypeOK /\ LockInv)'
    BY TypeStep, LockStep
<1>3. QED
    BY <1>1, <1>2, PTL DEF Spec

\* No guard on the lock file and no claimed slot outlives the refresh, the start-up
\* flow or the enrichment it was taken for, on any path out of it: adoption,
\* refusal, deferral, failure or death.
THEOREM RefreshCleans == Spec => []IdleIsClean
<1>1. TypeOK /\ LockInv => IdleIsClean
    BY DEF LockInv, LockAt, GuardAt, SlotAt, Slotted, IdleIsClean
<1>2. QED
    BY <1>1, RefreshLock, PTL

\* No refresh token is on the wire while the machine sleeps, when the power listener
\* saw the slot free before it let it sleep.
THEOREM RefreshSleeps == Spec => []NoStraddle
<1>1. TypeOK /\ LockInv => NoStraddle
    BY DEF LockInv, LockAt, SlotAt, NoStraddle
<1>2. QED
    BY <1>1, RefreshLock, PTL

\* Seen through owner and holders alone the refresh is a client of the lease: what
\* AuthLock is shown to implement is all that it asks of the lock file.
THEOREM RefreshUsesLease == Spec => LeaseSpec
<1>1. Init => LeaseInit
    BY DEF Init
<1>2. TypeOK /\ [Next]_vars => [LeaseNext]_leaseVars
  <2> SUFFICES ASSUME Types, [Next]_vars PROVE [LeaseNext]_leaseVars
      BY TypeGroups
  <2>1. CASE UNCHANGED vars
      BY <2>1 DEF vars
  <2>2. CASE Break
      BY <2>2 DEF Break, LeaseNext
  <2>3. CASE Expire
      BY <2>3 DEF Expire
  <2>4. CASE Next /\ ~Break /\ ~Expire
      BY <2>4, LocalStep, LeaseOfProcess DEF Next
  <2>5. QED
      BY <2>1, <2>2, <2>3, <2>4
<1>3. QED
    BY <1>1, <1>2, RefreshTypes, PTL DEF Spec, LeaseSpec

-----------------------------------------------------------------------------
(* No refresh token is presented twice but for the listed reasons.         *)

\* The refresh token of p is on the wire, or was and may be sent again; p has a
\* credential to write.
Sent(p) == stage[p] = "wire" \/ (stage[p] = "reply" /\ run[p].reply = "failed")

Fresh(p) ==
    \/ stage[p] = "reply" /\ run[p].reply = "ok"
    \/ stage[p] = "apply" /\ run[p].reply = "success"

\* Presenting g again would be reuse without an excuse.
Live(g) == g >= family /\ g \notin excused

\* What is on the wire is what the provider honours, and was sent under the lock.
SentAt(p) == Sent(p) /\ Live(run[p].tried) => ~run[p].cut /\ run[p].tried = idp

\* A spent token stays on disk only while the owner of the lock is about to replace it.
DiskInv ==
    Live(disk) /\ disk # idp =>
        /\ disk < idp
        /\ \E p \in Procs : Fresh(p) /\ ~run[p].cut /\ run[p].tried = disk

\* Nobody else has the credential that p is about to write.
Alone(p) ==
    /\ disk # run[p].got
    /\ \A q \in Procs :
        /\ Sent(q) => run[q].tried # run[p].got
        /\ Fresh(q) /\ q # p => run[q].got # run[p].got
        /\ enrich[q] = "write" => enrichGen[q] # run[p].got

\* A credential that is about to be written is the newest one; if the lock was lost
\* meanwhile nobody else has it.
FreshAt(p) == Fresh(p) /\ Live(run[p].got) => run[p].got = idp /\ (run[p].cut => Alone(p))

\* An enrichment that owns the lock writes the newest credential back.
WriteAt(p) ==
    enrich[p] = "write" /\ Live(enrichGen[p]) =>
        enrichGen[p] <= idp /\ (owner = Enrich[p] => enrichGen[p] = idp)

TokenInv ==
    /\ family <= idp
    /\ ReuseExcused
    /\ DiskInv
    /\ \A p \in Procs : SentAt(p) /\ FreshAt(p) /\ WriteAt(p)

\* Generations are numbers.
LEMMA Numbers ==
    ASSUME Types
    PROVE  /\ disk \in Nat /\ idp \in Nat /\ family \in Nat
           /\ \A p \in Procs :
                 run[p].tried \in Nat /\ run[p].got \in Nat /\ enrichGen[p] \in Nat /\ mem[p] \in Nat
<1>1. Gens \subseteq Nat
    BY DEF Gens
<1>2. QED
    BY <1>1, Copied DEF Types, CredTypes

\* What a step of p leaves alone of another process.
LEMMA Others ==
    ASSUME NEW p \in Procs, Local(p), OwnLease(p), NEW q \in Procs, q # p
    PROVE  /\ Sent(q)' <=> Sent(q)
           /\ Fresh(q)' <=> Fresh(q)
           /\ run'[q] = run[q]
           /\ enrich'[q] = enrich[q] /\ enrichGen'[q] = enrichGen[q]
           /\ owner' = Enrich[q] => owner = Enrich[q]
<1>1. SameAt(q)
    BY DEF Local
<1>2. owner' = Enrich[q] => owner = Enrich[q]
  <2>1. Enrich[q] \notin CallersOf(p) /\ Enrich[q] # None
      BY Distinct DEF CallersOf
  <2>2. QED
      BY <2>1 DEF OwnLease, Acquire, Release, leaseVars
<1>3. QED
    BY <1>1, <1>2 DEF SameAt, Sent, Fresh

\* Past its last look at the lock, and not cut off: there is one such refresh, and
\* no enrichment owns the lock beside it.
LEMMA Exclusive ==
    ASSUME LockInv, NEW p \in Procs, stage[p] \in Past, ~run[p].cut
    PROVE  /\ owner = Task[p]
           /\ \A q \in Procs : stage[q] \in Past /\ ~run[q].cut => q = p
           /\ \A q \in Procs : owner # Enrich[q]
<1>1. \A q \in Procs : stage[q] \in Past /\ ~run[q].cut => owner = Task[q]
    BY DEF LockInv, LockAt, OwnAt
<1>2. QED
    BY <1>1

\* A token on the wire or a credential to write is past the last look at the lock.
LEMMA FreshIsPast == \A p \in Procs : Fresh(p) \/ Sent(p) => stage[p] \in Past
  BY DEF Fresh, Sent, Past

\* A refresh that owns the lock and reads the disk reads the newest credential.
LEMMA DiskRead ==
    ASSUME LockInv, TokenInv, NEW p \in Procs, stage[p] \in Past, ~Fresh(p), ~run[p].cut, Live(disk)
    PROVE  disk = idp
  BY Exclusive, FreshIsPast DEF TokenInv, DiskInv

\* Steps that move no token: nothing new is on the wire, waiting to be written or on
\* disk, and a refresh that gives up its new credential is excused.
LEMMA TokenQuiet ==
    ASSUME Types, TokenInv, NEW p \in Procs, Local(p), OwnLease(p),
           disk' = disk, idp' = idp, family' = family, excused \subseteq excused', reused' = reused,
           Sent(p)' => /\ Sent(p)
                       /\ run'[p].tried = run[p].tried /\ run'[p].cut = run[p].cut,
           Fresh(p)' => /\ Fresh(p)
                        /\ run'[p].got = run[p].got /\ run'[p].cut = run[p].cut,
           Fresh(p) => \/ Fresh(p)' /\ run'[p].tried = run[p].tried /\ run'[p].cut = run[p].cut
                       \/ run[p].tried \in excused'
                       \/ disk \in excused',
           enrich'[p] = "write" => /\ enrich[p] = "write" /\ enrichGen'[p] = enrichGen[p]
                                   /\ owner' = Enrich[p] => owner = Enrich[p]
    PROVE  TokenInv'
<1>1. \A g : Live(g)' => Live(g)
    BY DEF Live
<1>2. \A q \in Procs :
          /\ Sent(q)' => Sent(q) /\ run'[q].tried = run[q].tried /\ run'[q].cut = run[q].cut
          /\ Fresh(q)' => Fresh(q) /\ run'[q].got = run[q].got /\ run'[q].cut = run[q].cut
          /\ enrich'[q] = "write" => /\ enrich[q] = "write" /\ enrichGen'[q] = enrichGen[q]
                                     /\ owner' = Enrich[q] => owner = Enrich[q]
    BY Others
<1>3. \A q \in Procs :
          Fresh(q) => \/ Fresh(q)' /\ run'[q].tried = run[q].tried /\ run'[q].cut = run[q].cut
                      \/ run[q].tried \in excused'
                      \/ disk \in excused'
    BY Others
<1>4. (family <= idp)' /\ ReuseExcused'
    BY DEF TokenInv, ReuseExcused
<1>5. DiskInv'
    BY <1>1, <1>3 DEF TokenInv, DiskInv, Live
<1>6. ASSUME NEW q \in Procs PROVE SentAt(q)' /\ WriteAt(q)'
    BY <1>1, <1>2 DEF TokenInv, SentAt, WriteAt
<1>7. ASSUME NEW q \in Procs PROVE FreshAt(q)'
    BY <1>1, <1>2 DEF TokenInv, FreshAt, Alone
<1>8. QED
    BY <1>4, <1>5, <1>6, <1>7 DEF TokenInv

\* The actions that move no token.
LEMMA TokenQuietSteps ==
    ASSUME Types, LockInv, TokenInv, NEW p \in Procs, Local(p), OwnLease(p),
           \/ \E reason \in Reasons : Call(p, reason)
           \/ Enter(p) \/ LockHeld(p) \/ LockRefused(p) \/ Defer(p) \/ Revalidate(p)
           \/ RelockHeld(p) \/ RelockRefused(p) \/ ClaimSlot(p) \/ BackOut(p)
           \/ ReplySuccess(p) \/ ReplyFailed(p)
           \/ ApplyPermanent(p) \/ ApplyTransient(p) \/ ApplyPersistFails(p)
           \/ EnrichLocked(p) \/ EnrichFails(p)
           \/ FlowStart(p) \/ FlowStep(p)
           \/ Initialize(p) \/ SetRetention(p) \/ StoreApiKey(p) \/ RetentionRefused(p)
           \/ Grant(p)
           \/ WillSleep(p) \/ AckDrained(p) \/ AckForced(p) \/ Wake(p)
           \/ VerdictExpires(p) \/ Crash(p)
    PROVE  TokenInv'
<1> DEFINE Kept == /\ disk' = disk /\ idp' = idp /\ family' = family
                   /\ excused \subseteq excused' /\ reused' = reused
           Writes == enrich'[p] = "write" =>
                         /\ enrich[p] = "write" /\ enrichGen'[p] = enrichGen[p]
                         /\ owner' = Enrich[p] => owner = Enrich[p]
           Moves == /\ Sent(p)' => /\ Sent(p)
                                   /\ run'[p].tried = run[p].tried /\ run'[p].cut = run[p].cut
                    /\ Fresh(p)' => /\ Fresh(p)
                                    /\ run'[p].got = run[p].got /\ run'[p].cut = run[p].cut
                    /\ Fresh(p) => \/ /\ Fresh(p)'
                                      /\ run'[p].tried = run[p].tried /\ run'[p].cut = run[p].cut
                                   \/ run[p].tried \in excused'
                                   \/ disk \in excused'
<1>0. Task[p] \in CallersOf(p) /\ Flow[p] \in CallersOf(p) /\ Enrich[p] \in CallersOf(p)
    BY DEF CallersOf
<1>a. Task[p] # Enrich[p] /\ Flow[p] # Enrich[p] /\ None # Enrich[p]
    BY Distinct
<1>d. \A c \in CallersOf(p) :
          DropGuard(c) \/ DropIfHeld(c) => owner' = owner \/ owner' = None
    BY DEF DropGuard, DropIfHeld, Release, leaseVars
<1>i. \A c \in CallersOf(p) :
          DropGuard(c) \/ DropIfHeld(c) => (owner' = Enrich[p] => owner = Enrich[p])
    BY <1>a, <1>d
<1>s. UNCHANGED <<stage, run>> => Moves
    BY DEF Sent, Fresh
<1>e. (UNCHANGED sideVars \/ UNCHANGED enrichVars) /\ UNCHANGED leaseVars => Writes
    BY DEF sideVars, enrichVars, leaseVars
<1>f. (UNCHANGED sideVars \/ UNCHANGED enrichVars)
      /\ (\E c \in CallersOf(p) : DropGuard(c) \/ DropIfHeld(c)) => Writes
    BY <1>i DEF sideVars, enrichVars
<1>t. Kept /\ Writes /\ Moves => TokenInv'
    BY TokenQuiet
<1> HIDE DEF Kept, Writes, Moves
<1>1. ASSUME NEW reason \in Reasons, Call(p, reason)
      PROVE  TokenInv'
  <2>1. Kept
      BY <1>1 DEF Call, Kept, historyVars
  <2>2. QED
      BY <1>1, <2>1, <1>s, <1>e, <1>t DEF Call
<1>2. CASE Enter(p)
  <2>1. Kept
      BY <1>2 DEF Enter, Kept, credVars, historyVars
  <2>2. Moves
    <3>1. UNCHANGED <<stage, run>> \/ (stage[p] = "idle" /\ stage'[p] = "lock")
        BY <1>2, ToEffect DEF Enter
    <3>2. QED
        BY <3>1, <1>s DEF Moves, Sent, Fresh
  <2>3. Writes
      BY <1>2, <1>e DEF Enter
  <2>4. QED
      BY <2>1, <2>2, <2>3, <1>t
<1>3. CASE LockHeld(p)
  <2>1. Kept
      BY <1>3 DEF LockHeld, Kept, credVars, historyVars
  <2>2. Moves
      BY <1>3, FinishEffect, ToEffect DEF LockHeld, Moves, Sent, Fresh
  <2>3. Writes
      BY <1>3, <1>e, <1>0, <1>f DEF LockHeld
  <2>4. QED
      BY <2>1, <2>2, <2>3, <1>t
<1>4. CASE LockRefused(p)
  <2>1. Kept
      BY <1>4 DEF LockRefused, Kept, credVars, historyVars
  <2>2. Moves
      BY <1>4, FinishEffect DEF LockRefused, Moves, Sent, Fresh
  <2>3. Writes
      BY <1>4, <1>e DEF LockRefused
  <2>4. QED
      BY <2>1, <2>2, <2>3, <1>t
<1>5. CASE Defer(p)
  <2>1. Kept
      BY <1>5 DEF Defer, Kept, credVars, historyVars
  <2>2. Moves
      BY <1>5, FinishEffect DEF Defer, Moves, Sent, Fresh
  <2>3. Writes
      BY <1>5, <1>0, <1>f DEF Defer
  <2>4. QED
      BY <2>1, <2>2, <2>3, <1>t
<1>6. CASE Revalidate(p)
  <2>1. Kept
      BY <1>6 DEF Revalidate, Kept, credVars, historyVars
  <2>2. Moves
      BY <1>6, ToEffect DEF Revalidate, Moves, Sent, Fresh
  <2>3. Writes
      BY <1>6, <1>e, <1>0, <1>f DEF Revalidate
  <2>4. QED
      BY <2>1, <2>2, <2>3, <1>t
<1>7. CASE RelockHeld(p)
  <2>1. Kept
      BY <1>7 DEF RelockHeld, Kept, credVars, historyVars
  <2>2. Moves
      BY <1>7, FinishEffect, ToEffect DEF RelockHeld, Moves, Sent, Fresh
  <2>3. Writes
      BY <1>7, <1>e, <1>0, <1>f DEF RelockHeld
  <2>4. QED
      BY <2>1, <2>2, <2>3, <1>t
<1>8. CASE RelockRefused(p)
  <2>1. Kept
      BY <1>8 DEF RelockRefused, Kept, credVars, historyVars
  <2>2. Moves
      BY <1>8, FinishEffect DEF RelockRefused, Moves, Sent, Fresh
  <2>3. Writes
      BY <1>8, <1>e DEF RelockRefused
  <2>4. QED
      BY <2>1, <2>2, <2>3, <1>t
<1>9. CASE ClaimSlot(p)
  <2>1. Kept
      BY <1>9 DEF ClaimSlot, Kept, credVars, historyVars
  <2>2. Moves
      BY <1>9, ToEffect DEF ClaimSlot, Moves, Sent, Fresh
  <2>3. Writes
      BY <1>9, <1>e DEF ClaimSlot
  <2>4. QED
      BY <2>1, <2>2, <2>3, <1>t
<1>10. CASE BackOut(p)
  <2>1. Kept
      BY <1>10 DEF BackOut, Kept, credVars, historyVars
  <2>2. Moves
      BY <1>10, FinishEffect DEF BackOut, Moves, Sent, Fresh
  <2>3. Writes
      BY <1>10, <1>0, <1>f DEF BackOut
  <2>4. QED
      BY <2>1, <2>2, <2>3, <1>t
<1>11. CASE ReplySuccess(p)
  <2>1. Kept
      BY <1>11 DEF ReplySuccess, Kept, credVars, historyVars
  <2>2. Moves
      BY <1>11, SuccessEffect DEF ReplySuccess, Moves, Sent, Fresh
  <2>3. Writes
      BY <1>11, <1>e DEF ReplySuccess
  <2>4. QED
      BY <2>1, <2>2, <2>3, <1>t
<1>12. CASE ReplyFailed(p)
  <2>1. Kept
      BY <1>12 DEF ReplyFailed, Kept, credVars, historyVars
  <2>2. Moves
      BY <1>12, BlipEffect DEF ReplyFailed, Moves, Sent, Fresh
  <2>3. Writes
      BY <1>12, <1>e DEF ReplyFailed
  <2>4. QED
      BY <2>1, <2>2, <2>3, <1>t
<1>13. CASE Initialize(p) \/ SetRetention(p) \/ StoreApiKey(p) \/ RetentionRefused(p)
  <2>1. Kept
      BY <1>13
      DEF Initialize, SetRetention, StoreApiKey, RetentionRefused, Kept, credVars, historyVars
  <2>2. Moves
      BY <1>13, <1>s DEF Initialize, SetRetention, StoreApiKey, RetentionRefused, chainVars
  <2>3. Writes
      BY <1>13, <1>e DEF Initialize, SetRetention, StoreApiKey, RetentionRefused
  <2>4. QED
      BY <2>1, <2>2, <2>3, <1>t
<1>14. CASE ApplyPermanent(p)
  <2>1. Kept
      BY <1>14 DEF ApplyPermanent, Kept, credVars, historyVars
  <2>2. Moves
      BY <1>14, FinishEffect DEF ApplyPermanent, Moves, Sent, Fresh
  <2>3. Writes
      BY <1>14, <1>0, <1>f DEF ApplyPermanent
  <2>4. QED
      BY <2>1, <2>2, <2>3, <1>t
<1>15. CASE ApplyTransient(p)
  <2>1. Kept
      BY <1>15 DEF ApplyTransient, Kept, credVars, historyVars
  <2>2. Moves
      BY <1>15, FinishEffect DEF ApplyTransient, Moves, Sent, Fresh
  <2>3. Writes
      BY <1>15, <1>0, <1>f DEF ApplyTransient
  <2>4. QED
      BY <2>1, <2>2, <2>3, <1>t
<1>16. CASE ApplyPersistFails(p)
  <2>1. Kept
      BY <1>16 DEF ApplyPersistFails, Kept, credVars, historyVars
  <2>2. Moves
      BY <1>16, FinishEffect DEF ApplyPersistFails, Moves, Sent, Fresh
  <2>3. Writes
      BY <1>16, <1>0, <1>i, SpawnEffect DEF ApplyPersistFails, Writes
  <2>4. QED
      BY <2>1, <2>2, <2>3, <1>t
<1>17. CASE EnrichLocked(p)
  <2>1. Kept
      BY <1>17 DEF EnrichLocked, Kept, credVars, historyVars
  <2>2. Moves
      BY <1>17, <1>s DEF EnrichLocked, chainVars
  <2>3. Writes
      BY <1>17, Domains DEF EnrichLocked, Writes
  <2>4. QED
      BY <2>1, <2>2, <2>3, <1>t
<1>18. CASE EnrichFails(p)
  <2>1. Kept
      BY <1>18 DEF EnrichFails, Kept, credVars, historyVars
  <2>2. Moves
      BY <1>18, <1>s DEF EnrichFails, chainVars
  <2>3. Writes
      BY <1>18, Domains DEF EnrichFails, Writes
  <2>4. QED
      BY <2>1, <2>2, <2>3, <1>t
<1>19. CASE FlowStart(p)
  <2>1. Kept
      BY <1>19 DEF FlowStart, Kept, credVars, historyVars
  <2>2. Moves
      BY <1>19, <1>s DEF FlowStart, chainVars
  <2>3. Writes
      BY <1>19, <1>e DEF FlowStart
  <2>4. QED
      BY <2>1, <2>2, <2>3, <1>t
<1>20. CASE FlowLocked(p)
  <2>1. Kept
      BY <1>20 DEF FlowLocked, Kept, credVars, historyVars
  <2>2. Moves
      BY <1>20, <1>s DEF FlowLocked, chainVars
  <2>3. Writes
      BY <1>20, <1>e, <1>0, <1>f DEF FlowLocked
  <2>4. QED
      BY <2>1, <2>2, <2>3, <1>t
<1>21. CASE FlowEnd(p)
  <2>1. Kept
      BY <1>21 DEF FlowEnd, Kept, credVars, historyVars
  <2>2. Moves
      BY <1>21, <1>s DEF FlowEnd, chainVars
  <2>3. Writes
      BY <1>21, <1>0, <1>f DEF FlowEnd
  <2>4. QED
      BY <2>1, <2>2, <2>3, <1>t
<1>22. CASE Grant(p)
  <2>1. Kept
      BY <1>22 DEF Grant, Kept, credVars, historyVars
  <2>2. Moves
      BY <1>22, <1>s DEF Grant, chainVars
  <2>3. Writes
      BY <1>22, <1>a DEF Grant, Asking, Acquire, Writes, sideVars, enrichVars
  <2>4. QED
      BY <2>1, <2>2, <2>3, <1>t
<1>23. CASE WillSleep(p)
  <2>1. Kept
      BY <1>23 DEF WillSleep, Kept, credVars, historyVars
  <2>2. Moves
      BY <1>23, <1>s DEF WillSleep, chainVars
  <2>3. Writes
      BY <1>23, <1>e DEF WillSleep
  <2>4. QED
      BY <2>1, <2>2, <2>3, <1>t
<1>24. CASE AckDrained(p)
  <2>1. Kept
      BY <1>24 DEF AckDrained, Kept, credVars, historyVars
  <2>2. Moves
      BY <1>24, <1>s DEF AckDrained, chainVars
  <2>3. Writes
      BY <1>24, <1>e DEF AckDrained
  <2>4. QED
      BY <2>1, <2>2, <2>3, <1>t
<1>25. CASE AckForced(p)
  <2>1. Kept
      BY <1>25 DEF AckForced, Kept, credVars, historyVars
  <2>2. Moves
      BY <1>25, <1>s DEF AckForced, chainVars
  <2>3. Writes
      BY <1>25, <1>e DEF AckForced
  <2>4. QED
      BY <2>1, <2>2, <2>3, <1>t
<1>26. CASE Wake(p)
  <2>1. Kept
      BY <1>26 DEF Wake, Kept, credVars, historyVars
  <2>2. Moves
      BY <1>26, <1>s DEF Wake, chainVars
  <2>3. Writes
      BY <1>26, <1>e DEF Wake
  <2>4. QED
      BY <2>1, <2>2, <2>3, <1>t
<1>27. CASE VerdictExpires(p)
  <2>1. Kept
      BY <1>27 DEF VerdictExpires, Kept, credVars, historyVars
  <2>2. Moves
      BY <1>27, <1>s DEF VerdictExpires, chainVars
  <2>3. Writes
      BY <1>27, <1>e DEF VerdictExpires
  <2>4. QED
      BY <2>1, <2>2, <2>3, <1>t
<1>28. CASE Crash(p)
  <2>1. Kept
      BY <1>28 DEF Crash, Kept, credVars, historyVars
  <2>2. Moves
      BY <1>28, Domains DEF Crash, Moves, Sent, Fresh
  <2>3. Writes
      BY <1>28, Domains DEF Crash, Writes
  <2>4. QED
      BY <2>1, <2>2, <2>3, <1>t
<1>29. QED
    BY <1>1, <1>2, <1>3, <1>4, <1>5, <1>6, <1>7, <1>8, <1>9, <1>10, <1>11, <1>12, <1>13, <1>14,
       <1>15, <1>16, <1>17, <1>18, <1>19, <1>20, <1>21, <1>22, <1>23, <1>24, <1>25, <1>26,
       <1>27, <1>28
    DEF FlowStep

\* The disk is read and its refresh token sent, or its access token taken: by the
\* refresher, or by its second look at the disk after a terminal answer.
LEMMA TokenReads ==
    ASSUME Types, LockInv, TokenInv, NEW p \in Procs, Local(p), OwnLease(p),
           UNCHANGED <<leaseVars, disk, idp, family, sideVars, reused>>,
           stage[p] \in Past, ~Fresh(p), ~Sent(p), Excuse(p, disk),
           run'[p].cut = run[p].cut, run'[p].got = disk,
           \/ Fresh(p)' /\ ~Sent(p)'
           \/ Sent(p)' /\ ~Fresh(p)' /\ run'[p].tried = disk
    PROVE  TokenInv'
<1>1. \A g : Live(g)' => Live(g)
    BY DEF Live, Excuse
<1>2. \A q \in Procs \ {p} :
          /\ Sent(q)' <=> Sent(q)
          /\ Fresh(q)' <=> Fresh(q)
          /\ run'[q] = run[q]
    BY Others
<1>3. Live(disk)' => ~run[p].cut /\ disk = idp
  <2>1. Live(disk)' => ~run[p].cut
      BY DEF Live, Excuse
  <2>2. QED
      BY <1>1, <2>1, DiskRead
<1>4. (family <= idp)' /\ ReuseExcused'
    BY DEF TokenInv, ReuseExcused, Excuse
<1>5. DiskInv'
    BY <1>3 DEF DiskInv
<1>6. ASSUME NEW q \in Procs PROVE SentAt(q)' /\ WriteAt(q)'
  <2>1. SentAt(q)'
    <3>1. CASE q = p
        BY <1>3, <3>1 DEF SentAt
    <3>2. CASE q # p
        BY <1>1, <1>2, <3>2 DEF TokenInv, SentAt
    <3>3. QED
        BY <3>1, <3>2
  <2>2. WriteAt(q)'
      BY <1>1 DEF TokenInv, WriteAt, sideVars, enrichVars, leaseVars
  <2>3. QED
      BY <2>1, <2>2
<1>7. ASSUME NEW q \in Procs PROVE FreshAt(q)'
  <2>1. CASE q = p
      BY <1>3, <2>1 DEF FreshAt
  <2>2. CASE q # p
    <3> SUFFICES ASSUME Fresh(q)', Live(run[q].got)'
                 PROVE  run'[q].got = idp' /\ (run'[q].cut => Alone(q)')
        BY DEF FreshAt
    <3>1. run'[q] = run[q] /\ Fresh(q) /\ Live(run[q].got)
        BY <1>1, <1>2, <2>2
    <3>2. run[q].got = idp /\ (run[q].cut => Alone(q))
        BY <3>1 DEF TokenInv, FreshAt
    <3>3. ASSUME Alone(q) PROVE Alone(q)'
      <4>1. ASSUME NEW r \in Procs
            PROVE  /\ Sent(r)' => run'[r].tried # run[q].got
                   /\ Fresh(r)' /\ r # q => run'[r].got # run[q].got
                   /\ enrich'[r] = "write" => enrichGen'[r] # run[q].got
        <5>1. CASE r = p
            BY <3>3, <5>1 DEF Alone, sideVars, enrichVars
        <5>2. CASE r # p
            BY <1>2, <3>3, <5>2 DEF Alone, sideVars, enrichVars
        <5>3. QED
            BY <5>1, <5>2
      <4>2. QED
          BY <3>1, <3>3, <4>1 DEF Alone
    <3>4. QED
        BY <3>1, <3>2, <3>3
  <2>3. QED
      BY <2>1, <2>2
<1>8. QED
    BY <1>4, <1>5, <1>6, <1>7 DEF TokenInv

\* Send reads the disk in this way.
LEMMA TokenSend ==
    ASSUME Types, LockInv, TokenInv, NEW p \in Procs, Local(p), OwnLease(p), Send(p)
    PROVE  TokenInv'
<1>1. stage[p] \in Past /\ ~Fresh(p) /\ ~Sent(p)
    BY DEF Send, Past, Fresh, Sent
<1>2. /\ Excuse(p, disk) /\ run'[p].cut = run[p].cut /\ run'[p].got = disk
      /\ \/ Fresh(p)' /\ ~Sent(p)'
         \/ Sent(p)' /\ ~Fresh(p)' /\ run'[p].tried = disk
    BY SendEffect DEF Fresh, Sent
<1>3. UNCHANGED <<leaseVars, disk, idp, family, sideVars, reused>>
    BY DEF Send, credVars
<1>4. QED
    BY <1>1, <1>2, <1>3, TokenReads

\* ReplyTerminal does, or gives up.
LEMMA TokenTerminal ==
    ASSUME Types, LockInv, TokenInv, NEW p \in Procs, Local(p), OwnLease(p), ReplyTerminal(p)
    PROVE  TokenInv'
<1>1. stage[p] \in Past /\ ~Fresh(p) /\ ~Sent(p)
    BY DEF ReplyTerminal, Past, Fresh, Sent
<1>2. UNCHANGED <<leaseVars, disk, idp, family, sideVars, reused>>
    BY DEF ReplyTerminal, credVars
<1>3. run'[p].cut = run[p].cut
    BY TerminalEffect
<1>4. CASE /\ Excuse(p, disk) /\ run'[p].got = disk
           /\ \/ Fresh(p)' /\ ~Sent(p)'
              \/ Sent(p)' /\ ~Fresh(p)' /\ run'[p].tried = disk
    BY <1>1, <1>2, <1>3, <1>4, TokenReads
<1>5. CASE excused' = excused /\ ~Fresh(p)' /\ ~Sent(p)'
    BY <1>1, <1>2, <1>5, TokenQuiet DEF sideVars, enrichVars, leaseVars
<1>6. QED
    BY <1>4, <1>5, TerminalEffect DEF Fresh, Sent

\* An excused token goes on the wire, and whatever the refresh had to write before
\* is excused too.
LEMMA TokenExcused ==
    ASSUME Types, LockInv, TokenInv, NEW p \in Procs, Local(p), OwnLease(p),
           UNCHANGED <<leaseVars, disk, idp, family, sideVars, reused>>, excused \subseteq excused',
           Sent(p)', ~Fresh(p)', run'[p].tried \in excused',
           Fresh(p) => run[p].tried \in excused'
    PROVE  TokenInv'
<1>1. \A g : Live(g)' => Live(g)
    BY DEF Live
<1>2. \A q \in Procs \ {p} :
          /\ Sent(q)' <=> Sent(q)
          /\ Fresh(q)' <=> Fresh(q)
          /\ run'[q] = run[q]
    BY Others
<1>3. (family <= idp)' /\ ReuseExcused'
    BY DEF TokenInv, ReuseExcused
<1>4. DiskInv'
    BY <1>1, <1>2 DEF TokenInv, DiskInv, Live
<1>5. ASSUME NEW q \in Procs PROVE SentAt(q)'
  <2>1. CASE q = p
      BY <2>1 DEF SentAt, Live
  <2>2. CASE q # p
      BY <1>1, <1>2, <2>2 DEF TokenInv, SentAt
  <2>3. QED
      BY <2>1, <2>2
<1>6. ASSUME NEW q \in Procs PROVE WriteAt(q)'
    BY <1>1 DEF TokenInv, WriteAt, sideVars, enrichVars, leaseVars
<1>7. ASSUME NEW q \in Procs PROVE FreshAt(q)'
  <2> SUFFICES ASSUME Fresh(q)', Live(run[q].got)'
               PROVE  run'[q].got = idp' /\ (run'[q].cut => Alone(q)')
      BY DEF FreshAt
  <2>1. q # p /\ run'[q] = run[q] /\ Fresh(q) /\ Live(run[q].got)
      BY <1>1, <1>2
  <2>2. run[q].got = idp /\ (run[q].cut => Alone(q))
      BY <2>1 DEF TokenInv, FreshAt
  <2>3. run'[p].tried # run[q].got
      BY <2>1 DEF Live
  <2>4. ASSUME Alone(q) PROVE Alone(q)'
    <3>1. ASSUME NEW r \in Procs
          PROVE  /\ Sent(r)' => run'[r].tried # run[q].got
                 /\ Fresh(r)' /\ r # q => run'[r].got # run[q].got
                 /\ enrich'[r] = "write" => enrichGen'[r] # run[q].got
      <4>1. CASE r = p
          BY <2>3, <2>4, <4>1 DEF Alone, sideVars, enrichVars
      <4>2. CASE r # p
          BY <1>2, <2>4, <4>2 DEF Alone, sideVars, enrichVars
      <4>3. QED
          BY <4>1, <4>2
    <3>2. QED
        BY <2>1, <2>4, <3>1 DEF Alone
  <2>5. QED
      BY <2>1, <2>2, <2>4
<1>8. QED
    BY <1>3, <1>4, <1>5, <1>6, <1>7 DEF TokenInv

\* The disk cannot be read and the cached token is sent: it is excused.
LEMMA TokenUnreadable ==
    ASSUME Types, LockInv, TokenInv, NEW p \in Procs, Local(p), OwnLease(p), SendUnreadable(p)
    PROVE  TokenInv'
<1>1. ~Fresh(p) /\ ~Sent(p)
    BY DEF SendUnreadable, Fresh, Sent
<1>2. /\ UNCHANGED <<leaseVars, disk, idp, family, sideVars, reused>>
      /\ excused \subseteq excused'
    BY DEF SendUnreadable, credVars
<1>3. CASE ~Sent(p)' /\ ~Fresh(p)'
    BY <1>1, <1>2, <1>3, TokenQuiet DEF sideVars, enrichVars, leaseVars
<1>4. CASE Sent(p)' /\ ~Fresh(p)' /\ run'[p].tried \in excused'
    BY <1>1, <1>2, <1>4, TokenExcused
<1>5. QED
    BY <1>3, <1>4, UnreadableEffect DEF Fresh, Sent

\* The answer to a rotation is lost: the token is excused, sent again or not.
LEMMA TokenLost ==
    ASSUME Types, LockInv, TokenInv, NEW p \in Procs, Local(p), OwnLease(p), ReplyLost(p)
    PROVE  TokenInv'
<1>1. /\ UNCHANGED <<leaseVars, disk, idp, family, sideVars, reused>>
      /\ excused \subseteq excused' /\ run[p].tried \in excused'
    BY DEF ReplyLost, credVars
<1>2. CASE ~Sent(p)' /\ ~Fresh(p)'
    BY <1>1, <1>2, TokenQuiet DEF sideVars, enrichVars, leaseVars
<1>3. CASE Sent(p)' /\ ~Fresh(p)' /\ run'[p].tried = run[p].tried
    BY <1>1, <1>3, TokenExcused
<1>4. QED
    BY <1>2, <1>3, BlipEffect DEF Fresh, Sent

\* A writer without the lock puts a credential on disk that is there already, or
\* excuses it.
LEMMA TokenUnlocked ==
    ASSUME Types, LockInv, TokenInv, NEW p \in Procs, Local(p), OwnLease(p), SaveUnlocked(p)
    PROVE  TokenInv'
<1>1. /\ UNCHANGED <<leaseVars, idp, family, reused, stage, run>>
      /\ excused \subseteq excused' /\ (disk' = disk \/ disk' \in excused')
  <2>1. UNCHANGED <<leaseVars, idp, family, reused, stage, run>>
      BY DEF SaveUnlocked, chainVars
  <2>2. \/ disk' = disk /\ excused' = excused
        \/ disk' = saving[p].gen /\ excused' = excused \cup {saving[p].gen}
      BY DEF SaveUnlocked, PutBack, WriteDisk
  <2>3. QED
      BY <2>1, <2>2
<1>2. \A q \in Procs : (Sent(q)' <=> Sent(q)) /\ (Fresh(q)' <=> Fresh(q))
    BY <1>1 DEF Sent, Fresh
<1>3. \A g : Live(g)' => Live(g) /\ g \notin excused'
    BY <1>1 DEF Live
<1>4. \A q \in Procs :
          enrich'[q] = "write" => enrich[q] = "write" /\ enrichGen'[q] = enrichGen[q]
  <2>1. enrich'[p] = "write" => enrich[p] = "write" /\ enrichGen'[p] = enrichGen[p]
      BY SpawnEffect DEF SaveUnlocked, enrichVars
  <2>2. QED
      BY <2>1, Others
<1>5. (family <= idp)' /\ ReuseExcused'
    BY <1>1 DEF TokenInv, ReuseExcused
<1>6. DiskInv'
    BY <1>1, <1>2, <1>3 DEF TokenInv, DiskInv
<1>7. ASSUME NEW q \in Procs PROVE SentAt(q)' /\ WriteAt(q)'
    BY <1>1, <1>2, <1>3, <1>4 DEF TokenInv, SentAt, WriteAt, leaseVars
<1>8. ASSUME NEW q \in Procs PROVE FreshAt(q)'
    BY <1>1, <1>2, <1>3, <1>4 DEF TokenInv, FreshAt, Alone
<1>9. QED
    BY <1>5, <1>6, <1>7, <1>8 DEF TokenInv

\* The provider rotates the token: no other refresh has it, or what comes of it.
LEMMA TokenAnswer ==
    ASSUME Types, LockInv, TokenInv, NEW p \in Procs, Local(p), OwnLease(p), IdpAnswers(p)
    PROVE  TokenInv'
<1>1. Sent(p) /\ ~Fresh(p) /\ stage[p] \in Past
    BY DEF IdpAnswers, Sent, Fresh, Past
<1>2. UNCHANGED <<leaseVars, disk, family, sideVars, excused>>
    BY DEF IdpAnswers
<1>3. \A q \in Procs \ {p} :
          /\ Sent(q)' <=> Sent(q)
          /\ Fresh(q)' <=> Fresh(q)
          /\ run'[q] = run[q]
    BY Others
<1>4. \A g : Live(g)' <=> Live(g)
    BY <1>2 DEF Live
<1>5. ReuseExcused'
  <2>1. SentAt(p) /\ ReuseExcused
      BY DEF TokenInv
  <2>2. run[p].tried \in family..(idp - 1) => run[p].tried \in excused
      BY <1>1, <2>1, Numbers DEF SentAt, Live
  <2>3. reused' \subseteq reused \cup {run[p].tried}
        /\ (run[p].tried \in reused' => run[p].tried \in reused \/ run[p].tried \in family..(idp - 1))
      BY DEF IdpAnswers
  <2>4. QED
      BY <1>2, <2>1, <2>2, <2>3 DEF ReuseExcused
<1>6. CASE /\ idp' = idp /\ ~Fresh(p)'
           /\ run'[p].tried = run[p].tried /\ run'[p].cut = run[p].cut
  <2>1. (family <= idp)'
      BY <1>2, <1>6 DEF TokenInv
  <2>2. DiskInv'
      BY <1>1, <1>2, <1>3, <1>4, <1>6 DEF TokenInv, DiskInv
  <2>3. ASSUME NEW q \in Procs PROVE SentAt(q)' /\ WriteAt(q)'
      BY <1>1, <1>2, <1>3, <1>4, <1>6
      DEF TokenInv, SentAt, WriteAt, sideVars, enrichVars, leaseVars
  <2>4. ASSUME NEW q \in Procs PROVE FreshAt(q)'
      BY <1>1, <1>2, <1>3, <1>4, <1>6 DEF TokenInv, FreshAt, Alone, sideVars, enrichVars
  <2>5. QED
      BY <1>5, <2>1, <2>2, <2>3, <2>4 DEF TokenInv
<1>7. CASE /\ run[p].tried = idp /\ idp' = idp + 1
           /\ Fresh(p)' /\ ~Sent(p)' /\ run'[p].got = idp + 1
           /\ run'[p].tried = run[p].tried /\ run'[p].cut = run[p].cut
  <2>1. (family <= idp)'
      BY <1>2, <1>7, Numbers DEF TokenInv
  <2>2. Live(idp) => ~run[p].cut
      BY <1>1, <1>7 DEF TokenInv, SentAt
  <2>3. DiskInv'
    <3> SUFFICES ASSUME Live(disk), disk # idp + 1
                 PROVE  /\ disk < idp + 1
                        /\ \E q \in Procs : Fresh(q)' /\ ~run'[q].cut /\ run'[q].tried = disk
        BY <1>2, <1>4, <1>7 DEF DiskInv
    <3>1. CASE disk = idp
        BY <1>7, <2>2, <3>1, Numbers
    <3>2. CASE disk # idp
        BY <1>1, <1>3, <3>2, Numbers DEF TokenInv, DiskInv
    <3>3. QED
        BY <3>1, <3>2
  <2>4. ASSUME NEW q \in Procs PROVE SentAt(q)'
    <3> SUFFICES ASSUME Sent(q)', Live(run[q].tried)' PROVE FALSE
        BY DEF SentAt
    <3>1. q # p /\ Sent(q) /\ run'[q] = run[q] /\ Live(run[q].tried)
        BY <1>3, <1>4, <1>7
    <3>2. ~run[q].cut /\ run[q].tried = idp
        BY <3>1 DEF TokenInv, SentAt
    <3>3. QED
        BY <1>1, <2>2, <3>1, <3>2, Exclusive, FreshIsPast
  <2>5. ASSUME NEW q \in Procs PROVE WriteAt(q)'
    <3> SUFFICES ASSUME enrich[q] = "write", Live(enrichGen[q])
                 PROVE  enrichGen[q] <= idp + 1 /\ owner # Enrich[q]
        BY <1>2, <1>4, <1>7 DEF WriteAt, sideVars, enrichVars, leaseVars
    <3>1. enrichGen[q] <= idp /\ (owner = Enrich[q] => enrichGen[q] = idp)
        BY DEF TokenInv, WriteAt
    <3>2. owner # Enrich[q]
        BY <1>1, <2>2, <3>1, Exclusive
    <3>3. QED
        BY <3>1, <3>2, Numbers
  <2>6. ASSUME NEW q \in Procs PROVE FreshAt(q)'
    <3> SUFFICES ASSUME Fresh(q)', Live(run[q].got)'
                 PROVE  run'[q].got = idp' /\ (run'[q].cut => Alone(q)')
        BY DEF FreshAt
    <3>1. CASE q = p
      <4>1. Live(idp + 1)
          BY <1>4, <1>7, <3>1
      <4>2. disk # idp + 1
          BY <4>1, Numbers DEF TokenInv, DiskInv
      <4>3. ASSUME NEW r \in Procs
            PROVE  /\ Sent(r) => run[r].tried # idp + 1
                   /\ Fresh(r) => run[r].got # idp + 1
                   /\ enrich[r] = "write" => enrichGen[r] # idp + 1
          BY <4>1, Numbers DEF TokenInv, SentAt, FreshAt, WriteAt
      <4>4. Alone(p)'
          BY <1>2, <1>3, <1>7, <4>2, <4>3 DEF Alone, sideVars, enrichVars
      <4>5. QED
          BY <1>7, <3>1, <4>4
    <3>2. CASE q # p
      <4>1. run'[q] = run[q] /\ Fresh(q) /\ Live(run[q].got)
          BY <1>3, <1>4, <3>2
      <4>2. run[q].got = idp /\ (run[q].cut => run[p].tried # run[q].got)
          BY <1>1, <4>1 DEF TokenInv, FreshAt, Alone
      <4>3. QED
          BY <1>1, <1>7, <2>2, <3>2, <4>1, <4>2, Exclusive, FreshIsPast
    <3>3. QED
        BY <3>1, <3>2
  <2>7. QED
      BY <1>5, <2>1, <2>3, <2>4, <2>5, <2>6 DEF TokenInv
<1>8. QED
    BY <1>6, <1>7, AnswerEffect DEF Fresh, Sent

\* The new credential is written under the lock, or by the only refresh that has it.
LEMMA TokenApply ==
    ASSUME Types, LockInv, TokenInv, NEW p \in Procs, Local(p), OwnLease(p), ApplySuccess(p)
    PROVE  TokenInv'
<1>1. Fresh(p) /\ ~Fresh(p)' /\ ~Sent(p)'
    BY FinishEffect DEF ApplySuccess, Fresh, Sent
<1>2. /\ disk' = run[p].got
      /\ UNCHANGED <<idp, family, excused, reused>>
    BY DEF ApplySuccess, WriteDisk
<1>3. \A q \in Procs \ {p} :
          /\ Sent(q)' <=> Sent(q)
          /\ Fresh(q)' <=> Fresh(q)
          /\ run'[q] = run[q]
    BY Others
<1>4. \A g : Live(g)' <=> Live(g)
    BY <1>2 DEF Live
<1>5. \A q \in Procs :
          enrich'[q] = "write" => /\ enrich[q] = "write" /\ enrichGen'[q] = enrichGen[q]
                                  /\ owner' = Enrich[q] => owner = Enrich[q]
  <2>1. enrich'[p] = "write" => enrich[p] = "write" /\ enrichGen'[p] = enrichGen[p]
      BY SpawnEffect DEF ApplySuccess
  <2>2. owner' = Enrich[p] => owner = Enrich[p]
      BY Distinct DEF ApplySuccess, DropGuard, Release
  <2>3. QED
      BY <2>1, <2>2, Others
<1>6. (family <= idp)' /\ ReuseExcused'
    BY <1>2 DEF TokenInv, ReuseExcused
<1>7. DiskInv'
    BY <1>1, <1>2, <1>4 DEF TokenInv, FreshAt, DiskInv
<1>8. ASSUME NEW q \in Procs PROVE SentAt(q)'
    BY <1>1, <1>2, <1>3, <1>4 DEF TokenInv, SentAt
<1>9. ASSUME NEW q \in Procs PROVE WriteAt(q)'
    BY <1>2, <1>4, <1>5 DEF TokenInv, WriteAt
<1>10. ASSUME NEW q \in Procs PROVE FreshAt(q)'
  <2> SUFFICES ASSUME Fresh(q)', Live(run[q].got)'
               PROVE  run'[q].got = idp' /\ (run'[q].cut => Alone(q)')
      BY DEF FreshAt
  <2>1. q # p /\ run'[q] = run[q] /\ Fresh(q) /\ Live(run[q].got)
      BY <1>1, <1>3, <1>4
  <2>2. run[q].got = idp /\ (run[q].cut => Alone(q))
      BY <2>1 DEF TokenInv, FreshAt
  <2>3. ASSUME Alone(q) PROVE Alone(q)'
      BY <1>1, <1>2, <1>3, <1>5, <2>1, <2>3 DEF Alone
  <2>4. QED
      BY <1>2, <2>1, <2>2, <2>3
<1>11. QED
    BY <1>6, <1>7, <1>8, <1>9, <1>10 DEF TokenInv

\* The enrichment reads the disk: under the lock it reads the newest credential.
LEMMA TokenEnrichRead ==
    ASSUME Types, LockInv, TokenInv, NEW p \in Procs, Local(p), OwnLease(p), EnrichRead(p)
    PROVE  TokenInv'
<1>1. UNCHANGED <<disk, idp, family, excused, reused, stage, run, enrichGen>>
    BY DEF EnrichRead, credVars, chainVars, historyVars
<1>2. \A q \in Procs : (Sent(q)' <=> Sent(q)) /\ (Fresh(q)' <=> Fresh(q))
    BY <1>1 DEF Sent, Fresh
<1>3. CASE enrich' = [enrich EXCEPT ![p] = "off"]
  <2>1. enrich'[p] # "write"
      BY <1>3, Domains
  <2>2. QED
      BY <1>1, <1>2, <2>1, TokenQuiet
<1>4. CASE disk = enrichGen[p] /\ enrich' = [enrich EXCEPT ![p] = "write"] /\ UNCHANGED leaseVars
  <2>1. \A g : Live(g)' <=> Live(g)
      BY <1>1 DEF Live
  <2>2. \A q \in Procs \ {p} : enrich'[q] = enrich[q]
      BY <1>4, Domains
  <2>3. (family <= idp)' /\ ReuseExcused' /\ DiskInv'
      BY <1>1, <1>2, <2>1 DEF TokenInv, ReuseExcused, DiskInv
  <2>4. ASSUME NEW q \in Procs PROVE SentAt(q)'
      BY <1>1, <1>2, <2>1 DEF TokenInv, SentAt
  <2>5. ASSUME NEW q \in Procs PROVE WriteAt(q)'
    <3>1. CASE q = p
      <4> SUFFICES ASSUME Live(disk)
                   PROVE  disk <= idp /\ (owner = Enrich[p] => disk = idp)
          BY <1>1, <1>4, <2>1, <3>1 DEF WriteAt, leaseVars
      <4>1. CASE disk # idp
        <5>1. disk < idp /\ \E r \in Procs : Fresh(r) /\ ~run[r].cut
            BY <4>1 DEF TokenInv, DiskInv
        <5>2. QED
            BY <5>1, Exclusive, FreshIsPast, Numbers
      <4>2. QED
          BY <4>1, Numbers
    <3>2. CASE q # p
        BY <1>1, <1>4, <2>1, <2>2, <3>2 DEF TokenInv, WriteAt, leaseVars
    <3>3. QED
        BY <3>1, <3>2
  <2>6. ASSUME NEW q \in Procs PROVE FreshAt(q)'
    <3> SUFFICES ASSUME Fresh(q), Live(run[q].got)
                 PROVE  run[q].got = idp /\ (run[q].cut => Alone(q)')
        BY <1>1, <1>2, <2>1 DEF FreshAt
    <3>1. run[q].got = idp /\ (run[q].cut => Alone(q))
        BY DEF TokenInv, FreshAt
    <3>2. ASSUME Alone(q) PROVE Alone(q)'
        BY <1>1, <1>2, <1>4, <2>2, <3>2 DEF Alone
    <3>3. QED
        BY <3>1, <3>2
  <2>7. QED
      BY <2>3, <2>4, <2>5, <2>6 DEF TokenInv
<1>5. QED
    BY <1>3, <1>4 DEF EnrichRead

\* The enrichment writes back what it read: the newest credential if it owns the
\* lock, an excused one if not.
LEMMA TokenEnrichWrite ==
    ASSUME Types, LockInv, TokenInv, NEW p \in Procs, Local(p), OwnLease(p), EnrichWrite(p)
    PROVE  TokenInv'
<1>1. /\ UNCHANGED <<idp, family, reused, stage, run, enrichGen>>
      /\ excused \subseteq excused' /\ disk' = enrichGen[p] /\ enrich[p] = "write"
      /\ owner # Enrich[p] => enrichGen[p] \in excused'
    BY DEF EnrichWrite, chainVars, WriteDisk, still_live
<1>2. \A q \in Procs : (Sent(q)' <=> Sent(q)) /\ (Fresh(q)' <=> Fresh(q))
    BY <1>1 DEF Sent, Fresh
<1>3. \A g : Live(g)' => Live(g)
    BY <1>1 DEF Live
<1>4. \A q \in Procs :
          enrich'[q] = "write" => enrich[q] = "write" /\ (owner' = Enrich[q] => owner = Enrich[q])
  <2>1. enrich'[p] # "write"
      BY Domains DEF EnrichWrite
  <2>2. QED
      BY <2>1, Others
<1>5. (family <= idp)' /\ ReuseExcused'
    BY <1>1 DEF TokenInv, ReuseExcused
<1>6. DiskInv'
  <2>1. Live(enrichGen[p])' => enrichGen[p] = idp
      BY <1>1, <1>3 DEF TokenInv, WriteAt, Live
  <2>2. QED
      BY <1>1, <2>1 DEF DiskInv
<1>7. ASSUME NEW q \in Procs PROVE SentAt(q)' /\ WriteAt(q)'
    BY <1>1, <1>2, <1>3, <1>4 DEF TokenInv, SentAt, WriteAt
<1>8. ASSUME NEW q \in Procs PROVE FreshAt(q)'
    BY <1>1, <1>2, <1>3, <1>4 DEF TokenInv, FreshAt, Alone
<1>9. QED
    BY <1>5, <1>6, <1>7, <1>8 DEF TokenInv

\* After a login every token of before is of an earlier family.
LEMMA TokenLogin ==
    ASSUME Types, LockInv, TokenInv, NEW p \in Procs, Local(p), OwnLease(p), Login(p)
    PROVE  TokenInv'
<1>1. /\ idp' = idp + 1 /\ family' = idp + 1 /\ disk' = idp + 1
      /\ UNCHANGED <<leaseVars, stage, run, excused, reused>>
    BY DEF Login, WriteDisk, chainVars
<1>2. \A q \in Procs : (Sent(q)' <=> Sent(q)) /\ (Fresh(q)' <=> Fresh(q))
    BY <1>1 DEF Sent, Fresh
<1>3. family <= idp
    BY DEF TokenInv
<1>4. \A g \in Nat : Live(g)' => Live(g) /\ g > idp
    BY <1>1, <1>3, Numbers DEF Live
<1>5. \A q \in Procs :
          enrich'[q] = "write" => enrich[q] = "write" /\ enrichGen'[q] = enrichGen[q]
  <2>1. enrich'[p] = "write" => enrich[p] = "write" /\ enrichGen'[p] = enrichGen[p]
      BY SpawnEffect DEF Login
  <2>2. QED
      BY <2>1, Others
<1>6. (family <= idp)' /\ ReuseExcused' /\ DiskInv'
    BY <1>1, Numbers DEF TokenInv, ReuseExcused, DiskInv
<1>7. ASSUME NEW q \in Procs PROVE SentAt(q)'
  <2>1. Sent(q) => ~Live(run[q].tried)'
      BY <1>1, <1>4, Numbers DEF TokenInv, SentAt
  <2>2. QED
      BY <1>2, <2>1 DEF SentAt
<1>8. ASSUME NEW q \in Procs PROVE FreshAt(q)'
  <2>1. Fresh(q) => ~Live(run[q].got)'
      BY <1>1, <1>4, Numbers DEF TokenInv, FreshAt
  <2>2. QED
      BY <1>2, <2>1 DEF FreshAt
<1>9. ASSUME NEW q \in Procs PROVE WriteAt(q)'
    BY <1>4, <1>5, Numbers DEF TokenInv, WriteAt
<1>10. QED
    BY <1>6, <1>7, <1>8, <1>9 DEF TokenInv

\* The lock is broken: what its owner has on the wire, to write or to write back is
\* excused.
LEMMA TokenBreak ==
    ASSUME Types, LockInv, TokenInv, Break
    PROVE  TokenInv'
<1>1. /\ UNCHANGED <<disk, idp, family, reused, enrich, enrichGen>> /\ owner' = None
      /\ excused \subseteq excused'
    BY DEF Break, Revoke, credVars, sideVars, enrichVars
<1>2. \A q \in Procs :
          /\ (Sent(q)' <=> Sent(q)) /\ (Fresh(q)' <=> Fresh(q))
          /\ run'[q].tried = run[q].tried /\ run'[q].got = run[q].got
          /\ run[q].cut => run'[q].cut
          /\ run'[q].cut => run[q].cut \/ owner = Task[q]
    BY BreakEffect DEF Sent, Fresh
<1>3. \A q \in Procs :
          (Sent(q) \/ Fresh(q)) /\ owner = Task[q] =>
              run[q].tried \in excused' /\ run[q].got \in excused'
  <2> SUFFICES ASSUME NEW q \in Procs, Sent(q) \/ Fresh(q), owner = Task[q]
               PROVE  run[q].tried \in excused' /\ run[q].got \in excused'
      OBVIOUS
  <2>1. AtStake(q) = {run[q].tried, run[q].got}
      BY DEF AtStake, Sent, Fresh
  <2>2. QED
      BY <2>1 DEF Break
<1>4. \A g : Live(g)' => Live(g) /\ g \notin excused'
    BY <1>1 DEF Live
<1>5. \A q \in Procs : (Sent(q) \/ Fresh(q)) /\ ~run[q].cut => owner = Task[q]
    BY FreshIsPast, Exclusive
<1>6. (family <= idp)' /\ ReuseExcused'
    BY <1>1 DEF TokenInv, ReuseExcused
<1>7. DiskInv'
  <2> SUFFICES ASSUME Live(disk)', disk # idp PROVE FALSE
      BY <1>1 DEF DiskInv
  <2>1. \E q \in Procs : Fresh(q) /\ ~run[q].cut /\ run[q].tried = disk
      BY <1>1, <1>4 DEF TokenInv, DiskInv
  <2>2. disk \notin excused'
      BY <1>1, <1>4
  <2>3. QED
      BY <1>3, <1>5, <2>1, <2>2
<1>8. ASSUME NEW q \in Procs PROVE SentAt(q)'
    BY <1>2, <1>3, <1>4, <1>5 DEF TokenInv, SentAt
<1>9. ASSUME NEW q \in Procs PROVE WriteAt(q)'
    BY <1>1, <1>4, Distinct DEF TokenInv, WriteAt
<1>10. ASSUME NEW q \in Procs PROVE FreshAt(q)'
  <2> SUFFICES ASSUME Fresh(q), Live(run[q].got)'
               PROVE  run[q].got = idp /\ (run'[q].cut => Alone(q)')
      BY <1>1, <1>2 DEF FreshAt
  <2>1. Live(run[q].got) /\ run[q].got \notin excused'
      BY <1>2, <1>4
  <2>2. run[q].got = idp /\ (run[q].cut => Alone(q))
      BY <2>1 DEF TokenInv, FreshAt
  <2>3. run'[q].cut => run[q].cut
      BY <1>2, <1>3, <2>1
  <2>4. ASSUME Alone(q) PROVE Alone(q)'
      BY <1>1, <1>2, <2>4 DEF Alone
  <2>5. QED
      BY <2>2, <2>3, <2>4
<1>11. QED
    BY <1>6, <1>7, <1>8, <1>9, <1>10 DEF TokenInv

\* A step that leaves the tokens, the refreshes, the lock and the enrichments alone.
LEMMA TokenSame ==
    ASSUME TokenInv,
           UNCHANGED <<owner, disk, idp, family, stage, run, enrich, enrichGen, excused, reused>>
    PROVE  TokenInv'
<1>1. \A q \in Procs : (Sent(q)' <=> Sent(q)) /\ (Fresh(q)' <=> Fresh(q))
    BY DEF Sent, Fresh
<1>2. \A g : Live(g)' <=> Live(g)
    BY DEF Live
<1>3. QED
    BY <1>1, <1>2 DEF TokenInv, ReuseExcused, DiskInv, SentAt, FreshAt, Alone, WriteAt

\* Every step keeps the token invariant.
LEMMA TokenStep == TypeOK /\ LockInv /\ TokenInv /\ [Next]_vars => TokenInv'
<1> SUFFICES ASSUME Types, LockInv, TokenInv, [Next]_vars PROVE TokenInv'
    BY TypeGroups
<1>1. CASE UNCHANGED vars
    BY <1>1, TokenSame DEF vars, leaseVars, credVars, chainVars, sideVars, enrichVars, historyVars
<1>2. CASE Break
    BY <1>2, TokenBreak
<1>3. CASE Expire
    BY <1>3, TokenSame DEF Expire, leaseVars, chainVars, sideVars, enrichVars, historyVars
<1>4. CASE Next /\ ~Break /\ ~Expire
    BY <1>4, LocalStep, TokenQuietSteps, TokenSend, TokenTerminal, TokenUnreadable, TokenLost,
       TokenAnswer, TokenApply, TokenEnrichRead, TokenEnrichWrite, TokenUnlocked, TokenLogin
    DEF Next, ChainStep, SaveStep
<1>5. QED
    BY <1>1, <1>2, <1>3, <1>4

\* The token invariant holds at the start.
LEMMA TokenInit == Init => TokenInv
<1> SUFFICES ASSUME Init PROVE TokenInv
    OBVIOUS
<1>1. /\ disk = 0 /\ idp = 0 /\ family = 0 /\ reused = {}
      /\ \A p \in Procs : stage[p] = "idle" /\ enrich[p] = "off"
    BY DEF Init
<1>2. QED
    BY <1>1 DEF TokenInv, ReuseExcused, DiskInv, SentAt, FreshAt, WriteAt, Sent, Fresh

\* Whatever the number of processes, of calls, of attempts and of unlocked writes, and
\* however they interleave: a refresh token is presented twice only if the answer or
\* the write of its first use was lost, its spender died or lost the lock, the disk
\* could not be read, or a writer without the lock put it back.
THEOREM RefreshNoReuse == Spec => []ReuseExcused
<1>1. Init => TypeOK /\ LockInv /\ TokenInv
    BY TypeInit, LockInit, TokenInit
<1>2. (TypeOK /\ LockInv /\ TokenInv) /\ [Next]_vars => (TypeOK /\ LockInv /\ TokenInv)'
    BY TypeStep, LockStep, TokenStep
<1>3. TokenInv => ReuseExcused
    BY DEF TokenInv
<1>4. QED
    BY <1>1, <1>2, <1>3, PTL DEF Spec

-----------------------------------------------------------------------------
(* Verdicts.                                                               *)

\* A credential the provider will never honour again, and one that has been on disk.
Retired(g) == revoked \/ g < idp
Stored(g) == placed[g] # "never"

\* No process holds a credential that the provider has not issued yet.
CacheAt(p) == mem[p] <= idp /\ flowDisk[p] <= idp /\ enrichGen[p] <= idp
SaveAt(p) == saving[p].gen <= idp

\* A refresh that was told invalid_grant sent a retired credential.  One that says so
\* for good sent what was on disk: the disk retry comes before the verdict.
RunAt(p) ==
    /\ run[p].tried <= idp /\ run[p].got <= idp
    /\ stage[p] = "reply" /\ run[p].reply = "terminal" => Retired(run[p].tried)
    /\ stage[p] = "apply" /\ run[p].reply = "sticky" => Retired(run[p].tried) /\ Stored(run[p].tried)
    /\ run[p].retried => stage[p] \in {"wire", "reply", "apply"} /\ Stored(run[p].tried)

\* A sticky verdict is about a retired credential that was on disk.  A refresh that
\* went on in spite of it met another credential there, and goes on meeting one
\* unless a late writer puts the old one back.
VerdictAt(p) ==
    /\ verdict[p].key <= idp
    /\ verdict[p].kind = "sticky" =>
          /\ Retired(verdict[p].key) /\ Stored(verdict[p].key)
          /\ stage[p] # "idle" => disk # verdict[p].key \/ placed[verdict[p].key] = "again"
          /\ stage[p] \in {"wire", "reply"} => \/ run[p].blind
                                              \/ run[p].tried # verdict[p].key
                                              \/ placed[verdict[p].key] = "again"

OnDisk == disk <= idp /\ Stored(disk)

VerdictInv == OnDisk /\ \A p \in Procs : CacheAt(p) /\ SaveAt(p) /\ RunAt(p) /\ VerdictAt(p)

\* What is retired stays so; what was stored stays so, and comes back only as "again".
IdpKeeps ==
    /\ idp <= idp'
    /\ \A g \in Gens : g <= idp /\ Retired(g) => Retired(g)'

DiskKeeps ==
    \A g \in Gens :
        /\ Stored(g) => Stored(g)'
        /\ placed[g] = "again" => placed'[g] = "again"
        /\ Stored(g) /\ disk # g => disk' # g \/ placed'[g] = "again"

\* The numbers that are compared.
LEMMA Counts ==
    ASSUME Types, NEW p \in Procs
    PROVE  /\ disk \in Int /\ idp \in Int /\ mem[p] \in Int /\ flowDisk[p] \in Int
           /\ enrichGen[p] \in Int /\ run[p].tried \in Int /\ run[p].got \in Int
           /\ verdict[p].key \in Gens /\ verdict[p].key \in Int
<1>1. verdict[p].key \in Gens
    BY DEF Types, ChainTypes, Verdicts
<1>2. \A g \in Gens : g \in Int
    BY DEF Gens
<1>3. QED
    BY <1>1, <1>2, Copied

\* The provider is not asked.
LEMMA IdpSame ==
    ASSUME Types, UNCHANGED <<idp, revoked>>
    PROVE  IdpKeeps
  BY DEF Types, CredTypes, Gens, IdpKeeps, Retired

\* The provider rotates or revokes a family, or starts a new one.
LEMMA IdpMoves ==
    ASSUME Types, \/ idp' = idp /\ (revoked => revoked')
                  \/ idp' = idp + 1
    PROVE  IdpKeeps
  BY DEF Types, CredTypes, Gens, IdpKeeps, Retired

\* auth.json is left alone.
LEMMA DiskSame ==
    ASSUME UNCHANGED <<disk, placed>>
    PROVE  DiskKeeps /\ (Stored(disk) => Stored(disk)')
  BY DEF DiskKeeps, Stored

\* A write that brings back a credential marks it.
LEMMA DiskWritten ==
    ASSUME Types, NEW g \in Gens, WriteDisk(g)
    PROVE  DiskKeeps /\ disk' = g /\ (Stored(disk) => Stored(disk)')
<1>1. placed \in [Gens -> Placings] /\ disk' = g
    BY DEF Types, HistoryTypes, WriteDisk
<1>2. CASE g = disk
    BY <1>2, DiskSame DEF WriteDisk
<1>3. CASE g # disk
  <2>1. /\ placed'[g] = IF placed[g] = "never" THEN "once" ELSE "again"
        /\ \A h \in Gens \ {g} : placed'[h] = placed[h]
      BY <1>1, <1>3 DEF WriteDisk
  <2>2. QED
      BY <1>1, <2>1 DEF DiskKeeps, Stored
<1>4. QED
    BY <1>2, <1>3

\* What holds of a process goes on holding while it is left alone.
KeptAt(p) ==
    /\ stage'[p] = stage[p]
    /\ run'[p].tried = run[p].tried /\ run'[p].got = run[p].got /\ run'[p].reply = run[p].reply
    /\ run'[p].retried = run[p].retried /\ run'[p].blind = run[p].blind
    /\ verdict'[p] = verdict[p]

\* ... and the provider and the disk move on around it.
LEMMA RunKept ==
    ASSUME Types, Types', NEW p \in Procs, IdpKeeps, DiskKeeps, KeptAt(p), RunAt(p), VerdictAt(p)
    PROVE  RunAt(p)' /\ VerdictAt(p)'
<1>1. /\ run[p].tried \in Gens /\ run[p].got \in Gens /\ verdict[p].key \in Gens
      /\ run[p].tried \in Int /\ run[p].got \in Int /\ verdict[p].key \in Int
      /\ idp \in Int /\ idp' \in Int
    BY Copied, Counts DEF Types, CredTypes, Gens
<1>2. RunAt(p)'
    BY <1>1 DEF RunAt, IdpKeeps, DiskKeeps, KeptAt
<1>3. VerdictAt(p)'
    BY <1>1 DEF VerdictAt, IdpKeeps, DiskKeeps, KeptAt
<1>4. QED
    BY <1>2, <1>3

\* A refresh that ends, or goes on to a stage where nothing was sent yet.
Unsent == {"idle", "locked", "relock", "ready", "claimed"}

MovesAt(p) ==
    /\ verdict'[p] = verdict[p]
    /\ \/ stage'[p] = stage[p] /\ run'[p] = run[p]
       \/ stage[p] \in ({"lock"} \cup Unsent) \ {"idle"} /\ stage'[p] \in Unsent /\ run'[p] = run[p]
       \/ stage'[p] = "idle" /\ run'[p] = NoRun

\* Such a step keeps what is known of the refresh and of the verdict.
LEMMA RunMoved ==
    ASSUME Types, Types', NEW p \in Procs, IdpKeeps, DiskKeeps, MovesAt(p), RunAt(p), VerdictAt(p)
    PROVE  RunAt(p)' /\ VerdictAt(p)'
<1>1. /\ run[p].tried \in Gens /\ run[p].got \in Gens /\ verdict[p].key \in Gens
      /\ run[p].tried \in Int /\ run[p].got \in Int /\ verdict[p].key \in Int
      /\ idp \in Int /\ idp' \in Int /\ 0 <= idp'
    BY Copied, Counts DEF Types, CredTypes, Gens
<1>2. NoRun.tried = 0 /\ NoRun.got = 0 /\ NoRun.retried = FALSE
    BY DEF NoRun
<1>3. RunAt(p)'
    BY <1>1, <1>2 DEF RunAt, IdpKeeps, DiskKeeps, MovesAt, Unsent
<1>4. VerdictAt(p)'
    BY <1>1 DEF VerdictAt, IdpKeeps, DiskKeeps, MovesAt, Unsent
<1>5. QED
    BY <1>3, <1>4

\* What a step of process p does to the credentials it and the others hold.
Elsewhere(p) ==
    \A q \in Procs \ {p} :
        mem'[q] = mem[q] /\ flowDisk'[q] = flowDisk[q] /\ verdict'[q] = verdict[q]

Holds(p) == IdpKeeps /\ DiskKeeps /\ OnDisk' /\ CacheAt(p)'

\* No credential changes hands.
LEMMA HoldsQuiet ==
    ASSUME Types, VerdictInv, NEW p \in Procs,
           UNCHANGED <<disk, mem, idp, revoked, placed, flowDisk, enrichGen>>
    PROVE  Holds(p)
<1>1. IdpKeeps /\ DiskKeeps
    BY IdpSame, DiskSame
<1>2. OnDisk' /\ CacheAt(p)'
    BY DEF VerdictInv, OnDisk, CacheAt, Stored
<1>3. QED
    BY <1>1, <1>2 DEF Holds

\* A credential is copied: from the disk, from what the flow read, or by a write of
\* what was issued.
LEMMA HoldsCopied ==
    ASSUME Types, Types', VerdictInv, NEW p \in Procs, UNCHANGED <<idp, revoked>>,
           UNCHANGED <<disk, placed>> \/ \E g \in Gens : g <= idp /\ WriteDisk(g),
           mem'[p] <= idp, flowDisk'[p] <= idp, enrichGen'[p] <= idp
    PROVE  Holds(p)
<1>1. IdpKeeps /\ CacheAt(p)'
    BY IdpSame DEF CacheAt
<1>2. DiskKeeps /\ OnDisk'
  <2>1. CASE UNCHANGED <<disk, placed>>
      BY <2>1, DiskSame DEF VerdictInv, OnDisk
  <2>2. CASE \E g \in Gens : g <= idp /\ WriteDisk(g)
      BY <2>2, DiskWritten DEF VerdictInv, OnDisk
  <2>3. QED
      BY <2>1, <2>2
<1>3. QED
    BY <1>1, <1>2 DEF Holds

\* The steps in which no credential changes hands.
LEMMA QuietSteps ==
    ASSUME Types, VerdictInv, NEW p \in Procs,
           \/ Enter(p) \/ Defer(p) \/ Revalidate(p) \/ RelockRefused(p) \/ ClaimSlot(p)
           \/ BackOut(p) \/ Send(p) \/ SendUnreadable(p) \/ ReplySuccess(p)
           \/ ReplyTerminal(p) \/ ReplyFailed(p) \/ ReplyLost(p) \/ ApplyTransient(p)
           \/ EnrichLocked(p) \/ EnrichRead(p) \/ EnrichFails(p) \/ FlowStart(p) \/ Grant(p)
           \/ Initialize(p) \/ SetRetention(p) \/ StoreApiKey(p) \/ RetentionRefused(p)
           \/ WillSleep(p) \/ AckDrained(p) \/ AckForced(p) \/ Wake(p)
           \/ VerdictExpires(p) \/ Crash(p)
    PROVE  Holds(p) /\ Elsewhere(p)
<1> DEFINE Still == UNCHANGED <<disk, mem, idp, revoked, placed, flowDisk, enrichGen>>
           Apart == \A q \in Procs \ {p} : verdict'[q] = verdict[q]
<1>0. DOMAIN verdict = Procs
    BY DEF Types, ChainTypes
<1>1. CASE Enter(p) \/ Defer(p) \/ Revalidate(p) \/ RelockRefused(p) \/ ClaimSlot(p) \/ BackOut(p)
  <2>1. Still /\ Apart
      BY <1>1 DEF Enter, Defer, Revalidate, RelockRefused, ClaimSlot, BackOut, credVars, flowVars,
                  sideVars, enrichVars, historyVars
  <2>2. QED
      BY <2>1, HoldsQuiet DEF Elsewhere
<1>2. CASE Send(p) \/ SendUnreadable(p) \/ ReplySuccess(p) \/ ReplyTerminal(p)
  <2>1. Still /\ Apart
      BY <1>2 DEF Send, SendUnreadable, ReplySuccess, ReplyTerminal, credVars, flowVars,
                  sideVars, enrichVars, historyVars
  <2>2. QED
      BY <2>1, HoldsQuiet DEF Elsewhere
<1>3. CASE ReplyFailed(p) \/ ReplyLost(p) \/ ApplyTransient(p) \/ Grant(p)
  <2>1. Still /\ Apart
      BY <1>3 DEF ReplyFailed, ReplyLost, ApplyTransient, Grant, credVars, chainVars, flowVars,
                  sideVars, enrichVars, historyVars
  <2>2. QED
      BY <2>1, HoldsQuiet DEF Elsewhere
<1>4. CASE EnrichLocked(p) \/ EnrichRead(p) \/ EnrichFails(p) \/ FlowStart(p)
  <2>1. Still /\ Apart
      BY <1>4 DEF EnrichLocked, EnrichRead, EnrichFails, FlowStart, credVars, chainVars, flowVars,
                  sideVars, enrichVars, historyVars
  <2>2. QED
      BY <2>1, HoldsQuiet DEF Elsewhere
<1>5. CASE WillSleep(p) \/ AckDrained(p) \/ AckForced(p) \/ Wake(p)
  <2>1. Still /\ Apart
      BY <1>5 DEF WillSleep, AckDrained, AckForced, Wake, credVars, chainVars, flowVars,
                  sideVars, enrichVars, historyVars
  <2>2. QED
      BY <2>1, HoldsQuiet DEF Elsewhere
<1>6. CASE VerdictExpires(p) \/ Crash(p)
  <2>1. Still /\ Apart
      BY <1>0, <1>6 DEF VerdictExpires, Crash, credVars, flowVars, sideVars, enrichVars, historyVars
  <2>2. QED
      BY <2>1, HoldsQuiet DEF Elsewhere
<1>7. CASE Initialize(p) \/ SetRetention(p) \/ StoreApiKey(p) \/ RetentionRefused(p)
  <2>1. Still /\ Apart
      BY <1>7 DEF Initialize, SetRetention, StoreApiKey, RetentionRefused, credVars, chainVars,
                  flowVars, enrichVars, historyVars
  <2>2. QED
      BY <2>1, HoldsQuiet DEF Elsewhere
<1>8. QED
    BY <1>1, <1>2, <1>3, <1>4, <1>5, <1>6, <1>7

\* The steps that adopt, write or issue a credential.
LEMMA BusySteps ==
    ASSUME Types, Types', VerdictInv, NEW p \in Procs,
           \/ \E reason \in Reasons : Call(p, reason)
           \/ LockHeld(p) \/ LockRefused(p) \/ RelockHeld(p) \/ IdpAnswers(p)
           \/ ApplySuccess(p) \/ ApplyPermanent(p) \/ ApplyPersistFails(p) \/ EnrichWrite(p)
           \/ FlowStep(p) \/ SaveUnlocked(p) \/ Login(p)
    PROVE  Holds(p) /\ Elsewhere(p)
<1>0. /\ DOMAIN verdict = Procs /\ DOMAIN mem = Procs /\ DOMAIN flowDisk = Procs
      /\ DOMAIN enrichGen = Procs
    BY DEF Types, ChainTypes, CredTypes, FlowTypes, EnrichTypes
<1>1. /\ disk <= idp /\ mem[p] <= idp /\ flowDisk[p] <= idp /\ enrichGen[p] <= idp
      /\ run[p].got <= idp /\ saving[p].gen <= idp
    BY DEF VerdictInv, OnDisk, CacheAt, SaveAt, RunAt
<1>2. ASSUME NEW reason, Adopt(p, reason)
      PROVE  mem'[p] <= idp /\ \A q \in Procs \ {p} : mem'[q] = mem[q]
    BY <1>0, <1>1, <1>2 DEF Adopt
<1>3. ASSUME NEW reason \in Reasons, Call(p, reason) PROVE Holds(p) /\ Elsewhere(p)
  <2>1. /\ UNCHANGED <<disk, idp, revoked, placed, flowDisk, enrichGen, verdict>>
        /\ Adopt(p, reason) \/ mem' = mem
      BY <1>3 DEF Call, flowVars, sideVars, enrichVars, historyVars
  <2>2. QED
      BY <1>1, <1>2, <2>1, HoldsCopied DEF Elsewhere
<1>4. CASE LockHeld(p) \/ LockRefused(p) \/ RelockHeld(p)
  <2>1. /\ UNCHANGED <<disk, idp, revoked, placed, flowDisk, enrichGen, verdict>>
        /\ Adopt(p, run[p].reason)
      BY <1>4 DEF LockHeld, LockRefused, RelockHeld, flowVars, sideVars, enrichVars, historyVars
  <2>2. QED
      BY <1>1, <1>2, <2>1, HoldsCopied DEF Elsewhere
<1>5. CASE ApplyPermanent(p)
  <2>1. /\ UNCHANGED <<disk, idp, revoked, placed, flowDisk, enrichGen>>
        /\ Adopt(p, run[p].reason)
        /\ verdict' = verdict
              \/ verdict' = [verdict EXCEPT ![p] = [key |-> run[p].tried, kind |-> run[p].reply]]
      BY <1>5 DEF ApplyPermanent, flowVars, sideVars, enrichVars, historyVars
  <2>2. Holds(p)
      BY <1>1, <1>2, <2>1, HoldsCopied
  <2>3. QED
      BY <1>0, <1>2, <2>1, <2>2 DEF Elsewhere
<1>6. CASE IdpAnswers(p)
  <2>0. UNCHANGED <<disk, mem, placed, flowDisk, enrichGen, verdict>>
      BY <1>6 DEF IdpAnswers, flowVars, sideVars, enrichVars
  <2>1. /\ UNCHANGED <<disk, mem, placed, flowDisk, enrichGen, verdict>>
        /\ \/ idp' = idp /\ (revoked => revoked')
           \/ idp' = idp + 1
    <3>1. \/ idp' = idp + 1
          \/ idp' = idp /\ revoked' = (revoked \/ run[p].tried >= family)
          \/ idp' = idp /\ revoked' = revoked
        BY <1>6 DEF IdpAnswers
    <3>2. CASE idp' = idp /\ revoked' = (revoked \/ run[p].tried >= family)
      <4>1. revoked => revoked'
          BY <3>2, Zenon
      <4>2. QED
          BY <2>0, <3>2, <4>1
    <3>3. QED
        BY <2>0, <3>1, <3>2
  <2>2. IdpKeeps /\ DiskKeeps
      BY <2>1, IdpMoves, DiskSame
  <2>3. idp <= idp' /\ idp \in Int /\ idp' \in Int
      BY <2>2, Counts DEF IdpKeeps, Types, CredTypes, Gens
  <2>4. OnDisk' /\ CacheAt(p)'
      BY <1>1, <2>1, <2>3, Counts DEF VerdictInv, OnDisk, CacheAt, Stored
  <2>5. QED
      BY <2>1, <2>2, <2>4 DEF Holds, Elsewhere
<1>7. CASE ApplySuccess(p) \/ ApplyPersistFails(p)
  <2>1. /\ UNCHANGED <<idp, revoked, flowDisk, verdict>>
        /\ UNCHANGED <<disk, placed>> \/ WriteDisk(run[p].got)
        /\ mem' = [mem EXCEPT ![p] = run[p].got]
        /\ \E n \in {0, 1} : SpawnEnrichment(p, run[p].got, n)
      BY <1>7 DEF ApplySuccess, ApplyPersistFails
  <2>2. enrichGen'[p] = enrichGen[p] \/ enrichGen'[p] = run[p].got
      BY <2>1, SpawnEffect
  <2>3. mem'[p] = run[p].got /\ \A q \in Procs \ {p} : mem'[q] = mem[q]
      BY <1>0, <2>1
  <2>4. Holds(p)
      BY <1>1, <2>1, <2>2, <2>3, Copied, HoldsCopied
  <2>5. QED
      BY <2>1, <2>3, <2>4 DEF Elsewhere
<1>8. CASE EnrichWrite(p)
  <2>1. /\ UNCHANGED <<idp, revoked, flowDisk, verdict, enrichGen>>
        /\ WriteDisk(enrichGen[p])
        /\ mem' = [mem EXCEPT ![p] = enrichGen[p]]
      BY <1>8 DEF EnrichWrite, flowVars, chainVars
  <2>2. mem'[p] = enrichGen[p] /\ \A q \in Procs \ {p} : mem'[q] = mem[q]
      BY <1>0, <2>1
  <2>3. Holds(p)
      BY <1>1, <2>1, <2>2, Copied, HoldsCopied
  <2>4. QED
      BY <2>1, <2>2, <2>3 DEF Elsewhere
<1>9. CASE FlowStep(p)
  <2>1. /\ UNCHANGED <<disk, placed, idp, revoked, verdict, enrichGen>>
        /\ flowDisk' = flowDisk \/ flowDisk' = [flowDisk EXCEPT ![p] = disk]
        /\ \/ mem' = mem
           \/ \E g \in {disk, flowDisk[p]} : mem' = [mem EXCEPT ![p] = g]
      BY <1>9 DEF FlowStep, FlowLocked, FlowEnd, sideVars, enrichVars, historyVars, chainVars
  <2>2. /\ mem'[p] <= idp /\ flowDisk'[p] <= idp
        /\ \A q \in Procs \ {p} : mem'[q] = mem[q] /\ flowDisk'[q] = flowDisk[q]
      BY <1>0, <1>1, <2>1
  <2>3. Holds(p)
      BY <1>1, <2>1, <2>2, HoldsCopied
  <2>4. QED
      BY <2>1, <2>2, <2>3 DEF Elsewhere
<1>10. CASE Login(p)
  <2>1. /\ UNCHANGED <<flowDisk, verdict>>
        /\ idp' = idp + 1 /\ WriteDisk(idp + 1)
        /\ mem' = [mem EXCEPT ![p] = idp + 1]
        /\ SpawnEnrichment(p, idp + 1, 1)
      BY <1>10 DEF Login, flowVars, chainVars
  <2>2. idp + 1 \in Gens /\ idp \in Int /\ idp + 1 \in Int
      BY <1>10, <2>1 DEF Login, Types, CredTypes, Gens
  <2>3. IdpKeeps /\ DiskKeeps /\ OnDisk'
      BY <2>1, <2>2, IdpMoves, DiskWritten DEF VerdictInv, OnDisk
  <2>4. mem'[p] = idp + 1 /\ \A q \in Procs \ {p} : mem'[q] = mem[q]
      BY <1>0, <2>1
  <2>5. enrichGen'[p] = enrichGen[p] \/ enrichGen'[p] = idp + 1
      BY <2>1, SpawnEffect
  <2>6. CacheAt(p)'
      BY <1>1, <2>1, <2>2, <2>4, <2>5, Counts DEF CacheAt
  <2>7. QED
      BY <2>1, <2>3, <2>4, <2>6 DEF Holds, Elsewhere
<1>11. CASE SaveUnlocked(p)
  <2>1. /\ UNCHANGED <<idp, revoked, flowDisk, verdict>>
        /\ UNCHANGED <<disk, placed>> \/ WriteDisk(saving[p].gen)
        /\ mem' = mem \/ mem' = [mem EXCEPT ![p] = saving[p].gen]
        /\ UNCHANGED enrichVars \/ SpawnEnrichment(p, saving[p].gen, 0)
      BY <1>11 DEF SaveUnlocked, PutBack, flowVars, chainVars
  <2>2. enrichGen'[p] = enrichGen[p] \/ enrichGen'[p] = saving[p].gen
      BY <2>1, SpawnEffect DEF enrichVars
  <2>3. mem'[p] \in {mem[p], saving[p].gen} /\ \A q \in Procs \ {p} : mem'[q] = mem[q]
      BY <1>0, <2>1
  <2>4. Holds(p)
      BY <1>1, <2>1, <2>2, <2>3, Copied, HoldsCopied
  <2>5. QED
      BY <2>1, <2>3, <2>4 DEF Elsewhere
<1>12. QED
    BY <1>3, <1>4, <1>5, <1>6, <1>7, <1>8, <1>9, <1>10, <1>11

\* A copy to be written without the lock is taken of what was cached or on disk.
Copies(q) == saving'[q] = saving[q] \/ saving'[q].gen \in {0, disk, mem[q], mem'[q]}

LEMMA CopySteps ==
    ASSUME Types, NEW p \in Procs, NEW q \in Procs,
           \/ \E reason \in Reasons : Call(p, reason)
           \/ ChainStep(p)
           \/ SendUnreadable(p) \/ ReplyLost(p) \/ ApplyPersistFails(p)
           \/ EnrichLocked(p) \/ EnrichRead(p) \/ EnrichWrite(p) \/ EnrichFails(p)
           \/ FlowStart(p) \/ FlowStep(p) \/ SaveStep(p) \/ Login(p)
           \/ Grant(p)
           \/ WillSleep(p) \/ AckDrained(p) \/ AckForced(p) \/ Wake(p)
           \/ VerdictExpires(p) \/ Crash(p)
    PROVE  Copies(q)
<1>0. DOMAIN saving = Procs /\ NoSave.gen = 0
    BY DEF Types, SaveTypes, NoSave
<1>1. ASSUME NEW by, NEW g \in {disk, mem[p], mem'[p]}, Take(p, by, g) PROVE Copies(q)
    BY <1>0, <1>1 DEF Take, Copies
<1>2. CASE ChainStep(p)
    BY <1>2
    DEF ChainStep, Enter, LockHeld, LockRefused, Defer, Revalidate, RelockHeld, RelockRefused,
        ClaimSlot, BackOut, Send, IdpAnswers, ReplySuccess, ReplyTerminal, ReplyFailed,
        ApplySuccess, ApplyPermanent, ApplyTransient, sideVars, saveVars, Copies
<1>3. CASE \/ SendUnreadable(p) \/ ReplyLost(p) \/ ApplyPersistFails(p)
           \/ EnrichLocked(p) \/ EnrichRead(p) \/ EnrichWrite(p) \/ EnrichFails(p)
    BY <1>3
    DEF SendUnreadable, ReplyLost, ApplyPersistFails, EnrichLocked, EnrichRead, EnrichWrite,
        EnrichFails, sideVars, saveVars, Copies
<1>4. CASE \/ FlowStart(p) \/ Login(p) \/ Grant(p) \/ VerdictExpires(p)
           \/ WillSleep(p) \/ AckDrained(p) \/ AckForced(p) \/ Wake(p)
    BY <1>4
    DEF FlowStart, Login, Grant, VerdictExpires, WillSleep, AckDrained, AckForced, Wake,
        sideVars, saveVars, Copies
<1>5. ASSUME NEW reason \in Reasons, Call(p, reason) PROVE Copies(q)
    BY <1>5 DEF Call, sideVars, saveVars, Copies
<1>6. CASE FlowStep(p)
  <2>1. \/ UNCHANGED saveVars
        \/ Take(p, "update", disk)
        \/ Take(p, "update", mem'[p])
      BY <1>6 DEF FlowStep, FlowLocked, FlowEnd, Backfill
  <2>2. QED
      BY <1>1, <2>1 DEF saveVars, Copies
<1>7. CASE SaveStep(p)
  <2>1. \/ saving' = [saving EXCEPT ![p] = NoSave]
        \/ \E by \in {"update", "retention"} : Take(p, by, mem[p])
        \/ Take(p, "apikey", disk)
      BY <1>7 DEF SaveStep, Initialize, SetRetention, StoreApiKey, SaveUnlocked, RetentionRefused
  <2>2. QED
      BY <1>0, <1>1, <2>1 DEF Copies
<1>8. CASE Crash(p)
    BY <1>0, <1>8 DEF Crash, Copies
<1>9. QED
    BY <1>2, <1>3, <1>4, <1>5, <1>6, <1>7, <1>8

\* The steps that send nothing and give no verdict.
LEMMA MoveSteps ==
    ASSUME Types, NEW p \in Procs,
           \/ \E reason \in Reasons : Call(p, reason)
           \/ LockHeld(p) \/ LockRefused(p) \/ Defer(p) \/ Revalidate(p) \/ RelockHeld(p)
           \/ RelockRefused(p) \/ ClaimSlot(p) \/ BackOut(p) \/ ApplySuccess(p)
           \/ ApplyPersistFails(p) \/ ApplyTransient(p)
           \/ EnrichLocked(p) \/ EnrichRead(p) \/ EnrichWrite(p) \/ EnrichFails(p)
           \/ FlowStart(p) \/ FlowStep(p) \/ SaveStep(p) \/ Login(p) \/ Grant(p)
           \/ WillSleep(p) \/ AckDrained(p) \/ AckForced(p) \/ Wake(p)
    PROVE  MovesAt(p)
<1>1. ASSUME NEW reason \in Reasons, Call(p, reason) PROVE MovesAt(p)
    BY <1>1 DEF Call, MovesAt
<1>2. CASE LockHeld(p) \/ RelockHeld(p)
    BY <1>2, FinishEffect, ToEffect DEF LockHeld, RelockHeld, MovesAt, Unsent
<1>3. CASE LockRefused(p) \/ Defer(p) \/ RelockRefused(p) \/ BackOut(p)
    BY <1>3, FinishEffect DEF LockRefused, Defer, RelockRefused, BackOut, MovesAt
<1>4. CASE Revalidate(p) \/ ClaimSlot(p)
    BY <1>4, ToEffect DEF Revalidate, ClaimSlot, MovesAt, Unsent
<1>5. CASE ApplySuccess(p) \/ ApplyPersistFails(p) \/ ApplyTransient(p)
    BY <1>5, FinishEffect DEF ApplySuccess, ApplyPersistFails, ApplyTransient, MovesAt
<1>6. CASE EnrichLocked(p) \/ EnrichRead(p) \/ EnrichWrite(p) \/ EnrichFails(p)
    BY <1>6 DEF EnrichLocked, EnrichRead, EnrichWrite, EnrichFails, chainVars, MovesAt
<1>7. CASE FlowStart(p) \/ FlowStep(p) \/ Login(p) \/ Grant(p)
    BY <1>7 DEF FlowStart, FlowStep, FlowLocked, FlowEnd, Login, Grant, chainVars, MovesAt
<1>8. CASE WillSleep(p) \/ AckDrained(p) \/ AckForced(p) \/ Wake(p)
    BY <1>8 DEF WillSleep, AckDrained, AckForced, Wake, chainVars, MovesAt
<1>9. CASE SaveStep(p)
    BY <1>9
    DEF SaveStep, Initialize, SetRetention, StoreApiKey, SaveUnlocked, RetentionRefused,
        chainVars, MovesAt
<1>10. QED
    BY <1>1, <1>2, <1>3, <1>4, <1>5, <1>6, <1>7, <1>8, <1>9

\* The refresher comes back with anything but a sticky verdict.
LEMMA RunBack ==
    ASSUME Types, Types', NEW p \in Procs, IdpKeeps, DiskKeeps, RunAt(p), VerdictAt(p),
           stage[p] # "idle", stage'[p] = "apply", verdict'[p] = verdict[p],
           run'[p].reply # "sticky", run'[p].tried <= idp, run'[p].got <= idp,
           run'[p].retried => Stored(run'[p].tried)
    PROVE  RunAt(p)' /\ VerdictAt(p)'
<1>1. /\ run'[p].tried \in Gens /\ run'[p].tried \in Int /\ run'[p].got \in Int
      /\ verdict[p].key \in Gens /\ verdict[p].key \in Int /\ idp \in Int /\ idp' \in Int
  <2>1. run'[p] \in Runs
      BY DEF Types, ChainTypes
  <2>2. run'[p].tried \in Gens /\ run'[p].got \in Gens
      BY <2>1, RunFields
  <2>3. QED
      BY <2>2, Counts DEF Types, CredTypes, Gens
<1>2. RunAt(p)'
    BY <1>1 DEF RunAt, IdpKeeps, DiskKeeps
<1>3. VerdictAt(p)'
    BY <1>1 DEF VerdictAt, IdpKeeps, DiskKeeps
<1>4. QED
    BY <1>2, <1>3

\* A token goes on the wire: the one on disk, or blindly one from the cache.
LEMMA RunSends ==
    ASSUME Types, Types', VerdictInv, NEW p \in Procs, IdpKeeps, DiskKeeps,
           UNCHANGED <<disk, placed>>,
           stage[p] # "idle", stage'[p] = "wire", verdict'[p] = verdict[p],
           run'[p].tried <= idp, run'[p].got <= idp,
           run'[p].tried # disk => run'[p].blind = TRUE /\ run'[p].retried = FALSE
    PROVE  RunAt(p)' /\ VerdictAt(p)'
<1>1. /\ run'[p].tried \in Gens /\ run'[p].tried \in Int /\ run'[p].got \in Int
      /\ verdict[p].key \in Gens /\ verdict[p].key \in Int /\ idp \in Int /\ idp' \in Int
  <2>1. run'[p] \in Runs
      BY DEF Types, ChainTypes
  <2>2. run'[p].tried \in Gens /\ run'[p].got \in Gens
      BY <2>1, RunFields
  <2>3. QED
      BY <2>2, Counts DEF Types, CredTypes, Gens
<1>2. Stored(disk) /\ VerdictAt(p)
    BY DEF VerdictInv, OnDisk
<1>3. RunAt(p)'
    BY <1>1, <1>2 DEF RunAt, IdpKeeps, DiskKeeps
<1>4. VerdictAt(p)'
    BY <1>1, <1>2 DEF VerdictAt, IdpKeeps, DiskKeeps
<1>5. QED
    BY <1>3, <1>4

\* The steps of the exchange.
LEMMA ExchangeSteps ==
    ASSUME Types, Types', VerdictInv, NEW p \in Procs, Holds(p),
           \/ Send(p) \/ SendUnreadable(p) \/ IdpAnswers(p) \/ ReplySuccess(p)
           \/ ReplyTerminal(p) \/ ReplyFailed(p) \/ ReplyLost(p)
    PROVE  RunAt(p)' /\ VerdictAt(p)'
<1>1. RunAt(p) /\ VerdictAt(p) /\ CacheAt(p) /\ OnDisk /\ IdpKeeps /\ DiskKeeps
    BY DEF VerdictInv, Holds
<1>2. /\ disk <= idp /\ mem[p] <= idp /\ run[p].tried <= idp /\ run[p].got <= idp
      /\ run[p].retried => stage[p] \in {"wire", "reply", "apply"} /\ Stored(run[p].tried)
      /\ Stored(disk)
    BY <1>1 DEF RunAt, CacheAt, OnDisk
<1>3. run[p] \in Runs /\ disk \in Gens /\ mem[p] \in Gens
    BY Copied
<1>4. \A r \in Runs, x \in Replies :
          LET n == [r EXCEPT !.reply = x] IN
          /\ n.reply = x /\ n.tried = r.tried /\ n.got = r.got
          /\ n.retried = r.retried /\ n.blind = r.blind
    BY DEF Runs
<1>5. \A r \in Runs, x \in Replies, g \in Gens :
          LET n == [r EXCEPT !.reply = x, !.got = g] IN
          /\ n.reply = x /\ n.tried = r.tried /\ n.got = g
          /\ n.retried = r.retried /\ n.blind = r.blind
    BY DEF Runs
<1>6. ASSUME NEW x \in {"success", "transient", "other"}, stage[p] # "idle", verdict'[p] = verdict[p],
             Outcome(p, [run[p] EXCEPT !.reply = x])
      PROVE  RunAt(p)' /\ VerdictAt(p)'
  <2>1. x \in Replies /\ x # "sticky"
      BY DEF Replies
  <2>2. stage'[p] = "apply" /\ run'[p] = [run[p] EXCEPT !.reply = x]
      BY <1>6, OutcomeEffect
  <2>3. /\ run'[p].reply = x /\ run'[p].tried = run[p].tried /\ run'[p].got = run[p].got
        /\ run'[p].retried = run[p].retried
      BY <1>3, <1>4, <2>1, <2>2
  <2>4. QED
      BY <1>1, <1>2, <1>6, <2>1, <2>2, <2>3, RunBack
<1>7. ASSUME NEW b \in BOOLEAN, Exchange(p, disk, b), stage[p] # "idle", verdict'[p] = verdict[p],
             UNCHANGED <<disk, placed>>
      PROVE  RunAt(p)' /\ VerdictAt(p)'
  <2>1. stage'[p] = "wire" /\ run'[p].tried = disk /\ run'[p].got = disk
      BY <1>3, <1>7, ExchangeEffect
  <2>2. QED
    <3>1. run'[p].tried <= idp /\ run'[p].got <= idp
        BY <1>2, <2>1
    <3>2. stage[p] # "idle" /\ verdict'[p] = verdict[p] /\ UNCHANGED <<disk, placed>>
        BY <1>7
    <3>3. QED
        BY <1>1, <2>1, <3>1, <3>2, RunSends
<1>8. CASE Send(p)
  <2>1. stage[p] # "idle" /\ verdict'[p] = verdict[p] /\ UNCHANGED <<disk, placed>>
      BY <1>8 DEF Send, credVars
  <2>2. CASE Outcome(p, [run[p] EXCEPT !.reply = "success", !.tried = disk, !.got = disk])
    <3>1. \A r \in Runs :
              LET n == [r EXCEPT !.reply = "success", !.tried = disk, !.got = disk] IN
              n.reply = "success" /\ n.tried = disk /\ n.got = disk
        BY <1>3, Names DEF Runs
    <3>2. /\ stage'[p] = "apply"
          /\ run'[p] = [run[p] EXCEPT !.reply = "success", !.tried = disk, !.got = disk]
        BY <2>2, OutcomeEffect
    <3>3. run'[p].reply = "success" /\ run'[p].tried = disk /\ run'[p].got = disk
        BY <1>3, <3>1, <3>2
    <3>4. QED
        BY <1>1, <1>2, <2>1, <3>2, <3>3, RunBack
  <2>3. CASE Exchange(p, disk, FALSE)
      BY <1>7, <2>1, <2>3
  <2>4. QED
      BY <1>8, <2>2, <2>3 DEF Send, resolved
<1>9. CASE SendUnreadable(p)
  <2>1. stage[p] = "claimed" /\ verdict'[p] = verdict[p] /\ UNCHANGED <<disk, placed>>
      BY <1>9 DEF SendUnreadable, credVars
  <2>2. CASE /\ run' = [run EXCEPT ![p] = [@ EXCEPT !.tried = mem[p], !.got = mem[p], !.blind = TRUE]]
             /\ To(p, "wire")
    <3>1. \A r \in Runs :
              LET n == [r EXCEPT !.tried = mem[p], !.got = mem[p], !.blind = TRUE] IN
              n.tried = mem[p] /\ n.got = mem[p] /\ n.blind = TRUE /\ n.retried = r.retried
        BY <1>3 DEF Runs
    <3>2. run'[p] = [run[p] EXCEPT !.tried = mem[p], !.got = mem[p], !.blind = TRUE]
          /\ stage'[p] = "wire"
        BY <2>2, Domains, ToEffect
    <3>3. /\ run'[p].tried = mem[p] /\ run'[p].got = mem[p] /\ run'[p].blind = TRUE
          /\ run'[p].retried = run[p].retried
        BY <1>3, <3>1, <3>2
    <3>4. run[p].retried = FALSE
        BY <1>2, <1>3, <2>1 DEF Runs
    <3>5. QED
        BY <1>1, <1>2, <2>1, <3>2, <3>3, <3>4, RunSends
  <2>3. CASE Outcome(p, [run[p] EXCEPT !.reply = "transient"])
      BY <1>6, <2>1, <2>3
  <2>4. QED
      BY <1>9, <2>2, <2>3 DEF SendUnreadable
<1>10. CASE ReplySuccess(p)
  <2>1. /\ stage[p] # "idle" /\ verdict'[p] = verdict[p]
        /\ Outcome(p, [run[p] EXCEPT !.reply = "success"])
      BY <1>10 DEF ReplySuccess
  <2>2. QED
      BY <1>6, <2>1
<1>11. CASE ReplyFailed(p) \/ ReplyLost(p)
  <2>1. /\ stage[p] = "reply" /\ verdict'[p] = verdict[p] /\ UNCHANGED <<disk, placed, idp, revoked>>
      BY <1>11 DEF ReplyFailed, ReplyLost, credVars, historyVars
  <2>2. CASE record_transient_failure(p)
    <3>1. \E x \in {"transient", "other"} : Outcome(p, [run[p] EXCEPT !.reply = x])
        BY <2>2, TransientEffect
    <3>2. QED
        BY <1>6, <2>1, <3>1
  <2>3. CASE Again(p)
    <3>1. /\ stage'[p] = "wire" /\ run'[p].tried = run[p].tried /\ run'[p].got = run[p].tried
          /\ run'[p].blind = run[p].blind /\ run'[p].retried = run[p].retried
        BY <2>3, AgainEffect, AgainRun
    <3>2. RunAt(p)'
        BY <1>2, <2>1, <3>1 DEF RunAt, Stored
    <3>3. VerdictAt(p)'
        BY <1>1, <2>1, <3>1 DEF VerdictAt, Retired, Stored
    <3>4. QED
        BY <3>2, <3>3
  <2>4. QED
      BY <1>11, <2>2, <2>3 DEF ReplyFailed, ReplyLost
<1>12. CASE ReplyTerminal(p)
  <2>1. /\ stage[p] = "reply" /\ run[p].reply = "terminal" /\ verdict'[p] = verdict[p]
        /\ UNCHANGED <<disk, placed>> /\ UNCHANGED <<idp, revoked>>
      BY <1>12 DEF ReplyTerminal, credVars
  <2>2. CASE Outcome(p, [run[p] EXCEPT !.reply = "success", !.got = disk])
    <3>1. stage'[p] = "apply" /\ run'[p] = [run[p] EXCEPT !.reply = "success", !.got = disk]
        BY <2>2, OutcomeEffect
    <3>2. /\ run'[p].reply = "success" /\ run'[p].tried = run[p].tried /\ run'[p].got = disk
          /\ run'[p].retried = run[p].retried
        BY <1>3, <1>5, <3>1, Names
    <3>3. QED
        BY <1>1, <1>2, <2>1, <3>1, <3>2, RunBack
  <2>3. CASE Exchange(p, disk, TRUE)
      BY <1>7, <2>1, <2>3
  <2>4. CASE /\ run[p].retried \/ disk = run[p].tried
             /\ Outcome(p, [run[p] EXCEPT !.reply = "sticky"])
    <3>1. stage'[p] = "apply" /\ run'[p] = [run[p] EXCEPT !.reply = "sticky"]
        BY <2>4, OutcomeEffect
    <3>2. /\ run'[p].reply = "sticky" /\ run'[p].tried = run[p].tried
          /\ run'[p].got = run[p].got /\ run'[p].retried = run[p].retried
        BY <1>3, <1>4, <3>1, Names
    <3>3. Retired(run[p].tried) /\ Stored(run[p].tried)
        BY <1>1, <1>2, <2>1, <2>4 DEF RunAt
    <3>4. RunAt(p)'
        BY <1>2, <2>1, <3>1, <3>2, <3>3 DEF RunAt, Retired, Stored
    <3>5. VerdictAt(p)'
        BY <1>1, <2>1, <3>1 DEF VerdictAt, Retired, Stored
    <3>6. QED
        BY <3>4, <3>5
  <2>5. QED
      BY <1>12, <2>2, <2>3, <2>4 DEF ReplyTerminal
<1>13. CASE IdpAnswers(p)
  <2>1. /\ stage[p] = "wire" /\ stage'[p] = "reply" /\ verdict'[p] = verdict[p]
        /\ UNCHANGED <<disk, placed>>
      BY <1>13, AnswerEffect DEF IdpAnswers
  <2>2. /\ run'[p].tried = run[p].tried
        /\ \/ run'[p].got = idp + 1 /\ idp' = idp + 1 /\ run'[p].reply = "ok"
           \/ idp' = idp /\ run'[p].got = run[p].got
      BY <1>13, AnswerEffect
  <2>3. run'[p].retried = run[p].retried /\ run'[p].blind = run[p].blind
    <3>1. PICK x \in Replies : \/ run' = [run EXCEPT ![p] = [@ EXCEPT !.reply = x]]
                               \/ /\ run[p].tried = idp /\ idp < MaxGen
                                  /\ run' = [run EXCEPT ![p] = [@ EXCEPT !.reply = x, !.got = run[p].tried + 1]]
        BY <1>13, Names DEF IdpAnswers
    <3>2. CASE run' = [run EXCEPT ![p] = [@ EXCEPT !.reply = x]]
      <4>1. run'[p] = [run[p] EXCEPT !.reply = x]
          BY <3>2, Domains
      <4>2. QED
          BY <1>3, <1>4, <4>1
    <3>3. CASE /\ run[p].tried = idp /\ idp < MaxGen
               /\ run' = [run EXCEPT ![p] = [@ EXCEPT !.reply = x, !.got = run[p].tried + 1]]
      <4>1. PICK h \in Gens : h = run[p].tried + 1
          BY <3>3 DEF Types, CredTypes, Gens
      <4>2. run'[p] = [run[p] EXCEPT !.reply = x, !.got = h]
          BY <3>3, <4>1, Domains
      <4>3. QED
          BY <1>3, <1>5, <4>2
    <3>4. QED
        BY <3>1, <3>2, <3>3
  <2>4. run'[p].reply = "terminal" => run[p].tried < idp \/ revoked'
    <3>1. SUFFICES ASSUME run'[p].reply = "terminal" PROVE run[p].tried < idp \/ revoked'
        OBVIOUS
    <3>2. PICK x \in {"terminal", "failed"} : /\ run' = [run EXCEPT ![p] = [@ EXCEPT !.reply = x]]
                                              /\ x = "terminal" =>
                                                    /\ run[p].tried < idp \/ revoked
                                                    /\ revoked' = (revoked \/ run[p].tried >= family)
      <4>1. idp' # idp + 1
          BY <1>13, <3>1, AnswerEffect, Counts
      <4>2. QED
          BY <1>13, <4>1 DEF IdpAnswers
    <3>3. run'[p] = [run[p] EXCEPT !.reply = x] /\ x \in Replies
        BY <3>2, Domains, Names
    <3>4. x = "terminal"
        BY <1>3, <1>4, <3>1, <3>3
    <3>5. CASE revoked
      <4>1. revoked'
          BY <3>2, <3>4, <3>5, Zenon
      <4>2. QED
          BY <4>1
    <3>6. QED
        BY <3>2, <3>4, <3>5
  <2>5. idp \in Int /\ idp' \in Int /\ run[p].tried \in Int /\ run[p].got \in Int
        /\ run[p].tried \in Gens /\ verdict[p].key \in Gens /\ verdict[p].key \in Int
      BY Counts, Copied DEF Types, CredTypes, Gens
  <2>6. RunAt(p)'
      BY <1>1, <1>2, <2>1, <2>2, <2>3, <2>4, <2>5 DEF RunAt, IdpKeeps, DiskKeeps, Retired, Stored
  <2>7. VerdictAt(p)'
      BY <1>1, <2>1, <2>2, <2>3, <2>5 DEF VerdictAt, IdpKeeps, DiskKeeps
  <2>8. QED
      BY <2>6, <2>7
<1>14. QED
    BY <1>8, <1>9, <1>10, <1>11, <1>12, <1>13

\* Enter: a refresh that goes on met a credential on disk that the verdict is not about.
LEMMA EnterSteps ==
    ASSUME Types, Types', VerdictInv, NEW p \in Procs, Holds(p), Enter(p)
    PROVE  RunAt(p)' /\ VerdictAt(p)'
<1>1. RunAt(p) /\ VerdictAt(p) /\ IdpKeeps /\ DiskKeeps
    BY DEF VerdictInv, Holds
<1>2. verdict' = verdict /\ UNCHANGED <<disk, placed, idp, revoked>>
    BY DEF Enter, credVars, historyVars
<1>3. CASE UNCHANGED <<stage, run>>
    BY <1>1, <1>2, <1>3, RunMoved DEF MovesAt
<1>4. ASSUME NEW w \in waiting[p], ~permanent_failure(p), To(p, "lock"),
             run' = [run EXCEPT ![p] = [NoRun EXCEPT !.reason = w.reason, !.flow = w.flow]]
      PROVE  RunAt(p)' /\ VerdictAt(p)'
  <2>1. stage'[p] = "lock" /\ run'[p] = [NoRun EXCEPT !.reason = w.reason, !.flow = w.flow]
      BY <1>4, ToEffect, Domains
  <2>2. run'[p].tried = 0 /\ run'[p].got = 0 /\ run'[p].retried = FALSE
      BY <2>1 DEF NoRun
  <2>3. 0 <= idp'
      BY DEF Types, CredTypes, Gens
  <2>4. RunAt(p)'
      BY <2>1, <2>2, <2>3 DEF RunAt
  <2>5. verdict[p].kind = "sticky" => disk # verdict[p].key
      BY <1>4 DEF permanent_failure, resolved
  <2>6. VerdictAt(p)'
      BY <1>1, <1>2, <2>1, <2>5 DEF VerdictAt, Retired, Stored
  <2>7. QED
      BY <2>4, <2>6
<1>5. QED
    BY <1>3, <1>4 DEF Enter

\* ApplyPermanent: the verdict is about what was sent, and the refresh is over.
LEMMA PermanentSteps ==
    ASSUME Types, Types', VerdictInv, NEW p \in Procs, Holds(p), ApplyPermanent(p)
    PROVE  RunAt(p)' /\ VerdictAt(p)'
<1>1. RunAt(p) /\ VerdictAt(p) /\ IdpKeeps /\ DiskKeeps
    BY DEF VerdictInv, Holds
<1>2. /\ stage[p] = "apply" /\ UNCHANGED <<disk, placed, idp, revoked>>
      /\ \E result : Finish(p, result)
      /\ \/ verdict' = verdict
         \/ verdict' = [verdict EXCEPT ![p] = [key |-> run[p].tried, kind |-> run[p].reply]]
    BY DEF ApplyPermanent, historyVars
<1>3. stage'[p] = "idle" /\ run'[p] = NoRun
    BY <1>2, FinishEffect
<1>4. CASE verdict' = verdict
    BY <1>1, <1>3, <1>4, RunMoved DEF MovesAt
<1>5. CASE verdict' = [verdict EXCEPT ![p] = [key |-> run[p].tried, kind |-> run[p].reply]]
  <2>1. NoRun.tried = 0 /\ NoRun.got = 0 /\ NoRun.retried = FALSE /\ 0 <= idp'
      BY DEF NoRun, Types, CredTypes, Gens
  <2>2. RunAt(p)'
      BY <1>3, <2>1 DEF RunAt
  <2>3. verdict'[p].key = run[p].tried /\ verdict'[p].kind = run[p].reply
      BY <1>5 DEF Types, ChainTypes
  <2>4. VerdictAt(p)'
      BY <1>1, <1>2, <1>3, <2>3 DEF RunAt, VerdictAt, Retired, Stored
  <2>5. QED
      BY <2>2, <2>4
<1>6. QED
    BY <1>2, <1>4, <1>5

\* VerdictExpires and Crash: there is no verdict.
LEMMA ForgetSteps ==
    ASSUME Types, Types', VerdictInv, NEW p \in Procs, Holds(p), VerdictExpires(p) \/ Crash(p)
    PROVE  RunAt(p)' /\ VerdictAt(p)'
<1>1. RunAt(p) /\ IdpKeeps /\ DiskKeeps
    BY DEF VerdictInv, Holds
<1>2. verdict'[p] = NoVerdict /\ UNCHANGED <<idp, revoked, placed>>
    BY DEF VerdictExpires, Crash, credVars, historyVars, Types, ChainTypes
<1>3. VerdictAt(p)'
    BY <1>2 DEF VerdictAt, NoVerdict, Types, CredTypes, Gens
<1>4. \/ stage'[p] = stage[p] /\ run'[p] = run[p]
      \/ stage'[p] = "idle" /\ run'[p] = NoRun
    BY Domains DEF VerdictExpires, Crash
<1>5. NoRun.tried = 0 /\ NoRun.got = 0 /\ NoRun.retried = FALSE /\ 0 <= idp'
    BY DEF NoRun, Types, CredTypes, Gens
<1>6. RunAt(p)'
    BY <1>1, <1>2, <1>4, <1>5 DEF RunAt, Retired, Stored
<1>7. QED
    BY <1>3, <1>6

\* Every step of a process keeps what is known of its own refresh and verdict, and
\* what it holds; the others hold what they held.
LEMMA VerdictLocal ==
    ASSUME Types, Types', VerdictInv, NEW p \in Procs,
           \/ \E reason \in Reasons : Call(p, reason)
           \/ ChainStep(p)
           \/ SendUnreadable(p) \/ ReplyLost(p) \/ ApplyPersistFails(p)
           \/ EnrichLocked(p) \/ EnrichRead(p) \/ EnrichWrite(p) \/ EnrichFails(p)
           \/ FlowStart(p) \/ FlowStep(p) \/ SaveStep(p) \/ Login(p)
           \/ Grant(p)
           \/ WillSleep(p) \/ AckDrained(p) \/ AckForced(p) \/ Wake(p)
           \/ VerdictExpires(p) \/ Crash(p)
    PROVE  VerdictInv'
<1>1. Holds(p) /\ Elsewhere(p)
    BY QuietSteps, BusySteps, Zenon DEF ChainStep, SaveStep
<1>2. IdpKeeps /\ DiskKeeps /\ OnDisk' /\ CacheAt(p)' /\ RunAt(p) /\ VerdictAt(p)
    BY <1>1 DEF Holds, VerdictInv
<1>3. RunAt(p)' /\ VerdictAt(p)'
  <2>1. MovesAt(p) => RunAt(p)' /\ VerdictAt(p)'
      BY <1>2, RunMoved
  <2>2. QED
      BY <1>1, <2>1, MoveSteps, ExchangeSteps, EnterSteps, PermanentSteps, ForgetSteps, Zenon
      DEF ChainStep
<1>4. Local(p)
    BY LocalStep
<1>5. ASSUME NEW q \in Procs \ {p}
      PROVE  CacheAt(q)' /\ RunAt(q)' /\ VerdictAt(q)'
  <2>1. CacheAt(q) /\ RunAt(q) /\ VerdictAt(q)
      BY DEF VerdictInv
  <2>2. /\ mem'[q] = mem[q] /\ flowDisk'[q] = flowDisk[q] /\ verdict'[q] = verdict[q]
        /\ stage'[q] = stage[q] /\ run'[q] = run[q] /\ enrichGen'[q] = enrichGen[q]
      BY <1>1, <1>4 DEF Elsewhere, Local, SameAt
  <2>3. idp <= idp' /\ idp' \in Int
      BY <1>2 DEF IdpKeeps, Types, CredTypes, Gens
  <2>4. CacheAt(q)'
      BY <2>1, <2>2, <2>3, Counts DEF CacheAt
  <2>5. QED
      BY <1>2, <2>1, <2>2, <2>4, RunKept DEF KeptAt
<1>6. ASSUME NEW q \in Procs PROVE SaveAt(q)'
  <2>1. CacheAt(q) /\ CacheAt(q)' /\ SaveAt(q) /\ OnDisk
      BY <1>2, <1>5 DEF VerdictInv
  <2>2. idp <= idp' /\ idp \in Int /\ idp' \in Int /\ 0 <= idp'
      BY <1>2 DEF IdpKeeps, Types, CredTypes, Gens
  <2>3. saving[q].gen \in Int /\ mem[q] \in Int /\ disk \in Int
      BY Copied DEF Gens
  <2>4. Copies(q)
      BY CopySteps
  <2>5. QED
      BY <2>1, <2>2, <2>3, <2>4 DEF Copies, SaveAt, CacheAt, OnDisk
<1>7. QED
    BY <1>2, <1>3, <1>5, <1>6 DEF VerdictInv

\* Breaking the lock cuts refreshes and changes nothing that was sent or told.
LEMMA VerdictBreak ==
    ASSUME Types, Types', VerdictInv, Break
    PROVE  VerdictInv'
<1>1. UNCHANGED <<disk, mem, idp, revoked, placed, flowDisk, enrichGen, saving, verdict, stage>>
    BY DEF Break, credVars, flowVars, sideVars, enrichVars, saveVars
<1>2. IdpKeeps /\ DiskKeeps
    BY <1>1, IdpSame, DiskSame
<1>3. ASSUME NEW p \in Procs PROVE CacheAt(p)' /\ SaveAt(p)' /\ RunAt(p)' /\ VerdictAt(p)'
  <2>1. PICK b \in BOOLEAN : b = (run[p].cut \/ (owner = Task[p] /\ stage[p] \in PastRevalidation))
      BY Copied
  <2>2. \A r \in Runs :
            LET n == [r EXCEPT !.cut = b] IN
            /\ n.tried = r.tried /\ n.got = r.got /\ n.reply = r.reply
            /\ n.retried = r.retried /\ n.blind = r.blind
      BY DEF Runs
  <2>3. run'[p] = [run[p] EXCEPT !.cut = b]
      BY <2>1 DEF Break
  <2>4. /\ run'[p].tried = run[p].tried /\ run'[p].got = run[p].got
        /\ run'[p].reply = run[p].reply /\ run'[p].retried = run[p].retried
        /\ run'[p].blind = run[p].blind
      BY <2>2, <2>3, Copied
  <2>5. KeptAt(p)
      BY <1>1, <2>4 DEF KeptAt
  <2>6. CacheAt(p)' /\ SaveAt(p)'
      BY <1>1 DEF VerdictInv, CacheAt, SaveAt
  <2>7. QED
      BY <1>2, <2>5, <2>6, RunKept DEF VerdictInv
<1>4. OnDisk'
    BY <1>1 DEF VerdictInv, OnDisk, Stored
<1>5. QED
    BY <1>3, <1>4 DEF VerdictInv

\* A step that leaves the credentials and the refreshes alone.
LEMMA VerdictSame ==
    ASSUME VerdictInv, UNCHANGED <<disk, mem, idp, revoked, chainVars, flowVars, sideVars, historyVars>>
    PROVE  VerdictInv'
<1>1. UNCHANGED <<disk, mem, idp, revoked, placed, flowDisk, enrichGen, saving, verdict, stage, run>>
    BY DEF chainVars, flowVars, sideVars, enrichVars, saveVars, historyVars
<1>2. OnDisk'
    BY <1>1 DEF VerdictInv, OnDisk, Stored
<1>3. ASSUME NEW p \in Procs PROVE CacheAt(p)' /\ SaveAt(p)' /\ RunAt(p)' /\ VerdictAt(p)'
    BY <1>1 DEF VerdictInv, CacheAt, SaveAt, RunAt, VerdictAt, Retired, Stored
<1>4. QED
    BY <1>2, <1>3 DEF VerdictInv

\* Every step keeps the verdict invariant.
LEMMA VerdictStep == TypeOK /\ VerdictInv /\ [Next]_vars => VerdictInv'
<1> SUFFICES ASSUME Types, Types', VerdictInv, [Next]_vars PROVE VerdictInv'
    BY TypeGroups, TypeStep
<1>1. CASE UNCHANGED vars
    BY <1>1, VerdictSame DEF vars, credVars
<1>2. CASE Break
    BY <1>2, VerdictBreak
<1>3. CASE Expire
    BY <1>3, VerdictSame DEF Expire
<1>4. CASE Next /\ ~Break /\ ~Expire
    BY <1>4, VerdictLocal DEF Next
<1>5. QED
    BY <1>1, <1>2, <1>3, <1>4

\* The verdict invariant holds at the start.
LEMMA VerdictInit == Init => VerdictInv
<1> SUFFICES ASSUME Init PROVE VerdictInv
    OBVIOUS
<1>1. 0 \in Gens
    BY DEF Gens
<1>2. OnDisk
    BY <1>1 DEF Init, OnDisk, Stored
<1>3. ASSUME NEW p \in Procs PROVE CacheAt(p) /\ SaveAt(p) /\ RunAt(p) /\ VerdictAt(p)
  <2>1. /\ mem[p] = 0 /\ flowDisk[p] = 0 /\ enrichGen[p] = 0 /\ idp = 0 /\ stage[p] = "idle"
        /\ run[p] = NoRun /\ verdict[p] = NoVerdict /\ saving[p] = NoSave
      BY DEF Init
  <2>2. QED
      BY <2>1 DEF CacheAt, SaveAt, NoSave, RunAt, VerdictAt, NoRun, NoVerdict
<1>4. QED
    BY <1>2, <1>3 DEF VerdictInv

\* The verdict invariant holds in every state.
THEOREM RefreshVerdicts == Spec => [](TypeOK /\ VerdictInv)
<1>1. Init => TypeOK /\ VerdictInv
    BY TypeInit, VerdictInit
<1>2. (TypeOK /\ VerdictInv) /\ [Next]_vars => (TypeOK /\ VerdictInv)'
    BY TypeStep, VerdictStep
<1>3. QED
    BY <1>1, <1>2, PTL DEF Spec

\* permanent_failure() keeps a process from refreshing for good only while the
\* credential it would send is dead, whatever siblings, logins and enrichments write.
THEOREM RefreshBlocks == Spec => []BlockedOnlyIfDead
<1>1. TypeOK /\ VerdictInv => BlockedOnlyIfDead
    BY DEF VerdictInv, VerdictAt, Retired, BlockedOnlyIfDead, permanent_failure, resolved
<1>2. QED
    BY <1>1, RefreshVerdicts, PTL

\* However many tasks queued on refresh_lock before the verdict, none of them sends
\* the dead credential again unless it reads it from the cache because auth.json
\* cannot be read, or a late writer has put it back.
THEOREM RefreshNoResend == Spec => []DeadNotResent
<1>1. TypeOK /\ VerdictInv => DeadNotResent
    BY DEF VerdictInv, VerdictAt, DeadNotResent
<1>2. QED
    BY <1>1, RefreshVerdicts, PTL
=============================================================================
