--------------------------- MODULE CircuitBreaker ---------------------------
(***************************************************************************)
(* The circuit breaker shared by concurrent requests.  Its state is a      *)
(* handful of atomics and a window behind a mutex; check() and record()    *)
(* are sequences of single accesses to them, and one step of this module   *)
(* is one access (a reading of the clock is taken with the access next to  *)
(* it).  A caller asks check(), issues its request if it is admitted, and  *)
(* then records the outcome, or never does: its future may be dropped.     *)
(*                                                                         *)
(* Instants are kept as ages, which saturate once they are past every      *)
(* comparison, so time passes without bound in a finite model.             *)
(***************************************************************************)
EXTENDS SlidingWindow

CONSTANTS Callers,        \* the requests that share the breaker
          Enabled,        \* BreakerConfig::enabled
          OpenDuration,   \* cool-down, and lease of a probe slot, in ticks
          MaxProbes,      \* BreakerConfig::half_open_max_probes
          MinSamples,     \* BreakerConfig::min_samples
          RateNum, RateDen, \* error_rate_threshold as a fraction
          MaxLag,         \* bound: ticks an operation may be suspended for
          Width           \* bound: bits of the probe counter (a usize)

(* with_clock clamps the number of probes. *)
Slots == IF MaxProbes = 0 THEN 1 ELSE MaxProbes

ASSUME BreakerAssumption ==
    /\ Enabled \in BOOLEAN
    /\ OpenDuration \in Nat /\ MaxLag \in Nat /\ MaxLag < OpenDuration
    /\ MaxProbes \in Nat /\ MinSamples \in Nat
    /\ RateNum \in Nat /\ RateDen \in Nat \ {0}
    /\ Width \in Nat /\ 2^Width \in Nat /\ 2^Width > Slots + 1

VARIABLES
    state,     \* the authoritative state
    openAge,   \* time since opened_at_millis
    probes,    \* half_open_probes
    claimAge,  \* time since probe_claimed_at_millis
    fast,      \* is_open_fast
    win,       \* window
    pc,        \* place of each caller
    loc,       \* its locals: its clock reading, its copy of the claim stamp,
               \* the outcome it records
    overlap,   \* history: whether two operations ever overlapped
    tripAge    \* history: time since the state was last set to open, up to
               \* the first overlap

history == <<overlap, tripAge>>
vars == <<state, openAge, probes, claimAge, fast, win, pc, loc, history>>

(* Outside an operation: not asking, or with a request in flight that was  *)
(* admitted while closed, or as a probe.                                   *)
Resting == {"idle", "inflight", "probing"}

AgeCap == OpenDuration + MaxLag

SampleCap == WindowDuration + MaxLag + 1

Older(age, cap) == IF age < cap THEN age + 1 ELSE age

OlderSamples(s) == [i \in DOMAIN s |-> [s[i] EXCEPT !.age = Older(s[i].age, SampleCap)]]

NoLocals == [now |-> 0, claimed |-> 0, failed |-> FALSE]

Init ==
    /\ state = "closed" /\ openAge = 0 /\ probes = 0 /\ claimAge = 0 /\ fast = FALSE
    /\ win = EmptyWindow
    /\ pc = [c \in Callers |-> "idle"] /\ loc = [c \in Callers |-> NoLocals]
    /\ overlap = FALSE /\ tripAge = 0

Goto(c, place) == pc' = [pc EXCEPT ![c] = place]

(* The operation of c is over; nothing of its locals is used again. *)
Leave(c, place) == Goto(c, place) /\ loc' = [loc EXCEPT ![c] = NoLocals]

Busy(c) == pc[c] \notin Resting

(* An operation of c begins. *)
Begin(c) ==
    /\ overlap' = (overlap \/ \E d \in Callers \ {c} : Busy(d))
    /\ tripAge' = IF overlap' THEN 0 ELSE tripAge

-----------------------------------------------------------------------------
(* check *)

(* check: the state is loaded once, and decides the path. *)
Check(c) ==
    /\ pc[c] = "idle"
    /\ Begin(c)
    /\ Leave(c, IF ~Enabled \/ state = "closed" THEN "inflight"
                ELSE IF state = "open" THEN "check_open" ELSE "probe")
    /\ UNCHANGED <<state, openAge, probes, claimAge, fast, win>>

(* check_open: has the cool-down passed? *)
CheckElapsed(c) ==
    /\ pc[c] = "check_open"
    /\ Leave(c, IF openAge >= OpenDuration THEN "check_cas" ELSE "idle")
    /\ UNCHANGED <<state, openAge, probes, claimAge, fast, win, history>>

(* cas_state(Open, HalfOpen) *)
CheckCas(c) ==
    /\ pc[c] = "check_cas"
    /\ state' = IF state = "open" THEN "halfopen" ELSE state
    /\ Leave(c, IF state = "open" THEN "check_mirror" ELSE "check_again")
    /\ UNCHANGED <<openAge, probes, claimAge, fast, win, history>>

(* Faulty variant: the mirror is left as it was. *)
CheckMirror_Skip(c) ==
    /\ pc[c] = "check_mirror"
    /\ Leave(c, "probe")
    /\ UNCHANGED <<state, openAge, probes, claimAge, fast, win, history>>

CheckMirror(c) ==
    /\ pc[c] = "check_mirror"
    /\ fast' = FALSE
    /\ Leave(c, "probe")
    /\ UNCHANGED <<state, openAge, probes, claimAge, win, history>>

(* The loser of the compare-and-swap looks at the state again. *)
CheckAgain(c) ==
    /\ pc[c] = "check_again"
    /\ Leave(c, IF state = "closed" THEN "inflight"
                ELSE IF state = "halfopen" THEN "probe" ELSE "idle")
    /\ UNCHANGED <<state, openAge, probes, claimAge, fast, win, history>>

-----------------------------------------------------------------------------
(* try_half_open_probe *)

(* A slot is free. *)
SlotFree(n) == n < Slots

(* fetch_add on the slot counter. *)
ProbeClaim(c) ==
    /\ pc[c] = "probe"
    /\ probes' = (probes + 1) % 2^Width
    /\ loc' = [loc EXCEPT ![c].now = 0]
    /\ Goto(c, IF SlotFree(probes) THEN "probe_stamp" ELSE "probe_undo")
    /\ UNCHANGED <<state, openAge, claimAge, fast, win, history>>

(* The claim is stamped with the reading taken before the slot was claimed. *)
ProbeStamp(c) ==
    /\ pc[c] = "probe_stamp"
    /\ claimAge' = loc[c].now
    /\ Goto(c, "probing")
    /\ UNCHANGED <<state, openAge, probes, fast, win, loc, history>>

(* Faulty variant: the counter is taken to be at least 1. *)
ProbeUndo_Plain(c) ==
    /\ pc[c] = "probe_undo"
    /\ probes' = probes - 1
    /\ Goto(c, "probe_lease")
    /\ UNCHANGED <<state, openAge, claimAge, fast, win, loc, history>>

(* fetch_sub: no slot was free.  It wraps when a trip or a close has reset *)
(* the counter since the fetch_add.                                        *)
ProbeUndo(c) ==
    /\ pc[c] = "probe_undo"
    /\ probes' = (probes + 2^Width - 1) % 2^Width
    /\ Goto(c, "probe_lease")
    /\ UNCHANGED <<state, openAge, claimAge, fast, win, loc, history>>

(* Faulty variant: a claim never expires. *)
LeaseOver_Never(c) == FALSE

(* The last claim is older than the lease. *)
LeaseOver(c) == claimAge - loc[c].now >= OpenDuration

ProbeLease(c) ==
    /\ pc[c] = "probe_lease"
    /\ IF LeaseOver(c)
       THEN loc' = [loc EXCEPT ![c].claimed = claimAge] /\ Goto(c, "probe_take")
       ELSE Leave(c, "idle")
    /\ UNCHANGED <<state, openAge, probes, claimAge, fast, win, history>>

(* Faulty variant: the claim that is taken over keeps its old stamp. *)
ProbeTake_KeepStamp(c) ==
    /\ pc[c] = "probe_take"
    /\ IF claimAge = loc[c].claimed
       THEN /\ loc' = [loc EXCEPT ![c].claimed = 0]
            /\ Goto(c, "probing")
       ELSE Leave(c, "idle")
    /\ UNCHANGED <<state, openAge, probes, claimAge, fast, win, history>>

(* compare_exchange of the stamp: one caller takes the expired claim over. *)
ProbeTake(c) ==
    /\ pc[c] = "probe_take"
    /\ IF claimAge = loc[c].claimed
       THEN /\ claimAge' = loc[c].now
            /\ loc' = [loc EXCEPT ![c].claimed = 0]
            /\ Goto(c, "probing")
       ELSE UNCHANGED claimAge /\ Leave(c, "idle")
    /\ UNCHANGED <<state, openAge, probes, fast, win, history>>

-----------------------------------------------------------------------------
(* record, and requests that never get there *)

(* The future of the request is dropped, or its outcome is not one the     *)
(* breaker counts.                                                         *)
Abandon(c) ==
    /\ pc[c] \in {"inflight", "probing"}
    /\ Leave(c, "idle")
    /\ UNCHANGED <<state, openAge, probes, claimAge, fast, win, history>>

(* record: the state is loaded once, and decides the path. *)
Record(c, failed) ==
    /\ pc[c] \in {"inflight", "probing"}
    /\ IF Enabled
       THEN /\ Begin(c)
            /\ loc' = [loc EXCEPT ![c] = [NoLocals EXCEPT !.failed = failed]]
            /\ Goto(c, CASE state = "closed"   -> "sample"
                         [] state = "open"     -> "sample_open"
                         [] state = "halfopen" -> IF failed THEN "trip" ELSE "close")
       ELSE Leave(c, "idle") /\ UNCHANGED history
    /\ UNCHANGED <<state, openAge, probes, claimAge, fast, win>>

(* Enough samples, and enough failures among them. *)
ShouldTrip(w) ==
    /\ Len(w.entries) >= MinSamples
    /\ w.failures * RateDen >= RateNum * Len(w.entries)

(* The section of record under the window's lock. *)
Sample(c) ==
    /\ pc[c] \in {"sample", "sample_open"}
    /\ win' = Evict(Push(win, loc[c].failed, loc[c].now), loc[c].now)
    /\ Leave(c, IF pc[c] = "sample" /\ ShouldTrip(win') THEN "trip" ELSE "idle")
    /\ UNCHANGED <<state, openAge, probes, claimAge, fast, history>>

(* error_rate: evicts before it reads. *)
ErrorRate ==
    /\ Evict(win, 0) # win
    /\ win' = Evict(win, 0)
    /\ UNCHANGED <<state, openAge, probes, claimAge, fast, pc, loc, history>>

(* trip, one store after the other. *)
TripState(c) ==
    /\ pc[c] = "trip"
    /\ state' = "open"
    /\ tripAge' = 0
    /\ Leave(c, "trip_stamp")
    /\ UNCHANGED <<openAge, probes, claimAge, fast, win, overlap>>

(* Faulty variant: the cool-down is counted from the first trip. *)
TripStamp_Once(c) ==
    /\ pc[c] = "trip_stamp"
    /\ Leave(c, "trip_probes")
    /\ UNCHANGED <<state, openAge, probes, claimAge, fast, win, history>>

TripStamp(c) ==
    /\ pc[c] = "trip_stamp"
    /\ openAge' = 0
    /\ Leave(c, "trip_probes")
    /\ UNCHANGED <<state, probes, claimAge, fast, win, history>>

TripProbes(c) ==
    /\ pc[c] = "trip_probes"
    /\ probes' = 0
    /\ Leave(c, "trip_mirror")
    /\ UNCHANGED <<state, openAge, claimAge, fast, win, history>>

TripMirror(c) ==
    /\ pc[c] = "trip_mirror"
    /\ fast' = TRUE
    /\ Leave(c, "idle")
    /\ UNCHANGED <<state, openAge, probes, claimAge, win, history>>

(* close, one store after the other. *)
CloseState(c) ==
    /\ pc[c] = "close"
    /\ state' = "closed"
    /\ Leave(c, "close_window")
    /\ UNCHANGED <<openAge, probes, claimAge, fast, win, history>>

CloseWindow(c) ==
    /\ pc[c] = "close_window"
    /\ win' = EmptyWindow
    /\ Leave(c, "close_probes")
    /\ UNCHANGED <<state, openAge, probes, claimAge, fast, history>>

CloseProbes(c) ==
    /\ pc[c] = "close_probes"
    /\ probes' = 0
    /\ Leave(c, "close_mirror")
    /\ UNCHANGED <<state, openAge, claimAge, fast, win, history>>

CloseMirror(c) ==
    /\ pc[c] = "close_mirror"
    /\ fast' = FALSE
    /\ Leave(c, "idle")
    /\ UNCHANGED <<state, openAge, probes, claimAge, win, history>>

-----------------------------------------------------------------------------
(* Time passes.  An operation never awaits, so it is suspended only while  *)
(* its thread is preempted: at most MaxLag ticks after a clock reading.    *)
Tick ==
    /\ \A c \in Callers : Busy(c) => loc[c].now < MaxLag
    /\ openAge' = Older(openAge, AgeCap)
    /\ claimAge' = Older(claimAge, AgeCap)
    /\ tripAge' = IF overlap THEN 0 ELSE Older(tripAge, AgeCap)
    /\ win' = [win EXCEPT !.entries = OlderSamples(@)]
    /\ loc' = [c \in Callers |->
                  IF pc[c] \in {"idle", "inflight"} THEN loc[c]
                  ELSE [loc[c] EXCEPT !.now = Older(@, AgeCap),
                                      !.claimed = IF pc[c] = "probe_take"
                                                  THEN Older(@, AgeCap) ELSE @]]
    /\ UNCHANGED <<state, probes, fast, pc, overlap>>

Operate(c) ==
    \/ CheckElapsed(c) \/ CheckCas(c) \/ CheckMirror(c) \/ CheckAgain(c)
    \/ ProbeClaim(c) \/ ProbeStamp(c) \/ ProbeUndo(c) \/ ProbeLease(c) \/ ProbeTake(c)
    \/ Sample(c)
    \/ TripState(c) \/ TripStamp(c) \/ TripProbes(c) \/ TripMirror(c)
    \/ CloseState(c) \/ CloseWindow(c) \/ CloseProbes(c) \/ CloseMirror(c)

Finish(c) == Abandon(c) \/ \E failed \in BOOLEAN : Record(c, failed)

Next ==
    \/ \E c \in Callers : Check(c) \/ Operate(c) \/ Finish(c)
    \/ ErrorRate
    \/ Tick

Spec == Init /\ [][Next]_vars

(* Clients keep asking, requests end one way or another (they time out),   *)
(* threads are scheduled and time passes.                                  *)
Fairness ==
    /\ WF_vars(Tick)
    /\ \A c \in Callers : WF_vars(Check(c)) /\ WF_vars(Operate(c)) /\ WF_vars(Finish(c))

FairSpec == Spec /\ Fairness

-----------------------------------------------------------------------------
(* Properties *)

Places == Resting \cup {"check_open", "check_cas", "check_mirror", "check_again",
    "probe", "probe_stamp", "probe_undo", "probe_lease", "probe_take",
    "sample", "sample_open", "trip", "trip_stamp", "trip_probes", "trip_mirror",
    "close", "close_window", "close_probes", "close_mirror"}

Samples == [age : 0 .. SampleCap, failed : BOOLEAN]

(* Every variable keeps its type; the failure count never underflows. *)
TypeOK ==
    /\ state \in {"closed", "open", "halfopen"}
    /\ openAge \in 0 .. AgeCap /\ claimAge \in 0 .. AgeCap /\ tripAge \in 0 .. AgeCap
    /\ probes \in 0 .. 2^Width - 1
    /\ fast \in BOOLEAN /\ overlap \in BOOLEAN
    /\ win \in [entries : Seq(Samples), failures : Nat]
    /\ pc \in [Callers -> Places]
    /\ loc \in [Callers -> [now : 0 .. AgeCap, claimed : 0 .. AgeCap, failed : BOOLEAN]]

Quiet == \A c \in Callers : ~Busy(c)

(* The running failure count is the number of failures in the window, and  *)
(* the window stays within its cap, however operations interleave.         *)
WindowExact == CountsExactly(win) /\ Len(win.entries) <= MaxEntries

(* As long as no two operations overlap, is_open() agrees with the state   *)
(* and the slot counter is 0 outside the half-open state and within its    *)
(* limit in it: check_open relies on finding it at 0.                      *)
MirrorExact ==
    ~overlap /\ Quiet =>
        /\ fast = (state = "open")
        /\ probes <= IF state = "halfopen" THEN Slots ELSE 0

(* As long as no two operations overlap, the breaker is half-open only     *)
(* after a full cool-down since the last trip.                             *)
CoolDownHonoured == ~overlap /\ state = "halfopen" /\ Quiet => tripAge >= OpenDuration

(* Requests admitted as probes within one lease. *)
Probing == {c \in Callers : pc[c] = "probing" /\ loc[c].now < OpenDuration}

(* As long as no two operations overlap, there are never more probes on    *)
(* the wire within one lease than there are slots, abandoned probes and    *)
(* takeovers included.                                                     *)
ProbesLimited == ~overlap => Cardinality(Probing) <= Slots

(* The breaker never sheds for ever, however operations interleave and     *)
(* probes are lost: again and again a request is admitted.                 *)
NeverShedsForever == []<>(\E c \in Callers : pc[c] \in {"inflight", "probing"})

(* breaker_tests/half_open.rs: threads that race for the only slot; "exactly *)
(* one thread should claim the probe slot".                                *)
OneProbe == Cardinality(Probing) <= Slots
=============================================================================
