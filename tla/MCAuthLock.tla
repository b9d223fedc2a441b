----------------------------- MODULE MCAuthLock -----------------------------
(***************************************************************************)
(* The file lock with the calls, the faults and the passing of time        *)
(* bounded: a call site in each of two processes.                          *)
(***************************************************************************)
EXTENDS AuthLock, TLC

CONSTANTS
    p1, p2, t1, t2,
    MaxBegins,      \* bound: calls of try_lock_auth_file_async
    MaxEvents,      \* bound: crashes, file-system faults, stale timestamps
    MaxTotal        \* bound: both together

VARIABLES begins, events

mcVars == <<lockVars, begins, events>>

MCProcOf == (t1 :> p1) @@ (t2 :> p2)

MCInit == LockInit /\ begins = 0 /\ events = 0

\* A call that starts, and a guard that is asked for again.
Starts == \E c \in Callers : Begin(c) \/ Reacquire(c)

\* What the environment does to the lock.
Disturbance == Age \/ (\E c \in Callers : AcquireFault(c)) \/ (\E p \in Procs : Crash(p))

\* What follows by itself.
Works(c) == AcquireStep(c) \/ Unlink(c)

MCNext ==
    \/ /\ begins < MaxBegins /\ begins + events < MaxTotal
       /\ begins' = begins + 1
       /\ Starts
       /\ UNCHANGED events
    \/ /\ events < MaxEvents /\ begins + events < MaxTotal
       /\ events' = events + 1
       /\ Disturbance
       /\ UNCHANGED begins
    \/ /\ \/ \E c \in Callers : Works(c) \/ Drop(c) \/ Return(c)
          \/ GhostStep
       /\ UNCHANGED <<begins, events>>

\* Fairness: the acquire routine is polled and its timer fires; no holder need ever
\* drop its guard, and no abandoned thread need ever be granted the lock.
MCSpec ==
    /\ MCInit
    /\ [][MCNext]_mcVars
    /\ \A c \in Callers : WF_mcVars(Works(c) /\ UNCHANGED <<begins, events>>)

Inside(c) == pc[c] \in {"open", "flock", "judge", "unlink", "write", "verify"}

\* Every call comes back, with a guard or without one, even if whoever holds the
\* lock never lets go of it.
LockReturns == \A c \in Callers : Inside(c) ~> ~Inside(c)
=============================================================================
