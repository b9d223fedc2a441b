------------------------------ MODULE LeaseLock ------------------------------
(***************************************************************************)
(* What `auth.json.lock` promises to the code that takes it: a LEASE, not  *)
(* a mutex.  At most one caller owns the lock at a time, but an owner may  *)
(* lose it at any moment (a waiter breaks a lock it takes for stale) and   *)
(* is not told: it goes on holding its guard.  A caller must therefore ask *)
(* "do I still own it?" before every step it cannot take back.             *)
(***************************************************************************)
CONSTANTS
    Callers,    \* the call sites that may hold a guard
    None        \* a value outside Callers

VARIABLES
    owner,      \* the caller that owns the live lock, or None
    holders     \* the callers that hold a guard, live or not

leaseVars == <<owner, holders>>

LeaseTypeOK ==
    /\ owner \in Callers \cup {None}
    /\ holders \subseteq Callers

LeaseInit ==
    /\ owner = None
    /\ holders = {}

\* The lock is free: c becomes its owner and gets a guard.
Acquire(c) ==
    /\ owner = None
    /\ c \notin holders
    /\ owner' = c
    /\ holders' = holders \cup {c}

\* Guards are dropped (one by its caller, several when a process dies); an
\* owner that drops its guard stops owning the lock.
Release(S) ==
    /\ S # {}
    /\ S \subseteq holders
    /\ holders' = holders \ S
    /\ owner' = IF owner \in S THEN None ELSE owner

\* The lock is broken: whoever owned it owns it no more, and nobody is told.
Revoke ==
    /\ owner # None
    /\ owner' = None
    /\ UNCHANGED holders

LeaseNext ==
    \/ \E c \in Callers : Acquire(c)
    \/ \E S \in SUBSET Callers : Release(S)
    \/ Revoke

LeaseSpec == LeaseInit /\ [][LeaseNext]_leaseVars
=============================================================================
