------------------------------ MODULE AuthLock -------------------------------
(***************************************************************************)
(* The advisory file lock `auth.json.lock` (auth/manager/lock.rs): flock   *)
(* on an inode, `PID:TIMESTAMP` in the file, unlink to break a stale       *)
(* holder, and an inode comparison to notice that one was broken.          *)
(*                                                                         *)
(* A caller is one call site of a process that may be inside               *)
(* try_lock_auth_file_async or hold the guard it returned.  flock locks    *)
(* belong to the open file, so two callers of one process exclude each     *)
(* other just as two processes do.                                         *)
(***************************************************************************)
EXTENDS Integers

CONSTANTS
    Callers,    \* call sites
    Procs,      \* operating-system processes
    ProcOf,     \* the process of each caller
    Inodes,     \* inode numbers; an unused one may be allocated again
    None

ASSUME LockAssumption ==
    /\ ProcOf \in [Callers -> Procs]
    /\ None \notin Callers /\ None \notin Procs /\ None \notin Inodes

VARIABLES
    path,       \* the inode `auth.json.lock` names, or None
    content,    \* holder info in each inode: the PID (None: unparseable), and
                \* whether its timestamp (the mtime) is older than the limit
    flock,      \* the caller whose open file holds the kernel lock
    abandoned,  \* processes with a timed-out blocking thread still queued
    ghost,      \* the process whose abandoned thread was granted the lock
    fd,         \* the inode each caller has open
    pc,         \* where each caller is in the acquire routine
    phase,      \* 1 instant try, 2 blocking wait, 3 and 4 stale recovery
    alive,      \* the processes that run
    broken      \* history: some waiter has unlinked the lock file

lockVars == <<path, content, flock, abandoned, ghost, fd, pc, phase, alive, broken>>

PCs == {"out", "open", "flock", "judge", "unlink", "write", "verify", "held", "none"}

Info == [by : Procs \cup {None}, old : BOOLEAN]

LockTypeOK ==
    /\ path \in Inodes \cup {None}
    /\ content \in [Inodes -> Info]
    /\ flock \in [Inodes -> Callers \cup {None}]
    /\ abandoned \in [Inodes -> SUBSET Procs]
    /\ ghost \in [Inodes -> Procs \cup {None}]
    /\ fd \in [Callers -> Inodes \cup {None}]
    /\ pc \in [Callers -> PCs]
    /\ phase \in [Callers -> 1..4]
    /\ alive \subseteq Procs
    /\ broken \in BOOLEAN

Empty == [by |-> None, old |-> FALSE]

LockInit ==
    /\ path = None
    /\ content = [i \in Inodes |-> Empty]
    /\ flock = [i \in Inodes |-> None]
    /\ abandoned = [i \in Inodes |-> {}]
    /\ ghost = [i \in Inodes |-> None]
    /\ fd = [c \in Callers |-> None]
    /\ pc = [c \in Callers |-> "out"]
    /\ phase = [c \in Callers |-> 1]
    /\ alive = Procs
    /\ broken = FALSE

-----------------------------------------------------------------------------
\* An inode the kernel may hand out: unlinked, and no open file refers to it.
Unused(i) ==
    /\ i # path
    /\ \A c \in Callers : fd[c] # i
    /\ abandoned[i] = {} /\ ghost[i] = None

\* The kernel lock of inode i is free.
Unlocked(i) == flock[i] = None /\ ghost[i] = None

\* is_holder_stale: the PID in the file is dead, or the timestamp is too old;
\* with no usable holder info the file's mtime decides.
is_holder_stale(i) ==
    \/ content[i].old
    \/ content[i].by # None /\ content[i].by \notin alive

\* still_live: the guard's inode is the one the path names.
still_live(c) == pc[c] = "held" /\ fd[c] = path

-----------------------------------------------------------------------------
(* How an attempt ends.  The open file is closed, which frees its flock.   *)

Close(c) ==
    /\ fd' = [fd EXCEPT ![c] = None]
    /\ flock' = [i \in Inodes |-> IF flock[i] = c THEN None ELSE flock[i]]

Goto(c, l) == pc' = [pc EXCEPT ![c] = l]

Retry(c, ph) == Goto(c, "open") /\ phase' = [phase EXCEPT ![c] = ph]

GiveUp(c) == Goto(c, "none") /\ UNCHANGED phase

\* LockAttempt::Busy: the instant try falls through to the blocking wait; the
\* stale recovery gives up.
Busy(c) ==
    /\ Close(c)
    /\ IF phase[c] = 1 THEN Retry(c, 2) ELSE GiveUp(c)

\* Mutant: the stale recovery may retry as often as it likes.
StaleUnlinked_Forever(c) == Close(c) /\ Retry(c, phase[c] + 1)

\* LockAttempt::StaleUnlinked, and blocking_acquire's inode error: go on to the
\* blocking wait, wait again, or use the second try of the stale recovery.
StaleUnlinked(c) ==
    /\ Close(c)
    /\ CASE phase[c] \in {1, 2} -> Retry(c, 2)
         [] phase[c] = 3 -> Retry(c, 4)
         [] phase[c] = 4 -> GiveUp(c)

-----------------------------------------------------------------------------
\* try_lock_auth_file_async is called.
Begin(c) ==
    /\ ProcOf[c] \in alive
    /\ pc[c] = "out"
    /\ Retry(c, 1)
    /\ UNCHANGED <<path, content, flock, abandoned, ghost, fd, alive, broken>>

\* Open the lock file, creating it when it is missing.
Open(c) ==
    /\ pc[c] = "open"
    /\ Goto(c, "flock")
    /\ \/ /\ path # None
          /\ fd' = [fd EXCEPT ![c] = path]
          /\ UNCHANGED <<path, content>>
       \/ /\ path = None
          /\ \E i \in Inodes : Unused(i)
          /\ LET i == CHOOSE j \in Inodes : Unused(j)
             IN /\ path' = i
                /\ fd' = [fd EXCEPT ![c] = i]
                /\ content' = [content EXCEPT ![i] = Empty]
    /\ UNCHANGED <<flock, abandoned, ghost, phase, alive, broken>>

\* The open or the flock fails.  LockAttempt::Failed ends a non-blocking try; the
\* blocking wait takes any error for an inode change and tries again.
AttemptFails(c) ==
    /\ pc[c] \in {"open", "flock"}
    /\ Close(c)
    /\ IF phase[c] = 2 THEN Retry(c, 2) ELSE GiveUp(c)
    /\ UNCHANGED <<path, content, abandoned, ghost, alive, broken>>

\* Mutant: a shared lock in place of the exclusive one.
TakeFlock_Shared(c) ==
    /\ pc[c] = "flock"
    /\ flock' = [flock EXCEPT ![fd[c]] = c]
    /\ Goto(c, "write")
    /\ UNCHANGED <<path, content, abandoned, ghost, fd, phase, alive, broken>>

\* The kernel lock is free: take it (at once, or at the head of its queue).
TakeFlock(c) ==
    /\ pc[c] = "flock"
    /\ Unlocked(fd[c])
    /\ flock' = [flock EXCEPT ![fd[c]] = c]
    /\ Goto(c, "write")
    /\ UNCHANGED <<path, content, abandoned, ghost, fd, phase, alive, broken>>

\* A non-blocking try meets EWOULDBLOCK.
WouldBlock(c) ==
    /\ pc[c] = "flock"
    /\ phase[c] # 2
    /\ ~Unlocked(fd[c])
    /\ Goto(c, "judge")
    /\ UNCHANGED <<path, content, flock, abandoned, ghost, fd, phase, alive, broken>>

\* Read the holder info of the inode that was opened and decide.
Judge(c) ==
    /\ pc[c] = "judge"
    /\ \/ /\ is_holder_stale(fd[c])
          /\ Goto(c, "unlink")
          /\ UNCHANGED <<fd, flock, phase>>
       \/ /\ ~is_holder_stale(fd[c])
          /\ Busy(c)
    /\ UNCHANGED <<path, content, abandoned, ghost, alive, broken>>

\* Remove the lock file.  remove_file works on the PATH: it removes whatever
\* file is there now, which need not be the inode that was judged.
Unlink(c) ==
    /\ pc[c] = "unlink"
    /\ path # None
    /\ path' = None
    /\ broken' = TRUE
    /\ StaleUnlinked(c)
    /\ UNCHANGED <<content, abandoned, ghost, alive>>

\* The file is already gone: the removal fails and the lock counts as busy.
UnlinkMissing(c) ==
    /\ pc[c] = "unlink"
    /\ path = None
    /\ Busy(c)
    /\ UNCHANGED <<path, content, abandoned, ghost, alive, broken>>

\* The removal fails for another reason (permissions).
UnlinkFails(c) ==
    /\ pc[c] = "unlink"
    /\ path # None
    /\ Busy(c)
    /\ UNCHANGED <<path, content, abandoned, ghost, alive, broken>>

\* Replace what inode i says about its holder, which also renews its mtime.
Stamp(i, by) == content' = [content EXCEPT ![i] = [by |-> by, old |-> FALSE]]

\* write_holder_info after the flock was taken.
WriteInfo(c) ==
    /\ pc[c] = "write"
    /\ Stamp(fd[c], ProcOf[c])
    /\ Goto(c, "verify")
    /\ UNCHANGED <<path, flock, abandoned, ghost, fd, phase, alive, broken>>

\* A failed write leaves the file truncated; the caller still holds the flock
\* and proceeds.
WriteInfoFails(c) ==
    /\ pc[c] = "write"
    /\ Stamp(fd[c], None)
    /\ Goto(c, "verify")
    /\ UNCHANGED <<path, flock, abandoned, ghost, fd, phase, alive, broken>>

\* Mutant: the flock alone is taken for the lock.
Verify_Unchecked(c) ==
    /\ pc[c] = "verify"
    /\ Goto(c, "held")
    /\ UNCHANGED <<path, content, flock, fd, phase, abandoned, ghost, alive, broken>>

\* inodes_match: the lock counts only if the path still names the inode.
Verify(c) ==
    /\ pc[c] = "verify"
    /\ \/ /\ fd[c] = path
          /\ Goto(c, "held")
          /\ UNCHANGED <<fd, flock, phase>>
       \/ /\ fd[c] # path
          /\ StaleUnlinked(c)
    /\ UNCHANGED <<path, content, abandoned, ghost, alive, broken>>

\* Mutant: the deadline is looked at between two waits, never during one.
Timeout_BetweenWaits(c) ==
    /\ phase[c] = 2
    /\ pc[c] = "open"
    /\ Retry(c, 3)
    /\ UNCHANGED <<path, content, flock, abandoned, ghost, fd, alive, broken>>

\* The deadline of the blocking wait passes, before a thread is spawned or while
\* one works.  The blocking thread cannot be cancelled: it stays in the kernel's
\* queue (or keeps the lock it has just been granted) although nobody wants its
\* result any more.
Timeout(c) ==
    /\ phase[c] = 2
    /\ pc[c] \in {"open", "flock", "write", "verify"}
    /\ Retry(c, 3)
    /\ Close(c)
    /\ IF pc[c] = "flock"
       THEN abandoned' = [abandoned EXCEPT ![fd[c]] = @ \cup {ProcOf[c]}]
       ELSE UNCHANGED abandoned
    /\ IF pc[c] \in {"write", "verify"}
       THEN ghost' = [ghost EXCEPT ![fd[c]] = ProcOf[c]]
       ELSE UNCHANGED ghost
    /\ UNCHANGED <<path, content, alive, broken>>

\* The guard is dropped: closing the file frees the flock; the file and what it
\* says about its last holder stay.
Drop(c) ==
    /\ pc[c] = "held"
    /\ Close(c)
    /\ Goto(c, "out")
    /\ UNCHANGED <<path, content, abandoned, ghost, phase, alive, broken>>

\* Mutant: the dead guard is still there when the lock is asked for again.
Reacquire_Undropped(c) ==
    /\ pc[c] = "held"
    /\ ~still_live(c)
    /\ Retry(c, 1)
    /\ UNCHANGED <<path, content, flock, fd, abandoned, ghost, alive, broken>>

\* A guard found dead is dropped and the lock asked for again.
Reacquire(c) ==
    /\ pc[c] = "held"
    /\ ~still_live(c)
    /\ Close(c)
    /\ Retry(c, 1)
    /\ UNCHANGED <<path, content, abandoned, ghost, alive, broken>>

\* The caller learns that no lock could be had.
Return(c) ==
    /\ pc[c] = "none"
    /\ Goto(c, "out")
    /\ UNCHANGED <<path, content, flock, abandoned, ghost, fd, phase, alive, broken>>

-----------------------------------------------------------------------------
\* An abandoned blocking thread of process p reaches the head of the queue.
GhostGrant(p, i) ==
    /\ p \in abandoned[i]
    /\ Unlocked(i)
    /\ abandoned' = [abandoned EXCEPT ![i] = @ \ {p}]
    /\ ghost' = [ghost EXCEPT ![i] = p]
    /\ UNCHANGED <<path, content, flock, fd, pc, phase, alive, broken>>

\* It writes its holder info; its result is thrown away and the file closed.
GhostDrop(i) ==
    /\ ghost[i] # None
    /\ Stamp(i, ghost[i])
    /\ ghost' = [ghost EXCEPT ![i] = None]
    /\ UNCHANGED <<path, flock, abandoned, fd, pc, phase, alive, broken>>

\* More than STALE_LOCK_TIMEOUT_SECS pass (every process may have been asleep).
Age ==
    /\ content' = [i \in Inodes |-> [content[i] EXCEPT !.old = TRUE]]
    /\ UNCHANGED <<path, flock, abandoned, ghost, fd, pc, phase, alive, broken>>

\* Process p dies: the kernel closes its files; the lock file stays as it is.
Crash(p) ==
    /\ p \in alive
    /\ alive' = alive \ {p}
    /\ fd' = [c \in Callers |-> IF ProcOf[c] = p THEN None ELSE fd[c]]
    /\ pc' = [c \in Callers |-> IF ProcOf[c] = p THEN "out" ELSE pc[c]]
    /\ flock' = [i \in Inodes |->
                    IF flock[i] # None /\ ProcOf[flock[i]] = p THEN None ELSE flock[i]]
    /\ abandoned' = [i \in Inodes |-> abandoned[i] \ {p}]
    /\ ghost' = [i \in Inodes |-> IF ghost[i] = p THEN None ELSE ghost[i]]
    /\ UNCHANGED <<path, content, phase, broken>>

-----------------------------------------------------------------------------
\* The steps of the acquire routine that leave the path alone or create the file.
AcquireStep(c) ==
    \/ Open(c) \/ TakeFlock(c) \/ WouldBlock(c) \/ Judge(c) \/ UnlinkMissing(c)
    \/ WriteInfo(c) \/ Verify(c) \/ Timeout(c)

\* The file system refuses a step of the routine.
AcquireFault(c) == AttemptFails(c) \/ UnlinkFails(c) \/ WriteInfoFails(c)

\* What the kernel does with abandoned threads.
GhostStep == \E i \in Inodes : GhostDrop(i) \/ \E p \in Procs : GhostGrant(p, i)

\* Every step the lock can take, whatever its callers use it for.
LockNext ==
    \/ \E c \in Callers :
          \/ Begin(c) \/ AcquireStep(c) \/ Unlink(c) \/ AcquireFault(c)
          \/ Drop(c) \/ Reacquire(c) \/ Return(c)
    \/ GhostStep
    \/ Age
    \/ \E p \in Procs : Crash(p)

LockSpec == LockInit /\ [][LockNext]_lockVars

-----------------------------------------------------------------------------
(* The lock as a lease.                                                    *)

holders == {c \in Callers : pc[c] = "held"}

Owns(c) == pc[c] = "held" /\ fd[c] = path

owner == IF \E c \in Callers : Owns(c) THEN CHOOSE c \in Callers : Owns(c) ELSE None

\* The refinement mapping: the owner and the holders are read off the callers and
\* the inode that the path names.
Lease == INSTANCE LeaseLock WITH owner <- owner, holders <- holders

\* The lock implements a lease: ownership passes from one caller to the next
\* only through a state in which nobody owns the lock, a guard is handed out
\* only to the owner, and a broken lock is never handed back to its old holder.
IsLease == Lease!LeaseSpec

\* While no waiter has unlinked the lock file there is one guard at most, however
\* many callers wait, time out, leave threads in the kernel's queue or die.
ExclusiveUnlessBroken ==
    ~broken => \A c, d \in Callers : pc[c] = "held" /\ pc[d] = "held" => c = d

\* The kernel never grants one inode twice, and every lock it has granted belongs
\* to an open file: nobody is left holding a lock that nobody will ever drop.
NoLeakedFlock ==
    \A i \in Inodes :
        /\ flock[i] # None =>
              /\ fd[flock[i]] = i
              /\ pc[flock[i]] \in {"write", "verify", "held"}
              /\ ghost[i] = None
        /\ ghost[i] # None => ghost[i] \in alive
=============================================================================
