--------------------------- MODULE AuthLockProofs ---------------------------
(***************************************************************************)
(* The file lock, for any number of processes, callers and inodes: its     *)
(* type invariant, what the kernel locks and the open files say of each    *)
(* other, exclusion until a lock is broken, and that it implements the     *)
(* lease of LeaseLock.                                                     *)
(***************************************************************************)
EXTENDS AuthLock, TLAPS

USE LockAssumption

Locking == {"write", "verify", "held"}

\* A caller has the kernel lock of the file it has open exactly when it is past
\* the flock; one that is not inside the routine has no file open.
FdInv ==
    \A c \in Callers :
        /\ pc[c] \in Locking => fd[c] \in Inodes /\ flock[fd[c]] = c
        /\ pc[c] \in {"flock", "judge", "unlink"} => fd[c] \in Inodes
        /\ pc[c] \in {"out", "open", "none"} => fd[c] = None
        /\ ProcOf[c] \notin alive => pc[c] = "out"

\* A kernel lock belongs to the open file of its holder, or to a thread of a
\* process that runs.
FlockInv ==
    \A i \in Inodes :
        /\ flock[i] # None =>
              fd[flock[i]] = i /\ pc[flock[i]] \in Locking /\ ghost[i] = None
        /\ ghost[i] # None => ghost[i] \in alive
        /\ abandoned[i] \subseteq alive

\* Until some waiter unlinks it there is one lock file.
OneFile == ~broken => \A c \in Callers : fd[c] # None => fd[c] = path

IInv == LockTypeOK /\ FdInv /\ FlockInv /\ OneFile

-----------------------------------------------------------------------------
\* What write_holder_info, a failed write and the passing of time leave in the file
\* is holder info.
LEMMA InfoFacts ==
    /\ Empty \in Info
    /\ \A by \in Procs \cup {None} : [by |-> by, old |-> FALSE] \in Info
    /\ \A e \in Info : [e EXCEPT !.old = TRUE] \in Info
  BY DEF Info, Empty

\* The invariant holds before anybody has asked for the lock.
LEMMA InitInv == LockInit => IInv
<1> SUFFICES ASSUME LockInit PROVE IInv
    OBVIOUS
<1>1. LockTypeOK
  <2>1. content \in [Inodes -> Info]
      BY InfoFacts DEF LockInit
  <2>2. abandoned \in [Inodes -> SUBSET Procs] /\ alive \subseteq Procs
      BY DEF LockInit
  <2>3. /\ flock \in [Inodes -> Callers \cup {None}]
        /\ ghost \in [Inodes -> Procs \cup {None}]
        /\ fd \in [Callers -> Inodes \cup {None}]
      BY DEF LockInit
  <2>4. pc \in [Callers -> PCs] /\ phase \in [Callers -> 1..4]
      BY DEF LockInit, PCs
  <2>5. QED
      BY <2>1, <2>2, <2>3, <2>4 DEF LockInit, LockTypeOK
<1>2. FdInv /\ OneFile
    BY DEF LockInit, FdInv, OneFile, Locking
<1>3. FlockInv
    BY DEF LockInit, FlockInv
<1>4. QED
    BY <1>1, <1>2, <1>3 DEF IInv

\* Closing a file, and the ways an attempt ends, keep the types.
LEMMA EndTypes ==
    ASSUME LockTypeOK, NEW c \in Callers,
           \/ Close(c) /\ \E ph \in 1..4 : Retry(c, ph)
           \/ Close(c) /\ GiveUp(c)
           \/ Busy(c)
           \/ StaleUnlinked(c)
    PROVE  /\ fd' \in [Callers -> Inodes \cup {None}]
           /\ flock' \in [Inodes -> Callers \cup {None}]
           /\ pc' \in [Callers -> PCs]
           /\ phase' \in [Callers -> 1..4]
<1>1. phase[c] \in 1..4
    BY DEF LockTypeOK
<1>2. Close(c)
    BY DEF Busy, StaleUnlinked
<1>3. GiveUp(c) \/ \E ph \in 1..4 : Retry(c, ph)
  <2>1. CASE Busy(c)
    <3>1. Retry(c, 2) \/ GiveUp(c)
        BY <2>1 DEF Busy
    <3>2. QED
        BY <3>1
  <2>2. CASE StaleUnlinked(c)
    <3>1. phase[c] \in {1, 2} \/ phase[c] = 3 \/ phase[c] = 4
        BY <1>1
    <3>2. Retry(c, 2) \/ Retry(c, 4) \/ GiveUp(c)
        BY <2>2, <3>1 DEF StaleUnlinked
    <3>3. QED
        BY <3>2
  <2>3. QED
      BY <2>1, <2>2
<1>4. QED
  <2>1. fd' \in [Callers -> Inodes \cup {None}] /\ flock' \in [Inodes -> Callers \cup {None}]
      BY <1>2 DEF LockTypeOK, Close
  <2>2. pc' \in [Callers -> PCs] /\ phase' \in [Callers -> 1..4]
      BY <1>3 DEF LockTypeOK, Retry, GiveUp, Goto, PCs
  <2>3. QED
      BY <2>1, <2>2

\* Every step keeps the types.
LEMMA TypeStep == IInv /\ [LockNext]_lockVars => LockTypeOK'
<1> SUFFICES ASSUME IInv, [LockNext]_lockVars PROVE LockTypeOK'
    OBVIOUS
<1> USE DEF LockTypeOK, PCs
<1>1. CASE UNCHANGED lockVars
    BY <1>1 DEF IInv, lockVars
<1>2. ASSUME NEW c \in Callers, Begin(c) \/ Return(c) PROVE LockTypeOK'
    BY <1>2 DEF IInv, Begin, Return, Retry, Goto
<1>3. ASSUME NEW c \in Callers, Open(c) PROVE LockTypeOK'
  <2>1. pc' \in [Callers -> PCs]
      BY <1>3 DEF IInv, Open, Goto
  <2>2. CASE path # None
      BY <1>3, <2>1, <2>2 DEF IInv, Open
  <2>3. CASE path = None
    <3>1. PICK i \in Inodes : /\ path' = i
                              /\ fd' = [fd EXCEPT ![c] = i]
                              /\ content' = [content EXCEPT ![i] = Empty]
        BY <1>3, <2>3 DEF Open
    <3>2. QED
        BY <1>3, <2>1, <3>1, InfoFacts DEF IInv, Open
  <2>4. QED
      BY <2>2, <2>3
<1>4. ASSUME NEW c \in Callers, AttemptFails(c) PROVE LockTypeOK'
    BY <1>4, EndTypes DEF IInv, AttemptFails
<1>5. ASSUME NEW c \in Callers, TakeFlock(c) \/ WouldBlock(c) PROVE LockTypeOK'
    BY <1>5 DEF IInv, TakeFlock, WouldBlock, Goto
<1>6. ASSUME NEW c \in Callers, Judge(c) \/ UnlinkMissing(c) \/ UnlinkFails(c)
      PROVE  LockTypeOK'
    BY <1>6, EndTypes DEF IInv, Judge, UnlinkMissing, UnlinkFails, Goto
<1>7. ASSUME NEW c \in Callers, Unlink(c) PROVE LockTypeOK'
    BY <1>7, EndTypes DEF IInv, Unlink
<1>8. ASSUME NEW c \in Callers, WriteInfo(c) \/ WriteInfoFails(c) PROVE LockTypeOK'
    BY <1>8, InfoFacts DEF IInv, FdInv, Locking, WriteInfo, WriteInfoFails, Stamp, Goto
<1>9. ASSUME NEW c \in Callers, Verify(c) PROVE LockTypeOK'
    BY <1>9, EndTypes DEF IInv, Verify, Goto
<1>10. ASSUME NEW c \in Callers, Timeout(c) PROVE LockTypeOK'
    BY <1>10, EndTypes DEF IInv, FdInv, Locking, Timeout
<1>11. ASSUME NEW c \in Callers, Drop(c) \/ Reacquire(c) PROVE LockTypeOK'
    BY <1>11 DEF IInv, Drop, Reacquire, Close, Retry, Goto
<1>12. ASSUME NEW i \in Inodes, NEW p \in Procs, GhostGrant(p, i) PROVE LockTypeOK'
    BY <1>12 DEF IInv, GhostGrant
<1>13. ASSUME NEW i \in Inodes, GhostDrop(i) PROVE LockTypeOK'
    BY <1>13, InfoFacts DEF IInv, GhostDrop, Stamp
<1>14. CASE Age
    BY <1>14, InfoFacts DEF IInv, Age
<1>15. ASSUME NEW p \in Procs, Crash(p) PROVE LockTypeOK'
    BY <1>15 DEF IInv, Crash
<1>16. QED
    BY <1>1, <1>2, <1>3, <1>4, <1>5, <1>6, <1>7, <1>8, <1>9, <1>10, <1>11, <1>12, <1>13,
       <1>14, <1>15
    DEF LockNext, AcquireStep, AcquireFault, GhostStep

-----------------------------------------------------------------------------
(* Steps that close the caller's file.                                     *)

\* Caller c closes its file and goes to a place where it has none.
Closes(c) ==
    /\ pc[c] # "out"
    /\ Close(c)
    /\ \E l \in {"out", "open", "none"} : pc' = [pc EXCEPT ![c] = l]
    /\ alive' = alive

\* An attempt that meets a busy or a broken lock closes its file and goes on or out.
LEMMA AttemptEnds ==
    ASSUME IInv, NEW c \in Callers, Busy(c) \/ StaleUnlinked(c)
    PROVE  Close(c) /\ \E l \in {"out", "open", "none"} : pc' = [pc EXCEPT ![c] = l]
<1>1. phase[c] \in {1, 2} \/ phase[c] = 3 \/ phase[c] = 4
    BY DEF IInv, LockTypeOK
<1>2. Close(c)
    BY DEF Busy, StaleUnlinked
<1>3. Retry(c, 2) \/ Retry(c, 4) \/ GiveUp(c)
    BY <1>1 DEF Busy, StaleUnlinked
<1>4. QED
    BY <1>2, <1>3 DEF Retry, GiveUp, Goto

\* The steps in which a caller does no more than close its file.
LEMMA ClosingSteps ==
    ASSUME IInv, NEW c \in Callers,
           \/ AttemptFails(c)
           \/ Judge(c) /\ ~is_holder_stale(fd[c])
           \/ Unlink(c)
           \/ UnlinkMissing(c)
           \/ UnlinkFails(c)
           \/ Verify(c) /\ fd[c] # path
           \/ Timeout(c)
           \/ Drop(c)
           \/ Reacquire(c)
    PROVE  Closes(c)
<1>1. CASE AttemptFails(c)
    BY <1>1 DEF AttemptFails, Closes, Retry, GiveUp, Goto
<1>2. CASE Judge(c) /\ ~is_holder_stale(fd[c])
    BY <1>2, AttemptEnds DEF Judge, Closes
<1>3. CASE Unlink(c) \/ UnlinkMissing(c) \/ UnlinkFails(c)
    BY <1>3, AttemptEnds DEF Unlink, UnlinkMissing, UnlinkFails, Closes
<1>4. CASE Verify(c) /\ fd[c] # path
    BY <1>4, AttemptEnds DEF Verify, Closes
<1>5. CASE Timeout(c)
    BY <1>5 DEF Timeout, Closes, Retry, Goto
<1>6. CASE Drop(c) \/ Reacquire(c)
    BY <1>6 DEF Drop, Reacquire, Closes, Retry, Goto
<1>7. QED
    BY <1>1, <1>2, <1>3, <1>4, <1>5, <1>6

\* Closing a file frees its own lock and no other.
LEMMA ClosesKeeps ==
    ASSUME IInv, NEW c \in Callers, Closes(c)
    PROVE  /\ FdInv'
           /\ \A i \in Inodes : flock'[i] # None =>
                 /\ flock'[i] = flock[i] /\ flock[i] # c
                 /\ fd'[flock'[i]] = i /\ pc'[flock'[i]] \in Locking
           /\ \A d \in Callers : fd'[d] # None => fd'[d] = fd[d]
           /\ \A d \in Callers \ {c} : fd'[d] = fd[d] /\ pc'[d] = pc[d]
           /\ fd'[c] = None /\ pc'[c] \in {"out", "open", "none"}
<1> USE DEF IInv, LockTypeOK
<1>1. PICK l \in {"out", "open", "none"} : pc' = [pc EXCEPT ![c] = l]
    BY DEF Closes
<1>2. /\ fd' = [fd EXCEPT ![c] = None]
      /\ flock' = [i \in Inodes |-> IF flock[i] = c THEN None ELSE flock[i]]
      /\ alive' = alive
    BY DEF Closes, Close
<1>3. /\ \A d \in Callers \ {c} : fd'[d] = fd[d] /\ pc'[d] = pc[d]
      /\ fd'[c] = None /\ pc'[c] \in {"out", "open", "none"}
    BY <1>1, <1>2
<1>4. \A d \in Callers : fd'[d] # None => fd'[d] = fd[d]
    BY <1>3
<1>5. \A i \in Inodes : flock'[i] # None =>
          /\ flock'[i] = flock[i] /\ flock[i] # c
          /\ fd'[flock'[i]] = i /\ pc'[flock'[i]] \in Locking
  <2> SUFFICES ASSUME NEW i \in Inodes, flock'[i] # None
               PROVE  /\ flock'[i] = flock[i] /\ flock[i] # c
                      /\ fd'[flock'[i]] = i /\ pc'[flock'[i]] \in Locking
      OBVIOUS
  <2>1. flock'[i] = flock[i] /\ flock[i] # c /\ flock[i] \in Callers
      BY <1>2
  <2>2. QED
      BY <1>3, <2>1 DEF FlockInv
<1>6. FdInv'
  <2> SUFFICES ASSUME NEW d \in Callers
               PROVE  /\ pc'[d] \in Locking => fd'[d] \in Inodes /\ flock'[fd'[d]] = d
                      /\ pc'[d] \in {"flock", "judge", "unlink"} => fd'[d] \in Inodes
                      /\ pc'[d] \in {"out", "open", "none"} => fd'[d] = None
                      /\ ProcOf[d] \notin alive' => pc'[d] = "out"
      BY DEF FdInv
  <2>1. CASE d = c
      BY <1>2, <1>3, <2>1 DEF FdInv, Closes, Locking
  <2>2. CASE d # c
      BY <1>2, <1>3, <2>2 DEF FdInv
  <2>3. QED
      BY <2>1, <2>2
<1>7. QED
    BY <1>3, <1>4, <1>5, <1>6

-----------------------------------------------------------------------------
(* The steps that open, lock or keep a file.                               *)

\* Every step keeps the open files and the places in the routine in agreement.
LEMMA FdStep == IInv /\ [LockNext]_lockVars => FdInv'
<1> SUFFICES ASSUME IInv, [LockNext]_lockVars PROVE FdInv'
    OBVIOUS
<1> USE DEF IInv, LockTypeOK
<1>1. CASE UNCHANGED lockVars
    BY <1>1 DEF lockVars, FdInv
<1>2. ASSUME NEW c \in Callers, Begin(c) \/ Return(c) PROVE FdInv'
    BY <1>2 DEF Begin, Return, Retry, Goto, FdInv, Locking
<1>3. ASSUME NEW c \in Callers, Open(c) PROVE FdInv'
  <2>1. PICK i \in Inodes : fd' = [fd EXCEPT ![c] = i]
      BY <1>3 DEF Open
  <2>2. QED
      BY <1>3, <2>1 DEF Open, Goto, FdInv, Locking
<1>4. ASSUME NEW c \in Callers, TakeFlock(c) PROVE FdInv'
  <2>1. fd[c] \in Inodes /\ flock[fd[c]] = None
      BY <1>4 DEF TakeFlock, Unlocked, FdInv
  <2>2. QED
      BY <1>4, <2>1 DEF TakeFlock, Goto, FdInv, Locking
<1>5. ASSUME NEW c \in Callers, WouldBlock(c) PROVE FdInv'
    BY <1>5 DEF WouldBlock, Goto, FdInv, Locking
<1>6. ASSUME NEW c \in Callers, Judge(c), is_holder_stale(fd[c]) PROVE FdInv'
    BY <1>6 DEF Judge, Goto, FdInv, Locking
<1>7. ASSUME NEW c \in Callers, WriteInfo(c) \/ WriteInfoFails(c) PROVE FdInv'
    BY <1>7 DEF WriteInfo, WriteInfoFails, Goto, FdInv, Locking
<1>8. ASSUME NEW c \in Callers, Verify(c), fd[c] = path PROVE FdInv'
    BY <1>8 DEF Verify, Goto, FdInv, Locking
<1>9. CASE GhostStep \/ Age
    BY <1>9 DEF GhostStep, GhostDrop, GhostGrant, Age, FdInv
<1>10. ASSUME NEW p \in Procs, Crash(p) PROVE FdInv'
    BY <1>10 DEF Crash, FdInv, Locking
<1>11. QED
    BY <1>1, <1>2, <1>3, <1>4, <1>5, <1>6, <1>7, <1>8, <1>9, <1>10, ClosingSteps, ClosesKeeps
    DEF LockNext, AcquireStep, AcquireFault

\* Every step keeps the kernel locks and the open files in agreement.
LEMMA FlockStep == IInv /\ [LockNext]_lockVars => FlockInv'
<1> SUFFICES ASSUME IInv, [LockNext]_lockVars PROVE FlockInv'
    OBVIOUS
<1> USE DEF IInv, LockTypeOK
<1>1. CASE UNCHANGED lockVars
    BY <1>1 DEF lockVars, FlockInv
<1>2. ASSUME NEW c \in Callers, Begin(c) \/ Return(c) PROVE FlockInv'
    BY <1>2 DEF Begin, Return, Retry, Goto, FlockInv, Locking
<1>3. ASSUME NEW c \in Callers, Open(c) PROVE FlockInv'
  <2>1. PICK i \in Inodes : fd' = [fd EXCEPT ![c] = i]
      BY <1>3 DEF Open
  <2>2. QED
      BY <1>3, <2>1 DEF Open, Goto, FlockInv, Locking
<1>4. ASSUME NEW c \in Callers, TakeFlock(c) PROVE FlockInv'
  <2>1. fd[c] \in Inodes /\ flock[fd[c]] = None /\ ghost[fd[c]] = None
      BY <1>4 DEF TakeFlock, Unlocked, FdInv
  <2>2. QED
      BY <1>4, <2>1 DEF TakeFlock, Goto, FlockInv, Locking
<1>5. ASSUME NEW c \in Callers,
             \/ WouldBlock(c)
             \/ Judge(c) /\ is_holder_stale(fd[c])
             \/ WriteInfo(c) \/ WriteInfoFails(c)
             \/ Verify(c) /\ fd[c] = path
      PROVE  FlockInv'
    BY <1>5 DEF WouldBlock, Judge, WriteInfo, WriteInfoFails, Verify, Goto, FlockInv, Locking
<1>6. ASSUME NEW c \in Callers,
             \/ AttemptFails(c)
             \/ Judge(c) /\ ~is_holder_stale(fd[c])
             \/ Unlink(c) \/ UnlinkMissing(c) \/ UnlinkFails(c)
             \/ Verify(c) /\ fd[c] # path
             \/ Drop(c) \/ Reacquire(c)
      PROVE  FlockInv'
  <2>1. UNCHANGED <<ghost, abandoned, alive>>
      BY <1>6 DEF AttemptFails, Judge, Unlink, UnlinkMissing, UnlinkFails, Verify, Drop, Reacquire
  <2>2. Closes(c)
      BY <1>6, ClosingSteps
  <2>3. QED
      BY <2>1, <2>2, ClosesKeeps DEF FlockInv
<1>7. ASSUME NEW c \in Callers, Timeout(c) PROVE FlockInv'
  <2>1. ProcOf[c] \in alive /\ alive' = alive
      BY <1>7 DEF Timeout, FdInv
  <2>2. Closes(c)
      BY <1>7, ClosingSteps
  <2>3. \A i \in Inodes : abandoned'[i] \subseteq abandoned[i] \cup {ProcOf[c]}
      BY <1>7 DEF Timeout, FdInv
  <2>4. \A i \in Inodes : \/ ghost'[i] = ghost[i]
                          \/ ghost'[i] = ProcOf[c] /\ flock[i] = c
      BY <1>7 DEF Timeout, FdInv, Locking
  <2>5. QED
      BY <2>1, <2>2, <2>3, <2>4, ClosesKeeps DEF FlockInv
<1>8. ASSUME NEW i \in Inodes, NEW p \in Procs, GhostGrant(p, i) PROVE FlockInv'
    BY <1>8 DEF GhostGrant, Unlocked, FlockInv
<1>9. ASSUME NEW i \in Inodes, GhostDrop(i) PROVE FlockInv'
    BY <1>9 DEF GhostDrop, FlockInv
<1>10. CASE Age
    BY <1>10 DEF Age, FlockInv
<1>11. ASSUME NEW p \in Procs, Crash(p) PROVE FlockInv'
    BY <1>11 DEF Crash, FlockInv, Locking
<1>12. QED
    BY <1>1, <1>2, <1>3, <1>4, <1>5, <1>6, <1>7, <1>8, <1>9, <1>10, <1>11
    DEF LockNext, AcquireStep, AcquireFault, GhostStep

\* Only the unlink of a stale lock file lets a second one appear.
LEMMA OneFileStep == IInv /\ [LockNext]_lockVars => OneFile'
<1> SUFFICES ASSUME IInv, [LockNext]_lockVars, ~broken', NEW d \in Callers, fd'[d] # None
             PROVE  fd'[d] = path'
    BY DEF OneFile
<1> USE DEF IInv, LockTypeOK
<1>1. CASE UNCHANGED lockVars
    BY <1>1 DEF lockVars, OneFile
<1>2. ASSUME NEW c \in Callers, Begin(c) \/ Return(c) PROVE fd'[d] = path'
    BY <1>2 DEF Begin, Return, OneFile
<1>3. ASSUME NEW c \in Callers, Open(c) PROVE fd'[d] = path'
    BY <1>3 DEF Open, OneFile
<1>4. ASSUME NEW c \in Callers,
             \/ TakeFlock(c) \/ WouldBlock(c)
             \/ Judge(c) /\ is_holder_stale(fd[c])
             \/ WriteInfo(c) \/ WriteInfoFails(c)
             \/ Verify(c) /\ fd[c] = path
      PROVE  fd'[d] = path'
    BY <1>4 DEF TakeFlock, WouldBlock, Judge, WriteInfo, WriteInfoFails, Verify, OneFile
<1>5. ASSUME NEW c \in Callers,
             \/ AttemptFails(c)
             \/ Judge(c) /\ ~is_holder_stale(fd[c])
             \/ UnlinkMissing(c) \/ UnlinkFails(c)
             \/ Verify(c) /\ fd[c] # path
             \/ Timeout(c) \/ Drop(c) \/ Reacquire(c)
      PROVE  fd'[d] = path'
  <2>1. UNCHANGED <<path, broken>>
      BY <1>5
      DEF AttemptFails, Judge, UnlinkMissing, UnlinkFails, Verify, Timeout, Drop, Reacquire
  <2>2. fd'[d] = fd[d]
      BY <1>5, ClosingSteps, ClosesKeeps
  <2>3. QED
      BY <2>1, <2>2 DEF OneFile
<1>6. ASSUME NEW c \in Callers, Unlink(c) PROVE fd'[d] = path'
    BY <1>6 DEF Unlink
<1>7. CASE GhostStep \/ Age
    BY <1>7 DEF GhostStep, GhostDrop, GhostGrant, Age, OneFile
<1>8. ASSUME NEW p \in Procs, Crash(p) PROVE fd'[d] = path'
    BY <1>8 DEF Crash, OneFile
<1>9. QED
    BY <1>1, <1>2, <1>3, <1>4, <1>5, <1>6, <1>7, <1>8 DEF LockNext, AcquireStep, AcquireFault

\* The kernel locks, the open files and the places in try_lock_auth_file_async agree in
\* every state, and there is one lock file until a waiter unlinks it.
THEOREM Inductive == LockSpec => []IInv
<1>1. LockInit => IInv
    BY InitInv
<1>2. IInv /\ [LockNext]_lockVars => IInv'
    BY TypeStep, FdStep, FlockStep, OneFileStep DEF IInv
<1>3. QED
    BY <1>1, <1>2, PTL DEF LockSpec

\* The lock's state keeps its types, for any number of processes and callers.
THEOREM LockTypes == LockSpec => []LockTypeOK
<1>1. IInv => LockTypeOK
    BY DEF IInv
<1>2. QED
    BY <1>1, Inductive, PTL

\* No kernel lock is leaked: each one belongs to the file its caller has open, or
\* to a thread of a process that runs; a timeout, a lost inode race, a failed write
\* or a crash leaves none behind.
THEOREM FlockNotLeaked == LockSpec => []NoLeakedFlock
<1>1. IInv => NoLeakedFlock
    BY DEF IInv, FlockInv, NoLeakedFlock, Locking
<1>2. QED
    BY <1>1, Inductive, PTL

\* As long as nobody has unlinked the lock file, at most one caller holds a guard.
THEOREM Exclusion == LockSpec => []ExclusiveUnlessBroken
<1>1. IInv => ExclusiveUnlessBroken
    BY DEF IInv, LockTypeOK, FdInv, OneFile, ExclusiveUnlessBroken, Locking
<1>2. QED
    BY <1>1, Inductive, PTL

-----------------------------------------------------------------------------
(* The lock as a lease.                                                    *)

\* At most one caller owns the lock, and `owner` is that caller.
LEMMA OwnerIs ==
    ASSUME IInv
    PROVE  /\ \A c \in Callers : Owns(c) <=> owner = c
           /\ (\A c \in Callers : ~Owns(c)) <=> owner = None
<1>1. \A c, d \in Callers : Owns(c) /\ Owns(d) => c = d
    BY DEF IInv, FdInv, Owns, Locking
<1>2. CASE \E c \in Callers : Owns(c)
  <2>1. owner \in Callers /\ Owns(owner)
      BY <1>2 DEF owner
  <2>2. QED
      BY <1>1, <2>1
<1>3. CASE \A c \in Callers : ~Owns(c)
    BY <1>3 DEF owner
<1>4. QED
    BY <1>2, <1>3

\* The same of the next state.
LEMMA OwnerIsNext ==
    ASSUME IInv'
    PROVE  /\ \A c \in Callers : (pc'[c] = "held" /\ fd'[c] = path') <=> owner' = c
           /\ (\A c \in Callers : ~(pc'[c] = "held" /\ fd'[c] = path')) <=> owner' = None
<1> DEFINE O(c) == pc'[c] = "held" /\ fd'[c] = path'
<1>1. \A c, d \in Callers : O(c) /\ O(d) => c = d
    BY DEF IInv, FdInv, Locking
<1>0. owner' = IF \E c \in Callers : O(c) THEN CHOOSE c \in Callers : O(c) ELSE None
    BY DEF owner, Owns
<1>2. CASE \E c \in Callers : O(c)
  <2>1. owner' \in Callers /\ O(owner')
      BY <1>0, <1>2
  <2>2. QED
      BY <1>1, <2>1
<1>3. CASE \A c \in Callers : ~O(c)
    BY <1>0, <1>3
<1>4. QED
    BY <1>2, <1>3

\* A step that leaves everyone's ownership and guards alone is a stutter of the lease.
LEMMA LeaseStutter ==
    ASSUME IInv, IInv',
           \A d \in Callers : (pc'[d] = "held") = (pc[d] = "held"),
           \A d \in Callers : pc[d] = "held" => ((fd'[d] = path') = (fd[d] = path))
    PROVE  UNCHANGED Lease!leaseVars
<1>1. holders' = holders
    BY DEF holders
<1>2. owner' = owner
  <2>1. CASE \E d \in Callers : Owns(d)
    <3>1. PICK d \in Callers : Owns(d)
        BY <2>1
    <3>2. owner = d
        BY <3>1, OwnerIs
    <3>3. owner' = d
        BY <3>1, OwnerIsNext DEF Owns
    <3>4. QED
        BY <3>2, <3>3
  <2>2. CASE \A d \in Callers : ~Owns(d)
      BY <2>2, OwnerIs, OwnerIsNext DEF Owns
  <2>3. QED
      BY <2>1, <2>2
<1>3. QED
    BY <1>1, <1>2 DEF Lease!leaseVars

\* The callers in S, all of them holders, drop their guards, and nobody else does.
Drops(S) ==
    /\ S \subseteq Callers /\ S # {}
    /\ \A d \in S : pc[d] = "held" /\ pc'[d] # "held"
    /\ \A d \in Callers \ S : /\ (pc'[d] = "held") = (pc[d] = "held")
                              /\ pc[d] = "held" => fd'[d] = fd[d]
    /\ path' = path

\* Guards that are dropped are a release.
LEMMA LeaseRelease ==
    ASSUME IInv, IInv', NEW S, Drops(S)
    PROVE  Lease!LeaseNext
<1> USE DEF Drops
<1>1. S \subseteq holders /\ holders' = holders \ S
    BY DEF holders
<1>2. owner' = IF owner \in S THEN None ELSE owner
  <2>1. CASE owner \in S
    <3>1. Owns(owner)
        BY <2>1, OwnerIs
    <3>2. \A d \in Callers : Owns(d) => d \in S
        BY <2>1, OwnerIs
    <3>3. \A d \in Callers : ~(pc'[d] = "held" /\ fd'[d] = path')
        BY <3>2 DEF Owns
    <3>4. QED
        BY <2>1, <3>3, OwnerIsNext
  <2>2. CASE owner \in Callers \ S
    <3>1. Owns(owner)
        BY <2>2, OwnerIs
    <3>2. pc'[owner] = "held" /\ fd'[owner] = path'
        BY <2>2, <3>1 DEF Owns
    <3>3. QED
        BY <2>2, <3>2, OwnerIsNext
  <2>3. CASE owner = None
    <3>1. \A d \in Callers : ~(pc'[d] = "held" /\ fd'[d] = path')
        BY <2>3, OwnerIs DEF Owns
    <3>2. QED
        BY <2>3, <3>1, OwnerIsNext
  <2>4. owner \in Callers \cup {None}
      BY DEF owner
  <2>5. QED
      BY <2>1, <2>2, <2>3, <2>4
<1>3. Lease!Release(S)
    BY <1>1, <1>2 DEF Lease!Release
<1>4. QED
    BY <1>3 DEF Lease!LeaseNext

\* Every step of the file lock is a step of the lease, or changes nothing of it.
LEMMA LeaseStep ==
    ASSUME IInv, IInv', [LockNext]_lockVars
    PROVE  [Lease!LeaseNext]_(Lease!leaseVars)
<1> USE DEF IInv, LockTypeOK
<1>1. CASE UNCHANGED lockVars
  <2>1. UNCHANGED Lease!leaseVars
      BY <1>1, LeaseStutter DEF lockVars
  <2>2. QED
      BY <2>1
<1>2. ASSUME NEW c \in Callers,
             \/ Begin(c) \/ Return(c) \/ TakeFlock(c) \/ WouldBlock(c)
             \/ Judge(c) /\ is_holder_stale(fd[c])
             \/ WriteInfo(c) \/ WriteInfoFails(c)
      PROVE  UNCHANGED Lease!leaseVars
    BY <1>2, LeaseStutter
    DEF Begin, Return, TakeFlock, WouldBlock, Judge, WriteInfo, WriteInfoFails, Retry, Goto
<1>3. ASSUME NEW c \in Callers, Open(c) PROVE UNCHANGED Lease!leaseVars
  <2>1. \A d \in Callers : (pc'[d] = "held") = (pc[d] = "held")
      BY <1>3 DEF Open, Goto
  <2>2. \A d \in Callers : pc[d] = "held" => d # c /\ fd[d] \in Inodes
      BY <1>3 DEF Open, FdInv, Locking
  <2>3. \A d \in Callers : pc[d] = "held" => ((fd'[d] = path') = (fd[d] = path))
    <3>1. CASE path # None
        BY <1>3, <2>2, <3>1 DEF Open
    <3>2. CASE path = None
      <4>1. PICK i \in Inodes : Unused(i) /\ path' = i /\ fd' = [fd EXCEPT ![c] = i]
          BY <1>3, <3>2 DEF Open
      <4>2. QED
          BY <2>2, <3>2, <4>1 DEF Unused
    <3>3. QED
        BY <3>1, <3>2
  <2>4. QED
      BY <2>1, <2>3, LeaseStutter
<1>4. ASSUME NEW c \in Callers,
             \/ AttemptFails(c)
             \/ Judge(c) /\ ~is_holder_stale(fd[c])
             \/ UnlinkMissing(c) \/ UnlinkFails(c)
             \/ Verify(c) /\ fd[c] # path
             \/ Timeout(c)
      PROVE  UNCHANGED Lease!leaseVars
  <2>1. path' = path /\ pc[c] # "held"
      BY <1>4 DEF AttemptFails, Judge, UnlinkMissing, UnlinkFails, Verify, Timeout
  <2>2. Closes(c)
      BY <1>4, ClosingSteps
  <2>3. QED
      BY <2>1, <2>2, ClosesKeeps, LeaseStutter
<1>5. ASSUME NEW c \in Callers, Drop(c) \/ Reacquire(c) PROVE Lease!LeaseNext
  <2>1. path' = path /\ pc[c] = "held"
      BY <1>5 DEF Drop, Reacquire
  <2>2. Closes(c)
      BY <1>5, ClosingSteps
  <2>3. Drops({c})
      BY <2>1, <2>2, ClosesKeeps DEF Drops
  <2> HIDE DEF IInv, LockTypeOK
  <2>4. QED
      BY <2>3, LeaseRelease, Zenon
<1>6. ASSUME NEW c \in Callers, Unlink(c) PROVE [Lease!LeaseNext]_(Lease!leaseVars)
  <2>1. path' = None /\ pc[c] # "held"
      BY <1>6 DEF Unlink
  <2>2. Closes(c)
      BY <1>6, ClosingSteps
  <2>3. \A d \in Callers : /\ (pc'[d] = "held") = (pc[d] = "held")
                           /\ pc[d] = "held" => fd'[d] = fd[d] /\ fd[d] # None
      BY <2>1, <2>2, ClosesKeeps DEF FdInv, Locking
  <2>4. holders' = holders
      BY <2>3 DEF holders
  <2>5. owner' = None
      BY <2>1, <2>3, OwnerIsNext
  <2>6. CASE owner # None
      BY <2>4, <2>5, <2>6 DEF Lease!LeaseNext, Lease!Revoke
  <2>7. CASE owner = None
      BY <2>4, <2>5, <2>7 DEF Lease!leaseVars
  <2>8. QED
      BY <2>6, <2>7
<1>7. ASSUME NEW c \in Callers, Verify(c), fd[c] = path PROVE Lease!LeaseNext
  <2>1. /\ pc[c] = "verify" /\ pc' = [pc EXCEPT ![c] = "held"]
        /\ UNCHANGED <<fd, path>>
      BY <1>7 DEF Verify, Goto
  <2>2. \A d \in Callers : ~Owns(d)
      BY <1>7, <2>1 DEF Owns, FdInv, Locking
  <2>3. owner = None
      BY <2>2, OwnerIs
  <2>4. owner' = c
      BY <1>7, <2>1, OwnerIsNext
  <2>5. c \notin holders /\ holders' = holders \cup {c}
      BY <2>1 DEF holders
  <2>6. Lease!Acquire(c)
      BY <2>3, <2>4, <2>5 DEF Lease!Acquire
  <2>7. QED
      BY <2>6 DEF Lease!LeaseNext
<1>8. CASE GhostStep \/ Age
    BY <1>8, LeaseStutter DEF GhostStep, GhostDrop, GhostGrant, Age
<1>9. ASSUME NEW p \in Procs, Crash(p) PROVE [Lease!LeaseNext]_(Lease!leaseVars)
  <2> DEFINE S == {d \in Callers : ProcOf[d] = p /\ pc[d] = "held"}
  <2>1. \A d \in Callers : /\ ProcOf[d] = p => pc'[d] = "out"
                           /\ ProcOf[d] # p => pc'[d] = pc[d] /\ fd'[d] = fd[d]
      BY <1>9 DEF Crash
  <2>2. path' = path
      BY <1>9 DEF Crash
  <2>3. CASE S = {}
      BY <2>1, <2>2, <2>3, LeaseStutter
  <2>4. CASE S # {}
    <3>1. PICK T : T = S
        OBVIOUS
    <3>2. Drops(T)
        BY <2>1, <2>2, <2>4, <3>1 DEF Drops
    <3> HIDE DEF S, IInv, LockTypeOK
    <3>4. Lease!LeaseNext
        BY <3>2, LeaseRelease, Zenon
    <3>5. QED
        BY <3>4
  <2>5. QED
      BY <2>3, <2>4
<1>10. QED
    BY <1>1, <1>2, <1>3, <1>4, <1>5, <1>6, <1>7, <1>8, <1>9
    DEF LockNext, AcquireStep, AcquireFault

\* The file lock of manager/lock.rs implements the lease of LeaseLock, whatever the
\* number of processes and inodes and however often it is broken: this is what
\* CredentialRefresh relies on.
THEOREM ImplementsLease == LockSpec => IsLease
<1>1. LockInit => Lease!LeaseInit
    BY DEF LockInit, Lease!LeaseInit, holders, owner, Owns
<1>2. IInv /\ IInv' /\ [LockNext]_lockVars => [Lease!LeaseNext]_(Lease!leaseVars)
    BY LeaseStep
<1>3. QED
    BY <1>1, <1>2, Inductive, PTL DEF LockSpec, IsLease, Lease!LeaseSpec
=============================================================================
