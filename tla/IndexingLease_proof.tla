------------------------- MODULE IndexingLease_proof -------------------------
(***************************************************************************)
(* Proofs about IndexingLease, for every set of processes and any number   *)
(* of lock files. FlockInv is the inductive core: whoever goes on as a     *)
(* holder has the exclusive flock on the inode it opened, and an exclusive *)
(* flock shuts out every other lock on that inode. InodeInv adds that all  *)
(* descriptors are on inodes created so far.                               *)
(***************************************************************************)
EXTENDS IndexingLease, TLAPS

\* Steps at which a process has the lock file open.
OpenSteps ==
    HoldingSteps \cup {"trylock", "probing", "release", "rechecking", "rerelease"}

\* Steps at which a process has no lock at all.
UnlockedSteps ==
    {"idle", "trylock", "remove", "read", "discard",
     "probe", "probing", "recheck", "rechecking"}

FlockInv ==
    /\ TypeOK
    /\ \A p \in Proc : Holding(p) => flock[p] = "exclusive"
    /\ \A p \in Proc : pc[p] \in UnlockedSteps => flock[p] = "none"
    /\ \A p, q \in Proc :
          p # q /\ fd[p] = fd[q] /\ flock[p] = "exclusive" => flock[q] = "none"
    /\ \A p \in Proc : pc[p] = "trylock" =>
          mode[p] \in Writers /\ (mode[p] = "clear" => p \in Clearers)
    /\ \A p \in Proc : pc[p] \in {"clearing", "cleared"} => p \in Clearers
    /\ \A p \in Proc : pc[p] \in OpenSteps => fd[p] # 0

InodeInv == lockFile <= inodes /\ \A p \in Proc : fd[p] <= inodes

-----------------------------------------------------------------------------
(* FlockInv is inductive.                                                   *)

LEMMA InitFlock == Init => FlockInv
  BY LeaseAssumption
  DEF Init, FlockInv, TypeOK, Holding, HoldingSteps, UnlockedSteps, OpenSteps,
      Modes, Steps, ProbeSteps

USE LeaseAssumption
    DEF TypeOK, Modes, Writers, Steps, HoldingSteps, ProbeSteps, UnlockedSteps,
        OpenSteps, Holding, Goto

\* Opening the lock file gives a process no lock.
LEMMA OpenFlock ==
  ASSUME FlockInv, NEW p \in Proc, OpenLockFile(p), flock[p] = "none",
         UNCHANGED flock
  PROVE  /\ lockFile' \in 0..MaxInode
         /\ inodes' \in 0..MaxInode
         /\ fd' \in [Proc -> 0..MaxInode]
         /\ fd'[p] # 0
         /\ \A q \in Proc \ {p} : fd'[q] = fd[q]
         /\ \A q, r \in Proc :
               q # r /\ fd'[q] = fd'[r] /\ flock'[q] = "exclusive"
                  => flock'[r] = "none"
  BY DEF OpenLockFile, FlockInv

\* Closing it leaves the locks of the others alone.
LEMMA CloseFlock ==
  ASSUME FlockInv, NEW p \in Proc, CloseLockFile(p)
  PROVE  /\ fd' \in [Proc -> 0..MaxInode]
         /\ flock' \in [Proc -> {"none", "shared", "exclusive"}]
         /\ flock'[p] = "none"
         /\ \A q \in Proc \ {p} : flock'[q] = flock[q] /\ fd'[q] = fd[q]
         /\ \A q, r \in Proc :
               q # r /\ fd'[q] = fd'[r] /\ flock'[q] = "exclusive"
                  => flock'[r] = "none"
  BY DEF CloseLockFile, FlockInv

LEMMA StepFlock ==
  ASSUME FlockInv, NEW p \in Proc, Step(p)
  PROVE  FlockInv'
<1>1. CASE TryLockGranted(p)
  BY <1>1 DEF TryLockGranted, GrantsExclusive, FlockInv
<1>2. CASE TryLockDenied(p)
  BY <1>2, CloseFlock DEF TryLockDenied, FlockInv
<1>3. CASE WriteInitialStatus(p)
  BY <1>3 DEF WriteInitialStatus, FlockInv
<1>4. CASE WriteInitialFails(p)
  BY <1>4 DEF WriteInitialFails, FlockInv
<1>5. CASE FinishRun(p)
  BY <1>5 DEF FinishRun, FlockInv
<1>6. CASE DropRemoveStatus(p)
  BY <1>6 DEF DropRemoveStatus, FlockInv
<1>7. CASE Unlock(p)
  BY <1>7, CloseFlock DEF Unlock, FlockInv
<1>8. CASE ClearStatusFile(p)
  BY <1>8 DEF ClearStatusFile, FlockInv
<1>9. CASE ClearLockFile(p)
  BY <1>9 DEF ClearLockFile, FlockInv
<1>10. CASE ClearDone(p)
  BY <1>10 DEF ClearDone, FlockInv
<1>11. CASE OpenProbe(p)
  <2>1. flock[p] = "none"
    BY <1>11 DEF OpenProbe, FlockInv
  <2> QED BY <1>11, <2>1, OpenFlock DEF OpenProbe, FlockInv
<1>12. CASE ProbeGranted(p)
  BY <1>12 DEF ProbeGranted, GrantsShared, FlockInv
<1>13. CASE ProbeHeld(p)
  BY <1>13, CloseFlock DEF ProbeHeld, FlockInv
<1>14. CASE ProbeRelease(p)
  BY <1>14, CloseFlock DEF ProbeRelease, FlockInv
<1>15. CASE ProbeNoDirectory(p)
  BY <1>15 DEF ProbeNoDirectory, FlockInv
<1>16. CASE RemoveStaleStatus(p)
  BY <1>16 DEF RemoveStaleStatus, AfterNone, FlockInv
<1>17. CASE ReadStatus(p)
  BY <1>17 DEF ReadStatus, AfterNone, FlockInv
<1>18. CASE DiscardInvalidStatus(p)
  BY <1>18 DEF DiscardInvalidStatus, AfterNone, FlockInv
<1> QED
  BY <1>1, <1>2, <1>3, <1>4, <1>5, <1>6, <1>7, <1>8, <1>9, <1>10, <1>11,
     <1>12, <1>13, <1>14, <1>15, <1>16, <1>17, <1>18 DEF Step

LEMMA NextFlock == FlockInv /\ [Next]_vars => FlockInv'
<1> SUFFICES ASSUME FlockInv, [Next]_vars PROVE FlockInv'
  OBVIOUS
<1>1. ASSUME NEW p \in Proc, NEW m \in Modes, BeginLock(p, m) PROVE FlockInv'
  <2>1. flock[p] = "none"
    BY <1>1 DEF BeginLock, FlockInv
  <2> QED BY <1>1, <2>1, OpenFlock DEF BeginLock, FlockInv
<1>2. ASSUME NEW p \in Proc, NEW m \in Modes, BeginRead(p, m) PROVE FlockInv'
  BY <1>2 DEF BeginRead, FlockInv
<1>3. ASSUME NEW p \in Proc, Crash(p) PROVE FlockInv'
  BY <1>3, CloseFlock DEF Crash, FlockInv
<1>4. CASE UNCHANGED vars
  BY <1>4 DEF vars, FlockInv
<1> QED BY <1>1, <1>2, <1>3, <1>4, StepFlock DEF Next

\* The lock discipline of coordination.rs keeps the state well-typed and
\* FlockInv true, with or without `clear`.
THEOREM FlockInvariant == Spec => []FlockInv
  BY InitFlock, NextFlock, PTL DEF Spec

\* Every descriptor, lock and step of a process has its type, and only a
\* process that has the lock file open has a lock on it.
THEOREM LeaseTypeOK == Spec => []TypeOK
<1>1. FlockInv => TypeOK
  BY DEF FlockInv
<1> QED BY <1>1, FlockInvariant, PTL

\* Two processes that hold the writer lock of one lock file are the same one.
THEOREM LeaseInodeExclusion == Spec => []InodeExclusion
<1>1. FlockInv => InodeExclusion
  BY DEF FlockInv, InodeExclusion
<1> QED BY <1>1, FlockInvariant, PTL

-----------------------------------------------------------------------------
(* Inodes are numbered as they are created, so while the lock file has not  *)
(* been unlinked there is but one, and every descriptor is on it.           *)

LEMMA StepInode ==
  ASSUME FlockInv, InodeInv, NEW p \in Proc, Step(p)
  PROVE  InodeInv' /\ (Intact' => Intact)
<1> USE DEF FlockInv, InodeInv, Intact
<1>1. CASE TryLockGranted(p) \/ TryLockDenied(p) \/ Unlock(p)
  BY <1>1 DEF TryLockGranted, TryLockDenied, Unlock, CloseLockFile
<1>2. CASE \/ WriteInitialStatus(p) \/ WriteInitialFails(p) \/ FinishRun(p)
           \/ DropRemoveStatus(p)
  BY <1>2 DEF WriteInitialStatus, WriteInitialFails, FinishRun, DropRemoveStatus
<1>3. CASE ClearStatusFile(p) \/ ClearLockFile(p) \/ ClearDone(p)
  BY <1>3 DEF ClearStatusFile, ClearLockFile, ClearDone
<1>4. CASE OpenProbe(p)
  BY <1>4 DEF OpenProbe, OpenLockFile
<1>5. CASE ProbeGranted(p) \/ ProbeHeld(p) \/ ProbeRelease(p)
  BY <1>5 DEF ProbeGranted, ProbeHeld, ProbeRelease, CloseLockFile
<1>6. CASE ProbeNoDirectory(p) \/ RemoveStaleStatus(p)
  BY <1>6 DEF ProbeNoDirectory, RemoveStaleStatus, AfterNone
<1>7. CASE ReadStatus(p) \/ DiscardInvalidStatus(p)
  BY <1>7 DEF ReadStatus, DiscardInvalidStatus, AfterNone
<1> QED BY <1>1, <1>2, <1>3, <1>4, <1>5, <1>6, <1>7 DEF Step

LEMMA NextInode ==
  FlockInv /\ InodeInv /\ [Next]_vars => InodeInv' /\ (Intact' => Intact)
<1> SUFFICES ASSUME FlockInv, InodeInv, [Next]_vars
             PROVE  InodeInv' /\ (Intact' => Intact)
  OBVIOUS
<1> USE DEF FlockInv, InodeInv, Intact
<1>1. ASSUME NEW p \in Proc, NEW m \in Modes, BeginLock(p, m)
      PROVE  InodeInv' /\ (Intact' => Intact)
  BY <1>1 DEF BeginLock, OpenLockFile
<1>2. ASSUME NEW p \in Proc, NEW m \in Modes, BeginRead(p, m)
      PROVE  InodeInv' /\ (Intact' => Intact)
  BY <1>2 DEF BeginRead
<1>3. ASSUME NEW p \in Proc, Crash(p) PROVE InodeInv' /\ (Intact' => Intact)
  BY <1>3 DEF Crash, CloseLockFile
<1>4. CASE UNCHANGED vars
  BY <1>4 DEF vars
<1> QED BY <1>1, <1>2, <1>3, <1>4, StepInode DEF Next

LEMMA InodeInvariant == Spec => []InodeInv
<1>1. Init => InodeInv
  BY DEF Init, InodeInv
<1>2. FlockInv /\ InodeInv /\ [Next]_vars => InodeInv'
  BY NextInode
<1> QED BY <1>1, <1>2, FlockInvariant, PTL DEF Spec

LEMMA IntactExclusion == FlockInv /\ InodeInv => MutualExclusion
  BY DEF FlockInv, InodeInv, Intact, MutualExclusion

\* Until the lock file is unlinked, at most one process goes on as the holder
\* of the writer lock, for any number of processes, crashes and readers.
THEOREM LeaseMutualExclusion == Spec => []MutualExclusion
  BY InodeInvariant, FlockInvariant, IntactExclusion, PTL

-----------------------------------------------------------------------------
(* The status file of a lease is its own.                                   *)

LEMMA StepStatus ==
  ASSUME Intact, MutualExclusion, FlockInv, LiveStatusIsOwn, NEW p \in Proc, Step(p)
  PROVE  LiveStatusIsOwn'
<1> USE DEF LiveStatusIsOwn, MutualExclusion, FlockInv
<1>1. CASE TryLockGranted(p)
  BY <1>1 DEF TryLockGranted
<1>2. CASE WriteInitialStatus(p)
  BY <1>2 DEF WriteInitialStatus
<1>3. CASE FinishRun(p)
  BY <1>3 DEF FinishRun
<1>4. CASE \/ DropRemoveStatus(p) \/ ClearStatusFile(p) \/ RemoveStaleStatus(p)
           \/ DiscardInvalidStatus(p)
  BY <1>4 DEF DropRemoveStatus, ClearStatusFile, RemoveStaleStatus,
              DiscardInvalidStatus, AfterNone
<1>5. CASE \/ TryLockDenied(p) \/ WriteInitialFails(p) \/ Unlock(p)
           \/ ClearLockFile(p) \/ ClearDone(p)
  BY <1>5 DEF TryLockDenied, WriteInitialFails, Unlock, ClearLockFile, ClearDone
<1>6. CASE \/ OpenProbe(p) \/ ProbeGranted(p) \/ ProbeHeld(p) \/ ProbeRelease(p)
           \/ ProbeNoDirectory(p) \/ ReadStatus(p)
  BY <1>6 DEF OpenProbe, ProbeGranted, ProbeHeld, ProbeRelease, ProbeNoDirectory,
              ReadStatus, AfterNone
<1> QED BY <1>1, <1>2, <1>3, <1>4, <1>5, <1>6 DEF Step

LEMMA NextStatus ==
  ASSUME Intact, MutualExclusion, FlockInv, LiveStatusIsOwn, [Next]_vars
  PROVE  LiveStatusIsOwn'
<1> USE DEF LiveStatusIsOwn, FlockInv
<1>1. ASSUME NEW p \in Proc, NEW m \in Modes, BeginLock(p, m) \/ BeginRead(p, m)
      PROVE  LiveStatusIsOwn'
  BY <1>1 DEF BeginLock, BeginRead
<1>2. ASSUME NEW p \in Proc, Crash(p) PROVE LiveStatusIsOwn'
  BY <1>2 DEF Crash
<1>3. CASE UNCHANGED vars
  BY <1>3 DEF vars, Intact
<1> QED BY <1>1, <1>2, <1>3, StepStatus DEF Next

\* Once a lease has written its status, no other writer's status is there to
\* be read until the lease is dropped, as long as the lock file is not unlinked.
THEOREM LeaseStatusIsOwn == Spec => []LiveStatusIsOwn
<1>1. Init => LiveStatusIsOwn
  BY DEF Init, LiveStatusIsOwn
<1>2. FlockInv /\ InodeInv /\ MutualExclusion /\ LiveStatusIsOwn /\ [Next]_vars
        => LiveStatusIsOwn'
  <2>1. CASE Intact
    BY <2>1, NextStatus
  <2>2. CASE ~Intact
    BY <2>2, NextInode DEF LiveStatusIsOwn
  <2> QED BY <2>1, <2>2
<1> QED BY <1>1, <1>2, FlockInvariant, InodeInvariant, LeaseMutualExclusion, PTL
        DEF Spec
=============================================================================
