---------------------------- MODULE IndexingLease ----------------------------
(***************************************************************************)
(* The cross-process indexing lease of crates/core/src/coordination.rs and *)
(* its users in crates/cli/src/app.rs: an exclusive flock on               *)
(* `.skelesearch.lock` guards writers of the index, and the file           *)
(* `indexing-status.json` beside it tells other processes who is indexing. *)
(*                                                                         *)
(* A process of Proc performs one call at a time, each call step by step,  *)
(* so that calls of different processes interleave at every system call:   *)
(*   "lease"   try_acquire_indexing_lease, the run, Drop of the lease      *)
(*   "cli"     acquire_lock of the CLI (index, watch, gc), no status file  *)
(*   "clear"   acquire_lock, then remove_dir_all of the storage directory  *)
(*   "read"    read_shared_indexing_status                                 *)
(*   "active"  is_indexing_active_elsewhere                                *)
(* A process may be killed at any step; the kernel then drops its lock.    *)
(***************************************************************************)
EXTENDS Naturals

CONSTANTS
    Proc,       \* processes that use one storage directory
    Clearers,   \* the processes that may run `skelesearch clear`
    MaxInode,   \* bound: lock files created over time
    NoStatus,   \* there is no status file
    Invalid     \* a status file that does not parse (another version wrote it)

ASSUME LeaseAssumption ==
    /\ Clearers \subseteq Proc
    /\ MaxInode \in Nat \ {0}
    /\ NoStatus \notin Proc
    /\ Invalid \notin Proc
    /\ NoStatus # Invalid

VARIABLES
    lockFile,   \* inode at the path of the lock file, 0 when there is none
    inodes,     \* number of inodes created so far
    fd,         \* inode each process has open, 0 when none
    flock,      \* the lock each process holds on the inode it has open
    status,     \* the status file: its writer, NoStatus or Invalid
    mode,       \* the call each process is in
    pc          \* the step of the call

vars == <<lockFile, inodes, fd, flock, status, mode, pc>>

Modes == {"lease", "cli", "clear", "read", "active"}
Writers == {"lease", "cli", "clear"}

\* Steps in which the program goes on as the holder of the writer lock.
HoldingSteps ==
    {"locked", "indexing", "dropping", "unlocking", "working", "clearing", "cleared"}
\* Steps of the two probes of is_lock_held.
ProbeSteps == {"probe", "probing", "release", "recheck", "rechecking", "rerelease"}
Steps == {"idle", "trylock", "remove", "read", "discard"}
    \cup HoldingSteps \cup ProbeSteps

TypeOK ==
    /\ lockFile \in 0..MaxInode
    /\ inodes \in 0..MaxInode
    /\ fd \in [Proc -> 0..MaxInode]
    /\ flock \in [Proc -> {"none", "shared", "exclusive"}]
    /\ status \in Proc \cup {NoStatus, Invalid}
    /\ mode \in [Proc -> Modes]
    /\ pc \in [Proc -> Steps]
    /\ \A p \in Proc : flock[p] # "none" => fd[p] # 0

Init ==
    /\ \/ lockFile = 0 /\ status = NoStatus
       \/ lockFile = 1 /\ status \in {NoStatus, Invalid}
    /\ inodes = lockFile
    /\ fd = [p \in Proc |-> 0]
    /\ flock = [p \in Proc |-> "none"]
    /\ mode = [p \in Proc |-> "read"]
    /\ pc = [p \in Proc |-> "idle"]

Goto(p, step) == pc' = [pc EXCEPT ![p] = step]

-----------------------------------------------------------------------------
(* flock on the inode a process has open (external: the kernel's semantics) *)

GrantsExclusive(p) == \A q \in Proc \ {p} : fd[q] = fd[p] => flock[q] = "none"
GrantsShared(p) == \A q \in Proc \ {p} : fd[q] = fd[p] => flock[q] # "exclusive"

\* OpenOptions::create(true): the file at the path, created when missing.
OpenLockFile(p) ==
    \/ /\ lockFile # 0
       /\ fd' = [fd EXCEPT ![p] = lockFile]
       /\ UNCHANGED <<lockFile, inodes>>
    \/ /\ lockFile = 0
       /\ inodes < MaxInode
       /\ inodes' = inodes + 1
       /\ lockFile' = inodes + 1
       /\ fd' = [fd EXCEPT ![p] = inodes + 1]

\* Mutant: the descriptor is closed and the lock stays behind.
CloseKeepsLock(p) == fd' = [fd EXCEPT ![p] = 0] /\ flock' = flock

\* Closing the descriptor gives up the lock that was taken through it.
CloseLockFile(p) ==
    /\ fd' = [fd EXCEPT ![p] = 0]
    /\ flock' = [flock EXCEPT ![p] = "none"]

-----------------------------------------------------------------------------
(* Writers: open, try_lock_exclusive, work, release                         *)

BeginLock(p, m) ==
    /\ pc[p] = "idle"
    /\ m \in Writers
    /\ m = "clear" => p \in Clearers
    /\ OpenLockFile(p)
    /\ mode' = [mode EXCEPT ![p] = m]
    /\ Goto(p, "trylock")
    /\ UNCHANGED <<flock, status>>

\* Mutant: the result of try_lock_exclusive is ignored.
TryLockIgnored(p) ==
    /\ pc[p] = "trylock"
    /\ flock' = [flock EXCEPT ![p] = "exclusive"]
    /\ Goto(p, IF mode[p] = "lease" THEN "locked"
               ELSE IF mode[p] = "cli" THEN "working" ELSE "clearing")
    /\ UNCHANGED <<lockFile, inodes, fd, status, mode>>

TryLockGranted(p) ==
    /\ pc[p] = "trylock"
    /\ GrantsExclusive(p)
    /\ flock' = [flock EXCEPT ![p] = "exclusive"]
    /\ Goto(p, IF mode[p] = "lease" THEN "locked"
               ELSE IF mode[p] = "cli" THEN "working" ELSE "clearing")
    /\ UNCHANGED <<lockFile, inodes, fd, status, mode>>

\* WouldBlock: Ok(None) for the lease, an error for the CLI.
TryLockDenied(p) ==
    /\ pc[p] = "trylock"
    /\ ~GrantsExclusive(p)
    /\ CloseLockFile(p)
    /\ Goto(p, "idle")
    /\ UNCHANGED <<lockFile, inodes, status, mode>>

\* Mutant: the first status is not written.
WriteInitialSkipped(p) ==
    /\ pc[p] = "locked"
    /\ Goto(p, "indexing")
    /\ UNCHANGED <<lockFile, inodes, fd, flock, status, mode>>

WriteInitialStatus(p) ==
    /\ pc[p] = "locked"
    /\ status' = p
    /\ Goto(p, "indexing")
    /\ UNCHANGED <<lockFile, inodes, fd, flock, mode>>

\* `lease.write_status(initial)?` fails: the lease is dropped on the way out.
WriteInitialFails(p) ==
    /\ pc[p] = "locked"
    /\ Goto(p, "dropping")
    /\ UNCHANGED <<lockFile, inodes, fd, flock, status, mode>>

\* Mutant: a run ends only while its own status file is there.
FinishRunOwn(p) ==
    /\ pc[p] = "indexing"
    /\ status = p
    /\ Goto(p, "dropping")
    /\ UNCHANGED <<lockFile, inodes, fd, flock, status, mode>>

\* The run ends; its last write_status ("done" or "failed") may itself fail.
FinishRun(p) ==
    /\ pc[p] = "indexing"
    /\ status' \in {p, status}
    /\ Goto(p, "dropping")
    /\ UNCHANGED <<lockFile, inodes, fd, flock, mode>>

\* Drop for IndexingLease: first the status file, then the lock.
DropRemoveStatus(p) ==
    /\ pc[p] = "dropping"
    /\ status' = NoStatus
    /\ Goto(p, "unlocking")
    /\ UNCHANGED <<lockFile, inodes, fd, flock, mode>>

\* The lock goes with the lease, or with the CLI's File after its work.
Unlock(p) ==
    /\ pc[p] \in {"unlocking", "working"}
    /\ CloseLockFile(p)
    /\ Goto(p, "idle")
    /\ UNCHANGED <<lockFile, inodes, status, mode>>

-----------------------------------------------------------------------------
(* skelesearch clear: remove_dir_all while the lock is held                 *)

ClearStatusFile(p) ==
    /\ pc[p] \in {"clearing", "cleared"}
    /\ status # NoStatus
    /\ status' = NoStatus
    /\ UNCHANGED <<lockFile, inodes, fd, flock, mode, pc>>

ClearLockFile(p) ==
    /\ pc[p] \in {"clearing", "cleared"}
    /\ lockFile # 0
    /\ lockFile' = 0
    /\ Goto(p, "cleared")
    /\ UNCHANGED <<inodes, fd, flock, status, mode>>

\* Also when another clear has unlinked the lock file first.
ClearDone(p) ==
    /\ \/ pc[p] = "cleared"
       \/ pc[p] = "clearing" /\ lockFile = 0
    /\ Goto(p, "working")
    /\ UNCHANGED <<lockFile, inodes, fd, flock, status, mode>>

-----------------------------------------------------------------------------
(* Readers: read_shared_indexing_status, is_indexing_active_elsewhere       *)

\* The status is read as None: "read" returns, "active" asks for the lock.
AfterNone(p) == IF mode[p] = "active" THEN "recheck" ELSE "idle"

BeginRead(p, m) ==
    /\ pc[p] = "idle"
    /\ m \in Modes \ Writers
    /\ mode' = [mode EXCEPT ![p] = m]
    /\ IF status # NoStatus THEN Goto(p, "probe")
       ELSE Goto(p, IF m = "active" THEN "recheck" ELSE "idle")
    /\ UNCHANGED <<lockFile, inodes, fd, flock, status>>

\* is_lock_held, called by the first or by the second test.
OpenProbe(p) ==
    /\ pc[p] \in {"probe", "recheck"}
    /\ OpenLockFile(p)
    /\ Goto(p, IF pc[p] = "probe" THEN "probing" ELSE "rechecking")
    /\ UNCHANGED <<flock, status, mode>>

ProbeGranted(p) ==
    /\ pc[p] \in {"probing", "rechecking"}
    /\ GrantsShared(p)
    /\ flock' = [flock EXCEPT ![p] = "shared"]
    /\ Goto(p, IF pc[p] = "probing" THEN "release" ELSE "rerelease")
    /\ UNCHANGED <<lockFile, inodes, fd, status, mode>>

ProbeHeld(p) ==
    /\ pc[p] \in {"probing", "rechecking"}
    /\ ~GrantsShared(p)
    /\ CloseLockFile(p)
    /\ Goto(p, IF pc[p] = "probing" THEN "read" ELSE "idle")
    /\ UNCHANGED <<lockFile, inodes, status, mode>>

ProbeRelease(p) ==
    /\ pc[p] \in {"release", "rerelease"}
    /\ CloseLockFile(p)
    /\ Goto(p, IF pc[p] = "release" THEN "remove" ELSE "idle")
    /\ UNCHANGED <<lockFile, inodes, status, mode>>

\* The storage directory is gone: is_lock_held answers false without a file.
ProbeNoDirectory(p) ==
    /\ pc[p] \in {"probe", "recheck"}
    /\ lockFile = 0
    /\ Goto(p, IF pc[p] = "probe" THEN "remove" ELSE "idle")
    /\ UNCHANGED <<lockFile, inodes, fd, flock, status, mode>>

RemoveStaleStatus(p) ==
    /\ pc[p] = "remove"
    /\ status' = NoStatus
    /\ Goto(p, AfterNone(p))
    /\ UNCHANGED <<lockFile, inodes, fd, flock, mode>>

ReadStatus(p) ==
    /\ pc[p] = "read"
    /\ Goto(p, IF status = NoStatus THEN AfterNone(p)
               ELSE IF status = Invalid THEN "discard" ELSE "idle")
    /\ UNCHANGED <<lockFile, inodes, fd, flock, status, mode>>

DiscardInvalidStatus(p) ==
    /\ pc[p] = "discard"
    /\ status' = NoStatus
    /\ Goto(p, AfterNone(p))
    /\ UNCHANGED <<lockFile, inodes, fd, flock, mode>>

-----------------------------------------------------------------------------

\* The process dies, or the write of a status file panics on the way.
Crash(p) ==
    /\ pc[p] # "idle"
    /\ CloseLockFile(p)
    /\ Goto(p, "idle")
    /\ UNCHANGED <<lockFile, inodes, status, mode>>

\* What a process does by itself once a call has begun.
Step(p) ==
    \/ TryLockGranted(p) \/ TryLockDenied(p)
    \/ WriteInitialStatus(p) \/ WriteInitialFails(p) \/ FinishRun(p)
    \/ DropRemoveStatus(p) \/ Unlock(p)
    \/ ClearStatusFile(p) \/ ClearLockFile(p) \/ ClearDone(p)
    \/ OpenProbe(p) \/ ProbeGranted(p) \/ ProbeHeld(p) \/ ProbeRelease(p)
    \/ ProbeNoDirectory(p) \/ RemoveStaleStatus(p)
    \/ ReadStatus(p) \/ DiscardInvalidStatus(p)

Next ==
    \E p \in Proc :
        \/ \E m \in Modes : BeginLock(p, m) \/ BeginRead(p, m)
        \/ Step(p)
        \/ Crash(p)

Spec == Init /\ [][Next]_vars

\* Every call runs to its end: the code never waits inside a call, and the list
\* of files that remove_dir_all goes through ends however often others put a
\* new status file there.
FairSpec ==
    /\ Spec
    /\ \A p \in Proc : WF_vars(Step(p)) /\ WF_vars(ClearLockFile(p) \/ ClearDone(p))

-----------------------------------------------------------------------------
(* Properties                                                               *)

Holding(p) == pc[p] \in HoldingSteps

\* The lock file has never been unlinked.
Intact == lockFile = inodes /\ inodes <= 1

\* Until somebody runs `clear`, no two processes go on as holders of the writer
\* lock: the try_lock_exclusive of coordination.rs and the acquire_lock of the
\* CLI keep two indexers (or an indexer and gc) off the same index, whatever
\* readers probe the lock meanwhile and whoever is killed.
MutualExclusion ==
    Intact => \A p, q \in Proc : Holding(p) /\ Holding(q) => p = q

\* With `clear` about, which unlinks the lock file while others have it open,
\* exclusion still holds among the holders of one and the same lock file.
InodeExclusion ==
    \A p, q \in Proc : Holding(p) /\ Holding(q) /\ fd[p] = fd[q] => p = q

\* While a lease is past its first write_status, the status file never names
\* another process: a crashed predecessor's file has been replaced, and a
\* predecessor that finishes removes its file before it lets go of the lock.
LiveStatusIsOwn ==
    Intact => \A p \in Proc : pc[p] = "indexing" => status \in {p, NoStatus}

\* Whoever takes the writer lock gives it back, in particular when its status
\* file has been removed under it or could not be written.
LockReleased == \A p \in Proc : Holding(p) ~> ~Holding(p)


\* coordination.rs:110 "Returns Ok(None) when another process already holds
\* the writer lock": a denial means that some process holds that lock.
DenialMeansHeld ==
    [][\A p \in Proc : TryLockDenied(p) => \E q \in Proc : Holding(q)]_vars

\* coordination.rs:144-145 "If a status file exists while no lock is held, it is
\* treated as stale and removed": what a reader removes as stale is not the
\* status file of a run in progress.
OnlyStaleRemoved ==
    [][\A p \in Proc : RemoveStaleStatus(p) =>
        ~ \E q \in Proc : pc[q] = "indexing" /\ status = q]_vars
=============================================================================
