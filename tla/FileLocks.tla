----------------------------- MODULE FileLocks -----------------------------
(***************************************************************************)
(* The advisory locks of the runtime. A process opens the lock file by its *)
(* name and takes the kernel lock of the file it opened, which is not      *)
(* always the file the name stands for. FileLock leaves the lock file in   *)
(* place; SessionLock removes it after it has released the lock. Inside,   *)
(* the protected file is read, changed and written.                        *)
(***************************************************************************)
EXTENDS Naturals, FiniteSets

CONSTANTS
    Processes,
    Nobody,      \* not a process
    MaxInodes, MaxUpdates, MaxCrashes

ASSUME FileLocksAssumption ==
    /\ Nobody \notin Processes
    /\ MaxInodes \in Nat /\ MaxUpdates \in Nat /\ MaxCrashes \in Nat

VARIABLES
    name,    \* the inode the lock path stands for, 0 if there is none
    inodes,  \* how many were created
    owner,   \* the process that holds the kernel lock of an inode
    fd,      \* the inode a process has open, 0 if none
    pc,      \* where a process is
    value,   \* the protected file
    seen,    \* what a process has read of it
    done,    \* updates that were completed
    crashes

kernel == <<name, inodes, owner>>
vars   == <<kernel, fd, pc, value, seen, done, crashes>>

Inside(p) == pc[p] \in {"inside", "read"}

TypeOK ==
    /\ name \in 0 .. inodes /\ inodes \in 0 .. MaxInodes
    /\ owner \in [1 .. MaxInodes -> Processes \cup {Nobody}]
    /\ fd \in [Processes -> 0 .. inodes]
    /\ pc \in [Processes -> {"idle", "waiting", "inside", "read", "released"}]
    /\ value \in Nat /\ done \in Nat /\ crashes \in Nat
    /\ seen \in [Processes -> Nat]

Init ==
    /\ name = 0 /\ inodes = 0
    /\ owner = [i \in 1 .. MaxInodes |-> Nobody]
    /\ fd = [p \in Processes |-> 0]
    /\ pc = [p \in Processes |-> "idle"]
    /\ value = 0 /\ done = 0 /\ crashes = 0
    /\ seen = [p \in Processes |-> 0]

-----------------------------------------------------------------------------
(* open() creates the lock file if the name stands for none.               *)
Open(p) ==
    /\ pc[p] = "idle" /\ done < MaxUpdates
    /\ name = 0 => inodes < MaxInodes
    /\ inodes' = IF name = 0 THEN inodes + 1 ELSE inodes
    /\ name' = IF name = 0 THEN inodes + 1 ELSE name
    /\ fd' = [fd EXCEPT ![p] = name']
    /\ pc' = [pc EXCEPT ![p] = "waiting"]
    /\ UNCHANGED <<owner, value, seen, done, crashes>>

(* Mutant of Acquire: the lock is not taken exclusively.                   *)
AcquireShared(p) ==
    /\ pc[p] = "waiting"
    /\ owner' = [owner EXCEPT ![fd[p]] = p]
    /\ pc' = [pc EXCEPT ![p] = "inside"]
    /\ UNCHANGED <<name, inodes, fd, value, seen, done, crashes>>

(* flock() with LOCK_EX.                                                   *)
Acquire(p) ==
    /\ pc[p] = "waiting" /\ owner[fd[p]] = Nobody
    /\ owner' = [owner EXCEPT ![fd[p]] = p]
    /\ pc' = [pc EXCEPT ![p] = "inside"]
    /\ UNCHANGED <<name, inodes, fd, value, seen, done, crashes>>

(* The deadline of FileLock has passed, or SessionLock is busy.            *)
GiveUp(p) ==
    /\ pc[p] = "waiting" /\ owner[fd[p]] # Nobody
    /\ fd' = [fd EXCEPT ![p] = 0]
    /\ pc' = [pc EXCEPT ![p] = "idle"]
    /\ UNCHANGED <<kernel, value, seen, done, crashes>>

(* Mutant of Read: what the process read in an earlier block is used.      *)
ReadCached(p) ==
    /\ pc[p] = "inside"
    /\ pc' = [pc EXCEPT ![p] = "read"]
    /\ UNCHANGED <<kernel, fd, value, seen, done, crashes>>

(* The critical section of locked_read_modify_write.                       *)
Read(p) ==
    /\ pc[p] = "inside"
    /\ seen' = [seen EXCEPT ![p] = value]
    /\ pc' = [pc EXCEPT ![p] = "read"]
    /\ UNCHANGED <<kernel, fd, value, done, crashes>>

(* The first half of __exit__.                                             *)
Unlock(p) ==
    /\ owner' = [owner EXCEPT ![fd[p]] = Nobody]
    /\ pc' = [pc EXCEPT ![p] = "released"]
    /\ UNCHANGED fd

(* The write and the end of the block. The write replaces the file at      *)
(* once (atomic_write_text), before the lock is released.                  *)
Write(p) ==
    /\ pc[p] = "read"
    /\ value' = seen[p] + 1
    /\ done' = done + 1
    /\ Unlock(p)
    /\ UNCHANGED <<name, inodes, seen, crashes>>

(* The block raises: __exit__ without a write.                             *)
Raise(p) ==
    /\ Inside(p)
    /\ Unlock(p)
    /\ UNCHANGED <<name, inodes, value, seen, done, crashes>>

(* The rest of __exit__ of SessionLock: it closes the file and removes     *)
(* whatever now has its name. Also a mutant of Close.                      *)
Unlink(p) ==
    /\ pc[p] = "released"
    /\ name' = 0
    /\ fd' = [fd EXCEPT ![p] = 0]
    /\ pc' = [pc EXCEPT ![p] = "idle"]
    /\ UNCHANGED <<inodes, owner, value, seen, done, crashes>>

(* The rest of __exit__ of FileLock: it closes the file, which stays there. *)
Close(p) ==
    /\ pc[p] = "released"
    /\ fd' = [fd EXCEPT ![p] = 0]
    /\ pc' = [pc EXCEPT ![p] = "idle"]
    /\ UNCHANGED <<kernel, value, seen, done, crashes>>

(* Mutant of Crash: the lock is a fact in a file, not in the kernel.       *)
CrashKeepsLock(p) ==
    /\ pc[p] # "idle" /\ crashes < MaxCrashes
    /\ crashes' = crashes + 1
    /\ fd' = [fd EXCEPT ![p] = 0]
    /\ pc' = [pc EXCEPT ![p] = "idle"]
    /\ UNCHANGED <<kernel, value, seen, done>>

(* A process dies; the kernel closes its files, which releases its lock.   *)
Crash(p) ==
    /\ pc[p] # "idle" /\ crashes < MaxCrashes
    /\ crashes' = crashes + 1
    /\ owner' = [i \in DOMAIN owner |-> IF owner[i] = p THEN Nobody ELSE owner[i]]
    /\ fd' = [fd EXCEPT ![p] = 0]
    /\ pc' = [pc EXCEPT ![p] = "idle"]
    /\ UNCHANGED <<name, inodes, value, seen, done>>

Step(p) == Open(p) \/ Acquire(p) \/ GiveUp(p) \/ Read(p) \/ Write(p) \/ Raise(p) \/ Crash(p)

(* FileLock, and SessionLock.                                              *)
Next == \E p \in Processes : Step(p) \/ Close(p)
SessionNext == \E p \in Processes : Step(p) \/ Unlink(p)

Spec == Init /\ [][Next]_vars
SessionSpec == Init /\ [][SessionNext]_vars

(* A process in the block, or at a free lock, goes on.                     *)
FairSpec ==
    /\ Spec
    /\ \A p \in Processes : WF_vars(Acquire(p)) /\ WF_vars(Read(p)) /\ WF_vars(Write(p))
                           /\ WF_vars(Close(p))

-----------------------------------------------------------------------------
(* Properties                                                              *)

(* Whoever has the lock file open has open the very file that the next one *)
(* will open by the name, and the only lock that is held is the one of     *)
(* that file, by a process inside: FileLock never removes its file, and    *)
(* its lock dies with its holder.                                          *)
OneLockFile ==
    /\ \A p \in Processes : pc[p] # "idle" => fd[p] = name /\ name # 0
    /\ \A i \in 1 .. MaxInodes : owner[i] # Nobody => i = name /\ Inside(owner[i])

(* Two processes are never inside at once.                                 *)
MutualExclusion == \A p, q \in Processes : Inside(p) /\ Inside(q) => p = q

(* No update of the protected file is lost, although any process may die   *)
(* between its read and its write.                                         *)
UpdatesKept == value = done

(* Whoever waits gets in, sees another get in, or gives up: the lock of a  *)
(* dead process does not stay behind.                                      *)
LockProgress ==
    \A p \in Processes : pc[p] = "waiting" ~> pc[p] = "idle" \/ \E q \in Processes : Inside(q)
=============================================================================
