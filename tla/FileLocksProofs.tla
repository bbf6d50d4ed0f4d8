-------------------------- MODULE FileLocksProofs --------------------------
(***************************************************************************)
(* What TLAPS proves about FileLock, the lock that leaves its file in      *)
(* place, for any set of processes and any number of updates and crashes.  *)
(***************************************************************************)
EXTENDS FileLocks, TLAPS

(* Every open file is the one the name stands for, and a process is inside *)
(* only if it owns it: then there is one lock, and one owner. What a       *)
(* process inside has read is still in the file.                           *)
IInv ==
    /\ TypeOK
    /\ OneLockFile
    /\ \A p \in Processes : Inside(p) => owner[name] = p
    /\ \A p \in Processes : pc[p] = "read" => seen[p] = value
    /\ UpdatesKept

LEMMA InitIInv == Init => IInv
  BY FileLocksAssumption DEF Init, IInv, TypeOK, Inside, OneLockFile, UpdatesKept

LEMMA StepKeeps == IInv /\ [Next]_vars => IInv'
  <1> SUFFICES ASSUME IInv, [Next]_vars PROVE IInv'
    OBVIOUS
  <1> USE FileLocksAssumption DEF IInv, TypeOK, Inside, OneLockFile, UpdatesKept, kernel
  <1>1. ASSUME NEW p \in Processes, Open(p) PROVE IInv'
    BY <1>1 DEF Open
  <1>2. ASSUME NEW p \in Processes, Acquire(p) PROVE IInv'
    BY <1>2 DEF Acquire
  <1>3. ASSUME NEW p \in Processes, GiveUp(p) PROVE IInv'
    BY <1>3 DEF GiveUp
  <1>4. ASSUME NEW p \in Processes, Read(p) PROVE IInv'
    BY <1>4 DEF Read
  <1>5. ASSUME NEW p \in Processes, Write(p) PROVE IInv'
    <2>1. owner[name] = p /\ fd[p] = name /\ name \in 1 .. MaxInodes
      BY <1>5 DEF Write
    <2>2. \A q \in Processes : q # p => ~Inside(q)
      BY <2>1
    <2>3. UpdatesKept' /\ value' \in Nat /\ done' \in Nat
      BY <1>5 DEF Write
    <2>4. pc' = [pc EXCEPT ![p] = "released"] /\ UNCHANGED <<fd, name, inodes, seen, crashes>>
      BY <1>5 DEF Write, Unlock
    <2>5. \A q \in Processes : ~Inside(q)'
      BY <2>2, <2>4
    <2>6. TypeOK'
      BY <1>5, <2>1, <2>3, <2>4 DEF Write, Unlock
    <2>7. \A q \in Processes : pc'[q] # "idle" => fd'[q] = name /\ name # 0
      BY <1>5, <2>4 DEF Write, Unlock
    <2>8. \A i \in 1 .. MaxInodes : owner'[i] = Nobody
      BY <1>5, <2>1 DEF Write, Unlock
    <2>9. QED BY <2>3, <2>4, <2>5, <2>6, <2>7, <2>8
  <1>6. ASSUME NEW p \in Processes, Raise(p) PROVE IInv'
    BY <1>6 DEF Raise, Unlock
  <1>7. ASSUME NEW p \in Processes, Close(p) PROVE IInv'
    BY <1>7 DEF Close
  <1>8. ASSUME NEW p \in Processes, Crash(p) PROVE IInv'
    BY <1>8 DEF Crash
  <1>9. CASE UNCHANGED vars
    BY <1>9 DEF vars
  <1>10. QED
    BY <1>1, <1>2, <1>3, <1>4, <1>5, <1>6, <1>7, <1>8, <1>9 DEF Next, Step

LEMMA LockInvariant == Spec => []IInv
  BY InitIInv, StepKeeps, PTL DEF Spec

(* All descriptors of a FileLock are of the one file its name stands for,  *)
(* and no lock of it outlives its holder.                                  *)
THEOREM FileLockOneFile == Spec => []OneLockFile
  <1>1. IInv => OneLockFile
    BY DEF IInv
  <1>2. QED BY <1>1, LockInvariant, PTL

(* FileLock lets one process inside at a time, whoever dies or gives up.   *)
THEOREM FileLockExcludes == Spec => []MutualExclusion
  <1>1. IInv => MutualExclusion
    BY DEF IInv, MutualExclusion
  <1>2. QED BY <1>1, LockInvariant, PTL

(* No completed locked_read_modify_write is lost.                          *)
THEOREM FileLockKeepsUpdates == Spec => []UpdatesKept
  <1>1. IInv => UpdatesKept
    BY DEF IInv
  <1>2. QED BY <1>1, LockInvariant, PTL
=============================================================================
