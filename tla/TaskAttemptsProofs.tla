------------------------- MODULE TaskAttemptsProofs -------------------------
(***************************************************************************)
(* What TLAPS proves about TaskAttempts for any set of dispatches, lanes   *)
(* and processes, any budget and either mode.                              *)
(***************************************************************************)
EXTENDS TaskAttempts, TLAPS

StoreType(r, c) ==
    /\ r \in [Attempts -> Row]
    /\ c \in [Lanes -> Attempts \cup {NoAttempt}]

StoreInv(r, c) == StoreType(r, c) /\ LiveIsCurrent(r, c) /\ HeadIsLatest(r, c)

-----------------------------------------------------------------------------
(* The writers of the store                                                *)

(* Setting or clearing the lapsed flag of a lease touches nothing else.    *)
LEMMA LapseKeeps ==
    ASSUME NEW r \in [Attempts -> Row], NEW a \in Attempts, NEW l \in BOOLEAN
    PROVE  /\ [r EXCEPT ![a].lapsed = l] \in [Attempts -> Row]
           /\ Keeps(r, [r EXCEPT ![a].lapsed = l])
  <1> DEFINE x == [r[a] EXCEPT !.lapsed = l]
             s == [r EXCEPT ![a] = x]
  <1>1. x \in Row
    BY DEF Row
  <1>2. x.status = r[a].status /\ x.series = r[a].series /\ x.ordinal = r[a].ordinal
    BY DEF Row
  <1>3. s = [r EXCEPT ![a].lapsed = l]
    OBVIOUS
  <1> HIDE DEF x
  <1>4. s \in [Attempts -> Row]
    BY <1>1
  <1>5. Keeps(r, s)
    BY <1>2 DEF Keeps
  <1>6. QED BY <1>3, <1>4, <1>5

(* claim_delivery, mark_sent and renew_lease open no attempt.              *)
LEMMA SmallWritesKeep ==
    ASSUME NEW r \in [Attempts -> Row], NEW a \in Attempts
    PROVE  /\ ClaimDelivery(r, a) \in [Attempts -> Row] /\ Keeps(r, ClaimDelivery(r, a))
           /\ MarkSent(r, a) \in [Attempts -> Row] /\ Keeps(r, MarkSent(r, a))
           /\ RenewLease(r, a) \in [Attempts -> Row] /\ Keeps(r, RenewLease(r, a))
  <1>1. ClaimDelivery(r, a) \in [Attempts -> Row] /\ Keeps(r, ClaimDelivery(r, a))
    BY DEF Row, Keeps, ClaimDelivery, Statuses, Active
  <1>2. MarkSent(r, a) \in [Attempts -> Row] /\ Keeps(r, MarkSent(r, a))
    BY DEF Row, Keeps, MarkSent, Statuses, Active
  <1>3. RenewLease(r, a) \in [Attempts -> Row] /\ Keeps(r, RenewLease(r, a))
    <2>1. CASE r[a].status \in Active
      BY <2>1, LapseKeeps, Zenon DEF RenewLease
    <2>2. CASE r[a].status \notin Active
      BY <2>2 DEF RenewLease, Keeps
    <2>3. QED BY <2>1, <2>2
  <1>4. QED BY <1>1, <1>2, <1>3

LEMMA RowUpdated ==
    ASSUME NEW row \in Row, NEW st \in Statuses, NEW cl \in FailureClasses,
           NEW re \in {"unset", "yes", "no"}, NEW ow \in Owners
    PROVE  [row EXCEPT !.status = st, !.class = cl, !.retryable = re, !.owner = ow] \in Row
  BY DEF Row

(* update() with a status that is not an active one opens no attempt.      *)
LEMMA UpdateKeeps ==
    ASSUME NEW r \in [Attempts -> Row], NEW a \in Attempts,
           NEW st \in Statuses \ Active,
           NEW cl \in FailureClasses \cup {""},
           NEW re \in {"unset", "yes", "no", ""},
           NEW ow \in Owners \cup {""}
    PROVE  /\ Update(r, a, st, cl, re, ow) \in [Attempts -> Row]
           /\ Keeps(r, Update(r, a, st, cl, re, ow))
  <1>1. CASE r[a].status = "absent"
    BY <1>1, Zenon DEF Update, Keeps
  <1>2. CASE r[a].status # "absent"
    <2> DEFINE u == Update(r, a, st, cl, re, ow)
    <2>1. /\ Given(cl, r[a].class) \in FailureClasses
          /\ Given(re, r[a].retryable) \in {"unset", "yes", "no"}
          /\ Given(ow, r[a].owner) \in Owners
      BY Zenon DEF Given, Row
    <2>2. u = [r EXCEPT ![a] = [r[a] EXCEPT !.status = st, !.class = Given(cl, r[a].class),
                                  !.retryable = Given(re, r[a].retryable),
                                  !.owner = Given(ow, r[a].owner)]]
      BY <1>2, Zenon DEF Update, Row
    <2>3. st \in Statuses /\ st \notin Active /\ st # "prepared" /\ st # "absent"
      BY Zenon DEF Statuses, Active
    <2> HIDE DEF u
    <2>4. u \in [Attempts -> Row]
      <3>1. [r[a] EXCEPT !.status = st, !.class = Given(cl, r[a].class),
                         !.retryable = Given(re, r[a].retryable),
                         !.owner = Given(ow, r[a].owner)] \in Row
        BY <2>1, <2>3, RowUpdated, Zenon
      <3>2. QED BY <2>2, <3>1, Zenon
    <2>5. u[a].status = st /\ u[a].series = r[a].series /\ u[a].ordinal = r[a].ordinal
      BY <2>2, Zenon DEF Row
    <2>6. \A b \in Attempts \ {a} : u[b] = r[b]
      BY <2>2, Zenon
    <2>7. Keeps(r, u)
      BY <1>2, <2>3, <2>5, <2>6, Zenon DEF Keeps
    <2>8. QED BY <2>4, <2>7, Zenon DEF u
  <1>3. QED BY <1>1, <1>2, Zenon

(* expire() opens no attempt.                                              *)
LEMMA ExpireKeeps ==
    ASSUME NEW r \in [Attempts -> Row]
    PROVE  Expire(r) \in [Attempts -> Row] /\ Keeps(r, Expire(r))
  <1> DEFINE lapse(b) == [r[b] EXCEPT !.status = "expired", !.class = "lease_expired",
                                     !.retryable = "yes", !.owner = "scheduler"]
  <1>1. \A b \in Attempts : /\ lapse(b) \in Row /\ lapse(b).status = "expired"
                            /\ lapse(b).series = r[b].series /\ lapse(b).ordinal = r[b].ordinal
    <2> TAKE b \in Attempts
    <2>1. r[b] \in Row
      OBVIOUS
    <2>2. lapse(b) \in Row
      BY <2>1, Zenon DEF Row, Statuses, FailureClasses, Owners
    <2>3. QED BY <2>1, <2>2 DEF Row
  <1>2. Expire(r) = [b \in Attempts |-> IF b \in Expiring(r) THEN lapse(b) ELSE r[b]]
    BY DEF Expire
  <1> HIDE DEF lapse
  <1>3. Expire(r) \in [Attempts -> Row]
    BY <1>1, <1>2
  <1>4. \A b \in Expiring(r) : r[b].status \in Active
    BY DEF Expiring
  <1>5. \A b \in Attempts : Expire(r)[b] = IF b \in Expiring(r) THEN lapse(b) ELSE r[b]
    BY <1>2, Zenon
  <1>6. Keeps(r, Expire(r))
    BY <1>1, <1>4, <1>5 DEF Keeps, Active
  <1>7. QED BY <1>3, <1>6

(* A write that opens no attempt preserves the store's promises.           *)
LEMMA KeepsStoreInv ==
    ASSUME NEW r, NEW s \in [Attempts -> Row], NEW c,
           StoreInv(r, c), Keeps(r, s)
    PROVE  StoreInv(s, c)
  <1>1. \A l \in Lanes : LaneRows(s, l) = LaneRows(r, l)
    BY DEF LaneRows, Known, Keeps
  <1>2. HeadIsLatest(s, c)
    BY <1>1 DEF HeadIsLatest, StoreInv, Keeps, LaneRows, Known
  <1>3. LiveIsCurrent(s, c)
    BY DEF LiveIsCurrent, StoreInv, Keeps
  <1>4. QED BY <1>2, <1>3 DEF StoreInv, StoreType

(* The head of a lane is the row _attempt_order puts last.                 *)
LEMMA LatestIsHead ==
    ASSUME NEW r, NEW c, StoreInv(r, c), NEW l \in Lanes, LaneRows(r, l) # {}
    PROVE  Latest(r, l) = c[l] /\ c[l] \in Attempts
  <1> DEFINE P(a) == \A b \in LaneRows(r, l) \ {a} : Precedes(r[b], r[a])
  <1>1. c[l] \in LaneRows(r, l) /\ P(c[l])
    BY DEF StoreInv, HeadIsLatest, Precedes
  <1>2. \A a \in LaneRows(r, l) : r[a].series \in Nat /\ r[a].ordinal \in Nat
    BY DEF LaneRows, Known, StoreInv, StoreType, Row
  <1>3. ASSUME NEW a \in LaneRows(r, l), P(a), a # c[l] PROVE FALSE
    <2>1. Precedes(r[c[l]], r[a])
      BY <1>1, <1>3
    <2>2. \/ r[a].series < r[c[l]].series
          \/ r[a].series = r[c[l]].series /\ r[a].ordinal < r[c[l]].ordinal
      BY <1>1, <1>3 DEF StoreInv, HeadIsLatest
    <2>3. QED BY <2>1, <2>2, <1>1, <1>2, <1>3 DEF Precedes
  <1>4. Latest(r, l) \in LaneRows(r, l) /\ P(Latest(r, l))
    BY <1>1 DEF Latest
  <1>5. QED BY <1>1, <1>3, <1>4 DEF LaneRows, Known

(* What ensure_for_dispatch of an attempt that has no row leaves: the       *)
(* store's promises, the other rows but for a supersession, and a row that *)
(* takes the slot after the lane's last one.                               *)
Ensured(r, a, s, d) ==
    /\ StoreInv(s, d)
    /\ \A b \in Attempts \ {a} :
         /\ s[b].status \in {r[b].status, "superseded"}
         /\ r[b].status = "absent" => s[b].status = "absent"
         /\ s[b].ordinal = r[b].ordinal
    /\ s[a].status = "prepared"
    /\ s[a].ordinal = NextSlot(r, LaneOf[a]).ordinal

(* ensure_for_dispatch preserves the store's promises and takes the slot   *)
(* after the lane's last one.                                              *)
LEMMA EnsureStoreInv ==
    ASSUME NEW r, NEW c, StoreInv(r, c), NEW a \in Attempts, NEW now \in Nat,
           r[a].status = "absent"
    PROVE  Ensured(r, a, EnsureRows(r, c, a, now), EnsureCurrent(c, a))
  <1> DEFINE l == LaneOf[a]
             slot == NextSlot(r, l)
             s == EnsureRows(r, c, a, now)
             d == EnsureCurrent(c, a)
  <1>0. l \in Lanes /\ NoAttempt \notin Attempts
    BY LaneAssumption
  <1>1. r \in [Attempts -> Row] /\ c \in [Lanes -> Attempts \cup {NoAttempt}]
    BY DEF StoreInv, StoreType
  <1>2. /\ slot.series \in Nat /\ slot.ordinal \in Nat
        /\ \A b \in LaneRows(r, l) : \/ r[b].series < slot.series
                                     \/ r[b].series = slot.series /\ r[b].ordinal < slot.ordinal
    <2>1. CASE LaneRows(r, l) = {}
      BY <2>1 DEF NextSlot
    <2>2. CASE LaneRows(r, l) # {}
      <3>1. Latest(r, l) = c[l] /\ c[l] \in Attempts
        BY <2>2, <1>0, LatestIsHead
      <3>2. r[c[l]].series \in Nat /\ r[c[l]].ordinal \in Nat
        BY <3>1, <1>1 DEF Row
      <3>3. \A b \in LaneRows(r, l) : r[b].series \in Nat /\ r[b].ordinal \in Nat
        BY <1>1 DEF Row, LaneRows, Known
      <3>4. \A b \in LaneRows(r, l) : \/ b = c[l]
                                      \/ r[b].series < r[c[l]].series
                                      \/ r[b].series = r[c[l]].series /\ r[b].ordinal < r[c[l]].ordinal
        BY <2>2, <1>0 DEF StoreInv, HeadIsLatest
      <3>5. slot = IF r[c[l]].status = "succeeded"
                   THEN [series |-> r[c[l]].series + 1, ordinal |-> 1]
                   ELSE [series |-> r[c[l]].series, ordinal |-> r[c[l]].ordinal + 1]
        BY <2>2, <3>1 DEF NextSlot
      <3> HIDE DEF slot, l
      <3>6. CASE r[c[l]].status = "succeeded"
        BY <3>2, <3>3, <3>4, <3>5, <3>6
      <3>7. CASE r[c[l]].status # "succeeded"
        BY <3>2, <3>3, <3>4, <3>5, <3>7
      <3>8. QED BY <3>6, <3>7
    <2>3. QED BY <2>1, <2>2
  <1>3. /\ s \in [Attempts -> Row]
        /\ s[a].status = "prepared" /\ s[a].series = slot.series /\ s[a].ordinal = slot.ordinal
        /\ \A b \in Attempts \ {a} : /\ s[b].series = r[b].series /\ s[b].ordinal = r[b].ordinal
                                     /\ s[b].status = IF b \in Supersedes(r, c, a)
                                                      THEN "superseded" ELSE r[b].status
    <2> HIDE DEF slot, l
    <2>1. s = [b \in Attempts |->
                 IF b = a
                 THEN [AbsentRow EXCEPT !.status = "prepared", !.series = slot.series,
                                        !.ordinal = slot.ordinal, !.born = now]
                 ELSE IF b \in Supersedes(r, c, a)
                 THEN [r[b] EXCEPT !.status = "superseded"]
                 ELSE r[b]]
      BY DEF EnsureRows, slot, l
    <2> HIDE DEF s
    <2>2. [AbsentRow EXCEPT !.status = "prepared", !.series = slot.series,
                            !.ordinal = slot.ordinal, !.born = now] \in Row
      BY <1>2, Zenon DEF AbsentRow, Row, Statuses, Active, FailureClasses, Owners
    <2>3. \A b \in Attempts : [r[b] EXCEPT !.status = "superseded"] \in Row
      BY <1>1 DEF Row, Statuses
    <2>4. s \in [Attempts -> Row]
      BY <2>1, <2>2, <2>3, <1>1
    <2>5. s[a].status = "prepared" /\ s[a].series = slot.series /\ s[a].ordinal = slot.ordinal
      BY <2>1, Zenon DEF AbsentRow
    <2>6. \A b \in Attempts \ {a} : /\ s[b].series = r[b].series /\ s[b].ordinal = r[b].ordinal
                                    /\ s[b].status = IF b \in Supersedes(r, c, a)
                                                     THEN "superseded" ELSE r[b].status
      BY <2>1, <1>1, Zenon DEF Row
    <2>7. QED BY <2>4, <2>5, <2>6
  <1>4. \A b \in Supersedes(r, c, a) : b = c[l] /\ r[b].status # "absent"
    <2>1. SUFFICES ASSUME NEW b \in Supersedes(r, c, a) PROVE r[b].status # "absent"
      BY Zenon DEF Supersedes
    <2>2. b \in Attempts /\ b = c[l]
      BY DEF Supersedes
    <2>3. LaneRows(r, l) # {}
      BY <2>2, <1>0 DEF StoreInv, HeadIsLatest
    <2>4. c[l] \in LaneRows(r, l)
      BY <2>3, <1>0 DEF StoreInv, HeadIsLatest
    <2>5. QED BY <2>2, <2>4 DEF LaneRows, Known
  <1>5. d \in [Lanes -> Attempts \cup {NoAttempt}] /\ d[l] = a /\ \A k \in Lanes \ {l} : d[k] = c[k]
    BY <1>0, <1>1 DEF EnsureCurrent
  <1>6. \A k \in Lanes \ {l} : LaneRows(s, k) = LaneRows(r, k)
    <2> HIDE DEF s
    <2> QED BY <1>3, <1>4 DEF LaneRows, Known
  <1>7. LaneRows(s, l) = LaneRows(r, l) \cup {a}
    <2> HIDE DEF s
    <2> QED BY <1>3, <1>4 DEF LaneRows, Known
  <1>8. LiveIsCurrent(s, d)
    <2> HIDE DEF s, d, slot
    <2>1. SUFFICES ASSUME NEW b \in Attempts, s[b].status \in Active, b # a
                   PROVE d[LaneOf[b]] = b
      BY <1>5 DEF LiveIsCurrent
    <2>2. b \notin Supersedes(r, c, a) /\ r[b].status \in Active
      BY <2>1, <1>3 DEF Active
    <2>3. c[LaneOf[b]] = b
      BY <2>2 DEF StoreInv, LiveIsCurrent
    <2>4. LaneOf[b] # l
      BY <2>2, <2>3 DEF Supersedes, Active
    <2>5. QED BY <2>3, <2>4, <1>5, LaneAssumption
  <1>9. HeadIsLatest(s, d)
    <2> HIDE DEF s, d, slot, l
    <2>1. SUFFICES ASSUME NEW k \in Lanes
                   PROVE  IF LaneRows(s, k) = {} THEN d[k] = NoAttempt
                          ELSE /\ d[k] \in LaneRows(s, k)
                               /\ \A b \in LaneRows(s, k) \ {d[k]} :
                                    \/ s[b].series < s[d[k]].series
                                    \/ /\ s[b].series = s[d[k]].series
                                       /\ s[b].ordinal < s[d[k]].ordinal
      BY DEF HeadIsLatest
    <2>2. CASE k = l
      BY <2>2, <1>2, <1>3, <1>5, <1>7 DEF LaneRows, Known
    <2>3. CASE k # l
      <3>1. LaneRows(s, k) = LaneRows(r, k) /\ d[k] = c[k] /\ a \notin LaneRows(r, k)
        BY <2>3, <1>5, <1>6 DEF LaneRows, Known
      <3>2. \A b \in LaneRows(r, k) : s[b].series = r[b].series /\ s[b].ordinal = r[b].ordinal
        BY <3>1, <1>3, Zenon DEF LaneRows, Known
      <3>3. QED BY <3>1, <3>2 DEF StoreInv, HeadIsLatest
    <2>4. QED BY <2>2, <2>3
  <1>10. QED
    <2>1. StoreInv(s, d)
      BY <1>3, <1>5, <1>8, <1>9 DEF StoreInv, StoreType
    <2> HIDE DEF s, d
    <2>2. \A b \in Attempts \ {a} : /\ s[b].status \in {r[b].status, "superseded"}
                                    /\ r[b].status = "absent" => s[b].status = "absent"
                                    /\ s[b].ordinal = r[b].ordinal
      BY <1>3, <1>4, Zenon
    <2>3. Ensured(r, a, s, d)
      BY <2>1, <2>2, <1>3 DEF Ensured
    <2>4. QED BY <2>3 DEF s, d

-----------------------------------------------------------------------------
(* The runtime                                                             *)

(* Steps at which a process works on a dispatch.                           *)
Delivering == {"prepare", "claim", "send", "sent", "failed", "refused", "failing",
               "refusing", "exhausted", "raise", "stopping"}

(* A process at such a step has a dispatch, and a scheduler dispatch knows *)
(* the status it must restore.                                             *)
Bound(n) ==
    /\ n.step \in Delivering => n.a \in Attempts
    /\ n.caller = "scheduler" => n.prev # "none"

Busy == \A p \in Procs : Bound(proc[p])

(* A process that may hand over a briefing has claimed it, alone.          *)
Claimed ==
    Enforce =>
        /\ \A p \in Procs : At(p, "send") =>
              /\ rows[proc[p].a].status \notin {"absent", "prepared"}
              /\ deliveries[proc[p].a] = 0
        /\ \A p, q \in Procs : At(p, "send") /\ At(q, "send") /\ p # q
              => proc[p].a # proc[q].a

(* The sweep's reading of the log is a prefix of the log.                  *)
SweepInLog == rec.pos >= 1 /\ rec.snap <= Len(ops)

IInv ==
    /\ TypeOK
    /\ OneLiveAttempt
    /\ CurrentIsLatest
    /\ Busy
    /\ SweepInLog
    /\ Claimed
    /\ AtMostOneDelivery

(* The store part of the invariant in the form of the lemmas above.        *)
LEMMA StorePart ==
    /\ IInv => StoreInv(rows, current)
    /\ IInv' => StoreInv(rows', current')
  BY DEF IInv, TypeOK, OneLiveAttempt, CurrentIsLatest, StoreInv, StoreType

LEMMA InitInv == Init => IInv
  <1> SUFFICES ASSUME Init PROVE IInv
    OBVIOUS
  <1>1. EmptyRows \in [Attempts -> Row] /\ \A a \in Attempts : EmptyRows[a].status = "absent"
    BY DEF EmptyRows, AbsentRow, Row, Statuses, Active, FailureClasses, Owners
  <1>2. TypeOK
    <2>1. ops \in Seq(OperationEvent)
      BY DEF Init
    <2>2. rec \in Sweep
      BY <1>1 DEF Init, NoSweep, Sweep
    <2>3. current \in [Lanes -> Attempts \cup {NoAttempt}]
      BY DEF Init, EmptyCurrent
    <2>4. proc \in [Procs -> Process]
      BY DEF Init, Idle, Steps, Process
    <2>5. QED BY <1>1, <2>1, <2>2, <2>3, <2>4 DEF Init, TypeOK, TaskRecord
  <1>3. OneLiveAttempt
    BY <1>1 DEF Init, OneLiveAttempt, LiveIsCurrent, Active
  <1>4. CurrentIsLatest
    BY <1>1 DEF Init, CurrentIsLatest, HeadIsLatest, LaneRows, Known, EmptyCurrent
  <1>5. Busy /\ Claimed /\ AtMostOneDelivery
    BY DEF Init, Busy, Bound, Claimed, AtMostOneDelivery, Idle, At, Delivering
  <1>6. SweepInLog
    BY DEF Init, SweepInLog, NoSweep
  <1>7. QED BY <1>2, <1>3, <1>4, <1>5, <1>6 DEF IInv

(* A step that opens no attempt, starts no hand-over and delivers nothing. *)
Quiet ==
    /\ rows' \in [Attempts -> Row] /\ Keeps(rows, rows') /\ current' = current
    /\ clock' \in Nat /\ occ' \subseteq Occurrences /\ task' \in TaskRecord
    /\ proc' \in [Procs -> Process] /\ rec' \in Sweep /\ SweepInLog'
    /\ deliveries' = deliveries /\ ops' \in Seq(OperationEvent)
    /\ dead' \subseteq Attempts /\ crashes' \in Nat
    /\ \A q \in Procs :
        /\ Bound(proc'[q])
        /\ proc'[q].step = "send" => proc[q].step = "send" /\ proc'[q].a = proc[q].a

LEMMA QuietInv == IInv /\ Quiet => IInv'
  <1> SUFFICES ASSUME IInv, Quiet PROVE IInv'
    OBVIOUS
  <1>1. StoreInv(rows', current')
    <2>1. StoreInv(rows, current)
      BY StorePart
    <2>2. QED BY <2>1, KeepsStoreInv DEF Quiet
  <1>2. TypeOK'
    BY DEF Quiet, TypeOK, IInv
  <1>3. OneLiveAttempt' /\ CurrentIsLatest'
    BY <1>1 DEF StoreInv, OneLiveAttempt, CurrentIsLatest
  <1>4. Busy' /\ SweepInLog'
    BY DEF Quiet, Busy
  <1>5. Claimed'
    <2> SUFFICES ASSUME Enforce PROVE Claimed'
      BY DEF Claimed, Enforce
    <2>1. \A q \in Procs : proc[q].step = "send" => proc[q].a \in Attempts
      BY DEF IInv, Busy, Bound, Delivering
    <2>2. QED BY <2>1 DEF Quiet, Claimed, At, IInv, Keeps
  <1>6. AtMostOneDelivery'
    BY DEF Quiet, AtMostOneDelivery, IInv, Keeps, Enforce
  <1>7. QED BY <1>2, <1>3, <1>4, <1>5, <1>6 DEF IInv

(* Where Emit may leave a process.                                         *)
LEMMA EmitMoves ==
    ASSUME TypeOK, NEW p \in Procs, NEW n \in Process, NEW os,
           Len(os) \in Nat, \A i \in 1..Len(os) : os[i] \in Occurrences,
           Emit(p, os, n)
    PROVE  /\ occ' \subseteq Occurrences /\ crashes' \in Nat
           /\ proc' \in [Procs -> Process]
           /\ proc' = [proc EXCEPT ![p] = n] \/ proc' = [proc EXCEPT ![p] = Down]
  <1>1. Down \in Process
    BY DEF Down, Idle, Process, Steps
  <1>2. PICK k \in 0..Len(os) :
            /\ occ' = occ \cup {os[i] : i \in 1..k}
            /\ proc' = [proc EXCEPT ![p] = IF k = Len(os) THEN n ELSE Down]
            /\ IF k = Len(os) THEN UNCHANGED crashes
               ELSE crashes < MaxCrashes /\ crashes' = crashes + 1
    BY Zenon DEF Emit
  <1>3. occ' \subseteq Occurrences
    BY <1>2 DEF TypeOK
  <1>4. crashes' \in Nat
    BY <1>2 DEF TypeOK
  <1>5. QED BY <1>1, <1>2, <1>3, <1>4, Zenon DEF TypeOK

(* The process part of Quiet.                                              *)
Settled ==
    /\ proc' \in [Procs -> Process]
    /\ \A q \in Procs :
        /\ Bound(proc'[q])
        /\ proc'[q].step = "send" => proc[q].step = "send" /\ proc'[q].a = proc[q].a

LEMMA MoveSettled ==
    ASSUME TypeOK, Busy, NEW p \in Procs, NEW n \in Process,
           Bound(n), n.step # "send",
           proc' = [proc EXCEPT ![p] = n]
    PROVE  Settled
  BY DEF Settled, TypeOK, Busy

LEMMA StillSettled ==
    ASSUME TypeOK, Busy, proc' = proc
    PROVE  Settled
  BY DEF Settled, TypeOK, Busy

LEMMA RestingProcess ==
    /\ Idle \in Process /\ Idle.step = "idle" /\ Bound(Idle)
    /\ Down \in Process /\ Down.step = "down" /\ Bound(Down)
    /\ "idle" \notin Delivering /\ "down" \notin Delivering
    /\ NoSweep \in Sweep
    /\ NoSweep.pos = 1 /\ NoSweep.snap = 0
  <1>1. EmptyRows \in [Attempts -> Row]
    BY DEF EmptyRows, AbsentRow, Row, Statuses, Active, FailureClasses, Owners
  <1>2. QED BY <1>1 DEF Idle, Down, Process, Steps, Delivering, NoSweep, Sweep, Bound

(* Emit leaves a process at a step that hands nothing over.                *)
LEMMA EmitSettled ==
    ASSUME TypeOK, Busy, NEW p \in Procs, NEW n \in Process, NEW os,
           Len(os) \in Nat, \A i \in 1..Len(os) : os[i] \in Occurrences,
           Bound(n), n.step # "send",
           Emit(p, os, n)
    PROVE  Settled /\ occ' \subseteq Occurrences /\ crashes' \in Nat
  <1>1. /\ occ' \subseteq Occurrences /\ crashes' \in Nat
        /\ proc' = [proc EXCEPT ![p] = n] \/ proc' = [proc EXCEPT ![p] = Down]
    BY EmitMoves
  <1>2. CASE proc' = [proc EXCEPT ![p] = n]
    BY <1>1, <1>2, MoveSettled, Zenon
  <1>3. CASE proc' = [proc EXCEPT ![p] = Down]
    BY <1>1, <1>3, MoveSettled, RestingProcess, Zenon
  <1>4. QED BY <1>1, <1>2, <1>3

(* Goto a step that hands nothing over.                                    *)
LEMMA GotoSettled ==
    ASSUME TypeOK, Busy, NEW p \in Procs, NEW st \in Steps \ {"send"},
           st \in Delivering => proc[p].a \in Attempts, Goto(p, st)
    PROVE  Settled
  <1> DEFINE n == [proc[p] EXCEPT !.step = st]
  <1>1. n \in Process /\ n.step = st /\ Bound(n)
    BY DEF TypeOK, Process, Busy, Bound
  <1>2. proc' = [proc EXCEPT ![p] = n]
    BY DEF Goto, TypeOK
  <1> HIDE DEF n
  <1>3. QED BY <1>1, <1>2, MoveSettled, Zenon

LEMMA SameRows ==
    ASSUME TypeOK, rows' = rows
    PROVE  rows' \in [Attempts -> Row] /\ Keeps(rows, rows')
  BY DEF TypeOK, Keeps

LEMMA LogLength == TypeOK => Len(ops) \in Nat
  BY DEF TypeOK

(* Reading the log or starting over keeps the sweep inside the log.        *)
LEMMA SameSweep ==
    ASSUME TypeOK, SweepInLog, rec' = rec \/ rec' = NoSweep, ops' = ops
    PROVE  rec' \in Sweep /\ SweepInLog'
  BY RestingProcess DEF TypeOK, SweepInLog

LEMMA CrashQuiet ==
    ASSUME IInv, NEW p \in Procs, Crash(p) \/ Restart(p)
    PROVE  Quiet
  <1>1. Settled
    BY MoveSettled, RestingProcess DEF IInv, Crash, Restart
  <1>2. rows' \in [Attempts -> Row] /\ Keeps(rows, rows')
    BY SameRows DEF IInv, Crash, Restart, store
  <1>3. rec' \in Sweep /\ SweepInLog'
    BY SameSweep DEF IInv, Crash, Restart
  <1>4. QED BY <1>1, <1>2, <1>3 DEF Quiet, Settled, IInv, TypeOK, Crash, Restart, store, env

LEMMA DispatchQuiet ==
    ASSUME IInv, NEW p \in Procs, NEW a \in Attempts,
           NEW c \in {"scheduler", "rework", "child"}, Dispatch(p, a, c)
    PROVE  Quiet
  <1> DEFINE n == [step |-> "prepare", a |-> a, caller |-> c, prev |-> task.status]
  <1>1. n \in Process /\ n.step = "prepare" /\ Bound(n)
    BY DEF IInv, TypeOK, TaskRecord, Process, Steps, Bound
  <1>2. Settled
    <2>1. proc' = [proc EXCEPT ![p] = n]
      BY DEF Dispatch
    <2> HIDE DEF n
    <2>2. QED BY <1>1, <2>1, MoveSettled, Zenon DEF IInv
  <1>3. rows' \in [Attempts -> Row] /\ Keeps(rows, rows')
    BY SameRows DEF IInv, Dispatch, store
  <1>4. rec' \in Sweep /\ SweepInLog'
    BY SameSweep DEF IInv, Dispatch
  <1>5. task' \in TaskRecord
    <2>1. CASE c = "scheduler"
      BY <2>1 DEF TaskRecord, Dispatch
    <2>2. CASE c = "rework"
      BY <2>2 DEF IInv, TypeOK, TaskRecord, Dispatch
    <2>3. CASE c = "child"
      BY <2>3 DEF IInv, TypeOK, Dispatch
    <2>4. QED BY <2>1, <2>2, <2>3
  <1>6. QED BY <1>2, <1>3, <1>4, <1>5 DEF Quiet, Settled, IInv, TypeOK, Dispatch, store, env

(* The occurrences a runtime handler appends are well formed.              *)
LEMMA OneOccurrence ==
    ASSUME NEW t \in {"started", "delivery_claimed", "sent", "succeeded", "failed",
                      "superseded"},
           NEW a \in Attempts
    PROVE  /\ Len(<< <<t, a>> >>) \in Nat
           /\ \A i \in 1..Len(<< <<t, a>> >>) : << <<t, a>> >>[i] \in Occurrences
  BY DEF Occurrences

LEMMA FailureWrites ==
    ASSUME TypeOK, NEW a \in Attempts, NEW flag, NEW k \in 0..4
    PROVE  /\ FailureRows(a, flag) \in [Attempts -> Row]
           /\ Keeps(rows, FailureRows(a, flag))
           /\ FailureOcc(a, flag, k) \subseteq Occurrences
  <1>1. FailureRows(a, flag) \in [Attempts -> Row] /\ Keeps(rows, FailureRows(a, flag))
    <2>1. rows \in [Attempts -> Row] /\ Keeps(rows, rows)
      BY DEF TypeOK, Keeps
    <2>2. "deadlettered" \in Statuses \ Active
      BY DEF Statuses, Active
    <2>3. QED BY <2>1, <2>2, UpdateKeeps, Zenon DEF FailureRows, Owners
  <1>2. FailureTail(a, flag) \subseteq Occurrences
    BY DEF FailureTail, Occurrences
  <1>3. <<"failed", a>> \in Occurrences
    BY DEF Occurrences
  <1>4. QED BY <1>1, <1>2, <1>3 DEF FailureOcc

LEMMA PrepareAgainQuiet ==
    ASSUME IInv, NEW p \in Procs, PrepareAgain(p)
    PROVE  Quiet
  <1> DEFINE a == proc[p].a
             n == [proc[p] EXCEPT !.step = "claim"]
  <1>1. a \in Attempts
    BY DEF IInv, Busy, Bound, PrepareAgain, At, Delivering
  <1>2. n \in Process /\ n.step = "claim" /\ Bound(n)
    BY <1>1 DEF IInv, TypeOK, Process, Steps, Busy, Bound
  <1>3. Emit(p, << <<"started", a>> >>, n)
    BY DEF PrepareAgain
  <1>4. Settled /\ occ' \subseteq Occurrences /\ crashes' \in Nat
    <2> HIDE DEF n, a
    <2> QED BY <1>1, <1>2, <1>3, OneOccurrence, EmitSettled DEF IInv
  <1>5. rows' \in [Attempts -> Row] /\ Keeps(rows, rows')
    BY SameRows DEF IInv, PrepareAgain, store
  <1>6. rec' \in Sweep /\ SweepInLog'
    BY SameSweep DEF IInv, PrepareAgain
  <1>7. QED BY <1>4, <1>5, <1>6 DEF Quiet, Settled, IInv, TypeOK, PrepareAgain, store, env

LEMMA ExhaustQuiet ==
    ASSUME IInv, NEW p \in Procs, Exhaust(p) \/ BlockExhausted(p)
    PROVE  Quiet
  <1>1. proc[p].a \in Attempts
    BY DEF IInv, Busy, Bound, Exhaust, BlockExhausted, At, Delivering
  <1>2. Settled
    BY <1>1, GotoSettled DEF IInv, Exhaust, BlockExhausted, Steps
  <1>3. rows' \in [Attempts -> Row] /\ Keeps(rows, rows')
    BY SameRows DEF IInv, Exhaust, BlockExhausted, store
  <1>4. rec' \in Sweep /\ SweepInLog'
    BY SameSweep DEF IInv, Exhaust, BlockExhausted
  <1>5. task' \in TaskRecord /\ occ' \subseteq Occurrences
    <2>1. task \in TaskRecord /\ occ \subseteq Occurrences
      BY DEF IInv, TypeOK
    <2>2. CASE Exhaust(p)
      <3>1. <<"deadlettered", NoAttempt>> \in Occurrences
        BY DEF Occurrences
      <3>2. QED BY <2>1, <2>2, <3>1 DEF Exhaust
    <2>3. CASE BlockExhausted(p)
      BY <2>1, <2>3 DEF BlockExhausted, TaskRecord
    <2>4. QED BY <2>2, <2>3
  <1>6. QED BY <1>2, <1>3, <1>4, <1>5
           DEF Quiet, Settled, IInv, TypeOK, Exhaust, BlockExhausted, store, env

LEMMA MarkSentQuiet ==
    ASSUME IInv, NEW p \in Procs, MarkTaskAttemptSent(p)
    PROVE  Quiet
  <1> DEFINE a == proc[p].a
  <1>1. a \in Attempts
    BY DEF IInv, Busy, Bound, MarkTaskAttemptSent, At, Delivering
  <1>2. Emit(p, << <<"sent", a>> >>, Idle) /\ rows' = MarkSent(rows, a)
    BY DEF MarkTaskAttemptSent
  <1> HIDE DEF a
  <1>3. Settled /\ occ' \subseteq Occurrences /\ crashes' \in Nat
    BY <1>1, <1>2, OneOccurrence, RestingProcess, EmitSettled DEF IInv
  <1>4. rows' \in [Attempts -> Row] /\ Keeps(rows, rows')
    BY <1>1, <1>2, SmallWritesKeep DEF IInv, TypeOK
  <1>5. rec' \in Sweep /\ SweepInLog'
    BY SameSweep DEF IInv, MarkTaskAttemptSent
  <1>6. QED BY <1>3, <1>4, <1>5 DEF Quiet, Settled, IInv, TypeOK, MarkTaskAttemptSent, store, env

LEMMA FailDeliveryQuiet ==
    ASSUME IInv, NEW p \in Procs, FailTaskAttemptDelivery(p)
    PROVE  Quiet
  <1>1. proc[p].a \in Attempts
    BY DEF IInv, Busy, Bound, FailTaskAttemptDelivery, At, Delivering
  <1>2. Settled
    BY <1>1, GotoSettled DEF IInv, FailTaskAttemptDelivery, Steps
  <1>3. rows' \in [Attempts -> Row] /\ Keeps(rows, rows')
    <2>1. "failed" \in Statuses \ Active
      BY DEF Statuses, Active
    <2>2. QED BY <1>1, <2>1, UpdateKeeps, Zenon
            DEF IInv, TypeOK, FailTaskAttemptDelivery, FailureClasses, Owners
  <1>4. rec' \in Sweep /\ SweepInLog'
    BY SameSweep DEF IInv, FailTaskAttemptDelivery
  <1>5. QED BY <1>2, <1>3, <1>4 DEF Quiet, Settled, IInv, TypeOK, FailTaskAttemptDelivery, store, env

LEMMA RecordFailureQuiet ==
    ASSUME IInv, NEW p \in Procs, RecordDeliveryFailure(p)
    PROVE  Quiet
  <1> DEFINE a == proc[p].a
             flag == IF At(p, "failing") THEN "yes" ELSE "no"
  <1>1. a \in Attempts
    BY DEF IInv, Busy, Bound, RecordDeliveryFailure, At, Delivering
  <1>2. PICK k \in 1..3 :
            /\ occ' = occ \cup FailureOcc(a, flag, k)
            /\ rows' = IF k >= 2 THEN FailureRows(a, flag) ELSE rows
            /\ IF k = 3
               THEN /\ task' = IF task.active = a
                               THEN [task EXCEPT !.active = NoAttempt] ELSE task
                    /\ Goto(p, "raise")
                    /\ UNCHANGED crashes
               ELSE /\ crashes < MaxCrashes
                    /\ crashes' = crashes + 1
                    /\ proc' = [proc EXCEPT ![p] = Down]
                    /\ UNCHANGED task
    BY DEF RecordDeliveryFailure
  <1> HIDE DEF flag
  <1>3. Settled
    <2>1. CASE k = 3
      BY <1>1, <1>2, <2>1, GotoSettled DEF IInv, Steps
    <2>2. CASE k # 3
      BY <1>2, <2>2, MoveSettled, RestingProcess DEF IInv
    <2>3. QED BY <2>1, <2>2
  <1>4. rows' \in [Attempts -> Row] /\ Keeps(rows, rows') /\ occ' \subseteq Occurrences
    <2>1. FailureRows(a, flag) \in [Attempts -> Row] /\ Keeps(rows, FailureRows(a, flag))
          /\ FailureOcc(a, flag, k) \subseteq Occurrences
      BY <1>1, FailureWrites DEF IInv
    <2> HIDE DEF a
    <2>2. QED BY <1>2, <2>1 DEF IInv, TypeOK, Keeps
  <1>5. task' \in TaskRecord /\ crashes' \in Nat
    BY <1>2 DEF IInv, TypeOK, TaskRecord
  <1>6. rec' \in Sweep /\ SweepInLog'
    BY SameSweep DEF IInv, RecordDeliveryFailure
  <1>7. QED BY <1>3, <1>4, <1>5, <1>6
           DEF Quiet, Settled, IInv, TypeOK, RecordDeliveryFailure, store, env

LEMMA RaiseQuiet ==
    ASSUME IInv, NEW p \in Procs, Raise(p)
    PROVE  Quiet
  <1>1. Settled
    BY MoveSettled, RestingProcess, Zenon DEF IInv, Raise
  <1>2. rows' \in [Attempts -> Row] /\ Keeps(rows, rows')
    BY SameRows DEF IInv, Raise, store
  <1>3. rec' \in Sweep /\ SweepInLog'
    BY SameSweep DEF IInv, Raise
  <1>4. task' \in TaskRecord
    <2>1. proc[p] \in Process /\ (proc[p].caller = "scheduler" => proc[p].prev # "none")
      BY DEF IInv, TypeOK, Busy, Bound
    <2>2. QED BY <2>1 DEF IInv, TypeOK, TaskRecord, Process, Raise
  <1>5. QED BY <1>1, <1>2, <1>3, <1>4 DEF Quiet, Settled, IInv, TypeOK, Raise, store, env

LEMMA WorkerQuiet ==
    ASSUME IInv, NEW a \in Attempts,
           WorkerDies(a) \/ LeaseLapses(a) \/ ClearActiveDispatch(a)
    PROVE  Quiet
  <1>1. Settled
    BY StillSettled DEF IInv, WorkerDies, LeaseLapses, ClearActiveDispatch
  <1>2. rows' \in [Attempts -> Row] /\ Keeps(rows, rows')
    <2>1. CASE LeaseLapses(a)
      BY <2>1, LapseKeeps, Zenon DEF IInv, TypeOK, LeaseLapses
    <2>2. CASE WorkerDies(a) \/ ClearActiveDispatch(a)
      BY <2>2, SameRows DEF IInv, WorkerDies, ClearActiveDispatch, store
    <2>3. QED BY <2>1, <2>2
  <1>3. rec' \in Sweep /\ SweepInLog'
    BY SameSweep DEF IInv, WorkerDies, LeaseLapses, ClearActiveDispatch
  <1>4. task' \in TaskRecord
    BY DEF IInv, TypeOK, TaskRecord, WorkerDies, LeaseLapses, ClearActiveDispatch
  <1>5. QED BY <1>1, <1>2, <1>3, <1>4
           DEF Quiet, Settled, IInv, TypeOK, WorkerDies, LeaseLapses, ClearActiveDispatch, store, env

(* The readers return a row of the store or nothing.                       *)
LEMMA CurrentTypes ==
    ASSUME TypeOK, NEW a \in Attempts
    PROVE  /\ CurrentForAttempt(rows, current, a) \in Attempts \cup {NoAttempt}
           /\ CurrentForTask(rows, current) \in Attempts \cup {NoAttempt}
  <1> DEFINE heads == {current[l] : l \in Lanes} \ {NoAttempt}
             live == {b \in heads : rows[b].status \in Active}
  <1>1. CurrentForAttempt(rows, current, a) \in Attempts \cup {NoAttempt}
    BY LaneAssumption DEF TypeOK, CurrentForAttempt
  <1>2. heads \subseteq Attempts /\ live \subseteq heads
    BY DEF TypeOK
  <1>3. CurrentForTask(rows, current) =
            IF \E b \in live : live = {b} THEN CHOOSE b \in live : TRUE
            ELSE IF live = {} /\ \E b \in heads : heads = {b}
            THEN CHOOSE b \in heads : TRUE ELSE NoAttempt
    BY DEF CurrentForTask
  <1> HIDE DEF heads, live
  <1>4. (\E b \in live : live = {b}) => (CHOOSE b \in live : TRUE) \in live
    OBVIOUS
  <1>5. (\E b \in heads : heads = {b}) => (CHOOSE b \in heads : TRUE) \in heads
    OBVIOUS
  <1>6. QED BY <1>1, <1>2, <1>3, <1>4, <1>5

LEMMA HeartbeatQuiet ==
    ASSUME IInv, NEW a \in Attempts, NEW named \in BOOLEAN, Heartbeat(a, named)
    PROVE  Quiet
  <1> DEFINE cur == IF named THEN CurrentForAttempt(rows, current, a)
                    ELSE CurrentForTask(rows, current)
  <1>1. cur \in Attempts
    BY CurrentTypes DEF IInv, Heartbeat
  <1>2. rows' = RenewLease(rows, cur)
    BY DEF Heartbeat
  <1> HIDE DEF cur
  <1>3. rows' \in [Attempts -> Row] /\ Keeps(rows, rows')
    BY <1>1, <1>2, SmallWritesKeep DEF IInv, TypeOK
  <1>4. Settled
    BY StillSettled DEF IInv, Heartbeat
  <1>5. rec' \in Sweep /\ SweepInLog'
    BY SameSweep DEF IInv, Heartbeat
  <1>6. QED BY <1>3, <1>4, <1>5 DEF Quiet, Settled, IInv, TypeOK, Heartbeat, env

LEMMA SettleResultQuiet ==
    ASSUME IInv, NEW a \in Attempts, NEW ok \in BOOLEAN, SettleResult(a, ok)
    PROVE  Quiet
  <1>1. rows' \in [Attempts -> Row] /\ Keeps(rows, rows')
    <2>1. {"succeeded", "failed"} \subseteq Statuses \ Active
      BY DEF Statuses, Active
    <2>2. QED BY <2>1, UpdateKeeps, Zenon DEF IInv, TypeOK, SettleResult, FailureClasses, Owners
  <1> DEFINE t == IF ok THEN "succeeded" ELSE "failed"
  <1>2. Emit(Kernel, << <<t, a>> >>, Idle) /\ t \in {"succeeded", "failed"}
    BY Zenon DEF SettleResult
  <1> HIDE DEF t
  <1>3. Settled /\ occ' \subseteq Occurrences /\ crashes' \in Nat
    BY <1>2, OneOccurrence, RestingProcess, EmitSettled, RuntimeAssumption DEF IInv
  <1>4. rec' \in Sweep /\ SweepInLog'
    BY SameSweep, Zenon DEF IInv, SettleResult
  <1>5. QED BY <1>1, <1>3, <1>4, Zenon DEF Quiet, Settled, IInv, TypeOK, SettleResult, env

LEMMA OperationEndsQuiet ==
    ASSUME IInv, NEW l \in Lanes, NEW src \in Attempts \cup {NoAttempt},
           NEW kind \in {"settled_ok", "settled_bad", "failed", "superseded"},
           OperationEnds(l, kind, src)
    PROVE  Quiet
  <1> DEFINE e == [kind |-> kind, lane |-> l, src |-> src, at |-> clock]
  <1>1. e \in OperationEvent
    BY DEF IInv, TypeOK, OperationEvent
  <1>2. ops' = Append(ops, e)
    BY DEF OperationEnds
  <1> HIDE DEF e
  <1>3. ops' \in Seq(OperationEvent) /\ Len(ops') = Len(ops) + 1 /\ Len(ops) \in Nat
    BY <1>1, <1>2 DEF IInv, TypeOK
  <1>4. rec' \in Sweep /\ SweepInLog'
    <2>1. rec' = rec /\ rec.snap \in Nat
      BY DEF IInv, TypeOK, Sweep, OperationEnds
    <2>2. QED BY <1>3, <2>1 DEF IInv, TypeOK, SweepInLog
  <1>5. Settled
    BY StillSettled DEF IInv, OperationEnds
  <1>6. rows' \in [Attempts -> Row] /\ Keeps(rows, rows')
    BY SameRows DEF IInv, OperationEnds, store
  <1>7. /\ current' = current /\ occ' = occ /\ task' = task /\ crashes' = crashes
        /\ deliveries' = deliveries /\ dead' = dead /\ clock' = clock + 1
    BY DEF OperationEnds, store, env
  <1>8. /\ clock' \in Nat /\ occ' \subseteq Occurrences /\ task' \in TaskRecord
        /\ dead' \subseteq Attempts /\ crashes' \in Nat
    BY <1>7 DEF IInv, TypeOK
  <1>9. QED BY <1>3, <1>4, <1>5, <1>6, <1>7, <1>8 DEF Quiet, Settled

(* What an operation event of the log does to the row it settles.          *)
LEMMA SettledWrites ==
    ASSUME TypeOK, NEW i \in 1..Len(ops), NEW view, NEW a \in Settles(view, ops[i])
    PROVE  /\ a \in Attempts
           /\ SettledRows(a, ops[i].kind) \in [Attempts -> Row]
           /\ Keeps(rows, SettledRows(a, ops[i].kind))
           /\ SettledOcc(ops[i].kind) \in {"succeeded", "failed", "superseded"}
  <1>1. a \in Attempts
    BY DEF Settles, LaneRows, Known
  <1>2. ops[i].kind \in {"settled_ok", "settled_bad", "failed", "superseded"}
    <2>1. ops[i] \in OperationEvent
      BY DEF TypeOK
    <2>2. QED BY <2>1 DEF OperationEvent
  <1>3. {"succeeded", "failed", "superseded"} \subseteq Statuses \ Active
    BY DEF Statuses, Active
  <1> DEFINE k == ops[i].kind
  <1> HIDE DEF k
  <1>4. SettledRows(a, k) \in [Attempts -> Row] /\ Keeps(rows, SettledRows(a, k))
    <2> USE UpdateKeeps DEF FailureClasses, Owners
    <2>0. rows \in [Attempts -> Row]
      BY Zenon DEF TypeOK
    <2>1. CASE k = "settled_ok"
      BY <1>1, <1>3, <2>0, <2>1, Zenon DEF SettledRows
    <2>2. CASE k = "settled_bad"
      BY <1>1, <1>3, <2>0, <2>2, Zenon DEF SettledRows
    <2>3. CASE k = "failed"
      BY <1>1, <1>3, <2>0, <2>3, Zenon DEF SettledRows
    <2>4. CASE k = "superseded"
      BY <1>1, <1>3, <2>0, <2>4, Zenon DEF SettledRows
    <2>5. QED BY <1>2, <2>1, <2>2, <2>3, <2>4, Zenon DEF k
  <1>5. SettledOcc(k) \in {"succeeded", "failed", "superseded"}
    BY <1>2 DEF SettledOcc, k
  <1>6. QED BY <1>1, <1>4, <1>5 DEF k

LEMMA SettleOperationQuiet ==
    ASSUME IInv, NEW i \in DOMAIN ops, SettleOperation(i)
    PROVE  Quiet
  <1>0. i \in 1..Len(ops)
    BY DEF IInv, TypeOK
  <1>1. PICK a \in Settles(rows, ops[i]) :
            /\ rows' = SettledRows(a, ops[i].kind)
            /\ Emit(Kernel, << <<SettledOcc(ops[i].kind), a>> >>, Idle)
            /\ UNCHANGED <<current, clock, task, rec, env, ops>>
    BY DEF SettleOperation
  <1> DEFINE t == SettledOcc(ops[i].kind)
  <1>2. /\ a \in Attempts /\ rows' \in [Attempts -> Row] /\ Keeps(rows, rows')
        /\ t \in {"succeeded", "failed", "superseded"}
    BY <1>0, <1>1, SettledWrites, Zenon DEF IInv
  <1>3. Emit(Kernel, << <<t, a>> >>, Idle)
    BY <1>1
  <1> HIDE DEF t
  <1>4. Settled /\ occ' \subseteq Occurrences /\ crashes' \in Nat
    BY <1>2, <1>3, OneOccurrence, RestingProcess, EmitSettled, RuntimeAssumption DEF IInv
  <1>5. rec' \in Sweep /\ SweepInLog'
    BY <1>1, SameSweep DEF IInv
  <1>6. QED BY <1>1, <1>2, <1>4, <1>5 DEF Quiet, Settled, IInv, TypeOK, env

LEMMA ProviderStopQuiet ==
    ASSUME IInv, (\E a \in Attempts : ProviderStops(a)) \/ RecordProviderStop
    PROVE  Quiet
  <1>1. CASE \E a \in Attempts : ProviderStops(a)
    <2>1. PICK a \in Attempts : ProviderStops(a)
      BY <1>1
    <2> DEFINE n == [Idle EXCEPT !.step = "stopping", !.a = a]
    <2>2. n \in Process /\ n.step = "stopping" /\ Bound(n)
      BY Zenon DEF Idle, Process, Steps, Bound
    <2>3. Settled
      <3>1. proc' = [proc EXCEPT ![Kernel] = n]
        BY <2>1, Zenon DEF ProviderStops
      <3> HIDE DEF n
      <3>2. QED BY <2>2, <3>1, MoveSettled, RuntimeAssumption, Zenon DEF IInv
    <2>4. rows' \in [Attempts -> Row] /\ Keeps(rows, rows')
      <3>1. "expired" \in Statuses \ Active
        BY DEF Statuses, Active
      <3>2. QED BY <2>1, <3>1, UpdateKeeps, Zenon DEF IInv, TypeOK, ProviderStops, FailureClasses, Owners
    <2>5. rec' \in Sweep /\ SweepInLog'
      BY <2>1, SameSweep, Zenon DEF IInv, ProviderStops
    <2>6. QED BY <2>1, <2>3, <2>4, <2>5, Zenon DEF Quiet, Settled, IInv, TypeOK, ProviderStops, env
  <1>2. CASE RecordProviderStop
    <2> DEFINE a == proc[Kernel].a
    <2>1. a \in Attempts
      BY <1>2, RuntimeAssumption DEF IInv, Busy, Bound, RecordProviderStop, At, Delivering
    <2>2. PICK k \in 0..3, interrupted \in Interrupts(a) :
            /\ occ' = occ \cup interrupted \cup FailureOcc(a, "yes", k)
            /\ rows' = IF k >= 2 THEN FailureRows(a, "yes") ELSE rows
            /\ proc' = [proc EXCEPT ![Kernel] = IF k = 3 THEN Idle ELSE Down]
            /\ IF k = 3 THEN UNCHANGED crashes
               ELSE crashes < MaxCrashes /\ crashes' = crashes + 1
      BY <1>2, Zenon DEF RecordProviderStop
    <2> HIDE DEF a
    <2>3. Settled
      BY <2>2, MoveSettled, RestingProcess, RuntimeAssumption, Zenon DEF IInv
    <2>4. rows' \in [Attempts -> Row] /\ Keeps(rows, rows') /\ occ' \subseteq Occurrences
      <3>1. FailureRows(a, "yes") \in [Attempts -> Row] /\ Keeps(rows, FailureRows(a, "yes"))
            /\ FailureOcc(a, "yes", k) \subseteq Occurrences
        BY <2>1, FailureWrites DEF IInv
      <3>2. interrupted \subseteq Occurrences
        BY <2>1, <2>2 DEF Interrupts, Occurrences
      <3>3. QED BY <2>2, <3>1, <3>2 DEF IInv, TypeOK, Keeps
    <2>5. rec' \in Sweep /\ SweepInLog'
      BY <1>2, SameSweep DEF IInv, RecordProviderStop
    <2>6. crashes' \in Nat
      BY <2>2 DEF IInv, TypeOK
    <2>7. /\ current' = current /\ clock' = clock /\ task' = task
          /\ deliveries' = deliveries /\ dead' = dead /\ ops' = ops
      BY <1>2 DEF RecordProviderStop, env
    <2>8. QED BY <2>3, <2>4, <2>5, <2>6, <2>7 DEF Quiet, Settled, IInv, TypeOK
  <1>3. QED BY <1>1, <1>2

LEMMA ReconcileBeginQuiet ==
    ASSUME IInv, ReconcileBegin
    PROVE  Quiet
  <1>1. Settled
    BY GotoSettled, RuntimeAssumption DEF IInv, ReconcileBegin, Steps, Delivering
  <1>2. rows' \in [Attempts -> Row] /\ Keeps(rows, rows')
    BY SameRows DEF IInv, ReconcileBegin, store
  <1>3. rec' \in Sweep /\ SweepInLog'
    <2>1. rows \in [Attempts -> Row] /\ Len(ops) \in Nat
      BY LogLength DEF IInv, TypeOK
    <2>2. rec' = [NoSweep EXCEPT !.snap = Len(ops), !.view = rows] /\ ops' = ops
      BY DEF ReconcileBegin
    <2>3. rec' \in Sweep /\ rec'.pos = 1 /\ rec'.snap = Len(ops)
      BY <2>1, <2>2, RestingProcess, Zenon DEF Sweep
    <2>4. QED BY <2>1, <2>2, <2>3 DEF SweepInLog
  <1>4. QED BY <1>1, <1>2, <1>3 DEF Quiet, Settled, IInv, TypeOK, ReconcileBegin, store, env

LEMMA SweepAdvances ==
    ASSUME NEW r \in Sweep, NEW v \in [Attempts -> Row]
    PROVE  [r EXCEPT !.pos = r.pos + 1, !.view = v] \in Sweep
  <1> DEFINE q == [r EXCEPT !.pos = r.pos + 1]
  <1>1. q \in Sweep
    BY DEF Sweep
  <1>2. [r EXCEPT !.pos = r.pos + 1, !.view = v] = [q EXCEPT !.view = v]
    OBVIOUS
  <1> HIDE DEF q
  <1>3. [q EXCEPT !.view = v] \in Sweep
    BY <1>1 DEF Sweep
  <1>4. QED BY <1>2, <1>3

LEMMA ReconcileSettleQuiet ==
    ASSUME IInv, ReconcileSettle
    PROVE  Quiet
  <1> DEFINE target == Settles(rec.view, ops[rec.pos])
  <1>1. rec.pos \in 1..Len(ops) /\ rec \in Sweep
    <2>1. rec \in Sweep /\ Len(ops) \in Nat
      BY LogLength DEF IInv, TypeOK
    <2>2. rec.pos \in Nat /\ rec.snap \in Nat
      BY <2>1 DEF Sweep
    <2>3. rec.pos >= 1 /\ rec.snap <= Len(ops) /\ rec.pos <= rec.snap
      BY Zenon DEF IInv, SweepInLog, ReconcileSettle
    <2>4. QED BY <2>1, <2>2, <2>3
  <1>2. CASE /\ target = {} /\ rec' = [rec EXCEPT !.pos = @ + 1]
             /\ UNCHANGED <<rows, occ, proc, crashes>>
    <2>1. Settled
      BY <1>2, StillSettled DEF IInv
    <2>2. rows' \in [Attempts -> Row] /\ Keeps(rows, rows')
      BY <1>2, SameRows DEF IInv
    <2>3. rec' \in Sweep /\ SweepInLog'
      BY <1>1, <1>2 DEF IInv, Sweep, SweepInLog, ReconcileSettle
    <2>4. QED BY <1>2, <2>1, <2>2, <2>3 DEF Quiet, Settled, IInv, TypeOK, ReconcileSettle, env
  <1>3. CASE \E a \in target :
                /\ rows' = SettledRows(a, ops[rec.pos].kind)
                /\ rec' = [rec EXCEPT !.pos = @ + 1, !.view[a] = rows'[a]]
                /\ Emit(Kernel, << <<SettledOcc(ops[rec.pos].kind), a>> >>, proc[Kernel])
    <2>1. PICK a \in target :
                /\ rows' = SettledRows(a, ops[rec.pos].kind)
                /\ rec' = [rec EXCEPT !.pos = @ + 1, !.view[a] = rows'[a]]
                /\ Emit(Kernel, << <<SettledOcc(ops[rec.pos].kind), a>> >>, proc[Kernel])
      BY <1>3, Zenon
    <2> DEFINE t == SettledOcc(ops[rec.pos].kind)
    <2>2. /\ a \in Attempts /\ rows' \in [Attempts -> Row] /\ Keeps(rows, rows')
          /\ t \in {"succeeded", "failed", "superseded"}
      BY <1>1, <2>1, SettledWrites DEF IInv
    <2>3. proc[Kernel] \in Process /\ Bound(proc[Kernel]) /\ proc[Kernel].step # "send"
      BY RuntimeAssumption, Zenon DEF IInv, TypeOK, Busy, ReconcileSettle, At
    <2>4. Emit(Kernel, << <<t, a>> >>, proc[Kernel])
      BY <2>1
    <2> HIDE DEF t
    <2>5. Settled /\ occ' \subseteq Occurrences /\ crashes' \in Nat
      BY <2>2, <2>3, <2>4, OneOccurrence, EmitSettled, RuntimeAssumption DEF IInv
    <2>6. rec' \in Sweep /\ SweepInLog'
      <3>1. rows'[a] \in Row /\ rec.pos \in Nat /\ rec.view \in [Attempts -> Row]
        BY <1>1, <2>2 DEF Sweep
      <3>2. [rec.view EXCEPT ![a] = rows'[a]] \in [Attempts -> Row]
        BY <3>1, Zenon
      <3>3. rec' = [rec EXCEPT !.pos = rec.pos + 1,
                               !.view = [rec.view EXCEPT ![a] = rows'[a]]]
        BY <1>1, <2>1 DEF Sweep
      <3> DEFINE v == [rec.view EXCEPT ![a] = rows'[a]]
      <3>4. rec' = [rec EXCEPT !.pos = rec.pos + 1, !.view = v] /\ v \in [Attempts -> Row]
        BY <3>2, <3>3
      <3> HIDE DEF v
      <3>5. rec' \in Sweep
        BY <1>1, <3>4, SweepAdvances, Zenon
      <3>6. rec'.pos = rec.pos + 1 /\ rec'.snap = rec.snap
        BY <1>1, <3>4 DEF Sweep
      <3>7. ops' = ops /\ rec.pos >= 1 /\ rec.snap <= Len(ops)
        BY Zenon DEF IInv, SweepInLog, ReconcileSettle
      <3>8. QED BY <3>1, <3>5, <3>6, <3>7 DEF SweepInLog
    <2>7. QED BY <2>2, <2>5, <2>6, Zenon DEF Quiet, Settled, IInv, TypeOK, ReconcileSettle, env
  <1>4. QED BY <1>2, <1>3, Zenon DEF ReconcileSettle

LEMMA ReconcileQuiet ==
    ASSUME IInv, ReconcileExpire \/ ReconcileScan \/ ReconcileEnd
    PROVE  Quiet
  <1>1. CASE ReconcileExpire
    <2>1. Settled
      BY <1>1, GotoSettled, RuntimeAssumption DEF IInv, ReconcileExpire, Steps, Delivering
    <2>2. rows' \in [Attempts -> Row] /\ Keeps(rows, rows')
      BY <1>1, ExpireKeeps DEF IInv, TypeOK, ReconcileExpire
    <2>3. Expiring(rows) \subseteq Attempts
      BY DEF Expiring
    <2>4. rec' \in Sweep /\ SweepInLog'
      <3> DEFINE T == {b \in Expiring(rows) : IsPipeline(b)}
      <3>1. rows \in [Attempts -> Row] /\ Len(ops) \in Nat /\ T \in SUBSET Attempts
        BY <2>3, LogLength DEF IInv, TypeOK
      <3>2. rec' = [NoSweep EXCEPT !.todo = T] /\ ops' = ops
        BY <1>1 DEF ReconcileExpire
      <3> HIDE DEF T
      <3>3. rec' \in Sweep /\ rec'.pos = 1 /\ rec'.snap = 0
        BY <3>1, <3>2, RestingProcess DEF Sweep
      <3>4. QED BY <3>1, <3>2, <3>3 DEF SweepInLog
    <2>5. QED BY <1>1, <2>1, <2>2, <2>4 DEF Quiet, Settled, IInv, TypeOK, ReconcileExpire, env
  <1>2. CASE ReconcileScan
    <2>1. Settled
      BY <1>2, GotoSettled, RuntimeAssumption DEF IInv, ReconcileScan, Steps, Delivering
    <2>2. rows' \in [Attempts -> Row] /\ Keeps(rows, rows')
      BY <1>2, SameRows DEF IInv, ReconcileScan, store
    <2>3. Known(rows) \subseteq Attempts
      BY DEF Known
    <2>4. rec' \in Sweep /\ SweepInLog'
      <3> DEFINE T == {b \in Known(rows) : \/ rows[b].status = "expired"
                                           \/ <<"started", b>> \notin occ}
      <3>1. rows \in [Attempts -> Row] /\ Len(ops) \in Nat /\ T \in SUBSET Attempts
        BY <2>3, LogLength DEF IInv, TypeOK
      <3>2. rec' = [NoSweep EXCEPT !.view = rows, !.todo = T] /\ ops' = ops
        BY <1>2 DEF ReconcileScan
      <3> HIDE DEF T
      <3>3. rec' \in Sweep /\ rec'.pos = 1 /\ rec'.snap = 0
        BY <3>1, <3>2, RestingProcess, Zenon DEF Sweep
      <3>4. QED BY <3>1, <3>2, <3>3 DEF SweepInLog
    <2>5. QED BY <1>2, <2>1, <2>2, <2>4 DEF Quiet, Settled, IInv, TypeOK, ReconcileScan, store, env
  <1>3. CASE ReconcileEnd
    <2>1. Settled
      BY <1>3, MoveSettled, RestingProcess, RuntimeAssumption, Zenon DEF IInv, ReconcileEnd
    <2>2. rows' \in [Attempts -> Row] /\ Keeps(rows, rows')
      BY <1>3, SameRows DEF IInv, ReconcileEnd, store
    <2>3. rec' \in Sweep /\ SweepInLog'
      BY <1>3, SameSweep DEF IInv, ReconcileEnd
    <2>4. QED BY <1>3, <2>1, <2>2, <2>3 DEF Quiet, Settled, IInv, TypeOK, ReconcileEnd, store, env
  <1>4. QED BY <1>1, <1>2, <1>3

LEMMA ReconcileOneQuiet ==
    ASSUME IInv, NEW a \in Attempts, ReconcileMark(a) \/ ReconcileStarted(a)
    PROVE  Quiet
  <1>1. CASE ReconcileMark(a)
    <2>1. Settled
      BY <1>1, StillSettled, Zenon DEF IInv, ReconcileMark
    <2>2. rows' \in [Attempts -> Row] /\ Keeps(rows, rows')
      <3>1. "expired" \in Statuses \ Active
        BY DEF Statuses, Active
      <3>2. QED BY <1>1, <3>1, UpdateKeeps, Zenon DEF IInv, TypeOK, ReconcileMark, Owners
    <2>3. rec' \in Sweep /\ SweepInLog'
      BY <1>1, Zenon DEF IInv, TypeOK, ReconcileMark, Sweep, SweepInLog
    <2>4. QED BY <1>1, <2>1, <2>2, <2>3, Zenon DEF Quiet, Settled, IInv, TypeOK, ReconcileMark, env
  <1>2. CASE ReconcileStarted(a)
    <2>1. Settled
      BY <1>2, StillSettled DEF IInv, ReconcileStarted
    <2>2. rows' \in [Attempts -> Row] /\ Keeps(rows, rows')
      BY <1>2, SameRows DEF IInv, ReconcileStarted, store
    <2>3. rec' \in Sweep /\ SweepInLog'
      BY <1>2, Zenon DEF IInv, TypeOK, ReconcileStarted, Sweep, SweepInLog
    <2>4. occ' \subseteq Occurrences
      BY <1>2 DEF IInv, TypeOK, ReconcileStarted, Occurrences
    <2>5. QED BY <1>2, <2>1, <2>2, <2>3, <2>4
             DEF Quiet, Settled, IInv, TypeOK, ReconcileStarted, store, env
  <1>3. QED BY <1>1, <1>2

LEMMA ReconcileRowQuiet ==
    ASSUME IInv, NEW a \in Attempts, ReconcileRow(a)
    PROVE  Quiet
  <1>1. PICK k \in 0..4, interrupted \in Interrupts(a) :
            /\ occ' = occ \cup {<<"started", a>>} \cup interrupted
                          \cup FailureOcc(a, "yes", k)
            /\ rows' = IF k = 4 /\ ~Enforce
                       THEN Update(IF k >= 2 THEN FailureRows(a, "yes") ELSE rows,
                                   a, "failed", "", "", "")
                       ELSE IF k >= 2 THEN FailureRows(a, "yes") ELSE rows
            /\ task' = IF k = 4 /\ Enforce /\ ~IsPipeline(a) THEN Requeue(a) ELSE task
            /\ IF k = 4
               THEN /\ rec' = [rec EXCEPT !.todo = @ \ {a}]
                    /\ UNCHANGED <<proc, crashes>>
               ELSE /\ crashes < MaxCrashes
                    /\ crashes' = crashes + 1
                    /\ proc' = [proc EXCEPT ![Kernel] = Down]
                    /\ UNCHANGED rec
    BY Zenon DEF ReconcileRow
  <1>2. Settled
    <2>1. CASE k = 4
      BY <1>1, <2>1, StillSettled, Zenon DEF IInv
    <2>2. CASE k # 4
      BY <1>1, <2>2, MoveSettled, RestingProcess, RuntimeAssumption DEF IInv
    <2>3. QED BY <2>1, <2>2
  <1>3. occ' \subseteq Occurrences
    <2>1. FailureOcc(a, "yes", k) \subseteq Occurrences
      BY FailureWrites DEF IInv
    <2>2. interrupted \subseteq Occurrences /\ <<"started", a>> \in Occurrences
      <3>1. interrupted = {} \/ interrupted = {<<"interrupted", a>>}
        BY DEF Interrupts
      <3>2. QED BY <3>1 DEF Occurrences
    <2>3. QED BY <1>1, <2>1, <2>2, Zenon DEF IInv, TypeOK
  <1>4. rows' \in [Attempts -> Row] /\ Keeps(rows, rows')
    <2> DEFINE f == IF k >= 2 THEN FailureRows(a, "yes") ELSE rows
    <2>1. f \in [Attempts -> Row] /\ Keeps(rows, f)
      <3>1. FailureRows(a, "yes") \in [Attempts -> Row] /\ Keeps(rows, FailureRows(a, "yes"))
        BY FailureWrites DEF IInv
      <3>2. rows \in [Attempts -> Row] /\ Keeps(rows, rows)
        BY DEF IInv, TypeOK, Keeps
      <3>3. QED BY <3>1, <3>2
    <2>2. rows' = IF k = 4 /\ ~Enforce THEN Update(f, a, "failed", "", "", "") ELSE f
      BY <1>1, Zenon
    <2> HIDE DEF f
    <2>3. "failed" \in Statuses \ Active
      BY DEF Statuses, Active
    <2>4. /\ Update(f, a, "failed", "", "", "") \in [Attempts -> Row]
          /\ Keeps(f, Update(f, a, "failed", "", "", ""))
      BY <2>1, <2>3, UpdateKeeps, Zenon
    <2>5. Keeps(rows, Update(f, a, "failed", "", "", ""))
      BY <2>1, <2>4, Zenon DEF Keeps
    <2>6. QED BY <2>1, <2>2, <2>4, <2>5, Zenon
  <1>5. task' \in TaskRecord /\ crashes' \in Nat
    <2>1. Requeue(a) \in TaskRecord /\ task \in TaskRecord /\ crashes \in Nat
      BY DEF IInv, TypeOK, TaskRecord, Requeue
    <2>2. task' \in {Requeue(a), task} /\ crashes' \in {crashes, crashes + 1}
      BY <1>1, Zenon
    <2>3. QED BY <2>1, <2>2
  <1>6. rec' \in Sweep /\ SweepInLog'
    <2>1. ops' = ops
      BY Zenon DEF ReconcileRow
    <2>2. rec \in Sweep /\ SweepInLog
      BY DEF IInv, TypeOK
    <2>3. CASE k = 4
      <3>1. rec' = [rec EXCEPT !.todo = rec.todo \ {a}]
        BY <1>1, <2>3, Zenon
      <3>2. rec' \in Sweep
        BY <2>2, <3>1 DEF Sweep
      <3>3. rec'.pos = rec.pos /\ rec'.snap = rec.snap
        BY <2>2, <3>1 DEF Sweep
      <3>4. QED BY <2>1, <2>2, <3>2, <3>3 DEF SweepInLog
    <2>4. CASE k # 4
      BY <1>1, <2>1, <2>2, <2>4 DEF SweepInLog
    <2>5. QED BY <2>3, <2>4
  <1>7. QED BY <1>2, <1>3, <1>4, <1>5, <1>6, Zenon DEF Quiet, Settled, IInv, TypeOK, ReconcileRow, env

-----------------------------------------------------------------------------
(* The three steps that are not quiet: open, claim and hand over           *)

(* The occurrences of Emit are at most two.                                *)
LEMMA OneOrTwo ==
    ASSUME NEW S, NEW x \in S, NEW y \in S,
           NEW s \in {<<>> \o <<x>>, <<y>> \o <<x>>}
    PROVE  Len(s) \in Nat /\ \A i \in 1..Len(s) : s[i] \in S
  <1>1. CASE s = <<>> \o <<x>>
    BY <1>1
  <1>2. CASE s = <<y>> \o <<x>>
    BY <1>2
  <1>3. QED BY <1>1, <1>2

LEMMA PrepareInv ==
    ASSUME IInv, NEW p \in Procs, Prepare(p)
    PROVE  IInv'
  <1> DEFINE a == proc[p].a
             n == [proc[p] EXCEPT !.step = "claim"]
             os == (IF Supersedes(rows, current, a) = {} THEN <<>>
                    ELSE << <<"superseded", current[LaneOf[a]]>> >>)
                   \o << <<"started", a>> >>
  <1>1. a \in Attempts /\ rows[a].status = "absent"
    BY DEF IInv, Busy, Bound, Prepare, At, Delivering
  <1>2. n \in Process /\ n.step = "claim" /\ Bound(n)
    BY <1>1 DEF IInv, TypeOK, Process, Steps, Busy, Bound
  <1>3. Len(os) \in Nat /\ \A i \in 1..Len(os) : os[i] \in Occurrences
    <2>1. current[LaneOf[a]] \in Attempts \cup {NoAttempt}
      BY <1>1, LaneAssumption DEF IInv, TypeOK
    <2> DEFINE x == <<"started", a>>
               y == <<"superseded", current[LaneOf[a]]>>
    <2>2. x \in Occurrences /\ y \in Occurrences
      BY <1>1, <2>1 DEF Occurrences
    <2>3. os \in {<<>> \o <<x>>, <<y>> \o <<x>>}
      BY Zenon
    <2> HIDE DEF x, y, os
    <2>4. QED BY <2>2, <2>3, OneOrTwo
  <1>4. Emit(p, os, n)
    BY DEF Prepare
  <1>5. Settled /\ occ' \subseteq Occurrences /\ crashes' \in Nat
    <2> HIDE DEF os, n, a
    <2> QED BY <1>2, <1>3, <1>4, EmitSettled DEF IInv
  <1>6. /\ rows' = EnsureRows(rows, current, a, clock)
        /\ current' = EnsureCurrent(current, a)
        /\ clock \in Nat
    BY DEF Prepare, IInv, TypeOK
  <1>7. StoreInv(rows, current)
    BY StorePart
  <1> HIDE DEF a, n, os
  <1>8. /\ StoreInv(rows', current')
        /\ \A b \in Attempts \ {a} :
             /\ rows'[b].status \in {rows[b].status, "superseded"}
             /\ rows[b].status = "absent" => rows'[b].status = "absent"
        /\ rows'[a].status = "prepared"
    <2>1. a \in Attempts /\ clock \in Nat /\ rows[a].status = "absent"
      BY <1>1, <1>6
    <2>2. Ensured(rows, a, EnsureRows(rows, current, a, clock), EnsureCurrent(current, a))
      BY <2>1, <1>7, EnsureStoreInv
    <2>3. Ensured(rows, a, rows', current')
      BY <2>2, <1>6
    <2>4. QED BY <2>3 DEF Ensured
  <1>9. TypeOK'
    <2>1. rec' \in Sweep
      BY DEF IInv, TypeOK, Prepare
    <2>2. QED BY <1>5, <1>8, <2>1 DEF StoreInv, StoreType, Settled, IInv, TypeOK, Prepare, env
  <1>10. OneLiveAttempt' /\ CurrentIsLatest'
    BY <1>8 DEF StoreInv, OneLiveAttempt, CurrentIsLatest
  <1>11. Busy' /\ SweepInLog'
    BY <1>5 DEF Settled, Busy, IInv, SweepInLog, Prepare
  <1>12. Claimed' /\ AtMostOneDelivery'
    <2> SUFFICES ASSUME Enforce PROVE Claimed' /\ AtMostOneDelivery'
      BY DEF Claimed, AtMostOneDelivery, Enforce
    <2>1. deliveries' = deliveries
      BY DEF Prepare, env
    <2>2. \A q \in Procs : proc[q].step = "send" => proc[q].a \in Attempts \ {a}
      BY <1>1 DEF IInv, Busy, Bound, Delivering, Claimed, At
    <2>3. \A b \in Attempts \ {a} :
             rows[b].status \notin {"absent", "prepared"}
             => rows'[b].status \notin {"absent", "prepared"}
      BY <1>8
    <2>4. Claimed'
      <3>1. \A q \in Procs : proc[q].step = "send" =>
               /\ rows[proc[q].a].status \notin {"absent", "prepared"}
               /\ deliveries[proc[q].a] = 0
        BY DEF IInv, Claimed, At
      <3>2. \A q, r \in Procs : proc[q].step = "send" /\ proc[r].step = "send" /\ q # r
               => proc[q].a # proc[r].a
        BY DEF IInv, Claimed, At
      <3>3. \A q \in Procs : proc'[q].step = "send"
               => proc[q].step = "send" /\ proc'[q].a = proc[q].a
        BY <1>5 DEF Settled
      <3>4. \A q \in Procs : proc'[q].step = "send" =>
               /\ rows'[proc'[q].a].status \notin {"absent", "prepared"}
               /\ deliveries'[proc'[q].a] = 0
        BY <2>1, <2>2, <2>3, <3>1, <3>3
      <3>5. \A q, r \in Procs : proc'[q].step = "send" /\ proc'[r].step = "send" /\ q # r
               => proc'[q].a # proc'[r].a
        BY <3>2, <3>3
      <3>6. QED BY <3>4, <3>5 DEF Claimed, At
    <2>5. AtMostOneDelivery'
      <3>1. \A b \in Attempts :
               /\ deliveries[b] <= 1
               /\ deliveries[b] > 0 => rows[b].status \notin {"absent", "prepared"}
        BY DEF IInv, AtMostOneDelivery
      <3>2. deliveries[a] = 0
        BY <1>1, <3>1 DEF IInv, TypeOK
      <3>3. QED BY <2>1, <2>3, <3>1, <3>2 DEF AtMostOneDelivery
    <2>6. QED BY <2>4, <2>5
  <1>13. QED BY <1>9, <1>10, <1>11, <1>12 DEF IInv

LEMMA ClaimInv ==
    ASSUME IInv, NEW p \in Procs, Claim(p)
    PROVE  IInv'
  <1> DEFINE a == proc[p].a
             claimed == rows[a].status = "prepared"
             st == IF claimed \/ ~Enforce THEN "send" ELSE "raise"
             n == [proc[p] EXCEPT !.step = st]
             os == IF claimed THEN << <<"delivery_claimed", a>> >> ELSE <<>>
  <1>1. a \in Attempts
    BY DEF IInv, Busy, Bound, Claim, At, Delivering
  <1>2. n \in Process /\ n.step = st /\ n.a = a /\ Bound(n)
    BY <1>1 DEF IInv, TypeOK, Process, Steps, Busy, Bound
  <1>3. Len(os) \in Nat /\ \A i \in 1..Len(os) : os[i] \in Occurrences
    BY SMTT(30), <1>1, OneOccurrence
  <1>4. Emit(p, os, n)
    BY DEF Claim
  <1>5. /\ occ' \subseteq Occurrences /\ crashes' \in Nat /\ proc' \in [Procs -> Process]
        /\ proc' = [proc EXCEPT ![p] = n] \/ proc' = [proc EXCEPT ![p] = Down]
    <2> HIDE DEF os, n
    <2> QED BY <1>2, <1>3, <1>4, EmitMoves DEF IInv
  <1>6. rows' = ClaimDelivery(rows, a) /\ current' = current /\ deliveries' = deliveries
    BY DEF Claim, env
  <1>7. rows' \in [Attempts -> Row] /\ Keeps(rows, rows')
    BY <1>1, <1>6, SmallWritesKeep DEF IInv, TypeOK
  <1>8. StoreInv(rows', current')
    <2>1. StoreInv(rows, current)
      BY StorePart
    <2>2. QED BY <1>6, <1>7, <2>1, KeepsStoreInv
  <1>9. TypeOK'
    <2>1. rec' \in Sweep
      BY DEF IInv, TypeOK, Claim
    <2>2. QED BY <1>5, <1>8, <2>1 DEF StoreInv, StoreType, IInv, TypeOK, Claim, env
  <1>10. OneLiveAttempt' /\ CurrentIsLatest'
    BY <1>8 DEF StoreInv, OneLiveAttempt, CurrentIsLatest
  <1>11. Busy' /\ SweepInLog'
    <2> HIDE DEF n
    <2>1. Busy'
      BY <1>2, <1>5, RestingProcess DEF Busy, IInv, TypeOK
    <2>2. QED BY <2>1 DEF IInv, SweepInLog, Claim
  <1>12. Claimed' /\ AtMostOneDelivery'
    <2> SUFFICES ASSUME Enforce PROVE Claimed' /\ AtMostOneDelivery'
      BY DEF Claimed, AtMostOneDelivery, Enforce
    <2>1. AtMostOneDelivery'
      BY <1>6, <1>7 DEF AtMostOneDelivery, IInv, Keeps
    <2>2. \A q \in Procs : q # p => proc'[q] = proc[q]
      BY <1>5 DEF IInv, TypeOK
    <2>3. \A q \in Procs : proc[q].step = "send" =>
              /\ proc[q].a \in Attempts
              /\ rows[proc[q].a].status \notin {"absent", "prepared"}
              /\ deliveries[proc[q].a] = 0
      BY DEF IInv, Busy, Bound, Delivering, Claimed, At
    <2>4. proc'[p].step = "send" => proc'[p].a = a /\ claimed
      <3> HIDE DEF n
      <3> QED BY <1>2, <1>5, RestingProcess DEF IInv, TypeOK
    <2>5. claimed => rows'[a].status = "delivering" /\ deliveries[a] = 0
      <3>1. ASSUME claimed PROVE rows'[a].status = "delivering"
        BY <3>1, <1>1, <1>6 DEF ClaimDelivery, IInv, TypeOK, Row
      <3>2. ASSUME claimed PROVE deliveries[a] = 0
        BY <3>2, <1>1 DEF AtMostOneDelivery, IInv, TypeOK
      <3>3. QED BY <3>1, <3>2
    <2> HIDE DEF claimed, n, a
    <2>6. \A q \in Procs : proc'[q].step = "send" =>
              /\ rows'[proc'[q].a].status \notin {"absent", "prepared"}
              /\ deliveries'[proc'[q].a] = 0
      <3> SUFFICES ASSUME NEW q \in Procs, proc'[q].step = "send"
                   PROVE  /\ rows'[proc'[q].a].status \notin {"absent", "prepared"}
                          /\ deliveries'[proc'[q].a] = 0
        OBVIOUS
      <3>1. CASE q = p
        BY <3>1, <1>6, <2>4, <2>5
      <3>2. CASE q # p
        <4>1. proc[q].step = "send" /\ proc'[q].a = proc[q].a
          BY <3>2, <2>2
        <4>2. /\ proc[q].a \in Attempts /\ deliveries[proc[q].a] = 0
              /\ rows[proc[q].a].status \notin {"absent", "prepared"}
          BY <4>1, <2>3
        <4>3. rows'[proc[q].a].status \notin {"absent", "prepared"}
          BY <4>2, <1>6, <1>7 DEF Keeps
        <4>4. QED BY <1>6, <4>1, <4>2, <4>3
      <3>3. QED BY <3>1, <3>2
    <2>7. \A q, r \in Procs : proc'[q].step = "send" /\ proc'[r].step = "send" /\ q # r
              => proc'[q].a # proc'[r].a
      <3>1. \A q, r \in Procs : proc[q].step = "send" /\ proc[r].step = "send" /\ q # r
               => proc[q].a # proc[r].a
        BY DEF IInv, Claimed, At
      <3>2. \A q \in Procs : proc[q].step = "send" /\ claimed => proc[q].a # a
        BY <2>3 DEF claimed
      <3> SUFFICES ASSUME NEW q \in Procs, NEW r \in Procs, q # r,
                          proc'[q].step = "send", proc'[r].step = "send"
                   PROVE  proc'[q].a # proc'[r].a
        OBVIOUS
      <3>3. CASE q # p /\ r # p
        BY <3>1, <3>3, <2>2
      <3>4. CASE q = p
        BY <3>2, <3>4, <2>2, <2>4
      <3>5. CASE r = p
        BY <3>2, <3>5, <2>2, <2>4
      <3>6. QED BY <3>3, <3>4, <3>5
    <2>8. QED BY <2>1, <2>6, <2>7 DEF Claimed, At
  <1>13. QED BY <1>9, <1>10, <1>11, <1>12 DEF IInv

LEMMA SendInv ==
    ASSUME IInv, NEW p \in Procs, Send(p)
    PROVE  IInv'
  <1> DEFINE a == proc[p].a
  <1>1. a \in Attempts /\ proc[p].step = "send"
    BY DEF IInv, Busy, Bound, Send, At, Delivering
  <1>2. PICK st \in {"sent", "failed", "refused"} : Goto(p, st)
    BY DEF Send
  <1>3. Settled
    BY <1>1, <1>2, GotoSettled DEF IInv, Steps
  <1>4. /\ deliveries' \in [Attempts -> Nat]
        /\ \A b \in Attempts \ {a} : deliveries'[b] = deliveries[b]
        /\ deliveries'[a] \in {deliveries[a], deliveries[a] + 1}
    <2>1. deliveries \in [Attempts -> Nat]
      BY DEF IInv, TypeOK
    <2>2. deliveries' = [deliveries EXCEPT ![a] = @ + 1] \/ deliveries' = deliveries
      BY DEF Send
    <2>3. QED BY <1>1, <2>1, <2>2
  <1>5. rows' = rows /\ current' = current
    BY DEF Send, store
  <1>6. TypeOK'
    BY <1>3, <1>4 DEF Settled, IInv, TypeOK, Send, store
  <1>7. OneLiveAttempt' /\ CurrentIsLatest' /\ SweepInLog'
    BY <1>5 DEF IInv, OneLiveAttempt, CurrentIsLatest, SweepInLog, Send
  <1>8. Busy'
    BY <1>3 DEF Settled, Busy
  <1>9. Claimed' /\ AtMostOneDelivery'
    <2> SUFFICES ASSUME Enforce PROVE Claimed' /\ AtMostOneDelivery'
      BY DEF Claimed, AtMostOneDelivery, Enforce
    <2>1. rows[a].status \notin {"absent", "prepared"} /\ deliveries[a] = 0
      BY <1>1 DEF IInv, Claimed, At
    <2>2. proc'[p].step # "send"
      BY <1>2 DEF Goto, IInv, TypeOK, Process
    <2>3. \A q \in Procs : proc'[q].step = "send" =>
              /\ proc[q].step = "send" /\ proc'[q].a = proc[q].a /\ proc[q].a # a
              /\ proc[q].a \in Attempts
      BY <1>1, <1>3, <2>2 DEF Settled, IInv, Claimed, At, Busy, Bound, Delivering
    <2>4. Claimed'
      <3>1. \A q \in Procs : proc[q].step = "send" =>
               /\ rows[proc[q].a].status \notin {"absent", "prepared"}
               /\ deliveries[proc[q].a] = 0
        BY DEF IInv, Claimed, At
      <3>2. \A q, r \in Procs : proc[q].step = "send" /\ proc[r].step = "send" /\ q # r
               => proc[q].a # proc[r].a
        BY DEF IInv, Claimed, At
      <3>3. \A q \in Procs : proc'[q].step = "send" =>
               /\ rows'[proc'[q].a].status \notin {"absent", "prepared"}
               /\ deliveries'[proc'[q].a] = 0
        <4> SUFFICES ASSUME NEW q \in Procs, proc'[q].step = "send"
                     PROVE  /\ rows'[proc'[q].a].status \notin {"absent", "prepared"}
                            /\ deliveries'[proc'[q].a] = 0
          OBVIOUS
        <4>1. /\ proc[q].step = "send" /\ proc'[q].a = proc[q].a
              /\ proc[q].a \in Attempts \ {a}
          BY <2>3
        <4>2. deliveries'[proc[q].a] = deliveries[proc[q].a]
          BY <1>4, <4>1, Zenon
        <4>3. QED BY <1>5, <3>1, <4>1, <4>2, Zenon
      <3>4. \A q, r \in Procs : proc'[q].step = "send" /\ proc'[r].step = "send" /\ q # r
               => proc'[q].a # proc'[r].a
        BY <2>3, <3>2
      <3>5. QED BY <3>3, <3>4 DEF Claimed, At
    <2>5. AtMostOneDelivery'
      <3>1. deliveries'[a] <= 1
        BY <1>4, <2>1
      <3>2. \A b \in Attempts : deliveries'[b] <= 1
        BY <1>4, <3>1 DEF IInv, AtMostOneDelivery
      <3>3. \A b \in Attempts : deliveries'[b] > 0 =>
                rows[b].status \notin {"absent", "prepared"}
        BY <1>4, <2>1 DEF IInv, AtMostOneDelivery
      <3>4. QED BY <1>5, <3>2, <3>3 DEF AtMostOneDelivery
    <2>6. QED BY <2>4, <2>5
  <1>10. QED BY <1>6, <1>7, <1>8, <1>9 DEF IInv

-----------------------------------------------------------------------------
(* One step per action: it is quiet, or opens, claims or hands over.       *)

LEMMA StutterInv == IInv /\ UNCHANGED vars => IInv'
  <1> SUFFICES ASSUME IInv, UNCHANGED vars PROVE IInv'
    OBVIOUS
  <1>1. /\ rows' = rows /\ current' = current /\ proc' = proc /\ rec' = rec /\ ops' = ops
        /\ deliveries' = deliveries
    BY DEF vars, store, env
  <1>2. TypeOK'
    BY DEF IInv, TypeOK, vars, store, env
  <1>3. OneLiveAttempt' /\ CurrentIsLatest' /\ Busy' /\ SweepInLog'
    BY <1>1 DEF IInv, OneLiveAttempt, CurrentIsLatest, Busy, SweepInLog
  <1>4. Claimed' /\ AtMostOneDelivery'
    BY <1>1 DEF IInv, Claimed, AtMostOneDelivery, At
  <1>5. QED BY <1>2, <1>3, <1>4 DEF IInv

(* Every other step is quiet.                                              *)
LEMMA DeliverKinds ==
    ASSUME IInv, NEW p \in Procs, Deliver(p)
    PROVE  Quiet \/ Prepare(p) \/ Claim(p) \/ Send(p)
  <1>1. CASE PrepareAgain(p)
    BY <1>1, PrepareAgainQuiet
  <1>2. CASE Exhaust(p) \/ BlockExhausted(p)
    BY <1>2, ExhaustQuiet
  <1>3. CASE MarkTaskAttemptSent(p)
    BY <1>3, MarkSentQuiet
  <1>4. CASE FailTaskAttemptDelivery(p)
    BY <1>4, FailDeliveryQuiet
  <1>5. CASE RecordDeliveryFailure(p)
    BY <1>5, RecordFailureQuiet
  <1>6. CASE Raise(p)
    BY <1>6, RaiseQuiet
  <1>7. QED
    BY <1>1, <1>2, <1>3, <1>4, <1>5, <1>6 DEF Deliver

LEMMA ReconcileIsQuiet ==
    ASSUME IInv, Reconcile
    PROVE  Quiet
  <1>1. CASE ReconcileSettle
    BY <1>1, ReconcileSettleQuiet
  <1>2. CASE ReconcileExpire \/ ReconcileScan \/ ReconcileEnd
    BY <1>2, ReconcileQuiet
  <1>3. ASSUME NEW a \in Attempts, ReconcileMark(a) \/ ReconcileStarted(a)
        PROVE  Quiet
    BY <1>3, ReconcileOneQuiet
  <1>4. ASSUME NEW a \in Attempts, ReconcileRow(a)
        PROVE  Quiet
    BY <1>4, ReconcileRowQuiet
  <1>5. QED BY <1>1, <1>2, <1>3, <1>4 DEF Reconcile

LEMMA StepKinds ==
    ASSUME IInv, Next
    PROVE  Quiet \/ \E p \in Procs : Prepare(p) \/ Claim(p) \/ Send(p)
  <1> DEFINE Kind == Quiet \/ \E p \in Procs : Prepare(p) \/ Claim(p) \/ Send(p)
  <1> SUFFICES Kind
    OBVIOUS
  <1>1. ASSUME Quiet PROVE Kind
    BY <1>1
  <1>2. ASSUME NEW p \in Procs, Deliver(p)
        PROVE  Kind
    BY <1>2, DeliverKinds
  <1> HIDE DEF Kind
  <1>3. ASSUME NEW p \in Procs, Crash(p) \/ Restart(p)
        PROVE  Kind
    BY <1>1, <1>3, CrashQuiet
  <1>4. ASSUME NEW p \in Procs, NEW a \in Attempts,
               NEW c \in {"scheduler", "rework", "child"}, Dispatch(p, a, c)
        PROVE  Kind
    BY <1>1, <1>4, DispatchQuiet
  <1>5. ASSUME NEW a \in Attempts, NEW ok \in BOOLEAN, Heartbeat(a, ok)
        PROVE  Kind
    BY <1>1, <1>5, HeartbeatQuiet
  <1>6. ASSUME NEW a \in Attempts, NEW ok \in BOOLEAN, SettleResult(a, ok)
        PROVE  Kind
    BY <1>1, <1>6, SettleResultQuiet
  <1>7. ASSUME NEW a \in Attempts,
               WorkerDies(a) \/ LeaseLapses(a) \/ ClearActiveDispatch(a)
        PROVE  Kind
    BY <1>1, <1>7, WorkerQuiet
  <1>8. CASE (\E a \in Attempts : ProviderStops(a)) \/ RecordProviderStop
    BY <1>1, <1>8, ProviderStopQuiet
  <1>9. ASSUME NEW l \in Lanes, NEW src \in Attempts \cup {NoAttempt},
               NEW kind \in {"settled_ok", "settled_bad", "failed", "superseded"},
               OperationEnds(l, kind, src)
        PROVE  Kind
    BY <1>1, <1>9, OperationEndsQuiet
  <1>10. ASSUME NEW i \in DOMAIN ops, SettleOperation(i)
         PROVE  Kind
    BY <1>1, <1>10, SettleOperationQuiet
  <1>11. CASE ReconcileBegin
    BY <1>1, <1>11, ReconcileBeginQuiet
  <1>12. CASE Reconcile
    BY <1>1, <1>12, ReconcileIsQuiet
  <1>13. QED
    BY <1>2, <1>3, <1>4, <1>5, <1>6, <1>7, <1>8, <1>9, <1>10, <1>11, <1>12
       DEF Next

LEMMA NextInv == IInv /\ [Next]_vars => IInv'
  <1> SUFFICES ASSUME IInv, [Next]_vars PROVE IInv'
    OBVIOUS
  <1>1. CASE UNCHANGED vars
    BY <1>1, StutterInv
  <1>2. CASE Next
    <2>1. ASSUME NEW p \in Procs, Prepare(p) \/ Claim(p) \/ Send(p)
          PROVE  IInv'
      BY <2>1, PrepareInv, ClaimInv, SendInv
    <2>2. QED BY <1>2, <2>1, StepKinds, QuietInv
  <1>3. QED BY <1>1, <1>2

LEMMA Invariance == Spec => []IInv
  BY InitInv, NextInv, PTL DEF Spec

(* Every variable keeps its type, whatever the numbers of attempts, lanes  *)
(* and processes, the budget and the bounds.                               *)
THEOREM TypeCorrect == Spec => []TypeOK
<1>1. IInv => TypeOK
  BY DEF IInv
<1>2. QED BY <1>1, Invariance, PTL

(* ensure_for_dispatch, claim_delivery, update, expire and every handler   *)
(* that calls them leave at most one live attempt per lane, the current    *)
(* one.                                                                    *)
THEOREM LiveAttemptUnique == Spec => []OneLiveAttempt
<1>1. IInv => OneLiveAttempt
  BY DEF IInv
<1>2. QED BY <1>1, Invariance, PTL

(* The current pointer of a lane names the strictly last of its rows.      *)
THEOREM HeadIsLast == Spec => []CurrentIsLatest
<1>1. IInv => CurrentIsLatest
  BY DEF IInv
<1>2. QED BY <1>1, Invariance, PTL

(* In enforce mode a briefing is handed over at most once per attempt, and *)
(* only after the claim: for any number of processes and crashes.          *)
THEOREM DeliveredOnce == Spec => []AtMostOneDelivery
<1>1. IInv => AtMostOneDelivery
  BY DEF IInv
<1>2. QED BY <1>1, Invariance, PTL

-----------------------------------------------------------------------------
(* The implementation of AttemptLanes                                      *)

Phases(r) == [a \in Attempts |-> Phase(r[a])]

(* The three phases, one case each.                                        *)
LEMMA PhaseOf ==
    ASSUME NEW row
    PROVE  /\ (Phase(row) = "none") <=> (row.status = "absent")
           /\ (Phase(row) = "live") <=> (row.status \in Active)
           /\ (Phase(row) = "ended") <=> (row.status \notin Active /\ row.status # "absent")
           /\ Phase(row) \in {"none", "live", "ended"}
  <1>1. "absent" \notin Active
    BY DEF Active
  <1>2. CASE row.status = "absent"
    BY <1>1, <1>2 DEF Phase
  <1>3. CASE row.status \in Active
    BY <1>1, <1>3 DEF Phase
  <1>4. CASE row.status \notin Active /\ row.status # "absent"
    BY <1>1, <1>4 DEF Phase
  <1>5. QED BY <1>2, <1>3, <1>4

(* A write that opens no attempt ends the attempts it closes, if any.      *)
LEMMA KeepsEnds ==
    ASSUME NEW r, NEW s, Keeps(r, s)
    PROVE  \E S \in SUBSET {a \in Attempts : Phase(r[a]) = "live"} :
              Phases(s) = [a \in Attempts |-> IF a \in S THEN "ended" ELSE Phases(r)[a]]
  <1> DEFINE S == {a \in Attempts : Phase(r[a]) = "live" /\ Phase(s[a]) = "ended"}
  <1>1. ASSUME NEW a \in Attempts
        PROVE  Phase(s[a]) = IF a \in S THEN "ended" ELSE Phase(r[a])
    <2>1. /\ Phase(s[a]) = "live" => Phase(r[a]) = "live"
          /\ (Phase(s[a]) = "none") <=> (Phase(r[a]) = "none")
      BY PhaseOf DEF Keeps
    <2>2. /\ Phase(s[a]) \in {"none", "live", "ended"}
          /\ Phase(r[a]) \in {"none", "live", "ended"}
      BY PhaseOf
    <2>3. QED BY <2>1, <2>2
  <1>2. Phases(s) = [a \in Attempts |-> IF a \in S THEN "ended" ELSE Phases(r)[a]]
    BY <1>1 DEF Phases
  <1>3. S \in SUBSET {a \in Attempts : Phase(r[a]) = "live"}
    OBVIOUS
  <1>4. QED BY <1>2, <1>3, Zenon

LEMMA KeepingStep ==
    ASSUME Keeps(rows, rows'), deliveries' = deliveries
    PROVE  Ledger!Next
  <1>1. PICK S \in SUBSET {a \in Attempts : Phase(rows[a]) = "live"} :
           Phases(rows') = [a \in Attempts |-> IF a \in S THEN "ended" ELSE Phases(rows)[a]]
    BY KeepsEnds
  <1>2. S \in SUBSET Ledger!Live
    BY DEF Ledger!Live
  <1>3. Ledger!End(S)
    BY <1>1 DEF Ledger!End, Phases
  <1>4. QED BY <1>2, <1>3 DEF Ledger!Next

(* ensure_for_dispatch: the one live row of the lane is its current one,   *)
(* and every live current row is superseded.                               *)
LEMMA EnsureBegins ==
    ASSUME IInv, NEW p \in Procs, Prepare(p)
    PROVE  Ledger!Next
  <1> DEFINE a == proc[p].a
  <1>1. a \in Attempts /\ rows[a].status = "absent"
    BY DEF IInv, Busy, Bound, Prepare, At, Delivering
  <1>2. rows' = EnsureRows(rows, current, a, clock) /\ deliveries' = deliveries
    BY DEF Prepare, env
  <1> HIDE DEF a
  <1>3. ASSUME NEW b \in Attempts
        PROVE  Phase(rows'[b]) =
                 IF b = a THEN "live"
                 ELSE IF Phase(rows[b]) = "live" /\ LaneOf[b] = LaneOf[a] THEN "ended"
                 ELSE Phase(rows[b])
    <2>1. CASE b = a
      <3>1. rows'[b].status = "prepared"
        BY <1>1, <1>2, <2>1, Zenon DEF EnsureRows, AbsentRow
      <3>2. QED BY <2>1, <3>1, PhaseOf DEF Active
    <2>2. CASE b # a /\ b \in Supersedes(rows, current, a)
      <3>1. rows[b].status # "absent" /\ LaneOf[b] = LaneOf[a]
        <4>1. b = current[LaneOf[a]] /\ LaneOf[a] \in Lanes
          BY <1>1, <2>2, LaneAssumption DEF Supersedes
        <4>2. HeadIsLatest(rows, current)
          BY DEF IInv, CurrentIsLatest
        <4>3. b \in LaneRows(rows, LaneOf[a])
          BY <4>1, <4>2, LaneAssumption DEF HeadIsLatest
        <4>4. QED BY <4>3 DEF LaneRows, Known
      <3>2. rows'[b].status = "superseded"
        <4>1. rows'[b] = [rows[b] EXCEPT !.status = "superseded"]
          BY <1>2, <2>2 DEF EnsureRows
        <4>2. QED BY <4>1 DEF IInv, TypeOK, Row
      <3>3. Phase(rows'[b]) = "ended" /\ Phase(rows[b]) \in {"live", "ended"}
        BY <3>1, <3>2, PhaseOf DEF Active
      <3>4. QED BY <2>2, <3>1, <3>3
    <2>3. CASE b # a /\ b \notin Supersedes(rows, current, a)
      <3>1. rows'[b] = rows[b]
        BY <1>2, <2>3 DEF EnsureRows
      <3>2. ASSUME Phase(rows[b]) = "live", LaneOf[b] = LaneOf[a] PROVE FALSE
        <4>1. rows[b].status \in Active
          BY <3>2, PhaseOf
        <4>2. b = current[LaneOf[a]]
          BY <3>2, <4>1 DEF IInv, OneLiveAttempt, LiveIsCurrent
        <4>3. QED BY <2>3, <4>1, <4>2 DEF Supersedes, Active
      <3>3. QED BY <2>3, <3>1, <3>2
    <2>4. QED BY <2>1, <2>2, <2>3
  <1>4. Phase(rows[a]) = "none"
    BY <1>1, PhaseOf
  <1>5. Ledger!Begin(a)
    BY <1>1, <1>2, <1>3, <1>4 DEF Ledger!Begin, Ledger!Live
  <1>6. QED BY <1>1, <1>5 DEF Ledger!Next

(* In either mode a process that claims or sends has its attempt on disk.  *)
Opened ==
    \A p \in Procs : proc[p].step \in {"claim", "send"}
        => proc[p].a \in Attempts /\ rows[proc[p].a].status # "absent"

(* No process gets to the claim but by prepare_task_attempt.               *)
Away ==
    \A q \in Procs : proc'[q].step = "claim"
        => proc[q].step = "claim" /\ proc'[q].a = proc[q].a

LEMMA MoveAway ==
    ASSUME TypeOK, NEW p \in Procs, NEW n, n.step # "claim",
           proc' = [proc EXCEPT ![p] = n]
    PROVE  Away
  BY DEF Away, TypeOK

LEMMA GotoAway ==
    ASSUME TypeOK, NEW p \in Procs, NEW st, st # "claim", Goto(p, st)
    PROVE  Away
  BY DEF Away, TypeOK, Goto, Process

LEMMA EmitAway ==
    ASSUME TypeOK, NEW p \in Procs, NEW n, n.step # "claim", NEW os, Emit(p, os, n)
    PROVE  Away
  <1>1. proc' = [proc EXCEPT ![p] = n] \/ proc' = [proc EXCEPT ![p] = Down]
    BY Zenon DEF Emit
  <1>2. Down.step # "claim"
    BY DEF Down, Idle
  <1>3. QED BY <1>1, <1>2, MoveAway

LEMMA DeliverAway ==
    ASSUME TypeOK, NEW p \in Procs, Deliver(p), ~PrepareAgain(p), ~Prepare(p)
    PROVE  Away
  <1>1. CASE Exhaust(p) \/ BlockExhausted(p)
    BY <1>1, GotoAway DEF Exhaust, BlockExhausted
  <1>2. CASE Claim(p)
    <2>1. PICK st \in {"send", "raise"} : \E os : Emit(p, os, [proc[p] EXCEPT !.step = st])
      <3> DEFINE s == IF rows[proc[p].a].status = "prepared" \/ ~Enforce THEN "send" ELSE "raise"
      <3>1. \E os : Emit(p, os, [proc[p] EXCEPT !.step = s])
        BY <1>2, Zenon DEF Claim
      <3>2. QED BY <3>1
    <2>2. [proc[p] EXCEPT !.step = st].step # "claim"
      BY DEF TypeOK, Process
    <2>3. QED BY <2>1, <2>2, EmitAway, Zenon
  <1>3. CASE Send(p)
    BY <1>3, GotoAway DEF Send
  <1>4. CASE MarkTaskAttemptSent(p)
    BY <1>4, EmitAway, RestingProcess DEF MarkTaskAttemptSent
  <1>5. CASE FailTaskAttemptDelivery(p)
    BY <1>5, GotoAway DEF FailTaskAttemptDelivery
  <1>6. CASE RecordDeliveryFailure(p)
    <2>1. Goto(p, "raise") \/ proc' = [proc EXCEPT ![p] = Down]
      BY <1>6 DEF RecordDeliveryFailure
    <2>2. QED BY <2>1, GotoAway, MoveAway, RestingProcess
  <1>7. CASE Raise(p)
    BY <1>7, MoveAway, RestingProcess, Zenon DEF Raise
  <1>8. QED BY <1>1, <1>2, <1>3, <1>4, <1>5, <1>6, <1>7 DEF Deliver

LEMMA ReconcileAway ==
    ASSUME TypeOK, Reconcile \/ ReconcileBegin
    PROVE  Away
  <1> USE RuntimeAssumption
  <1>1. CASE ReconcileBegin \/ ReconcileExpire \/ ReconcileScan
    BY <1>1, GotoAway DEF ReconcileBegin, ReconcileExpire, ReconcileScan
  <1>2. CASE ReconcileSettle
    <2>1. proc' = proc \/ \E os : Emit(Kernel, os, proc[Kernel])
      BY <1>2, Zenon DEF ReconcileSettle
    <2>2. proc[Kernel].step # "claim"
      BY <1>2, Zenon DEF ReconcileSettle, At
    <2>3. QED BY <2>1, <2>2, EmitAway DEF Away
  <1>3. CASE ReconcileEnd
    BY <1>3, MoveAway, GotoAway, RestingProcess, Zenon DEF ReconcileEnd
  <1>4. ASSUME NEW a \in Attempts, ReconcileMark(a) \/ ReconcileStarted(a)
        PROVE  Away
    BY <1>4, Zenon DEF ReconcileMark, ReconcileStarted, Away
  <1>5. ASSUME NEW a \in Attempts, ReconcileRow(a)
        PROVE  Away
    <2>1. proc' = proc \/ proc' = [proc EXCEPT ![Kernel] = Down]
      BY <1>5, Zenon DEF ReconcileRow
    <2>2. QED BY <2>1, MoveAway, RestingProcess DEF Away
  <1>6. QED BY <1>1, <1>2, <1>3, <1>4, <1>5 DEF Reconcile

LEMMA StepAway ==
    ASSUME TypeOK, Next, \A p \in Procs : ~PrepareAgain(p) /\ ~Prepare(p)
    PROVE  Away
  <1> USE RuntimeAssumption
  <1>1. ASSUME NEW p \in Procs, Deliver(p) \/ Crash(p) \/ Restart(p)
        PROVE  Away
    BY <1>1, DeliverAway, MoveAway, RestingProcess DEF Crash, Restart
  <1>2. ASSUME NEW p \in Procs, NEW a \in Attempts,
               NEW c \in {"scheduler", "rework", "child"}, Dispatch(p, a, c)
        PROVE  Away
    <2> DEFINE n == [step |-> "prepare", a |-> a, caller |-> c, prev |-> task.status]
    <2>1. proc' = [proc EXCEPT ![p] = n] /\ n.step # "claim"
      BY <1>2 DEF Dispatch
    <2> HIDE DEF n
    <2>2. QED BY <2>1, MoveAway, Zenon
  <1>3. ASSUME NEW a \in Attempts, NEW ok \in BOOLEAN,
               Heartbeat(a, ok) \/ SettleResult(a, ok)
        PROVE  Away
    <2>1. proc' = proc \/ \E os : Emit(Kernel, os, Idle)
      BY <1>3, Zenon DEF Heartbeat, SettleResult
    <2>2. QED BY <2>1, EmitAway, RestingProcess, Zenon DEF Away
  <1>4. ASSUME NEW a \in Attempts,
               WorkerDies(a) \/ LeaseLapses(a) \/ ClearActiveDispatch(a)
        PROVE  Away
    BY <1>4 DEF WorkerDies, LeaseLapses, ClearActiveDispatch, Away
  <1>5. ASSUME NEW a \in Attempts, ProviderStops(a)
        PROVE  Away
    <2> DEFINE n == [Idle EXCEPT !.step = "stopping", !.a = a]
    <2>1. proc' = [proc EXCEPT ![Kernel] = n] /\ n.step # "claim"
      BY <1>5 DEF ProviderStops, Idle
    <2> HIDE DEF n
    <2>2. QED BY <2>1, MoveAway, Zenon
  <1>6. CASE RecordProviderStop
    <2>1. proc' = [proc EXCEPT ![Kernel] = Idle] \/ proc' = [proc EXCEPT ![Kernel] = Down]
      BY <1>6, Zenon DEF RecordProviderStop
    <2>2. QED BY <2>1, MoveAway, RestingProcess
  <1>7. ASSUME NEW l \in Lanes, NEW src \in Attempts \cup {NoAttempt},
               NEW kind \in {"settled_ok", "settled_bad", "failed", "superseded"},
               OperationEnds(l, kind, src)
        PROVE  Away
    BY <1>7 DEF OperationEnds, Away
  <1>8. ASSUME NEW i \in DOMAIN ops, SettleOperation(i)
        PROVE  Away
    <2>1. \E os : Emit(Kernel, os, Idle)
      BY <1>8 DEF SettleOperation
    <2>2. QED BY <2>1, EmitAway, RestingProcess
  <1>9. CASE Reconcile \/ ReconcileBegin
    BY <1>9, ReconcileAway
  <1>10. QED
    BY <1>1, <1>2, <1>3, <1>4, <1>5, <1>6, <1>7, <1>8, <1>9 DEF Next

(* The hand-over: the row exists, and under enforcement the claim was won  *)
(* by this process alone.                                                  *)
LEMMA SendHands ==
    ASSUME IInv, Opened, NEW p \in Procs, Send(p)
    PROVE  Ledger!Next \/ UNCHANGED Ledger!vars
  <1> DEFINE a == proc[p].a
  <1>1. a \in Attempts /\ At(p, "send")
    BY DEF IInv, Busy, Bound, Send, At, Delivering
  <1>2. rows' = rows
    BY DEF Send, store
  <1>3. CASE deliveries' = deliveries
    BY <1>2, <1>3 DEF Ledger!vars
  <1>4. CASE deliveries' = [deliveries EXCEPT ![a] = @ + 1]
    <2>1. Phase(rows[a]) # "none"
      BY <1>1, PhaseOf DEF Opened, At
    <2>2. Enforce => deliveries[a] = 0
      BY <1>1 DEF IInv, Claimed
    <2>3. Ledger!Hand(a)
      BY <1>1, <1>2, <1>4, <2>1, <2>2 DEF Ledger!Hand
    <2>4. QED BY <1>1, <2>3 DEF Ledger!Next
  <1>5. QED BY <1>3, <1>4 DEF Send

LEMMA OpenedStep ==
    ASSUME IInv, Opened, [Next]_vars
    PROVE  Opened'
  <1>0. CASE UNCHANGED vars
    BY <1>0 DEF Opened, vars, store
  <1>1. \A p \in Procs : proc[p].step \in Delivering => proc[p].a \in Attempts
    BY DEF IInv, Busy, Bound
  <1>2. ASSUME NEW p \in Procs, Prepare(p)
        PROVE  Opened'
    <2> DEFINE a == proc[p].a
    <2>1. a \in Attempts
      BY <1>1, <1>2 DEF Prepare, At, Delivering
    <2>2. /\ proc' = [proc EXCEPT ![p] = [proc[p] EXCEPT !.step = "claim"]]
             \/ proc' = [proc EXCEPT ![p] = Down]
          /\ rows' = EnsureRows(rows, current, a, clock)
      BY <1>2, Zenon DEF Prepare, Emit
    <2>3. rows'[a].status # "absent"
      BY <2>1, <2>2 DEF EnsureRows, AbsentRow
    <2>4. \A b \in Attempts : rows[b].status # "absent" => rows'[b].status # "absent"
      BY <2>2, <2>3 DEF EnsureRows, IInv, TypeOK, Row
    <2>5. \A q \in Procs : q # p => proc'[q] = proc[q]
      BY <2>2 DEF IInv, TypeOK
    <2>6. (proc'[p].step = "claim" /\ proc'[p].a = a) \/ proc'[p] = Down
      BY <2>2 DEF IInv, TypeOK, Process
    <2>7. QED BY <2>1, <2>3, <2>4, <2>5, <2>6, RestingProcess DEF Opened
  <1>3. ASSUME NEW p \in Procs, PrepareAgain(p)
        PROVE  Opened'
    <2>1. /\ proc[p].a \in Attempts /\ rows[proc[p].a].status # "absent"
          /\ rows' = rows
      BY <1>1, <1>3 DEF PrepareAgain, At, Delivering, store
    <2>2. \/ proc' = [proc EXCEPT ![p] = [proc[p] EXCEPT !.step = "claim"]]
          \/ proc' = [proc EXCEPT ![p] = Down]
      BY <1>3, Zenon DEF PrepareAgain, Emit
    <2>3. \A q \in Procs : q # p => proc'[q] = proc[q]
      BY <2>2 DEF IInv, TypeOK
    <2>4. proc'[p].a = proc[p].a \/ proc'[p] = Down
      BY <2>2 DEF IInv, TypeOK, Process
    <2>5. QED BY <2>1, <2>3, <2>4, RestingProcess DEF Opened
  <1>4. CASE Next /\ \A p \in Procs : ~PrepareAgain(p) /\ ~Prepare(p)
    <2>1. Away
      BY <1>4, StepAway DEF IInv
    <2>2. \A b \in Attempts : rows[b].status # "absent" => rows'[b].status # "absent"
      <3>1. ASSUME NEW p \in Procs, Claim(p) PROVE Keeps(rows, rows')
        BY <1>1, <3>1, SmallWritesKeep DEF Claim, At, Delivering, IInv, TypeOK
      <3>2. ASSUME NEW p \in Procs, Send(p) PROVE rows' = rows
        BY <3>2 DEF Send, store
      <3>3. QED BY <1>4, <3>1, <3>2, StepKinds DEF Quiet, Keeps
    <2>3. \A q \in Procs : proc'[q].step = "send"
             => proc[q].step \in {"claim", "send"} /\ proc'[q].a = proc[q].a
      <3>1. CASE Quiet
        BY <3>1 DEF Quiet
      <3>2. ASSUME NEW p \in Procs, Claim(p)
            PROVE  \A q \in Procs : proc'[q].step = "send"
                      => proc[q].step \in {"claim", "send"} /\ proc'[q].a = proc[q].a
        <4>1. PICK st \in {"send", "raise"} :
                 \/ proc' = [proc EXCEPT ![p] = [proc[p] EXCEPT !.step = st]]
                 \/ proc' = [proc EXCEPT ![p] = Down]
          BY <3>2, Zenon DEF Claim, Emit
        <4>2. proc[p].step = "claim" /\ Down.step # "send"
          BY <3>2, RestingProcess DEF Claim, At
        <4>3. QED BY <4>1, <4>2 DEF IInv, TypeOK, Process
      <3>3. ASSUME NEW p \in Procs, Send(p)
            PROVE  \A q \in Procs : proc'[q].step = "send"
                      => proc[q].step = "send" /\ proc'[q].a = proc[q].a
        <4>1. PICK st \in {"sent", "failed", "refused"} :
                 proc' = [proc EXCEPT ![p].step = st]
          BY <3>3 DEF Send, Goto
        <4>2. QED BY <4>1 DEF IInv, TypeOK, Process
      <3>4. QED BY <1>4, <3>1, <3>2, <3>3, StepKinds
    <2>4. QED BY <2>1, <2>2, <2>3 DEF Opened, Away
  <1>5. QED BY <1>0, <1>2, <1>3, <1>4

LEMMA OpenedAlways == Spec => []Opened
  <1>1. Init => Opened
    BY RestingProcess DEF Init, Opened
  <1>2. IInv /\ Opened /\ [Next]_vars => Opened'
    BY OpenedStep
  <1>3. QED BY <1>1, <1>2, Invariance, PTL DEF Spec

(* The store and its runtime implement the abstract lanes: an attempt is   *)
(* opened once and ends its predecessor in the same step, an ended one is  *)
(* never live again, and a briefing goes out after its attempt was opened, *)
(* once under enforcement: any number of processes, sweeps and deaths.     *)
THEOREM LanesRefinement == Spec => ImplementsLanes
<1>1. Init => Ledger!Init
  <2>1. \A a \in Attempts : EmptyRows[a].status = "absent"
    BY DEF EmptyRows, AbsentRow
  <2>2. \A a \in Attempts : Phase(EmptyRows[a]) = "none"
    BY <2>1, PhaseOf, Zenon
  <2>3. QED BY <2>2 DEF Init, Ledger!Init
<1>2. IInv /\ Opened /\ [Next]_vars => [Ledger!Next]_(Ledger!vars)
  <2> SUFFICES ASSUME IInv, Opened, [Next]_vars
               PROVE  Ledger!Next \/ UNCHANGED Ledger!vars
    OBVIOUS
  <2>1. CASE UNCHANGED vars
    BY <2>1 DEF vars, store, env, Ledger!vars
  <2>2. CASE Quiet
    BY <2>2, KeepingStep DEF Quiet
  <2>3. ASSUME NEW p \in Procs, Claim(p)
        PROVE  Ledger!Next
    <3>1. proc[p].a \in Attempts
      BY <2>3 DEF Opened, Claim, At
    <3>2. Keeps(rows, rows') /\ deliveries' = deliveries
      BY <2>3, <3>1, SmallWritesKeep DEF Claim, IInv, TypeOK, env
    <3>3. QED BY <3>2, KeepingStep
  <2>4. QED BY <2>1, <2>2, <2>3, StepKinds, EnsureBegins, SendHands
<1>3. QED BY <1>1, <1>2, Invariance, OpenedAlways, PTL
         DEF Spec, ImplementsLanes, Ledger!Spec

-----------------------------------------------------------------------------
(* What the log explains: parked rows and rows closed by an operation      *)

(* The sweep's reading of a row and the stored row have the same birth.    *)
ViewBorn ==
    \A b \in Attempts : rec.view[b].status # "absent" =>
        rows[b].status # "absent" /\ rec.view[b].born = rows[b].born

ExplainedInv == OperationFailureIsOwn /\ DeadletterExplained /\ ViewBorn

(* A write of the store that keeps every birth, blames no operation and    *)
(* parks no row.                                                           *)
Plain(r, s) ==
    \A b \in Attempts :
        /\ r[b].status # "absent" => s[b].status # "absent" /\ s[b].born = r[b].born
        /\ s[b].class = "operation" => r[b].class = "operation" /\ s[b].born = r[b].born
        /\ s[b].status = "deadlettered" => r[b].status = "deadlettered"

LEMMA PlainSmall ==
    ASSUME NEW r \in [Attempts -> Row], NEW a \in Attempts
    PROVE  /\ Plain(r, r)
           /\ Plain(r, ClaimDelivery(r, a))
           /\ Plain(r, MarkSent(r, a))
           /\ \A l \in BOOLEAN : Plain(r, [r EXCEPT ![a].lapsed = l])
           /\ Plain(r, RenewLease(r, a))
  <1>1. Plain(r, r)
    BY DEF Plain
  <1>2. Plain(r, ClaimDelivery(r, a))
    BY DEF Plain, ClaimDelivery, Row
  <1>3. Plain(r, MarkSent(r, a))
    BY DEF Plain, MarkSent, Row
  <1>4. \A l \in BOOLEAN : Plain(r, [r EXCEPT ![a].lapsed = l])
    BY DEF Plain, Row
  <1>5. Plain(r, RenewLease(r, a))
    BY <1>1, <1>4, Zenon DEF RenewLease
  <1>6. QED BY <1>1, <1>2, <1>3, <1>4, <1>5, Zenon

(* update() with a class that blames no operation.                         *)
LEMMA PlainUpdate ==
    ASSUME NEW r \in [Attempts -> Row], NEW a \in Attempts,
           NEW st \in Statuses \ {"deadlettered"}, NEW cl, cl # "operation",
           NEW re, NEW ow
    PROVE  Plain(r, Update(r, a, st, cl, re, ow))
  <1>1. CASE r[a].status = "absent"
    BY <1>1, PlainSmall DEF Update
  <1>2. CASE r[a].status # "absent"
    <2> DEFINE u == Update(r, a, st, cl, re, ow)
    <2>1. u = [r EXCEPT ![a] = [r[a] EXCEPT !.status = st, !.class = Given(cl, r[a].class),
                                  !.retryable = Given(re, r[a].retryable),
                                  !.owner = Given(ow, r[a].owner)]]
      BY <1>2, Zenon DEF Update, Row
    <2>2. st # "absent" /\ st # "deadlettered"
      BY DEF Statuses, Active
    <2>3. Given(cl, r[a].class) = "operation" => r[a].class = "operation"
      BY Zenon DEF Given
    <2> HIDE DEF u
    <2>4. u[a].status = st /\ u[a].class = Given(cl, r[a].class) /\ u[a].born = r[a].born
      BY <2>1 DEF Row
    <2>5. \A b \in Attempts \ {a} : u[b] = r[b]
      BY <2>1
    <2>6. Plain(r, u)
      BY <2>2, <2>3, <2>4, <2>5, Zenon DEF Plain
    <2>7. QED BY <2>6 DEF u
  <1>3. QED BY <1>1, <1>2

LEMMA PlainExpire ==
    ASSUME NEW r \in [Attempts -> Row]
    PROVE  Plain(r, Expire(r))
  <1> DEFINE lapse(b) == [r[b] EXCEPT !.status = "expired", !.class = "lease_expired",
                                     !.retryable = "yes", !.owner = "scheduler"]
  <1>1. \A b \in Attempts : /\ lapse(b).status = "expired" /\ lapse(b).class = "lease_expired"
                            /\ lapse(b).born = r[b].born
    BY DEF Row
  <1>2. \A b \in Attempts : Expire(r)[b] = IF b \in Expiring(r) THEN lapse(b) ELSE r[b]
    BY DEF Expire
  <1> HIDE DEF lapse
  <1>3. QED BY <1>1, <1>2, Zenon DEF Plain

(* ensure_for_dispatch: the new row starts clean.                          *)
LEMMA PlainEnsure ==
    ASSUME NEW r \in [Attempts -> Row], NEW c, NEW a \in Attempts, NEW now \in Nat,
           r[a].status = "absent"
    PROVE  Plain(r, EnsureRows(r, c, a, now))
  <1> DEFINE slot == NextSlot(r, LaneOf[a])
             new == [AbsentRow EXCEPT !.status = "prepared", !.series = slot.series,
                                      !.ordinal = slot.ordinal, !.born = now]
             old(b) == [r[b] EXCEPT !.status = "superseded"]
  <1>1. new.status = "prepared" /\ new.class = "none"
    BY DEF AbsentRow
  <1>2. \A b \in Attempts : /\ old(b).status = "superseded" /\ old(b).class = r[b].class
                            /\ old(b).born = r[b].born
    BY DEF Row
  <1>3. \A b \in Attempts : EnsureRows(r, c, a, now)[b] =
            IF b = a THEN new ELSE IF b \in Supersedes(r, c, a) THEN old(b) ELSE r[b]
    BY DEF EnsureRows
  <1> HIDE DEF new, old
  <1>4. QED BY <1>1, <1>2, <1>3, Zenon DEF Plain

(* A failed operation event about b.                                       *)
Answered(b) ==
    \E i \in DOMAIN ops :
        /\ ops[i].kind = "failed" /\ ops[i].lane = LaneOf[b]
        /\ ops[i].src = b \/ (ops[i].src = NoAttempt /\ rows[b].born <= ops[i].at)

(* A step whose writes the log accounts for: a row newly closed by an      *)
(* operation has its event, a row newly parked its failed occurrence; logs *)
(* only grow, and the sweep reads rows as they are.                        *)
Accounted ==
    /\ occ \subseteq occ'
    /\ \A i \in DOMAIN ops : i \in DOMAIN ops' /\ ops'[i] = ops[i]
    /\ \A b \in Attempts :
        /\ rows[b].status # "absent" =>
              rows'[b].status # "absent" /\ rows'[b].born = rows[b].born
        /\ rows'[b].class = "operation" =>
              /\ rows[b].class = "operation" \/ Answered(b)
              /\ rows'[b].born = rows[b].born
        /\ rows'[b].status = "deadlettered" =>
              rows[b].status = "deadlettered" \/ <<"failed", b>> \in occ'
        /\ rec'.view[b].status # "absent" =>
              \/ rec'.view[b] = rec.view[b]
              \/ rows'[b].status # "absent" /\ rec'.view[b].born = rows'[b].born

LEMMA AccountedExplains ==
    ASSUME ExplainedInv, Accounted
    PROVE  ExplainedInv'
  <1>1. OperationFailureIsOwn'
    <2>1. SUFFICES ASSUME NEW b \in Attempts, rows'[b].class = "operation"
                   PROVE  \E i \in DOMAIN ops' :
                            /\ ops'[i].kind = "failed" /\ ops'[i].lane = LaneOf[b]
                            /\ \/ ops'[i].src = b
                               \/ ops'[i].src = NoAttempt /\ rows'[b].born <= ops'[i].at
      BY DEF OperationFailureIsOwn
    <2>2. Answered(b) /\ rows'[b].born = rows[b].born
      BY <2>1, Zenon DEF ExplainedInv, OperationFailureIsOwn, Accounted, Answered
    <2>3. PICK i \in DOMAIN ops :
            /\ ops[i].kind = "failed" /\ ops[i].lane = LaneOf[b]
            /\ ops[i].src = b \/ (ops[i].src = NoAttempt /\ rows[b].born <= ops[i].at)
      BY <2>2 DEF Answered
    <2>4. i \in DOMAIN ops' /\ ops'[i] = ops[i]
      BY DEF Accounted
    <2>5. QED BY <2>2, <2>3, <2>4
  <1>2. DeadletterExplained'
    BY DEF ExplainedInv, DeadletterExplained, Accounted
  <1>3. ViewBorn'
    BY Zenon DEF ExplainedInv, ViewBorn, Accounted
  <1>4. QED BY <1>1, <1>2, <1>3 DEF ExplainedInv

(* A step that writes the store plainly.                                   *)
LEMMA PlainAccounted ==
    ASSUME Plain(rows, rows'), occ \subseteq occ', ops' = ops,
           rec'.view = rec.view \/ rec'.view = EmptyRows \/ rec'.view = rows'
    PROVE  Accounted
  <1>1. \A b \in Attempts : EmptyRows[b].status = "absent"
    BY DEF EmptyRows, AbsentRow
  <1>2. QED BY <1>1, Zenon DEF Accounted, Plain

LEMMA EmitGrows ==
    ASSUME NEW p, NEW os, NEW n, Emit(p, os, n)
    PROVE  occ \subseteq occ'
  BY DEF Emit

LEMMA TwoIsOne == ASSUME NEW k \in 0..4, k >= 2 PROVE k >= 1
  OBVIOUS

(* Recording a failure: the occurrence is written before the row.          *)
LEMMA FailureAccounted ==
    ASSUME TypeOK, NEW a \in Attempts, NEW flag, NEW k \in 0..4,
           occ \cup FailureOcc(a, flag, k) \subseteq occ',
           rows' = IF k >= 2 THEN FailureRows(a, flag) ELSE rows,
           ops' = ops, rec'.view = rec.view
    PROVE  Accounted
  <1>0. rows \in [Attempts -> Row] /\ Plain(rows, rows)
    BY PlainSmall DEF TypeOK
  <1>1. CASE rows' = rows
    BY <1>0, <1>1, PlainAccounted
  <1>2. CASE rows' # rows
    <2> DEFINE ow == IF IsPipeline(a) THEN "" ELSE "human"
    <2>1. rows' = Update(rows, a, "deadlettered", "", "no", ow) /\ k >= 2
      BY <1>2, Zenon DEF FailureRows
    <2>2. <<"failed", a>> \in occ' /\ occ \subseteq occ'
      <3>1. k >= 1
        BY <2>1, TwoIsOne, Zenon
      <3>2. <<"failed", a>> \in FailureOcc(a, flag, k)
        BY <3>1, Zenon DEF FailureOcc
      <3>3. QED BY <3>2
    <2>3. rows[a].status # "absent"
      BY <1>2, <2>1, Zenon DEF Update
    <2> HIDE DEF ow
    <2>4. rows' = [rows EXCEPT ![a] = [rows[a] EXCEPT !.status = "deadlettered",
                                  !.class = rows[a].class, !.retryable = "no",
                                  !.owner = Given(ow, rows[a].owner)]]
      BY <1>0, <2>1, <2>3, Zenon DEF Update, Given, Row
    <2>5. /\ rows'[a].status = "deadlettered" /\ rows'[a].class = rows[a].class
          /\ rows'[a].born = rows[a].born
      <3>1. rows[a] \in Row /\ rows'[a] = [rows[a] EXCEPT !.status = "deadlettered",
                                  !.class = rows[a].class, !.retryable = "no",
                                  !.owner = Given(ow, rows[a].owner)]
        BY <1>0, <2>4
      <3>2. QED BY <3>1, Zenon DEF Row
    <2>6. \A b \in Attempts \ {a} : rows'[b] = rows[b]
      BY <1>0, <2>4
    <2>7. \A b \in Attempts : rec'.view[b] = rec.view[b]
      OBVIOUS
    <2>8. QED BY <2>2, <2>3, <2>5, <2>6, <2>7 DEF Accounted
  <1>3. QED BY <1>1, <1>2

(* Steps of a delivery.                                                    *)
LEMMA DeliverAccounted ==
    ASSUME IInv, NEW p \in Procs, Deliver(p)
    PROVE  Accounted
  <1> DEFINE a == proc[p].a
  <1>0. rows \in [Attempts -> Row] /\ clock \in Nat /\ Plain(rows, rows)
    BY PlainSmall DEF IInv, TypeOK, Plain
  <1>1. a \in Attempts
          \/ ~(\/ At(p, "prepare") \/ At(p, "claim") \/ At(p, "sent") \/ At(p, "failed")
               \/ At(p, "refused") \/ At(p, "failing") \/ At(p, "refusing"))
    BY DEF IInv, Busy, Bound, At, Delivering
  <1>2. CASE PrepareAgain(p) \/ Exhaust(p) \/ BlockExhausted(p) \/ Send(p) \/ Raise(p)
    <2>1. rows' = rows /\ ops' = ops /\ rec' = rec
      BY <1>2 DEF PrepareAgain, Exhaust, BlockExhausted, Send, Raise, store
    <2>2. occ \subseteq occ'
      BY <1>2, EmitGrows DEF PrepareAgain, Exhaust, BlockExhausted, Send, Raise
    <2>3. QED BY <2>1, <2>2, <1>0, PlainAccounted
  <1>3. CASE Prepare(p)
    <2>1. Plain(rows, rows')
      BY <1>0, <1>1, <1>3, PlainEnsure DEF Prepare
    <2>2. QED BY <1>3, <2>1, EmitGrows, PlainAccounted DEF Prepare
  <1>4. CASE Claim(p)
    <2>1. Plain(rows, rows')
      BY <1>0, <1>1, <1>4, PlainSmall DEF Claim
    <2>2. QED BY <1>4, <2>1, EmitGrows, PlainAccounted DEF Claim
  <1>5. CASE MarkTaskAttemptSent(p)
    <2>1. Plain(rows, rows')
      BY <1>0, <1>1, <1>5, PlainSmall DEF MarkTaskAttemptSent
    <2>2. QED BY <1>5, <2>1, EmitGrows, PlainAccounted DEF MarkTaskAttemptSent
  <1>6. CASE FailTaskAttemptDelivery(p)
    <2>1. Plain(rows, rows')
      BY <1>0, <1>1, <1>6, PlainUpdate, Zenon DEF FailTaskAttemptDelivery, Statuses
    <2>2. QED BY <1>6, <2>1, PlainAccounted DEF FailTaskAttemptDelivery
  <1>7. CASE RecordDeliveryFailure(p)
    <2>1. PICK k \in 1..3, flag \in {"yes", "no"} :
            /\ occ' = occ \cup FailureOcc(a, flag, k)
            /\ rows' = IF k >= 2 THEN FailureRows(a, flag) ELSE rows
      BY <1>7 DEF RecordDeliveryFailure
    <2>2. a \in Attempts /\ ops' = ops /\ rec' = rec
      BY <1>1, <1>7 DEF RecordDeliveryFailure
    <2> HIDE DEF a
    <2>3. QED BY <2>1, <2>2, FailureAccounted DEF IInv
  <1>8. QED BY <1>2, <1>3, <1>4, <1>5, <1>6, <1>7 DEF Deliver

LEMMA ElementOf ==
    ASSUME NEW S, NEW s \in Seq(S), NEW i \in 1..Len(s)
    PROVE  s[i] \in S /\ i \in DOMAIN s
  OBVIOUS

(* Settling the row a of an operation event of the log, read in view.      *)
LEMMA SettleAccounted ==
    ASSUME IInv, NEW i \in 1..Len(ops), NEW view, NEW a \in Settles(view, ops[i]),
           \A b \in Attempts : view[b].status # "absent" =>
                rows[b].status # "absent" /\ view[b].born = rows[b].born,
           rows' = SettledRows(a, ops[i].kind), occ \subseteq occ', ops' = ops,
           \/ rec'.view = rec.view
           \/ rec'.view = [rec.view EXCEPT ![a] = rows'[a]]
    PROVE  Accounted
  <1> DEFINE k == ops[i].kind
  <1>0. /\ rows \in [Attempts -> Row] /\ ops[i] \in OperationEvent /\ i \in DOMAIN ops
        /\ rec.view \in [Attempts -> Row]
    <2>1. rows \in [Attempts -> Row] /\ ops \in Seq(OperationEvent) /\ rec \in Sweep
      BY Zenon DEF IInv, TypeOK
    <2>2. ops[i] \in OperationEvent /\ i \in DOMAIN ops
      BY <2>1, ElementOf, Zenon
    <2>3. rec.view \in [Attempts -> Row]
      BY <2>1 DEF Sweep
    <2>4. QED BY <2>1, <2>2, <2>3, Zenon
  <1>1. a \in LaneRows(view, ops[i].lane) /\ a \in Attempts
    BY Zenon DEF Settles, LaneRows, Known
  <1>2. rows[a].status # "absent" /\ view[a].born = rows[a].born /\ ops[i].lane = LaneOf[a]
    BY <1>1 DEF LaneRows, Known
  <1>3. k = "failed" => ops[i].src = a \/ (ops[i].src = NoAttempt /\ rows[a].born <= ops[i].at)
    BY <1>2, Zenon DEF Settles
  <1>4. k \in {"settled_ok", "settled_bad", "failed", "superseded"}
    BY <1>0 DEF OperationEvent
  <1>5. {"succeeded", "failed", "superseded"} \subseteq Statuses \ {"deadlettered"}
    BY DEF Statuses
  <1>6. \A b \in Attempts :
            /\ rows[b].status # "absent" =>
                  rows'[b].status # "absent" /\ rows'[b].born = rows[b].born
            /\ rows'[b].class = "operation" =>
                  /\ rows[b].class = "operation" \/ Answered(b)
                  /\ rows'[b].born = rows[b].born
            /\ rows'[b].status = "deadlettered" => rows[b].status = "deadlettered"
    <2>1. CASE k # "failed"
      <3> HIDE DEF k
      <3>1. Plain(rows, SettledRows(a, k))
        BY <1>0, <1>1, <1>4, <1>5, <2>1, PlainUpdate, Zenon DEF SettledRows
      <3>2. QED BY <3>1 DEF Plain, k
    <2>2. CASE k = "failed"
      <3>1. Answered(a)
        BY <1>0, <1>2, <1>3, <2>2 DEF Answered
      <3>2. rows' = Update(rows, a, "failed", "operation", "no", "workflow")
        BY <2>2 DEF SettledRows
      <3>3. rows' = [rows EXCEPT ![a] = [rows[a] EXCEPT !.status = "failed",
                       !.class = "operation", !.retryable = "no", !.owner = "workflow"]]
        BY <1>0, <1>2, <3>2, Zenon DEF Update, Given, Row
      <3>4. rows[a] \in Row /\ rows'[a] = [rows[a] EXCEPT !.status = "failed",
                       !.class = "operation", !.retryable = "no", !.owner = "workflow"]
        BY <1>0, <1>1, <3>3
      <3>5. rows'[a].status = "failed" /\ rows'[a].born = rows[a].born
        BY <3>4 DEF Row
      <3>6. \A b \in Attempts \ {a} : rows'[b] = rows[b]
        BY <1>0, <3>3
      <3>7. QED BY <3>1, <3>5, <3>6
    <2>3. QED BY <2>1, <2>2, Zenon
  <1>7. \A b \in Attempts : rec'.view[b] = rec.view[b]
                            \/ (b = a /\ rec'.view[b] = rows'[b])
    BY <1>0, <1>1
  <1>8. \A b \in Attempts : rec'.view[b].status # "absent" =>
              \/ rec'.view[b] = rec.view[b]
              \/ rows'[b].status # "absent" /\ rec'.view[b].born = rows'[b].born
    BY <1>7
  <1>9. QED BY <1>0, <1>6, <1>8, Zenon DEF Accounted

(* Steps of the sweep.                                                     *)
LEMMA ReconcileAccounted ==
    ASSUME IInv, ViewBorn, Reconcile
    PROVE  Accounted
  <1>0. rows \in [Attempts -> Row] /\ rec \in Sweep /\ Plain(rows, rows)
    BY PlainSmall DEF IInv, TypeOK, Plain
  <1>1. CASE ReconcileSettle
    <2>1. rec.pos \in 1..Len(ops)
      <3>1. rec.pos \in Nat /\ rec.snap \in Nat /\ Len(ops) \in Nat
        BY <1>0, LogLength DEF IInv, Sweep
      <3>2. rec.pos >= 1 /\ rec.snap <= Len(ops) /\ rec.pos <= rec.snap
        BY <1>1, Zenon DEF IInv, SweepInLog, ReconcileSettle
      <3>3. QED BY <3>1, <3>2
    <2>2. CASE rec' = [rec EXCEPT !.pos = @ + 1] /\ UNCHANGED <<rows, occ>>
      <3>1. rec'.view = rec.view /\ ops' = ops
        BY <1>0, <1>1, <2>2, Zenon DEF Sweep, ReconcileSettle
      <3>2. QED BY <1>0, <2>2, <3>1, PlainAccounted
    <2>3. CASE \E a \in Settles(rec.view, ops[rec.pos]) :
                /\ rows' = SettledRows(a, ops[rec.pos].kind)
                /\ rec' = [rec EXCEPT !.pos = @ + 1, !.view[a] = rows'[a]]
                /\ Emit(Kernel, << <<SettledOcc(ops[rec.pos].kind), a>> >>, proc[Kernel])
      <3>1. PICK a \in Settles(rec.view, ops[rec.pos]) :
                /\ rows' = SettledRows(a, ops[rec.pos].kind)
                /\ rec' = [rec EXCEPT !.pos = @ + 1, !.view[a] = rows'[a]]
                /\ Emit(Kernel, << <<SettledOcc(ops[rec.pos].kind), a>> >>, proc[Kernel])
        BY <2>3, Zenon
      <3>2. rec'.view = [rec.view EXCEPT ![a] = rows'[a]]
        BY <1>0, <3>1 DEF Sweep
      <3>3. occ \subseteq occ' /\ ops' = ops
        BY <1>1, <3>1, EmitGrows, Zenon DEF ReconcileSettle
      <3>4. QED BY <2>1, <3>1, <3>2, <3>3, SettleAccounted, Zenon DEF ViewBorn
    <2>4. QED BY <1>1, <2>2, <2>3, Zenon DEF ReconcileSettle
  <1>2. CASE ReconcileExpire
    <2>1. Plain(rows, rows') /\ rec'.view = EmptyRows
      BY <1>0, <1>2, PlainExpire DEF ReconcileExpire, NoSweep
    <2>2. QED BY <1>2, <2>1, PlainAccounted DEF ReconcileExpire
  <1>3. CASE ReconcileScan \/ ReconcileEnd
    <2>1. rows' = rows /\ ops' = ops /\ occ' = occ
      BY <1>3 DEF ReconcileScan, ReconcileEnd, store
    <2>2. rec'.view = rows' \/ rec'.view = EmptyRows
      <3>1. CASE ReconcileScan
        BY <2>1, <3>1 DEF ReconcileScan, NoSweep
      <3>2. CASE ReconcileEnd
        BY <3>2 DEF ReconcileEnd, NoSweep
      <3>3. QED BY <1>3, <3>1, <3>2
    <2>3. QED BY <1>0, <2>1, <2>2, PlainAccounted
  <1>4. CASE \E a \in Attempts : ReconcileMark(a)
    <2>1. PICK a \in Attempts : ReconcileMark(a)
      BY <1>4
    <2>2. Plain(rows, rows') /\ rec'.view = rec.view
      BY <1>0, <2>1, PlainUpdate, Zenon DEF ReconcileMark, Statuses, Sweep
    <2>3. QED BY <2>1, <2>2, PlainAccounted, Zenon DEF ReconcileMark
  <1>5. CASE \E a \in Attempts : ReconcileStarted(a)
    <2>1. PICK a \in Attempts : ReconcileStarted(a)
      BY <1>5
    <2>2. rows' = rows /\ rec'.view = rec.view
      BY <1>0, <2>1 DEF ReconcileStarted, store, Sweep
    <2>3. QED BY <1>0, <2>1, <2>2, PlainAccounted DEF ReconcileStarted
  <1>6. CASE \E a \in Attempts : ReconcileRow(a)
    <2>1. PICK a \in Attempts : ReconcileRow(a)
      BY <1>6
    <2>2. PICK k \in 0..4, interrupted \in Interrupts(a) :
            /\ occ' = occ \cup {<<"started", a>>} \cup interrupted \cup FailureOcc(a, "yes", k)
            /\ rows' = IF k = 4 /\ ~Enforce
                       THEN Update(IF k >= 2 THEN FailureRows(a, "yes") ELSE rows,
                                   a, "failed", "", "", "")
                       ELSE IF k >= 2 THEN FailureRows(a, "yes") ELSE rows
            /\ rec' = [rec EXCEPT !.todo = @ \ {a}] \/ rec' = rec
      BY <2>1, Zenon DEF ReconcileRow
    <2>3. ops' = ops /\ rec'.view = rec.view
      BY <1>0, <2>1, <2>2, Zenon DEF ReconcileRow, Sweep
    <2>4. CASE k = 4 /\ ~Enforce
      <3>1. rows' = Update(rows, a, "failed", "", "", "")
        BY <2>2, <2>4, Zenon DEF FailureRows, Deadletters
      <3>2. Plain(rows, rows')
        BY <1>0, <3>1, PlainUpdate, Zenon DEF Statuses
      <3>3. QED BY <2>2, <2>3, <3>2, PlainAccounted, Zenon
    <2>5. CASE ~(k = 4 /\ ~Enforce)
      <3>1. occ \cup FailureOcc(a, "yes", k) \subseteq occ'
        BY <2>2, Zenon
      <3>2. rows' = IF k >= 2 THEN FailureRows(a, "yes") ELSE rows
        BY <2>2, <2>5, Zenon
      <3>3. QED BY <2>3, <3>1, <3>2, FailureAccounted DEF IInv
    <2>6. QED BY <2>4, <2>5
  <1>7. QED BY <1>1, <1>2, <1>3, <1>4, <1>5, <1>6 DEF Reconcile

LEMMA NextAccounted ==
    ASSUME IInv, ViewBorn, Next
    PROVE  Accounted
  <1>0. /\ rows \in [Attempts -> Row] /\ current \in [Lanes -> Attempts \cup {NoAttempt}]
        /\ Plain(rows, rows)
    BY PlainSmall DEF IInv, TypeOK, Plain
  <1>1. CASE \E p \in Procs : Deliver(p)
    BY <1>1, DeliverAccounted
  <1>2. CASE \/ \E p \in Procs : Crash(p) \/ Restart(p)
             \/ \E p \in Procs, a \in Attempts, c \in {"scheduler", "rework", "child"} :
                    Dispatch(p, a, c)
             \/ \E a \in Attempts : WorkerDies(a) \/ ClearActiveDispatch(a)
             \/ ReconcileBegin
    <2>1. rows' = rows /\ ops' = ops /\ occ' = occ
      BY <1>2, Zenon DEF Crash, Restart, Dispatch, WorkerDies, ClearActiveDispatch,
                  ReconcileBegin, store
    <2>2. rec'.view = rec.view \/ rec'.view = EmptyRows \/ rec'.view = rows'
      <3>1. CASE ReconcileBegin
        BY <2>1, <3>1 DEF ReconcileBegin, NoSweep
      <3>2. CASE rec' = rec \/ rec' = NoSweep
        BY <3>2 DEF NoSweep
      <3>3. QED
        BY <1>2, <3>1, <3>2, Zenon DEF Crash, Restart, Dispatch, WorkerDies, ClearActiveDispatch
    <2>3. QED BY <1>0, <2>1, <2>2, PlainAccounted
  <1>3. CASE \E a \in Attempts, named \in BOOLEAN : Heartbeat(a, named)
    <2>1. PICK cur : rows' = RenewLease(rows, cur) /\ cur \in Attempts
      BY <1>0, <1>3, CurrentTypes DEF Heartbeat, IInv
    <2>2. QED BY <1>0, <1>3, <2>1, PlainSmall, PlainAccounted DEF Heartbeat
  <1>4. CASE \E a \in Attempts, ok \in BOOLEAN : SettleResult(a, ok)
    <2>1. PICK a \in Attempts, ok \in BOOLEAN : SettleResult(a, ok)
      BY <1>4
    <2>2. Plain(rows, rows')
      BY <1>0, <2>1, PlainUpdate, Zenon DEF SettleResult, Statuses
    <2>3. QED BY <2>1, <2>2, EmitGrows, PlainAccounted, Zenon DEF SettleResult
  <1>5. CASE \E a \in Attempts : LeaseLapses(a)
    BY <1>0, <1>5, PlainSmall, PlainAccounted, Zenon DEF LeaseLapses
  <1>6. CASE \E a \in Attempts : ProviderStops(a)
    <2>1. PICK a \in Attempts : ProviderStops(a)
      BY <1>6
    <2>2. Plain(rows, rows')
      BY <1>0, <2>1, PlainUpdate, Zenon DEF ProviderStops, Statuses
    <2>3. QED BY <2>1, <2>2, PlainAccounted DEF ProviderStops
  <1>7. CASE \E l \in Lanes, src \in Attempts \cup {NoAttempt},
                kind \in {"settled_ok", "settled_bad", "failed", "superseded"} :
                OperationEnds(l, kind, src)
    <2>1. PICK e : ops' = Append(ops, e)
      BY <1>7 DEF OperationEnds
    <2>2. rows' = rows /\ occ' = occ /\ rec' = rec
      BY <1>7 DEF OperationEnds, store
    <2>3. \A i \in DOMAIN ops : i \in DOMAIN ops' /\ ops'[i] = ops[i]
      <3>1. ops \in Seq(OperationEvent)
        BY DEF IInv, TypeOK
      <3>2. QED BY <2>1, <3>1
    <2>4. QED BY <2>2, <2>3 DEF Accounted
  <1>8. CASE \E i \in DOMAIN ops : SettleOperation(i)
    <2>1. PICK i \in DOMAIN ops : SettleOperation(i)
      BY <1>8
    <2>2. i \in 1..Len(ops)
      BY DEF IInv, TypeOK
    <2>3. PICK a \in Settles(rows, ops[i]) : rows' = SettledRows(a, ops[i].kind)
      BY <2>1 DEF SettleOperation
    <2>4. occ \subseteq occ' /\ ops' = ops /\ rec' = rec
      BY <2>1, EmitGrows DEF SettleOperation
    <2>5. QED BY <2>2, <2>3, <2>4, SettleAccounted
  <1>9. CASE RecordProviderStop
    <2> DEFINE a == proc[Kernel].a
    <2>1. a \in Attempts
      BY <1>9, RuntimeAssumption DEF IInv, Busy, Bound, RecordProviderStop, At, Delivering
    <2>2. PICK k \in 0..3, interrupted \in Interrupts(a) :
            /\ occ' = occ \cup interrupted \cup FailureOcc(a, "yes", k)
            /\ rows' = IF k >= 2 THEN FailureRows(a, "yes") ELSE rows
      BY <1>9 DEF RecordProviderStop
    <2>3. ops' = ops /\ rec' = rec
      BY <1>9 DEF RecordProviderStop
    <2> HIDE DEF a
    <2>4. occ \cup FailureOcc(a, "yes", k) \subseteq occ' /\ k \in 0..4
      BY <2>2
    <2>5. QED BY <2>1, <2>2, <2>3, <2>4, FailureAccounted DEF IInv
  <1>10. CASE Reconcile
    BY <1>10, ReconcileAccounted
  <1>11. QED
    BY <1>1, <1>2, <1>3, <1>4, <1>5, <1>6, <1>7, <1>8, <1>9, <1>10 DEF Next

LEMMA ExplainedInvariance == Spec => []ExplainedInv
  <1>1. Init => ExplainedInv
    <2> SUFFICES ASSUME Init PROVE ExplainedInv
      OBVIOUS
    <2>1. rows = EmptyRows /\ rec.view = EmptyRows
      BY DEF Init, NoSweep
    <2>2. \A b \in Attempts : EmptyRows[b].status = "absent" /\ EmptyRows[b].class = "none"
      BY DEF EmptyRows, AbsentRow
    <2>3. QED
      BY <2>1, <2>2 DEF ExplainedInv, OperationFailureIsOwn, DeadletterExplained, ViewBorn
  <1>2. IInv /\ ExplainedInv /\ [Next]_vars => ExplainedInv'
    <2>1. CASE Next
      BY <2>1, NextAccounted, AccountedExplains DEF ExplainedInv
    <2>2. CASE UNCHANGED vars
      <3>1. rows' = rows /\ occ' = occ /\ rec' = rec /\ ops' = ops
        BY <2>2 DEF vars
      <3>2. QED
        BY <3>1 DEF ExplainedInv, OperationFailureIsOwn, DeadletterExplained, ViewBorn
    <2>3. QED BY <2>1, <2>2
  <1>3. QED BY <1>1, <1>2, Invariance, PTL DEF Spec

(* A row is parked as deadlettered only with its failed occurrence in the  *)
(* log, whatever dies between the two writes of _emit_attempt_failure: for *)
(* any number of processes, attempts and crashes, in either mode.          *)
THEOREM ParkedIsExplained == Spec => []DeadletterExplained
<1>1. ExplainedInv => DeadletterExplained
  BY DEF ExplainedInv
<1>2. QED BY <1>1, ExplainedInvariance, PTL

(* settle_terminal_operation_attempt and the sweep's replay of the log     *)
(* fail a row only for an operation event about it, although the sweep     *)
(* reads the rows once and other processes write them meanwhile.           *)
THEOREM FailedForOwnOperation == Spec => []OperationFailureIsOwn
<1>1. ExplainedInv => OperationFailureIsOwn
  BY DEF ExplainedInv
<1>2. QED BY <1>1, ExplainedInvariance, PTL
=============================================================================
