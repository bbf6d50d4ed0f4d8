------------------------- MODULE TaskOutcomeProofs -------------------------
(***************************************************************************)
(* What TLAPS proves about the outcome of attempts in TaskAttempts with    *)
(* one dispatching process in enforce mode: a success stays, and the retry *)
(* budget is kept, for any attempts, lanes, budget and crashes.            *)
(***************************************************************************)
EXTENDS TaskAttemptsProofs, FiniteSetTheorems

OneDispatcher == Procs = {Kernel} /\ Enforce

(* Steps between a claim (or a provider stop) and the last write about it. *)
Handling == {"send", "sent", "failed", "refused", "failing", "refusing", "stopping"}

(* What a handler is about to write on has not succeeded.                  *)
SuccessInv ==
    /\ proc[Kernel].step \in Handling => rows[proc[Kernel].a].status # "succeeded"
    /\ At(Kernel, "settling") =>
          \A b \in Attempts : rec.view[b].status = rows[b].status
    /\ At(Kernel, "marking") => \A b \in rec.todo : rows[b].status # "succeeded"
    /\ At(Kernel, "rows") => \A b \in rec.todo :
          rec.view[b].status = "expired" => rows[b].status # "succeeded"

(* The rows of a lane that succeeded and are not its last one.             *)
DoneBefore(r, c, l) == {a \in LaneRows(r, l) \ {c[l]} : r[a].status = "succeeded"}

(* The last row's series counts the successes before it, and its slot the  *)
(* rows of the lane.                                                       *)
CountLane(r, c, l) ==
    /\ IsFiniteSet(LaneRows(r, l))
    /\ \A a \in LaneRows(r, l) : r[a].ordinal \in 1..MaxAttempts
    /\ LaneRows(r, l) # {} =>
          /\ r[c[l]].series >= 1
          /\ r[c[l]].series <= 1 + Cardinality(DoneBefore(r, c, l))
          /\ Cardinality(LaneRows(r, l)) <= MaxAttempts * (r[c[l]].series - 1) + r[c[l]].ordinal

CountInv == \A l \in Lanes : CountLane(rows, current, l)

Stays == \A b \in Attempts : rows[b].status = "succeeded" => rows'[b].status = "succeeded"

(* update() writes one row.                                                *)
LEMMA UpdateOnly ==
    ASSUME NEW r \in [Attempts -> Row], NEW a \in Attempts, NEW st, NEW cl, NEW re, NEW ow,
           NEW b \in Attempts, b # a
    PROVE  Update(r, a, st, cl, re, ow)[b] = r[b]
  BY DEF Update

LEMMA UpdateStatus ==
    ASSUME NEW r \in [Attempts -> Row], NEW a \in Attempts, NEW st, NEW cl, NEW re, NEW ow
    PROVE  Update(r, a, st, cl, re, ow)[a].status =
                 IF r[a].status = "absent" THEN "absent" ELSE st
  <1>1. CASE r[a].status = "absent"
    BY <1>1 DEF Update
  <1>2. CASE r[a].status # "absent"
    <2> DEFINE u == Update(r, a, st, cl, re, ow)
               x == [r[a] EXCEPT !.status = st, !.class = Given(cl, r[a].class),
                                 !.retryable = Given(re, r[a].retryable),
                                 !.owner = Given(ow, r[a].owner)]
    <2>1. u = [r EXCEPT ![a] = x]
      BY <1>2, Zenon DEF Update, Row
    <2>2. x.status = st
      BY DEF Row
    <2> HIDE DEF u, x
    <2>3. u[a].status = st
      BY <2>1, <2>2
    <2>4. QED BY <1>2, <2>3 DEF u
  <1>3. QED BY <1>1, <1>2

(* Overwriting a row that has not succeeded.                               *)
LEMMA UpdateStays ==
    ASSUME NEW r \in [Attempts -> Row], NEW a \in Attempts, r[a].status # "succeeded",
           NEW st, NEW cl, NEW re, NEW ow
    PROVE  \A b \in Attempts : r[b].status = "succeeded" =>
               Update(r, a, st, cl, re, ow)[b].status = "succeeded"
  <1>1. \A b \in Attempts : b # a => Update(r, a, st, cl, re, ow)[b] = r[b]
    BY UpdateOnly
  <1>2. QED BY <1>1

(* Recording the failure of such a row.                                    *)
LEMMA FailureStays ==
    ASSUME TypeOK, NEW a \in Attempts, rows[a].status # "succeeded", NEW flag
    PROVE  /\ \A b \in Attempts : rows[b].status = "succeeded" =>
                 FailureRows(a, flag)[b].status = "succeeded"
           /\ \A b \in Attempts \ {a} : FailureRows(a, flag)[b] = rows[b]
  <1>1. CASE Deadletters(a, flag)
    <2>1. PICK ow : FailureRows(a, flag) = Update(rows, a, "deadlettered", "", "no", ow)
      BY <1>1, Zenon DEF FailureRows
    <2>2. rows \in [Attempts -> Row]
      BY DEF TypeOK
    <2>3. \A b \in Attempts : rows[b].status = "succeeded" =>
              Update(rows, a, "deadlettered", "", "no", ow)[b].status = "succeeded"
      BY <2>2, UpdateStays, Zenon
    <2>4. \A b \in Attempts : b # a =>
              Update(rows, a, "deadlettered", "", "no", ow)[b] = rows[b]
      BY <2>2 DEF Update
    <2>5. QED BY <2>1, <2>3, <2>4, Zenon
  <1>2. CASE ~Deadletters(a, flag)
    BY <1>2 DEF FailureRows
  <1>3. QED BY <1>1, <1>2

(* claim_delivery, mark_sent and renew_lease change no settled status.     *)
LEMMA SmallStays ==
    ASSUME NEW r \in [Attempts -> Row], NEW a \in Attempts
    PROVE  /\ \A b \in Attempts : r[b].status = "succeeded" =>
                ClaimDelivery(r, a)[b].status = "succeeded"
           /\ r[a].status = "prepared" => ClaimDelivery(r, a)[a].status = "delivering"
           /\ \A b \in Attempts : r[b].status = "succeeded" =>
                MarkSent(r, a)[b].status = "succeeded"
           /\ \A l \in BOOLEAN, b \in Attempts :
                [r EXCEPT ![a].lapsed = l][b].status = r[b].status
           /\ \A b \in Attempts : RenewLease(r, a)[b].status = r[b].status
  <1>1. /\ \A b \in Attempts : r[b].status = "succeeded" =>
                ClaimDelivery(r, a)[b].status = "succeeded"
        /\ r[a].status = "prepared" => ClaimDelivery(r, a)[a].status = "delivering"
    BY DEF ClaimDelivery, Row
  <1>2. \A b \in Attempts : r[b].status = "succeeded" => MarkSent(r, a)[b].status = "succeeded"
    BY DEF MarkSent, Row
  <1>3. \A l \in BOOLEAN, b \in Attempts : [r EXCEPT ![a].lapsed = l][b].status = r[b].status
    BY DEF Row
  <1>4. \A b \in Attempts : RenewLease(r, a)[b].status = r[b].status
    BY <1>3 DEF RenewLease
  <1>5. QED BY <1>1, <1>2, <1>3, <1>4

(* A kernel that is between two handlers, or has written nothing yet.      *)
LEMMA Between ==
    ASSUME proc'[Kernel].step \in {"idle", "down", "prepare", "claim", "exhausted", "raise"}
    PROVE  SuccessInv'
  BY DEF SuccessInv, Handling, At

LEMMA EmitEnds ==
    ASSUME TypeOK, NEW p \in Procs, NEW os, NEW n, Emit(p, os, n)
    PROVE  proc'[p] = n \/ proc'[p].step = "down"
  BY DEF Emit, TypeOK, Down, Idle

LEMMA GotoStep ==
    ASSUME TypeOK, NEW p \in Procs, NEW s, Goto(p, s)
    PROVE  proc'[p].step = s /\ proc'[p].a = proc[p].a
  <1>1. proc[p] \in Process /\ proc \in [Procs -> Process]
    BY DEF TypeOK
  <1>2. proc'[p] = [proc[p] EXCEPT !.step = s]
    BY <1>1 DEF Goto
  <1>3. QED BY <1>1, <1>2 DEF Process

(* Steps of a delivery.                                                    *)
LEMMA DeliverStays ==
    ASSUME IInv, SuccessInv, OneDispatcher, NEW p \in Procs, Deliver(p)
    PROVE  Stays /\ SuccessInv'
  <1> DEFINE a == proc[p].a
  <1>0. /\ rows \in [Attempts -> Row] /\ p = Kernel /\ Kernel \in Procs
        /\ proc[p] \in Process /\ TypeOK
    BY RuntimeAssumption DEF IInv, TypeOK, OneDispatcher
  <1>1. proc[p].step \in Delivering => a \in Attempts
    BY DEF IInv, Busy, Bound
  <1>2. proc[p].step \in Handling => rows[a].status # "succeeded"
    BY <1>0 DEF SuccessInv
  <1>3. [proc[p] EXCEPT !.step = "claim"].step = "claim"
    BY <1>0 DEF Process
  <1>4. CASE PrepareAgain(p)
    <2>1. rows' = rows /\ proc'[p].step \in {"claim", "down"}
      BY <1>0, <1>3, <1>4, EmitEnds, Zenon DEF PrepareAgain, store
    <2>2. QED BY <1>0, <2>1, Between DEF Stays
  <1>5. CASE Prepare(p)
    <2>1. a \in Attempts
      BY <1>1, <1>5 DEF Prepare, At, Delivering
    <2>2. proc'[p].step \in {"claim", "down"}
      BY <1>0, <1>3, <1>5, EmitEnds, Zenon DEF Prepare
    <2>3. Stays
      <3>1. \A b \in Attempts : rows[b].status = "succeeded" =>
                b # a /\ b \notin Supersedes(rows, current, a)
        BY <1>5 DEF Prepare, Supersedes
      <3>2. \A b \in Attempts : b # a /\ b \notin Supersedes(rows, current, a)
                => rows'[b] = rows[b]
        BY <1>5 DEF Prepare, EnsureRows
      <3>3. QED BY <3>1, <3>2 DEF Stays
    <2>4. QED BY <1>0, <2>2, <2>3, Between
  <1>6. CASE Exhaust(p) \/ BlockExhausted(p) \/ Raise(p)
    <2>1. rows' = rows
      BY <1>6 DEF Exhaust, BlockExhausted, Raise, store
    <2>2. proc'[p].step \in {"exhausted", "raise", "idle"}
      <3>1. CASE Exhaust(p) \/ BlockExhausted(p)
        BY <1>0, <3>1, GotoStep DEF Exhaust, BlockExhausted
      <3>2. CASE Raise(p)
        BY <1>0, <3>2 DEF Raise, Idle, TypeOK
      <3>3. QED BY <1>6, <3>1, <3>2
    <2>3. QED BY <1>0, <2>1, <2>2, Between DEF Stays
  <1>7. CASE Claim(p)
    <2>1. a \in Attempts
      BY <1>1, <1>7 DEF Claim, At, Delivering
    <2>2. Stays
      BY <1>0, <1>7, <2>1, SmallStays DEF Claim, Stays
    <2>3. PICK n : /\ n = [proc[p] EXCEPT !.step = IF rows[a].status = "prepared" \/ ~Enforce
                                                  THEN "send" ELSE "raise"]
                   /\ proc'[p] = n \/ proc'[p].step = "down"
      BY <1>0, <1>7, EmitEnds DEF Claim
    <2>4. /\ n.step = IF rows[a].status = "prepared" THEN "send" ELSE "raise"
          /\ n.a = a
      BY <1>0, <2>3 DEF Process, OneDispatcher
    <2>5. CASE proc'[p] = n /\ rows[a].status = "prepared"
      <3>1. rows'[a].status = "delivering"
        BY <1>0, <1>7, <2>1, <2>5, SmallStays DEF Claim
      <3>2. proc'[Kernel].step = "send" /\ proc'[Kernel].a = a
        BY <1>0, <2>4, <2>5
      <3> HIDE DEF a
      <3>3. SuccessInv'
        BY <3>1, <3>2 DEF SuccessInv, At
      <3>4. QED BY <2>2, <3>3
    <2>6. CASE proc'[p].step \in {"raise", "down"}
      BY <1>0, <2>2, <2>6, Between
    <2>7. QED BY <2>3, <2>4, <2>5, <2>6, Zenon
  <1>8. CASE Send(p)
    <2>1. rows' = rows
      BY <1>8 DEF Send, store
    <2>2. proc'[p].step \in {"sent", "failed", "refused"} /\ proc'[p].a = a
      BY <1>0, <1>8, GotoStep DEF Send
    <2>3. rows[a].status # "succeeded"
      BY <1>2, <1>8 DEF Send, At, Handling
    <2> HIDE DEF a
    <2>4. QED BY <1>0, <2>1, <2>2, <2>3 DEF SuccessInv, At, Stays
  <1>9. CASE MarkTaskAttemptSent(p)
    <2>1. a \in Attempts
      BY <1>1, <1>9 DEF MarkTaskAttemptSent, At, Delivering
    <2>2. proc'[p].step \in {"idle", "down"}
      BY <1>0, <1>9, EmitEnds DEF MarkTaskAttemptSent, Idle
    <2>3. Stays
      BY <1>0, <1>9, <2>1, SmallStays DEF MarkTaskAttemptSent, Stays
    <2>4. QED BY <1>0, <2>2, <2>3, Between
  <1>10. CASE FailTaskAttemptDelivery(p)
    <2>1. a \in Attempts /\ rows[a].status # "succeeded"
      BY <1>1, <1>2, <1>10 DEF FailTaskAttemptDelivery, At, Delivering, Handling
    <2>2. PICK re, ow : rows' = Update(rows, a, "failed", "transport", re, ow)
      BY <1>10 DEF FailTaskAttemptDelivery
    <2>3. Stays /\ rows'[a].status # "succeeded"
      BY <1>0, <2>1, <2>2, UpdateStays, UpdateStatus DEF Stays
    <2>4. proc'[p].step \in {"failing", "refusing"} /\ proc'[p].a = a
      BY <1>0, <1>10, GotoStep DEF FailTaskAttemptDelivery
    <2> HIDE DEF a
    <2>5. QED BY <1>0, <2>3, <2>4 DEF SuccessInv, At
  <1>11. CASE RecordDeliveryFailure(p)
    <2>1. a \in Attempts /\ rows[a].status # "succeeded"
      BY <1>1, <1>2, <1>11 DEF RecordDeliveryFailure, At, Delivering, Handling
    <2>2. PICK flag : rows' = FailureRows(a, flag) \/ rows' = rows
      BY <1>11 DEF RecordDeliveryFailure
    <2>3. Stays
      BY <1>0, <2>1, <2>2, FailureStays DEF Stays
    <2>4. proc'[p].step \in {"raise", "down"}
      <3>1. Goto(p, "raise") \/ proc' = [proc EXCEPT ![p] = Down]
        BY <1>11 DEF RecordDeliveryFailure
      <3>2. QED BY <1>0, <3>1, GotoStep DEF Down, Idle, TypeOK
    <2>5. QED BY <1>0, <2>3, <2>4, Between
  <1>12. QED
    BY <1>4, <1>5, <1>6, <1>7, <1>8, <1>9, <1>10, <1>11 DEF Deliver

(* An operation event settles no row that it reads as succeeded.           *)
LEMMA SettlesOpen ==
    ASSUME NEW view, NEW e, NEW a \in Settles(view, e)
    PROVE  a \in Attempts /\ view[a].status # "succeeded"
  <1>1. a \in Attempts
    BY DEF Settles, LaneRows, Known
  <1>2. view[a].status \in Active \cup {"expired", "failed"}
    BY DEF Settles
  <1>3. QED BY <1>1, <1>2 DEF Active

LEMMA SettledStays ==
    ASSUME TypeOK, NEW i \in 1..Len(ops), NEW a \in Attempts, rows[a].status # "succeeded"
    PROVE  /\ \A b \in Attempts : rows[b].status = "succeeded" =>
                 SettledRows(a, ops[i].kind)[b].status = "succeeded"
           /\ \A b \in Attempts \ {a} : SettledRows(a, ops[i].kind)[b] = rows[b]
  <1>1. ops[i].kind \in {"settled_ok", "settled_bad", "failed", "superseded"}
    <2>1. ops[i] \in OperationEvent
      BY DEF TypeOK
    <2>2. QED BY <2>1 DEF OperationEvent
  <1>2. PICK st, cl, re, ow :
            SettledRows(a, ops[i].kind) = Update(rows, a, st, cl, re, ow)
    <2> DEFINE k == ops[i].kind
    <2> HIDE DEF k
    <2>1. \E st, cl, re, ow : SettledRows(a, k) = Update(rows, a, st, cl, re, ow)
      <3>1. CASE k = "settled_ok"
        BY <3>1, Zenon DEF SettledRows
      <3>2. CASE k = "settled_bad"
        BY <3>2 DEF SettledRows
      <3>3. CASE k = "failed"
        BY <3>3 DEF SettledRows
      <3>4. CASE k = "superseded"
        BY <3>4, Zenon DEF SettledRows
      <3>5. QED BY <1>1, <3>1, <3>2, <3>3, <3>4 DEF k
    <2>2. QED BY <2>1 DEF k
  <1>3. rows \in [Attempts -> Row]
    BY DEF TypeOK
  <1>4. QED BY <1>2, <1>3, UpdateStays, UpdateOnly

(* Steps of the sweep.                                                     *)
LEMMA ReconcileStays ==
    ASSUME IInv, SuccessInv, OneDispatcher, Reconcile
    PROVE  Stays /\ SuccessInv'
  <1>0. /\ rows \in [Attempts -> Row] /\ Kernel \in Procs /\ TypeOK /\ rec \in Sweep
        /\ proc[Kernel] \in Process /\ proc \in [Procs -> Process]
    BY RuntimeAssumption DEF IInv, TypeOK
  <1>1. CASE ReconcileSettle
    <2>0. At(Kernel, "settling")
      BY <1>1, Zenon DEF ReconcileSettle
    <2>1. rec.pos \in 1..Len(ops)
      <3>1. rec.pos \in Nat /\ rec.snap \in Nat /\ Len(ops) \in Nat
        BY <1>0, LogLength DEF Sweep
      <3>2. rec.pos >= 1 /\ rec.snap <= Len(ops) /\ rec.pos <= rec.snap
        BY <1>1, Zenon DEF IInv, SweepInLog, ReconcileSettle
      <3>3. QED BY <3>1, <3>2
    <2>2. CASE rec' = [rec EXCEPT !.pos = @ + 1] /\ UNCHANGED <<rows, proc>>
      <3>1. rec'.view = rec.view
        BY <1>0, <2>2 DEF Sweep
      <3>2. QED BY <2>0, <2>2, <3>1 DEF SuccessInv, At, Stays, Handling
    <2>3. CASE \E a \in Settles(rec.view, ops[rec.pos]) :
                /\ rows' = SettledRows(a, ops[rec.pos].kind)
                /\ rec' = [rec EXCEPT !.pos = @ + 1, !.view[a] = rows'[a]]
                /\ Emit(Kernel, << <<SettledOcc(ops[rec.pos].kind), a>> >>, proc[Kernel])
      <3>1. PICK a \in Settles(rec.view, ops[rec.pos]) :
                /\ rows' = SettledRows(a, ops[rec.pos].kind)
                /\ rec' = [rec EXCEPT !.pos = @ + 1, !.view[a] = rows'[a]]
                /\ Emit(Kernel, << <<SettledOcc(ops[rec.pos].kind), a>> >>, proc[Kernel])
        BY <2>3, Zenon
      <3>2. a \in Attempts /\ rows[a].status # "succeeded"
        BY <2>0, <3>1, SettlesOpen DEF SuccessInv
      <3>3. Stays /\ \A b \in Attempts \ {a} : rows'[b] = rows[b]
        BY <1>0, <2>1, <3>1, <3>2, SettledStays DEF Stays
      <3>4. rec'.view = [rec.view EXCEPT ![a] = rows'[a]] /\ rec.view \in [Attempts -> Row]
        BY <1>0, <3>1 DEF Sweep
      <3>5. \A b \in Attempts : rec'.view[b].status = rows'[b].status
        BY <2>0, <3>2, <3>3, <3>4 DEF SuccessInv
      <3>6. proc'[Kernel] = proc[Kernel] \/ proc'[Kernel].step = "down"
        BY <1>0, <3>1, EmitEnds
      <3>7. QED
        <4>1. CASE proc'[Kernel] = proc[Kernel]
          BY <2>0, <3>3, <3>5, <4>1 DEF SuccessInv, At, Handling
        <4>2. CASE proc'[Kernel].step = "down"
          BY <3>3, <4>2, Between
        <4>3. QED BY <3>6, <4>1, <4>2
    <2>4. QED BY <1>1, <2>2, <2>3, Zenon DEF ReconcileSettle
  <1>2. CASE ReconcileExpire
    <2> DEFINE lapse(b) == [rows[b] EXCEPT !.status = "expired", !.class = "lease_expired",
                                          !.retryable = "yes", !.owner = "scheduler"]
    <2>1. \A b \in Attempts : lapse(b).status = "expired"
      BY <1>0 DEF Row
    <2>2. \A b \in Attempts : rows'[b] = IF b \in Expiring(rows) THEN lapse(b) ELSE rows[b]
      BY <1>2, Zenon DEF ReconcileExpire, Expire
    <2> HIDE DEF lapse
    <2>3. Stays
      BY <2>2 DEF Stays, Expiring, Active
    <2>4. rec'.todo \subseteq Expiring(rows) /\ Expiring(rows) \subseteq Attempts
      BY <1>2 DEF ReconcileExpire, NoSweep, Expiring
    <2>5. proc'[Kernel].step = "marking"
      BY <1>0, <1>2, GotoStep DEF ReconcileExpire
    <2>6. QED BY <2>1, <2>2, <2>3, <2>4, <2>5 DEF SuccessInv, At, Handling
  <1>3. CASE ReconcileScan
    <2>1. rows' = rows /\ proc'[Kernel].step = "rows"
      BY <1>0, <1>3, GotoStep DEF ReconcileScan, store
    <2>2. rec'.view = rows'
      BY <1>3, <2>1 DEF ReconcileScan, NoSweep
    <2>3. QED BY <2>1, <2>2 DEF SuccessInv, At, Handling, Stays
  <1>4. CASE ReconcileEnd
    <2>1. rows' = rows /\ proc'[Kernel].step = "idle"
      BY <1>0, <1>4 DEF ReconcileEnd, store, Idle
    <2>2. QED BY <2>1, Between DEF Stays
  <1>5. CASE \E a \in Attempts : ReconcileMark(a)
    <2>1. PICK a \in Attempts : ReconcileMark(a)
      BY <1>5
    <2>2. rows[a].status # "succeeded" /\ proc' = proc /\ At(Kernel, "marking")
      BY <2>1, Zenon DEF ReconcileMark, SuccessInv
    <2>3. Stays /\ \A b \in Attempts \ {a} : rows'[b] = rows[b]
      <3>1. rows' = Update(rows, a, "expired", "", "", "run_manager")
        BY <2>1, Zenon DEF ReconcileMark
      <3>2. \A b \in Attempts : rows[b].status = "succeeded" => rows'[b].status = "succeeded"
        BY <1>0, <2>2, <3>1, UpdateStays, Zenon
      <3>3. \A b \in Attempts : b # a => rows'[b] = rows[b]
        BY <1>0, <3>1, Zenon DEF Update
      <3>4. QED BY <3>2, <3>3 DEF Stays
    <2>4. rec'.todo = rec.todo \ {a} /\ rec.todo \subseteq Attempts
      BY <1>0, <2>1, Zenon DEF ReconcileMark, Sweep
    <2>5. QED BY <2>2, <2>3, <2>4 DEF SuccessInv, At, Handling
  <1>6. CASE \E a \in Attempts : ReconcileStarted(a)
    <2>1. PICK a \in Attempts : ReconcileStarted(a)
      BY <1>6
    <2>2. rows' = rows /\ proc' = proc /\ At(Kernel, "rows")
      BY <2>1 DEF ReconcileStarted, store
    <2>3. rec'.todo = rec.todo \ {a} /\ rec'.view = rec.view
      BY <1>0, <2>1 DEF ReconcileStarted, Sweep
    <2>4. QED BY <2>2, <2>3 DEF SuccessInv, At, Handling, Stays
  <1>7. CASE \E a \in Attempts : ReconcileRow(a)
    <2>1. PICK a \in Attempts : ReconcileRow(a)
      BY <1>7
    <2>2. rows[a].status # "succeeded" /\ At(Kernel, "rows")
      BY <2>1, Zenon DEF ReconcileRow, SuccessInv
    <2>3. rows' = FailureRows(a, "yes") \/ rows' = rows
      BY <2>1 DEF ReconcileRow, OneDispatcher
    <2>4. Stays /\ \A b \in Attempts \ {a} : rows'[b] = rows[b]
      BY <1>0, <2>2, <2>3, FailureStays DEF Stays
    <2>5. CASE rec' = [rec EXCEPT !.todo = @ \ {a}] /\ proc' = proc
      <3>1. rec'.todo = rec.todo \ {a} /\ rec'.view = rec.view /\ rec.todo \subseteq Attempts
        BY <1>0, <2>5 DEF Sweep
      <3>2. QED BY <2>2, <2>4, <2>5, <3>1 DEF SuccessInv, At, Handling
    <2>6. CASE proc' = [proc EXCEPT ![Kernel] = Down]
      <3>1. proc'[Kernel].step = "down"
        BY <1>0, <2>6 DEF Down, Idle
      <3>2. QED BY <2>4, <3>1, Between
    <2>7. QED BY <2>1, <2>5, <2>6, Zenon DEF ReconcileRow
  <1>8. QED BY <1>1, <1>2, <1>3, <1>4, <1>5, <1>6, <1>7 DEF Reconcile

LEMMA NextStays ==
    ASSUME IInv, SuccessInv, OneDispatcher, Next
    PROVE  Stays /\ SuccessInv'
  <1>0. /\ rows \in [Attempts -> Row] /\ Kernel \in Procs /\ TypeOK
        /\ proc \in [Procs -> Process] /\ Procs = {Kernel}
    BY RuntimeAssumption DEF IInv, TypeOK, OneDispatcher
  <1>1. CASE \E p \in Procs : Deliver(p)
    BY <1>1, DeliverStays
  <1>2. CASE \/ \E p \in Procs : Crash(p) \/ Restart(p)
             \/ \E p \in Procs, a \in Attempts, c \in {"scheduler", "rework", "child"} :
                    Dispatch(p, a, c)
    <2>1. rows' = rows
      BY <1>2 DEF Crash, Restart, Dispatch, store
    <2>2. proc'[Kernel].step \in {"idle", "down", "prepare"}
      BY <1>0, <1>2 DEF Crash, Restart, Dispatch, Down, Idle
    <2>3. QED BY <2>1, <2>2, Between DEF Stays
  <1>3. CASE \/ \E a \in Attempts : WorkerDies(a) \/ ClearActiveDispatch(a)
             \/ \E l \in Lanes, src \in Attempts \cup {NoAttempt},
                  kind \in {"settled_ok", "settled_bad", "failed", "superseded"} :
                    OperationEnds(l, kind, src)
    <2>1. rows' = rows /\ proc' = proc /\ rec' = rec
      BY <1>3, Zenon DEF WorkerDies, ClearActiveDispatch, OperationEnds, store
    <2>2. QED BY <2>1 DEF SuccessInv, At, Stays
  <1>4. CASE \/ \E a \in Attempts, named \in BOOLEAN : Heartbeat(a, named)
             \/ \E a \in Attempts : LeaseLapses(a)
    <2>1. \A b \in Attempts : rows'[b].status = rows[b].status
      <3>1. CASE \E a \in Attempts : LeaseLapses(a)
        BY <1>0, <3>1, SmallStays DEF LeaseLapses
      <3>2. CASE \E a \in Attempts, named \in BOOLEAN : Heartbeat(a, named)
        <4>1. PICK cur : rows' = RenewLease(rows, cur) /\ cur \in Attempts
          BY <1>0, <3>2, CurrentTypes DEF Heartbeat
        <4>2. QED BY <1>0, <4>1, SmallStays
      <3>3. QED BY <1>4, <3>1, <3>2
    <2>2. proc' = proc /\ rec' = rec /\ rec.todo \subseteq Attempts
      BY <1>0, <1>4 DEF Heartbeat, LeaseLapses, TypeOK, Sweep
    <2>3. proc[Kernel].step \in Handling => proc[Kernel].a \in Attempts
      BY <1>0 DEF IInv, Busy, Bound, Handling, Delivering
    <2>4. QED BY <2>1, <2>2, <2>3 DEF SuccessInv, At, Stays
  <1>5. CASE \E a \in Attempts, ok \in BOOLEAN : SettleResult(a, ok)
    <2>1. PICK a \in Attempts, ok \in BOOLEAN : SettleResult(a, ok)
      BY <1>5
    <2>2. rows[a].status # "succeeded"
      BY <2>1, Zenon DEF SettleResult, Active
    <2>3. Stays
      <3>1. PICK st, cl, re, ow : rows' = Update(rows, a, st, cl, re, ow)
        BY <2>1, Zenon DEF SettleResult
      <3>2. QED BY <1>0, <2>2, <3>1, UpdateStays DEF Stays
    <2>4. proc'[Kernel].step \in {"idle", "down"}
      <3>1. PICK os : Emit(Kernel, os, Idle)
        BY <2>1, Zenon DEF SettleResult
      <3>2. QED BY <1>0, <3>1, EmitEnds DEF Idle
    <2>5. QED BY <2>3, <2>4, Between
  <1>6. CASE \E i \in DOMAIN ops : SettleOperation(i)
    <2>1. PICK i \in DOMAIN ops : SettleOperation(i)
      BY <1>6
    <2>2. i \in 1..Len(ops)
      BY <1>0 DEF TypeOK
    <2>3. PICK a \in Settles(rows, ops[i]) : rows' = SettledRows(a, ops[i].kind)
      BY <2>1 DEF SettleOperation
    <2>4. Stays
      BY <1>0, <2>2, <2>3, SettlesOpen, SettledStays DEF Stays
    <2>5. proc'[Kernel].step \in {"idle", "down"}
      <3>1. PICK os : Emit(Kernel, os, Idle)
        BY <2>1 DEF SettleOperation
      <3>2. QED BY <1>0, <3>1, EmitEnds DEF Idle
    <2>6. QED BY <2>4, <2>5, Between
  <1>7. CASE \E a \in Attempts : ProviderStops(a)
    <2>1. PICK a \in Attempts : ProviderStops(a)
      BY <1>7
    <2>2. rows[a].status # "succeeded" /\ rows[a].status # "absent"
      BY <2>1 DEF ProviderStops, Active
    <2>3. Stays /\ rows'[a].status = "expired"
      BY <1>0, <2>1, <2>2, UpdateStays, UpdateStatus DEF ProviderStops, Stays
    <2>4. proc'[Kernel].step = "stopping" /\ proc'[Kernel].a = a
      BY <1>0, <2>1 DEF ProviderStops, Idle
    <2>5. QED BY <2>3, <2>4 DEF SuccessInv, At
  <1>8. CASE RecordProviderStop
    <2> DEFINE a == proc[Kernel].a
    <2>1. a \in Attempts /\ rows[a].status # "succeeded"
      BY <1>0, <1>8 DEF IInv, Busy, Bound, RecordProviderStop, At, Delivering,
                        SuccessInv, Handling
    <2>2. rows' = FailureRows(a, "yes") \/ rows' = rows
      BY <1>8 DEF RecordProviderStop
    <2>3. proc' = [proc EXCEPT ![Kernel] = Idle] \/ proc' = [proc EXCEPT ![Kernel] = Down]
      BY <1>8, Zenon DEF RecordProviderStop
    <2> HIDE DEF a
    <2>4. Stays
      BY <1>0, <2>1, <2>2, FailureStays DEF Stays
    <2>5. proc'[Kernel].step \in {"idle", "down"}
      BY <1>0, <2>3 DEF Down, Idle
    <2>6. QED BY <2>4, <2>5, Between
  <1>9. CASE ReconcileBegin
    <2>1. rows' = rows /\ proc'[Kernel].step = "settling"
      BY <1>0, <1>9, GotoStep DEF ReconcileBegin, store
    <2>2. rec'.view = rows'
      BY <1>9, <2>1 DEF ReconcileBegin, NoSweep
    <2>3. QED BY <2>1, <2>2 DEF SuccessInv, At, Handling, Stays
  <1>10. CASE Reconcile
    BY <1>10, ReconcileStays
  <1>11. QED
    BY <1>1, <1>2, <1>3, <1>4, <1>5, <1>6, <1>7, <1>8, <1>9, <1>10 DEF Next

LEMMA SuccessInvariance ==
    ASSUME OneDispatcher
    PROVE  Spec => []SuccessInv
  <1>1. Init => SuccessInv
    BY RuntimeAssumption DEF Init, SuccessInv, Handling, At, Idle
  <1>2. IInv /\ SuccessInv /\ [Next]_vars => SuccessInv'
    <2>1. ASSUME IInv, SuccessInv, Next PROVE SuccessInv'
      BY <2>1, NextStays
    <2>2. ASSUME SuccessInv, UNCHANGED vars PROVE SuccessInv'
      BY <2>2 DEF vars, SuccessInv, At
    <2>3. QED BY <2>1, <2>2
  <1>3. QED BY <1>1, <1>2, Invariance, PTL DEF Spec

(* With one dispatching process in enforce mode no handler, no sweep and   *)
(* no recovery after a crash takes a recorded success back: for any number *)
(* of attempts, lanes, crashes and redelivered triggers.                   *)
THEOREM SuccessKept ==
    ASSUME OneDispatcher
    PROVE  Spec => SucceededIsFinal
<1>1. IInv /\ SuccessInv /\ [Next]_vars =>
        [\A a \in Attempts : rows[a].status = "succeeded" => rows'[a].status = "succeeded"]_vars
  <2>1. ASSUME IInv, SuccessInv, Next PROVE Stays
    BY <2>1, NextStays
  <2>2. QED BY <2>1 DEF Stays
<1>2. QED BY <1>1, Invariance, SuccessInvariance, PTL DEF Spec, SucceededIsFinal

-----------------------------------------------------------------------------
(* The retry budget                                                        *)

LEMMA WiderBound ==
    ASSUME NEW x \in Nat, NEW k \in Nat, NEW m \in Nat, k <= m, x <= 1 + k
    PROVE  x <= 1 + m
  OBVIOUS

(* A lane that gets no new row, and loses no success, keeps its count.     *)
LEMMA SameLane ==
    ASSUME NEW r \in [Attempts -> Row], NEW c, NEW s, NEW d, NEW l \in Lanes,
           CountLane(r, c, l),
           LaneRows(r, l) # {} => c[l] \in LaneRows(r, l),
           LaneRows(s, l) = LaneRows(r, l), d[l] = c[l],
           \A b \in LaneRows(r, l) :
              /\ s[b].series = r[b].series /\ s[b].ordinal = r[b].ordinal
              /\ r[b].status = "succeeded" => s[b].status = "succeeded"
    PROVE  CountLane(s, d, l)
  <1>1. IsFiniteSet(LaneRows(s, l)) /\ \A b \in LaneRows(s, l) : s[b].ordinal \in 1..MaxAttempts
    BY DEF CountLane
  <1>2. ASSUME LaneRows(s, l) # {}
        PROVE  /\ s[d[l]].series >= 1
               /\ s[d[l]].series <= 1 + Cardinality(DoneBefore(s, d, l))
               /\ Cardinality(LaneRows(s, l)) <=
                     MaxAttempts * (s[d[l]].series - 1) + s[d[l]].ordinal
    <2>1. c[l] \in LaneRows(r, l) /\ c[l] \in Attempts
      BY <1>2 DEF LaneRows, Known
    <2>2. /\ s[d[l]].series = r[c[l]].series /\ s[d[l]].ordinal = r[c[l]].ordinal
          /\ r[c[l]].series \in Nat
      BY <2>1 DEF Row
    <2>3. DoneBefore(r, c, l) \subseteq DoneBefore(s, d, l)
      BY DEF DoneBefore
    <2>4. DoneBefore(s, d, l) \subseteq LaneRows(s, l)
      BY DEF DoneBefore
    <2>5. /\ Cardinality(DoneBefore(r, c, l)) <= Cardinality(DoneBefore(s, d, l))
          /\ Cardinality(DoneBefore(r, c, l)) \in Nat /\ Cardinality(DoneBefore(s, d, l)) \in Nat
      BY <1>1, <2>3, <2>4, FS_Subset, FS_CardinalityType
    <2>6. r[c[l]].series >= 1 /\ r[c[l]].series <= 1 + Cardinality(DoneBefore(r, c, l))
      BY <2>1 DEF CountLane
    <2>7. Cardinality(LaneRows(r, l)) <= MaxAttempts * (r[c[l]].series - 1) + r[c[l]].ordinal
      BY <2>1 DEF CountLane
    <2>8. r[c[l]].series <= 1 + Cardinality(DoneBefore(s, d, l))
      BY <2>2, <2>5, <2>6, WiderBound, Zenon
    <2>9. QED BY <2>2, <2>6, <2>7, <2>8
  <1>3. QED BY <1>1, <1>2 DEF CountLane

LEMMA HeadInLane ==
    ASSUME IInv, NEW l \in Lanes, LaneRows(rows, l) # {}
    PROVE  current[l] \in LaneRows(rows, l)
  BY DEF IInv, CurrentIsLatest, HeadIsLatest

(* A step that opens no attempt keeps the count.                           *)
LEMMA KeepsCount ==
    ASSUME IInv, CountInv, Keeps(rows, rows'), current' = current, Stays
    PROVE  CountInv'
  <1> SUFFICES ASSUME NEW l \in Lanes PROVE CountLane(rows', current', l)
    BY DEF CountInv
  <1>1. rows \in [Attempts -> Row] /\ CountLane(rows, current, l)
    BY DEF IInv, TypeOK, CountInv
  <1>2. LaneRows(rows', l) = LaneRows(rows, l) /\ LaneRows(rows, l) \subseteq Attempts
    BY DEF LaneRows, Known, Keeps
  <1>3. \A b \in LaneRows(rows, l) :
              /\ rows'[b].series = rows[b].series /\ rows'[b].ordinal = rows[b].ordinal
              /\ rows[b].status = "succeeded" => rows'[b].status = "succeeded"
    BY <1>2 DEF Keeps, Stays
  <1>4. QED BY <1>1, <1>2, <1>3, HeadInLane, SameLane

LEMMA OneMoreSeries ==
    ASSUME NEW m \in Nat, NEW s \in Nat, s >= 1
    PROVE  /\ m * (s - 1) \in Nat
           /\ m * s = m * (s - 1) + m
  OBVIOUS

(* The next slot counts one row more.                                      *)
LEMMA SlotCount ==
    ASSUME IInv, CountInv, NEW l \in Lanes, NEW done,
           {b \in LaneRows(rows, l) : rows[b].status = "succeeded"} \subseteq done,
           done \subseteq LaneRows(rows, l)
    PROVE  LET slot == NextSlot(rows, l)
           IN /\ slot.series \in Nat /\ slot.ordinal \in Nat
              /\ slot.series >= 1 /\ slot.ordinal >= 1
              /\ slot.series <= 1 + Cardinality(done)
              /\ Cardinality(LaneRows(rows, l)) + 1 <=
                    MaxAttempts * (slot.series - 1) + slot.ordinal
  <1> DEFINE slot == NextSlot(rows, l)
             h == current[l]
             n == Cardinality(LaneRows(rows, l))
  <1>0. /\ rows \in [Attempts -> Row] /\ CountLane(rows, current, l)
        /\ MaxAttempts \in Nat /\ MaxAttempts >= 1
    BY RuntimeAssumption DEF IInv, TypeOK, CountInv
  <1>1. IsFiniteSet(LaneRows(rows, l)) /\ IsFiniteSet(done)
        /\ Cardinality(done) \in Nat /\ n \in Nat
    <2>1. IsFiniteSet(LaneRows(rows, l))
      BY <1>0 DEF CountLane
    <2>2. IsFiniteSet(done)
      BY <2>1, FS_Subset
    <2>3. QED BY <2>1, <2>2, FS_CardinalityType
  <1>2. CASE LaneRows(rows, l) = {}
    <2>1. slot.series = 1 /\ slot.ordinal = 1
      BY <1>2 DEF NextSlot
    <2>2. n = 0
      BY <1>2, FS_EmptySet
    <2>3. MaxAttempts * (1 - 1) = 0
      BY <1>0
    <2> HIDE DEF slot, n
    <2>4. n + 1 <= MaxAttempts * (slot.series - 1) + slot.ordinal
      BY <2>1, <2>2, <2>3
    <2>5. slot.series <= 1 + Cardinality(done)
      BY <1>1, <2>1
    <2>6. QED BY <2>1, <2>4, <2>5 DEF slot, n
  <1>3. CASE LaneRows(rows, l) # {}
    <2>1. h \in LaneRows(rows, l) /\ h \in Attempts /\ Latest(rows, l) = h
      <3>1. h \in LaneRows(rows, l)
        BY <1>3, HeadInLane
      <3>2. StoreInv(rows, current)
        BY StorePart
      <3>3. Latest(rows, l) = h
        BY <1>3, <3>2, LatestIsHead
      <3>4. QED BY <3>1, <3>3 DEF LaneRows, Known
    <2>2. /\ rows[h].series \in Nat /\ rows[h].ordinal \in 1..MaxAttempts
          /\ rows[h].series >= 1
          /\ rows[h].series <= 1 + Cardinality(DoneBefore(rows, current, l))
          /\ n <= MaxAttempts * (rows[h].series - 1) + rows[h].ordinal
      <3>1. rows[h].series \in Nat
        BY <1>0, <2>1 DEF Row
      <3>2. QED BY <1>0, <1>3, <2>1, <3>1 DEF CountLane
    <2>3. slot = IF rows[h].status = "succeeded"
                 THEN [series |-> rows[h].series + 1, ordinal |-> 1]
                 ELSE [series |-> rows[h].series, ordinal |-> rows[h].ordinal + 1]
      BY <1>3, <2>1 DEF NextSlot
    <2>4. DoneBefore(rows, current, l) \subseteq done /\ h \notin DoneBefore(rows, current, l)
      BY DEF DoneBefore
    <2>5. /\ Cardinality(DoneBefore(rows, current, l)) \in Nat
          /\ Cardinality(DoneBefore(rows, current, l)) <= Cardinality(done)
          /\ IsFiniteSet(DoneBefore(rows, current, l))
      BY <1>1, <2>4, FS_Subset, FS_CardinalityType
    <2> DEFINE D == DoneBefore(rows, current, l)
               s == rows[h].series
               o == rows[h].ordinal
    <2>6. CASE rows[h].status = "succeeded"
      <3>1. slot.series = s + 1 /\ slot.ordinal = 1
        BY <2>3, <2>6
      <3>2. D \cup {h} \subseteq done
        BY <2>1, <2>4, <2>6
      <3>3. Cardinality(D \cup {h}) = Cardinality(D) + 1
        BY <2>4, <2>5, FS_AddElement, Zenon
      <3>4. Cardinality(D) + 1 <= Cardinality(done)
        BY <1>1, <3>2, <3>3, FS_Subset
      <3>5. /\ MaxAttempts * (s - 1) \in Nat
            /\ MaxAttempts * s = MaxAttempts * (s - 1) + MaxAttempts
        BY <1>0, <2>2, OneMoreSeries
      <3> HIDE DEF D, s, o, n, slot
      <3>6. n <= MaxAttempts * (s - 1) + o /\ o \in 1..MaxAttempts /\ s \in Nat /\ s >= 1
            /\ s <= 1 + Cardinality(D)
        BY <2>2 DEF s, o, D
      <3>7. n <= MaxAttempts * s
        <4> DEFINE x == MaxAttempts * (s - 1)
        <4>1. x \in Nat /\ MaxAttempts * s = x + MaxAttempts /\ n <= x + o
          BY <3>5, <3>6
        <4> HIDE DEF x
        <4>2. QED BY <1>0, <1>1, <3>6, <4>1
      <3>8. (s + 1) - 1 = s
        BY <3>6
      <3>9. n + 1 <= MaxAttempts * (slot.series - 1) + slot.ordinal
        <4> DEFINE y == MaxAttempts * s
        <4>1. y \in Nat /\ n <= y
          BY <1>0, <3>6, <3>7
        <4>2. MaxAttempts * (slot.series - 1) = y
          BY <3>1, <3>8
        <4> HIDE DEF y
        <4>3. QED BY <1>1, <3>1, <4>1, <4>2
      <3>10. slot.series <= 1 + Cardinality(done)
        BY <1>1, <2>5, <3>1, <3>4, <3>6 DEF D
      <3>11. slot.series \in Nat /\ slot.ordinal \in Nat /\ slot.series >= 1 /\ slot.ordinal >= 1
        BY <3>1, <3>6
      <3>12. QED BY <3>9, <3>10, <3>11 DEF slot, n
    <2>7. CASE rows[h].status # "succeeded"
      <3>1. slot.series = s /\ slot.ordinal = o + 1
        BY <2>3, <2>7
      <3> HIDE DEF D, s, o, n, slot
      <3>2. n <= MaxAttempts * (s - 1) + o /\ o \in Nat /\ s \in Nat /\ s >= 1
            /\ s <= 1 + Cardinality(D)
        <4>1. /\ n <= MaxAttempts * (s - 1) + o /\ o \in 1..MaxAttempts /\ s \in Nat /\ s >= 1
              /\ s <= 1 + Cardinality(D)
          BY <2>2, Zenon DEF s, o, D
        <4>2. \A k \in 1..MaxAttempts : k \in Nat
          BY <1>0
        <4>3. QED BY <4>1, <4>2, Zenon
      <3>3. n + 1 <= MaxAttempts * (slot.series - 1) + slot.ordinal
        <4> DEFINE x == MaxAttempts * (s - 1)
        <4>1. x \in Nat /\ n <= x + o
          BY <1>0, <3>2, OneMoreSeries
        <4>2. MaxAttempts * (slot.series - 1) = x
          BY <3>1
        <4> HIDE DEF x
        <4>3. QED BY <1>1, <3>1, <3>2, <4>1, <4>2
      <3>4. slot.series <= 1 + Cardinality(done)
        BY <1>1, <2>5, <3>1, <3>2 DEF D
      <3>5. slot.series \in Nat /\ slot.ordinal \in Nat /\ slot.series >= 1 /\ slot.ordinal >= 1
        BY <3>1, <3>2
      <3>6. QED BY <3>3, <3>4, <3>5 DEF slot, n
    <2>8. QED BY <2>6, <2>7
  <1>4. QED BY <1>2, <1>3

(* ensure_for_dispatch within the budget.                                  *)
LEMMA PrepareCount ==
    ASSUME IInv, CountInv, OneDispatcher, NEW p \in Procs, Prepare(p)
    PROVE  CountInv'
  <1> DEFINE a == proc[p].a
             k == LaneOf[a]
             slot == NextSlot(rows, k)
  <1>0. /\ a \in Attempts /\ k \in Lanes /\ MaxAttempts \in Nat /\ MaxAttempts >= 1
        /\ rows \in [Attempts -> Row] /\ current \in [Lanes -> Attempts \cup {NoAttempt}]
    <2>1. a \in Attempts
      BY DEF IInv, Busy, Bound, Prepare, At, Delivering
    <2>2. rows \in [Attempts -> Row] /\ current \in [Lanes -> Attempts \cup {NoAttempt}]
      BY DEF IInv, TypeOK
    <2>3. k \in Lanes
      BY <2>1, LaneAssumption
    <2>4. MaxAttempts \in Nat /\ MaxAttempts >= 1
      BY RuntimeAssumption
    <2>5. QED BY <2>1, <2>2, <2>3, <2>4
  <1>1. /\ rows[a].status = "absent" /\ ~(slot.ordinal > MaxAttempts)
        /\ rows' = EnsureRows(rows, current, a, clock)
        /\ current' = EnsureCurrent(current, a)
    BY <1>0 DEF Prepare, OverBudget, Limit, OneDispatcher
  <1>2. /\ rows'[a].status = "prepared"
        /\ rows'[a].series = slot.series /\ rows'[a].ordinal = slot.ordinal
    BY <1>0, <1>1 DEF EnsureRows, AbsentRow
  <1> HIDE DEF slot
  <1>3. \A b \in Attempts : b # a =>
            /\ rows'[b].series = rows[b].series /\ rows'[b].ordinal = rows[b].ordinal
            /\ rows[b].status = "succeeded" => rows'[b].status = "succeeded"
            /\ (rows'[b].status = "absent") <=> (rows[b].status = "absent")
    <2>1. SUFFICES ASSUME NEW b \in Attempts, b # a
                   PROVE  /\ rows'[b].series = rows[b].series
                          /\ rows'[b].ordinal = rows[b].ordinal
                          /\ rows[b].status = "succeeded" => rows'[b].status = "succeeded"
                          /\ (rows'[b].status = "absent") <=> (rows[b].status = "absent")
      OBVIOUS
    <2>2. CASE b \in Supersedes(rows, current, a)
      <3>1. rows'[b] = [rows[b] EXCEPT !.status = "superseded"] /\ rows[b] \in Row
        BY <1>0, <1>1, <2>1, <2>2 DEF EnsureRows
      <3>2. b = current[k] /\ rows[b].status # "succeeded"
        BY <2>2 DEF Supersedes
      <3>3. rows[b].status # "absent"
        <4>1. current[k] # NoAttempt
          BY <3>2, LaneAssumption
        <4>2. current[k] \in LaneRows(rows, k)
          BY <1>0, <4>1 DEF IInv, CurrentIsLatest, HeadIsLatest
        <4>3. QED BY <3>2, <4>2 DEF LaneRows, Known
      <3>4. QED BY <3>1, <3>2, <3>3, Zenon DEF Row
    <2>3. CASE b \notin Supersedes(rows, current, a)
      <3>1. rows'[b] = rows[b]
        BY <1>0, <1>1, <2>1, <2>3 DEF EnsureRows
      <3>2. QED BY <3>1
    <2>4. QED BY <2>2, <2>3
  <1>4. current'[k] = a /\ \A l \in Lanes : l # k => current'[l] = current[l]
    BY <1>0, <1>1 DEF EnsureCurrent
  <1> HIDE DEF a
  <1>5. ASSUME NEW l \in Lanes, l # k
        PROVE  CountLane(rows', current', l)
    <2>1. LaneRows(rows', l) = LaneRows(rows, l)
      BY <1>3, <1>5 DEF LaneRows, Known
    <2>2. \A b \in LaneRows(rows, l) :
              /\ rows'[b].series = rows[b].series /\ rows'[b].ordinal = rows[b].ordinal
              /\ rows[b].status = "succeeded" => rows'[b].status = "succeeded"
      BY <1>3, <1>5 DEF LaneRows, Known
    <2>3. CountLane(rows, current, l)
      BY DEF CountInv
    <2>4. QED BY <1>0, <1>4, <1>5, <2>1, <2>2, <2>3, HeadInLane, SameLane
  <1>6. CountLane(rows', current', k)
    <2> HIDE DEF k
    <2>1. LaneRows(rows', k) = LaneRows(rows, k) \cup {a} /\ a \notin LaneRows(rows, k)
      BY <1>0, <1>1, <1>2, <1>3 DEF LaneRows, Known, k
    <2>2. IsFiniteSet(LaneRows(rows, k))
          /\ \A b \in LaneRows(rows, k) : rows[b].ordinal \in 1..MaxAttempts
      BY <1>0 DEF CountInv, CountLane
    <2>3. /\ IsFiniteSet(LaneRows(rows', k))
          /\ Cardinality(LaneRows(rows', k)) = Cardinality(LaneRows(rows, k)) + 1
      BY <2>1, <2>2, FS_AddElement
    <2> DEFINE done == DoneBefore(rows', current', k)
    <2>4. done = {b \in LaneRows(rows, k) : rows'[b].status = "succeeded"}
      BY <1>4, <2>1 DEF DoneBefore
    <2>5. \A b \in LaneRows(rows, k) : b \in Attempts /\ b # a
      BY <2>1 DEF LaneRows, Known
    <2>6. /\ {b \in LaneRows(rows, k) : rows[b].status = "succeeded"} \subseteq done
          /\ done \subseteq LaneRows(rows, k)
      BY <1>3, <2>4, <2>5
    <2> HIDE DEF done
    <2>7. /\ slot.series \in Nat /\ slot.ordinal \in Nat
          /\ slot.series >= 1 /\ slot.ordinal >= 1
          /\ slot.series <= 1 + Cardinality(done)
          /\ Cardinality(LaneRows(rows, k)) + 1 <=
                MaxAttempts * (slot.series - 1) + slot.ordinal
      BY <1>0, <2>6, SlotCount DEF slot
    <2>8. slot.ordinal \in 1..MaxAttempts
      BY <1>0, <1>1, <2>7
    <2>9. \A b \in LaneRows(rows', k) : rows'[b].ordinal \in 1..MaxAttempts
      BY <1>2, <1>3, <2>1, <2>2, <2>5, <2>8
    <2>10. /\ rows'[current'[k]].series >= 1
           /\ rows'[current'[k]].series <= 1 + Cardinality(DoneBefore(rows', current', k))
           /\ Cardinality(LaneRows(rows', k)) <=
                 MaxAttempts * (rows'[current'[k]].series - 1) + rows'[current'[k]].ordinal
      BY <1>2, <1>4, <2>3, <2>7 DEF done
    <2>11. QED BY <2>3, <2>9, <2>10 DEF CountLane
  <1>7. QED BY <1>5, <1>6 DEF CountInv

(* Every step but ensure_for_dispatch opens no attempt.                    *)
LEMMA OpensNone ==
    ASSUME IInv, Next
    PROVE  \/ \E p \in Procs : Prepare(p)
           \/ Keeps(rows, rows') /\ current' = current
  <1>0. rows \in [Attempts -> Row]
    BY DEF IInv, TypeOK
  <1>1. ASSUME NEW p \in Procs, Claim(p)
        PROVE  Keeps(rows, rows') /\ current' = current
    <2>1. proc[p].a \in Attempts
      BY <1>1 DEF IInv, Busy, Bound, Claim, At, Delivering
    <2>2. QED BY <1>0, <1>1, <2>1, SmallWritesKeep DEF Claim
  <1>2. ASSUME NEW p \in Procs, Send(p)
        PROVE  Keeps(rows, rows') /\ current' = current
    BY <1>2, SameRows DEF Send, store, IInv
  <1>3. ASSUME NEW p \in Procs, Deliver(p), ~Prepare(p), ~Claim(p), ~Send(p)
        PROVE  Quiet
    BY <1>3, PrepareAgainQuiet, ExhaustQuiet, MarkSentQuiet, FailDeliveryQuiet,
       RecordFailureQuiet, RaiseQuiet DEF Deliver
  <1>4. ASSUME NEW p \in Procs, Crash(p) \/ Restart(p)
        PROVE  Quiet
    BY <1>4, CrashQuiet
  <1>5. ASSUME NEW p \in Procs, NEW a \in Attempts,
               NEW c \in {"scheduler", "rework", "child"}, Dispatch(p, a, c)
        PROVE  Quiet
    BY <1>5, DispatchQuiet
  <1>6. ASSUME NEW a \in Attempts, NEW ok \in BOOLEAN, Heartbeat(a, ok) \/ SettleResult(a, ok)
        PROVE  Quiet
    BY <1>6, HeartbeatQuiet, SettleResultQuiet
  <1>7. ASSUME NEW a \in Attempts,
               WorkerDies(a) \/ LeaseLapses(a) \/ ClearActiveDispatch(a)
        PROVE  Quiet
    BY <1>7, WorkerQuiet
  <1>8. ASSUME (\E a \in Attempts : ProviderStops(a)) \/ RecordProviderStop
        PROVE  Quiet
    BY <1>8, ProviderStopQuiet
  <1>9. ASSUME NEW l \in Lanes, NEW src \in Attempts \cup {NoAttempt},
               NEW kind \in {"settled_ok", "settled_bad", "failed", "superseded"},
               OperationEnds(l, kind, src)
        PROVE  Quiet
    BY <1>9, OperationEndsQuiet
  <1>10. ASSUME NEW i \in DOMAIN ops, SettleOperation(i)
         PROVE  Quiet
    BY <1>10, SettleOperationQuiet
  <1>11. ASSUME ReconcileBegin \/ ReconcileSettle \/ ReconcileExpire \/ ReconcileScan
                    \/ ReconcileEnd
         PROVE  Quiet
    BY <1>11, ReconcileBeginQuiet, ReconcileSettleQuiet, ReconcileQuiet
  <1>12. ASSUME NEW a \in Attempts,
                ReconcileMark(a) \/ ReconcileStarted(a) \/ ReconcileRow(a)
         PROVE  Quiet
    BY <1>12, ReconcileOneQuiet, ReconcileRowQuiet
  <1>13. ASSUME Reconcile
         PROVE  Quiet
    BY <1>11, <1>12, <1>13 DEF Reconcile
  <1>14. Quiet => Keeps(rows, rows') /\ current' = current
    BY DEF Quiet
  <1>15. ASSUME NEW p \in Procs, Deliver(p)
         PROVE  Prepare(p) \/ (Keeps(rows, rows') /\ current' = current)
    BY <1>1, <1>2, <1>3, <1>14, <1>15
  <1>16. QED
    BY <1>4, <1>5, <1>6, <1>7, <1>8, <1>9, <1>10, <1>11, <1>13, <1>14, <1>15 DEF Next

LEMMA CountInvariance ==
    ASSUME OneDispatcher
    PROVE  Spec => []CountInv
  <1>1. Init => CountInv
    <2> SUFFICES ASSUME Init, NEW l \in Lanes PROVE CountLane(rows, current, l)
      BY DEF CountInv
    <2>1. LaneRows(rows, l) = {}
      BY DEF Init, EmptyRows, AbsentRow, LaneRows, Known
    <2>2. QED BY <2>1, FS_EmptySet DEF CountLane
  <1>2. IInv /\ SuccessInv /\ CountInv /\ [Next]_vars => CountInv'
    <2>1. ASSUME IInv, SuccessInv, CountInv, Next PROVE CountInv'
      BY <2>1, NextStays, OpensNone, PrepareCount, KeepsCount
    <2>2. ASSUME CountInv, UNCHANGED vars PROVE CountInv'
      BY <2>2 DEF vars, CountInv
    <2>3. QED BY <2>1, <2>2
  <1>3. QED BY <1>1, <1>2, Invariance, SuccessInvariance, PTL DEF Spec

(* With one dispatching process in enforce mode a lane never gets more     *)
(* than max_attempts attempts per success (and max_attempts before the     *)
(* first), whatever dies, is redelivered, expires or fails in between.     *)
THEOREM BudgetKept ==
    ASSUME OneDispatcher
    PROVE  Spec => []RetryBudget
<1>1. IInv /\ CountInv => RetryBudget
  <2> SUFFICES ASSUME IInv, CountInv, NEW l \in Lanes
               PROVE  /\ \A a \in LaneRows(rows, l) : rows[a].ordinal \in 1..MaxAttempts
                      /\ Cardinality(LaneRows(rows, l)) <=
                           MaxAttempts * (1 + Cardinality({a \in LaneRows(rows, l) :
                                                             rows[a].status = "succeeded"}))
    BY Zenon DEF RetryBudget
  <2> DEFINE done == {a \in LaneRows(rows, l) : rows[a].status = "succeeded"}
             h == current[l]
             n == Cardinality(LaneRows(rows, l))
             m == MaxAttempts
             c == Cardinality(done)
  <2>1. CountLane(rows, current, l) /\ m \in Nat /\ m >= 1 /\ rows \in [Attempts -> Row]
    BY RuntimeAssumption DEF CountInv, IInv, TypeOK
  <2>2. IsFiniteSet(LaneRows(rows, l)) /\ n \in Nat /\ c \in Nat /\ IsFiniteSet(done)
    <3>1. IsFiniteSet(LaneRows(rows, l))
      BY <2>1 DEF CountLane
    <3>2. IsFiniteSet(done)
      BY <3>1, FS_Subset
    <3>3. QED BY <3>1, <3>2, FS_CardinalityType
  <2>3. CASE LaneRows(rows, l) = {}
    <3>1. n = 0
      BY <2>3, FS_EmptySet
    <3> HIDE DEF n, c
    <3>2. m * (1 + c) \in Nat
      BY <2>1, <2>2
    <3>3. n <= m * (1 + c)
      BY <3>1, <3>2
    <3>4. QED BY <2>3, <3>3 DEF n, c
  <2>4. CASE LaneRows(rows, l) # {}
    <3>1. h \in LaneRows(rows, l) /\ h \in Attempts
      BY <2>4, HeadInLane DEF LaneRows, Known
    <3> DEFINE s == rows[h].series
               o == rows[h].ordinal
    <3>2. n <= m * (s - 1) + o
      BY <2>1, <2>4 DEF CountLane
    <3>3. /\ s \in Nat /\ o \in 1..m /\ s >= 1
           /\ s <= 1 + Cardinality(DoneBefore(rows, current, l))
      <4>1. s \in Nat
        BY <2>1, <3>1 DEF Row
      <4>2. o \in 1..m /\ s >= 1 /\ s <= 1 + Cardinality(DoneBefore(rows, current, l))
        BY <2>1, <2>4, <3>1 DEF CountLane
      <4>3. QED BY <4>1, <4>2
    <3>4. DoneBefore(rows, current, l) \subseteq done
      BY DEF DoneBefore
    <3>5. /\ Cardinality(DoneBefore(rows, current, l)) \in Nat
          /\ Cardinality(DoneBefore(rows, current, l)) <= c
      BY <2>2, <3>4, FS_Subset, FS_CardinalityType
    <3> HIDE DEF n, c, s, o
    <3>6. s <= 1 + c
      <4> DEFINE d == Cardinality(DoneBefore(rows, current, l))
      <4>1. d \in Nat /\ d <= c /\ s <= 1 + d /\ s \in Nat /\ c \in Nat
        BY <2>2, <3>3, <3>5
      <4> HIDE DEF d
      <4>2. QED BY <4>1
    <3>7. m * (s - 1) \in Nat /\ m * s = m * (s - 1) + m
      BY <2>1, <3>3, OneMoreSeries
    <3>8. n <= m * s
      <4> DEFINE x == m * (s - 1)
      <4>1. x \in Nat /\ m * s = x + m /\ n <= x + o
        BY <3>2, <3>7
      <4> HIDE DEF x
      <4>2. QED BY <2>1, <2>2, <3>3, <4>1
    <3>9. m * s <= m * (1 + c)
      BY <2>1, <2>2, <3>3, <3>6
    <3>10. m * s \in Nat /\ m * (1 + c) \in Nat
      BY <2>1, <2>2, <3>3
    <3>11. n <= m * (1 + c)
      BY <2>2, <3>8, <3>9, <3>10
    <3>12. QED BY <2>1, <3>11 DEF n, c, CountLane
  <2>5. QED BY <2>3, <2>4
<1>2. QED BY <1>1, Invariance, CountInvariance, PTL
=============================================================================
