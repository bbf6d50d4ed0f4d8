---------------------------- MODULE TaskAttempts ----------------------------
(***************************************************************************)
(* Scheduler-owned TaskAttempts of one task: persist, claim, deliver, lease *)
(* and settle (runtime/task_attempt_runtime.py and the modules it calls,   *)
(* runtime/runtime_authority_bridge.py, and the dispatch callers).         *)
(*                                                                         *)
(* Processes.  Kernel is the orchestrator of "zf start": it dispatches,    *)
(* reacts to events and runs the reconcile sweep, one handler at a time.   *)
(* Other members of Procs are out-of-band dispatchers ("zf recover         *)
(* workflow" builds its own coordinator), which only deliver children.     *)
(* A process may die between any two durable writes of a handler.          *)
(***************************************************************************)
EXTENDS TaskAttemptStore, Sequences, FiniteSets

CONSTANTS Procs, Kernel,
          Mode,                \* workflow.task_attempt.mode
          MaxAttempts,         \* workflow.task_attempt.max_attempts
          Replayable,          \* dispatch ids derived from their trigger event
          Submitters,          \* attempts that report by admitted semantic submit
          Mortal,              \* attempts whose worker may die
          MaxDeliveries,       \* bound: sends of one dispatch
          MaxOperationEvents,  \* bound: length of ops
          MaxCrashes           \* bound: process deaths

ASSUME RuntimeAssumption ==
    /\ Kernel \in Procs
    /\ Mode \in {"shadow", "enforce"}
    /\ MaxAttempts \in 1..10
    /\ Replayable \subseteq Attempts /\ Submitters \subseteq Attempts
    /\ Mortal \subseteq Attempts
    /\ MaxDeliveries \in Nat /\ MaxOperationEvents \in Nat /\ MaxCrashes \in Nat

VARIABLES
    rows, current,  \* task_attempts.json
    clock,          \* logical time: created_at of rows, ts of operation events
    occ,            \* task.attempt.* occurrences in the event log
    task,           \* status and active_dispatch_id in the TaskStore
    proc,           \* where each process is in its current handler
    rec,            \* the reconcile sweep: its readings of log and store
    deliveries,     \* times the transport handed the briefing to a worker
    ops,            \* workflow.operation.* terminal events in the log
    dead,           \* attempts whose worker died
    crashes

store == <<rows, current>>
env == <<deliveries, dead>>
vars == <<rows, current, clock, occ, task, proc, rec, deliveries, ops, dead,
          crashes>>

Enforce == Mode = "enforce"

Idle == [step |-> "idle", a |-> NoAttempt, caller |-> "none", prev |-> "none"]
Down == [Idle EXCEPT !.step = "down"]

NoSweep == [pos |-> 1, snap |-> 0, view |-> EmptyRows, todo |-> {}]

Steps == {"idle", "down", "prepare", "claim", "send", "sent", "failed", "refused",
          "failing", "refusing", "exhausted", "raise", "stopping", "settling",
          "marking", "rows"}

Occurrences ==
    {"started", "delivery_claimed", "sent", "succeeded", "failed", "superseded",
     "retry_scheduled", "deadlettered", "exhausted", "interrupted"} \X (Attempts \cup {NoAttempt})

OperationEvent == [kind : {"settled_ok", "settled_bad", "failed", "superseded"},
                   lane : Lanes, src : Attempts \cup {NoAttempt}, at : Nat]

TaskRecord == [status : {"backlog", "in_progress", "blocked"},
               active : Attempts \cup {NoAttempt}]

Process == [step : Steps, a : Attempts \cup {NoAttempt},
            caller : {"none", "scheduler", "rework", "child"},
            prev : {"none", "backlog", "in_progress", "blocked"}]

Sweep == [pos : Nat, snap : Nat, view : [Attempts -> Row], todo : SUBSET Attempts]

(* The persisted and in-memory values have the shape the code gives them   *)
(* (_attempt_row_error and _load_unlocked reject a store that does not).   *)
TypeOK ==
    /\ rows \in [Attempts -> Row]
    /\ current \in [Lanes -> Attempts \cup {NoAttempt}]
    /\ clock \in Nat
    /\ occ \subseteq Occurrences
    /\ task \in TaskRecord
    /\ proc \in [Procs -> Process]
    /\ rec \in Sweep
    /\ deliveries \in [Attempts -> Nat]
    /\ ops \in Seq(OperationEvent)
    /\ dead \subseteq Attempts
    /\ crashes \in Nat

Init ==
    /\ rows = EmptyRows
    /\ current = EmptyCurrent
    /\ clock = 0
    /\ occ = {}
    /\ task = [status |-> "backlog", active |-> NoAttempt]
    /\ proc = [p \in Procs |-> Idle]
    /\ rec = NoSweep
    /\ deliveries = [a \in Attempts |-> 0]
    /\ ops = <<>>
    /\ dead = {}
    /\ crashes = 0

-----------------------------------------------------------------------------
(* Process plumbing                                                        *)

At(p, step) == proc[p].step = step

Goto(p, step) == proc' = [proc EXCEPT ![p].step = step]

(* After its store write a handler appends occurrences one by one (each    *)
(* _emit_once) and goes on to "next"; it may die after any prefix of them. *)
Emit(p, os, next) ==
    \E k \in 0..Len(os) :
        /\ occ' = occ \cup {os[i] : i \in 1..k}
        /\ proc' = [proc EXCEPT ![p] = IF k = Len(os) THEN next ELSE Down]
        /\ IF k = Len(os) THEN UNCHANGED crashes
           ELSE crashes < MaxCrashes /\ crashes' = crashes + 1

Crash(p) ==
    /\ ~At(p, "down")
    /\ crashes < MaxCrashes
    /\ crashes' = crashes + 1
    /\ proc' = [proc EXCEPT ![p] = Down]
    /\ UNCHANGED <<store, clock, occ, task, rec, env, ops>>

Restart(p) ==
    /\ At(p, "down")
    /\ proc' = [proc EXCEPT ![p] = Idle]
    /\ rec' = IF p = Kernel THEN NoSweep ELSE rec
    /\ UNCHANGED <<store, clock, occ, task, env, ops, crashes>>

-----------------------------------------------------------------------------
(* Delivery: dispatch caller, prepare, claim, send, mark sent or fail      *)

Fresh(a) ==
    /\ rows[a].status = "absent"
    /\ task.active # a
    /\ \A q \in Procs : proc[q].a # a

(* The scheduler (_dispatch_task) and the rework path record               *)
(* active_dispatch_id before they deliver; a fanout or pipeline child has  *)
(* no TaskStore record of its own.  Only a dispatch id derived from its    *)
(* trigger event can be dispatched again (the trigger is redelivered).     *)
Dispatch(p, a, caller) ==
    /\ At(p, "idle")
    /\ Fresh(a) \/ (a \in Replayable /\ deliveries[a] < MaxDeliveries)
    /\ caller \in {"scheduler", "rework"} =>
            p = Kernel /\ ~IsPipeline(a) /\ (caller = "scheduler" => Fresh(a))
    /\ CASE caller = "scheduler" ->
              /\ \/ task.status = "backlog"
                 \/ task.status = "in_progress" /\ task.active = NoAttempt
              /\ task' = [status |-> "in_progress", active |-> a]
         [] caller = "rework" ->
              /\ task.status = "in_progress"
              /\ task' = [task EXCEPT !.active = a]
         [] caller = "child" -> UNCHANGED task
    /\ proc' = [proc EXCEPT ![p] = [step |-> "prepare", a |-> a,
                                    caller |-> caller, prev |-> task.status]]
    /\ UNCHANGED <<store, clock, occ, rec, env, ops, crashes>>

Limit == IF Enforce THEN MaxAttempts ELSE 0

(* Mutant of PrepareAgain: a failed attempt is prepared once more.         *)
PrepareAgainRevived(p) ==
    LET a == proc[p].a
    IN /\ At(p, "prepare")
       /\ rows[a].status # "absent"
       /\ rows' = IF rows[a].status = "failed" THEN [rows EXCEPT ![a].status = "prepared"]
                  ELSE rows
       /\ Emit(p, << <<"started", a>> >>, [proc[p] EXCEPT !.step = "claim"])
       /\ UNCHANGED <<current, clock, task, rec, env, ops>>

(* prepare_task_attempt up to the claim, attempt persisted for this        *)
(* dispatch by an earlier call: ensure returns created=False.              *)
PrepareAgain(p) ==
    LET a == proc[p].a
    IN /\ At(p, "prepare")
       /\ rows[a].status # "absent"
       /\ Emit(p, << <<"started", a>> >>, [proc[p] EXCEPT !.step = "claim"])
       /\ UNCHANGED <<store, clock, task, rec, env, ops>>

Prepare(p) ==
    LET a == proc[p].a
        old == Supersedes(rows, current, a)
        prior == current[LaneOf[a]]
    IN /\ At(p, "prepare")
       /\ rows[a].status = "absent"
       /\ ~OverBudget(rows, a, Limit)
       /\ rows' = EnsureRows(rows, current, a, clock)
       /\ current' = EnsureCurrent(current, a)
       /\ clock' = clock + 1
       /\ Emit(p, (IF old = {} THEN <<>> ELSE << <<"superseded", prior>> >>)
                  \o << <<"started", a>> >>,
               [proc[p] EXCEPT !.step = "claim"])
       /\ UNCHANGED <<task, rec, env, ops>>

(* TaskAttemptLimitError: _emit_attempt_exhausted reports the budget once   *)
(* per run and task (unless a row of the lane says it), blocks the task,   *)
(* and the error is raised to the dispatch caller.                         *)
Exhaust(p) ==
    LET a == proc[p].a
        deadletter == \E b \in LaneRows(rows, LaneOf[a]) :
                          rows[b].status = "deadlettered"
    IN /\ At(p, "prepare")
       /\ rows[a].status = "absent"
       /\ OverBudget(rows, a, Limit)
       /\ occ' = occ \cup (IF deadletter THEN {}
                           ELSE {<<"deadlettered", NoAttempt>>})
       /\ Goto(p, "exhausted")
       /\ UNCHANGED <<store, clock, task, rec, env, ops, crashes>>

BlockExhausted(p) ==
    /\ At(p, "exhausted")
    /\ task' = [status |-> "blocked", active |-> NoAttempt]
    /\ Goto(p, "raise")
    /\ UNCHANGED <<store, clock, occ, rec, env, ops, crashes>>

(* Mutant of Claim: a refused claim does not stop the delivery.            *)
ClaimIgnored(p) ==
    LET a == proc[p].a
        claimed == rows[a].status = "prepared"
    IN /\ At(p, "claim")
       /\ rows' = ClaimDelivery(rows, a)
       /\ Emit(p, IF claimed THEN << <<"delivery_claimed", a>> >> ELSE <<>>,
               [proc[p] EXCEPT !.step = "send"])
       /\ UNCHANGED <<current, clock, task, rec, env, ops>>

(* Shadow mode delivers even when the claim is refused; enforce raises     *)
(* TaskAttemptDeliveryClaimedError.                                        *)
Claim(p) ==
    LET a == proc[p].a
        claimed == rows[a].status = "prepared"
    IN /\ At(p, "claim")
       /\ rows' = ClaimDelivery(rows, a)
       /\ Emit(p, IF claimed THEN << <<"delivery_claimed", a>> >> ELSE <<>>,
               [proc[p] EXCEPT !.step =
                    IF claimed \/ ~Enforce THEN "send" ELSE "raise"])
       /\ UNCHANGED <<current, clock, task, rec, env, ops>>

(* transport.send_task: a return means the worker has the briefing; an     *)
(* exception may come before or after the bytes were handed over, and is   *)
(* retryable unless it is a PermissionError or FileNotFoundError.          *)
Send(p) ==
    LET a == proc[p].a
    IN /\ At(p, "send")
       /\ \/ /\ deliveries' = [deliveries EXCEPT ![a] = @ + 1]
             /\ Goto(p, "sent") \/ Goto(p, "failed")
          \/ /\ Goto(p, "failed") \/ Goto(p, "refused")
             /\ UNCHANGED deliveries
       /\ UNCHANGED <<store, clock, occ, task, rec, ops, dead, crashes>>

MarkTaskAttemptSent(p) ==
    LET a == proc[p].a
    IN /\ At(p, "sent")
       /\ rows' = MarkSent(rows, a)
       /\ Emit(p, << <<"sent", a>> >>, Idle)
       /\ UNCHANGED <<current, clock, task, rec, env, ops>>

FailTaskAttemptDelivery(p) ==
    LET a == proc[p].a
    IN /\ At(p, "failed") \/ At(p, "refused")
       /\ rows' = IF At(p, "failed")
                  THEN Update(rows, a, "failed", "transport", "yes", "scheduler")
                  ELSE Update(rows, a, "failed", "transport", "no", "human")
       /\ Goto(p, IF At(p, "failed") THEN "failing" ELSE "refusing")
       /\ UNCHANGED <<current, clock, occ, task, rec, env, ops, crashes>>

-----------------------------------------------------------------------------
(* _emit_attempt_failure and emit_task_pipeline_attempt_failure            *)

Retryable(a, flag) == flag # "no" /\ rows[a].ordinal < MaxAttempts

Deadletters(a, flag) == Enforce /\ ~Retryable(a, flag)

(* The store after the failure was recorded: the budget's last failure in  *)
(* enforce mode deadletters the row (the pipeline keeps its owner).        *)
FailureRows(a, flag) ==
    IF Deadletters(a, flag)
    THEN Update(rows, a, "deadlettered", "", "no",
                IF IsPipeline(a) THEN "" ELSE "human")
    ELSE rows

(* What the log gets after task.attempt.failed; a pipeline attempt is not  *)
(* retried by the scheduler.                                               *)
FailureTail(a, flag) ==
    IF Deadletters(a, flag)
    THEN {<<IF IsPipeline(a) THEN "exhausted" ELSE "deadlettered", a>>}
    ELSE IF Enforce /\ ~IsPipeline(a) THEN {<<"retry_scheduled", a>>} ELSE {}

(* Mutant of FailureOcc: the row is written before the failed occurrence.  *)
FailureOccLate(a, flag, k) ==
    IF k >= 3 THEN {<<"failed", a>>} \cup FailureTail(a, flag) ELSE {}

(* The first k of the three writes: failed occurrence, row, last occurrence *)
FailureOcc(a, flag, k) ==
    (IF k >= 1 THEN {<<"failed", a>>} ELSE {})
        \cup (IF k >= 3 THEN FailureTail(a, flag) ELSE {})

(* The failed delivery is recorded, the in-flight dispatch is rolled back  *)
(* (_rollback_inflight_dispatch) and the exception is raised again.        *)
RecordDeliveryFailure(p) ==
    LET a == proc[p].a
        flag == IF At(p, "failing") THEN "yes" ELSE "no"
    IN /\ At(p, "failing") \/ At(p, "refusing")
       /\ \E k \in 1..3 :
            /\ occ' = occ \cup FailureOcc(a, flag, k)
            /\ rows' = IF k >= 2 THEN FailureRows(a, flag) ELSE rows
            /\ IF k = 3
               THEN /\ task' = IF task.active = a
                               THEN [task EXCEPT !.active = NoAttempt] ELSE task
                    /\ Goto(p, "raise")
                    /\ UNCHANGED crashes
               ELSE /\ crashes < MaxCrashes
                    /\ crashes' = crashes + 1
                    /\ proc' = [proc EXCEPT ![p] = Down]
                    /\ UNCHANGED task
       /\ UNCHANGED <<current, clock, rec, env, ops>>

(* The dispatch caller sees the exception.  _dispatch_task restores the    *)
(* status the task had before the dispatch; the other callers do nothing.  *)
Raise(p) ==
    /\ At(p, "raise")
    /\ task' = IF proc[p].caller = "scheduler"
               THEN [status |-> proc[p].prev, active |-> NoAttempt]
               ELSE task
    /\ proc' = [proc EXCEPT ![p] = Idle]
    /\ UNCHANGED <<store, clock, occ, rec, env, ops, crashes>>

-----------------------------------------------------------------------------
(* Workers                                                                 *)

WorkerDies(a) ==
    /\ deliveries[a] > 0 /\ a \in Mortal \ dead
    /\ dead' = dead \cup {a}
    /\ UNCHANGED <<store, clock, occ, task, proc, rec, deliveries, ops, crashes>>

LeaseLapses(a) ==
    /\ rows[a].status \in Active /\ ~rows[a].lapsed
    /\ rows' = [rows EXCEPT ![a].lapsed = TRUE]
    /\ UNCHANGED <<current, clock, occ, task, proc, rec, env, ops, crashes>>

(* renew_task_attempt_lease on a heartbeat that names its attempt or not.  *)
Heartbeat(a, named) ==
    LET cur == IF named THEN CurrentForAttempt(rows, current, a)
               ELSE CurrentForTask(rows, current)
    IN /\ At(Kernel, "idle")
       /\ deliveries[a] > 0 /\ a \notin dead
       /\ cur # NoAttempt
       /\ Enforce => named
       /\ named => cur = a
       /\ rows' = RenewLease(rows, cur)
       /\ UNCHANGED <<current, clock, occ, task, proc, rec, env, ops, crashes>>

-----------------------------------------------------------------------------
(* Settlement from worker results                                          *)

(* validate_task_attempt_result: enforce mode rejects a result that is not *)
(* from the live, current, unexpired attempt of its lane, unless it came   *)
(* through an admitted semantic submit; shadow mode only audits.           *)
Admissible(a) ==
    \/ ~Enforce
    \/ a \in Submitters
    \/ /\ CurrentForAttempt(rows, current, a) = a
       /\ rows[a].status \in {"delivering", "sent"}
       /\ ~rows[a].lapsed

(* Mutant of SettleResult: the row's status is not checked.                *)
SettleResultAnytime(a, ok) ==
    /\ At(Kernel, "idle")
    /\ deliveries[a] > 0
    /\ Admissible(a)
    /\ CurrentForAttempt(rows, current, a) = a
    /\ rows' = IF ok THEN Update(rows, a, "succeeded", "", "", "")
               ELSE Update(rows, a, "failed", "semantic", "no", "workflow")
    /\ Emit(Kernel, << <<IF ok THEN "succeeded" ELSE "failed", a>> >>, Idle)
    /\ UNCHANGED <<current, clock, task, rec, env, ops>>

(* A result event of a delivered attempt reaches the reactor, however late *)
(* and however often: validate, then settle_task_attempt_result.           *)
SettleResult(a, ok) ==
    /\ At(Kernel, "idle")
    /\ deliveries[a] > 0
    /\ Admissible(a)
    /\ CurrentForAttempt(rows, current, a) = a
    /\ rows[a].status \in Active
    /\ rows' = IF ok THEN Update(rows, a, "succeeded", "", "", "")
               ELSE Update(rows, a, "failed", "semantic", "no", "workflow")
    /\ Emit(Kernel, << <<IF ok THEN "succeeded" ELSE "failed", a>> >>, Idle)
    /\ UNCHANGED <<current, clock, task, rec, env, ops>>

(* Mutant of ClearActiveDispatch: a failed occurrence clears nothing.      *)
ClearActiveDispatchNotFailed(a) ==
    /\ At(Kernel, "idle")
    /\ task.active = a
    /\ \E t \in {"succeeded", "superseded", "deadlettered"} : <<t, a>> \in occ
    /\ task' = [task EXCEPT !.active = NoAttempt]
    /\ UNCHANGED <<store, clock, occ, proc, rec, env, ops, crashes>>

(* settle_task_attempt_result on a task.attempt.* terminal occurrence:     *)
(* clear_matching_active_dispatch.                                         *)
ClearActiveDispatch(a) ==
    /\ At(Kernel, "idle")
    /\ task.active = a
    /\ \E t \in {"succeeded", "failed", "superseded", "deadlettered"} : <<t, a>> \in occ
    /\ task' = [task EXCEPT !.active = NoAttempt]
    /\ UNCHANGED <<store, clock, occ, proc, rec, env, ops, crashes>>

-----------------------------------------------------------------------------
(* Settlement from workflow operations                                     *)

(* The operation of a lane reaches a terminal event: settled with the      *)
(* admitted result of a delivered attempt (whose source event names its    *)
(* dispatch), or ended without a result.                                   *)
OperationEnds(l, kind, src) ==
    /\ Len(ops) < MaxOperationEvents
    /\ LaneRows(rows, l) # {}
    /\ IF kind \in {"settled_ok", "settled_bad"}
       THEN src \in LaneRows(rows, l) /\ deliveries[src] > 0
       ELSE src \in LaneRows(rows, l) \cup {NoAttempt}
    /\ ops' = Append(ops, [kind |-> kind, lane |-> l, src |-> src, at |-> clock])
    /\ clock' = clock + 1
    /\ UNCHANGED <<store, occ, task, proc, rec, env, crashes>>

(* The newest of a set of rows: created_at, then ordinal.                  *)
Newest(view, S) ==
    CHOOSE a \in S : \A b \in S :
        \/ view[b].born < view[a].born
        \/ view[b].born = view[a].born /\ view[b].ordinal <= view[a].ordinal

(* Mutant of Settles: the age of the event is not compared.                *)
SettlesAnyAge(view, e) ==
    LET lane == LaneRows(view, e.lane)
        named == lane \cap {e.src}
        open == {a \in lane : view[a].status \in Active}
        target == IF e.src # NoAttempt THEN named \cap open ELSE open
    IN {a \in target : a = Newest(view, target)}

(* The row an operation event settles, as a set of at most one attempt.    *)
Settles(view, e) ==
    LET lane == LaneRows(view, e.lane)
        named == lane \cap {e.src}
        open == {a \in lane : view[a].status \in Active}
        existed == {a \in lane : view[a].born <= e.at}
        admitted == IF named # {} THEN named ELSE lane
        ended == IF e.src # NoAttempt THEN named \cap open ELSE existed \cap open
        repairable == {a \in lane : /\ ~Enforce
                                    /\ view[a].status \in {"expired", "failed"}
                                    /\ view[a].class = "lease_expired"}
    IN IF e.kind \in {"settled_ok", "settled_bad"}
       THEN {a \in admitted \cap (open \cup repairable) : a = Newest(view, admitted)}
       ELSE {a \in ended : a = Newest(view, ended)}

SettledRows(a, kind) ==
    CASE kind = "settled_ok"  -> Update(rows, a, "succeeded", "", "", "")
      [] kind = "settled_bad" -> Update(rows, a, "failed", "semantic", "no", "workflow")
      [] kind = "failed"      -> Update(rows, a, "failed", "operation", "no", "workflow")
      [] kind = "superseded"  -> Update(rows, a, "superseded", "", "no", "workflow")

SettledOcc(kind) ==
    CASE kind = "settled_ok" -> "succeeded"
      [] kind \in {"settled_bad", "failed"} -> "failed"
      [] kind = "superseded" -> "superseded"

(* settle_terminal_operation_attempt, called by the reactor.               *)
SettleOperation(i) ==
    \E a \in Settles(rows, ops[i]) :
        /\ At(Kernel, "idle")
        /\ rows' = SettledRows(a, ops[i].kind)
        /\ Emit(Kernel, << <<SettledOcc(ops[i].kind), a>> >>, Idle)
        /\ UNCHANGED <<current, clock, task, rec, env, ops>>

-----------------------------------------------------------------------------
(* Provider stop of a pipeline attempt                                     *)

(* suspend_retryable_task_pipeline_provider_stop, first write.             *)
ProviderStops(a) ==
    /\ At(Kernel, "idle")
    /\ IsPipeline(a) /\ deliveries[a] > 0
    /\ current[LaneOf[a]] = a /\ rows[a].status \in Active
    /\ rows' = Update(rows, a, "expired", "provider_stop", "yes", "run_manager")
    /\ proc' = [proc EXCEPT ![Kernel] = [Idle EXCEPT !.step = "stopping", !.a = a]]
    /\ UNCHANGED <<current, clock, occ, task, rec, env, ops, crashes>>

(* WorkflowOperationService.interrupt of a pipeline attempt's operation,   *)
(* when that operation still takes it.  The event names its attempt, which *)
(* is not active any more, so as an operation event it settles nothing.    *)
Interrupts(a) == IF IsPipeline(a) THEN {{}, {<<"interrupted", a>>}} ELSE {{}}

RecordProviderStop ==
    LET a == proc[Kernel].a
    IN /\ At(Kernel, "stopping")
       /\ \E k \in 0..3, interrupted \in Interrupts(a) :
            /\ occ' = occ \cup interrupted \cup FailureOcc(a, "yes", k)
            /\ rows' = IF k >= 2 THEN FailureRows(a, "yes") ELSE rows
            /\ proc' = [proc EXCEPT ![Kernel] = IF k = 3 THEN Idle ELSE Down]
            /\ IF k = 3 THEN UNCHANGED crashes
               ELSE crashes < MaxCrashes /\ crashes' = crashes + 1
       /\ UNCHANGED <<current, clock, task, rec, env, ops>>

-----------------------------------------------------------------------------
(* reconcile_task_attempts: replay operations, expire, visit expired rows  *)

(* The sweep reads the log and the store once for its first pass.          *)
ReconcileBegin ==
    /\ At(Kernel, "idle")
    /\ Goto(Kernel, "settling")
    /\ rec' = [NoSweep EXCEPT !.snap = Len(ops), !.view = rows]
    /\ UNCHANGED <<store, clock, occ, task, env, ops, crashes>>

(* One event of the replay, settled against the rows read at the beginning *)
(* (and kept up to date with the sweep's own writes only).                 *)
ReconcileSettle ==
    LET target == Settles(rec.view, ops[rec.pos])
        kind == ops[rec.pos].kind
    IN /\ At(Kernel, "settling")
       /\ rec.pos <= rec.snap
       /\ \/ /\ target = {}
             /\ rec' = [rec EXCEPT !.pos = @ + 1]
             /\ UNCHANGED <<rows, occ, proc, crashes>>
          \/ \E a \in target :
             /\ rows' = SettledRows(a, kind)
             /\ rec' = [rec EXCEPT !.pos = @ + 1, !.view[a] = rows'[a]]
             /\ Emit(Kernel, << <<SettledOcc(kind), a>> >>, proc[Kernel])
       /\ UNCHANGED <<current, clock, task, env, ops>>

ReconcileExpire ==
    /\ At(Kernel, "settling")
    /\ rec.pos > rec.snap
    /\ rows' = Expire(rows)
    /\ rec' = [NoSweep EXCEPT !.todo = {a \in Expiring(rows) : IsPipeline(a)}]
    /\ Goto(Kernel, "marking")
    /\ UNCHANGED <<current, clock, occ, task, env, ops, crashes>>

(* mark_expired_task_pipeline_attempts, one row.                           *)
ReconcileMark(a) ==
    /\ At(Kernel, "marking")
    /\ a \in rec.todo
    /\ rows' = Update(rows, a, "expired", "", "", "run_manager")
    /\ rec' = [rec EXCEPT !.todo = @ \ {a}]
    /\ UNCHANGED <<current, clock, occ, task, proc, env, ops, crashes>>

(* The second reading of the store; only rows that are expired or lack     *)
(* their started occurrence give the loop something to do.                 *)
ReconcileScan ==
    /\ At(Kernel, "marking")
    /\ rec.todo = {}
    /\ rec' = [NoSweep EXCEPT !.view = rows,
                 !.todo = {a \in Known(rows) : \/ rows[a].status = "expired"
                                               \/ <<"started", a>> \notin occ}]
    /\ Goto(Kernel, "rows")
    /\ UNCHANGED <<store, clock, occ, task, env, ops, crashes>>

(* _requeue_expired_task: only the dispatch the task still waits for.      *)
Requeue(a) ==
    IF task.active = a
    THEN [status |-> IF rows[a].ordinal >= MaxAttempts THEN "blocked" ELSE "backlog",
          active |-> NoAttempt]
    ELSE task

ReconcileStarted(a) ==
    /\ At(Kernel, "rows")
    /\ a \in rec.todo
    /\ rec.view[a].status # "expired"
    /\ occ' = occ \cup {<<"started", a>>}
    /\ rec' = [rec EXCEPT !.todo = @ \ {a}]
    /\ UNCHANGED <<store, clock, task, proc, env, ops, crashes>>

(* One row read as expired: interrupt a pipeline operation, record the     *)
(* failure, close the row in shadow mode or requeue the task in enforce    *)
(* mode; k of these writes happen before the kernel dies, or all of them.  *)
ReconcileRow(a) ==
    /\ At(Kernel, "rows")
    /\ a \in rec.todo
    /\ rec.view[a].status = "expired"
    /\ \E k \in 0..4, interrupted \in Interrupts(a) :
        LET recorded == IF k >= 2 THEN FailureRows(a, "yes") ELSE rows
        IN /\ occ' = occ \cup {<<"started", a>>} \cup interrupted
                         \cup FailureOcc(a, "yes", k)
           /\ rows' = IF k = 4 /\ ~Enforce
                      THEN Update(recorded, a, "failed", "", "", "") ELSE recorded
           /\ task' = IF k = 4 /\ Enforce /\ ~IsPipeline(a) THEN Requeue(a) ELSE task
           /\ IF k = 4
              THEN /\ rec' = [rec EXCEPT !.todo = @ \ {a}]
                   /\ UNCHANGED <<proc, crashes>>
              ELSE /\ crashes < MaxCrashes
                   /\ crashes' = crashes + 1
                   /\ proc' = [proc EXCEPT ![Kernel] = Down]
                   /\ UNCHANGED rec
    /\ UNCHANGED <<current, clock, env, ops>>

ReconcileEnd ==
    /\ At(Kernel, "rows")
    /\ rec.todo = {}
    /\ proc' = [proc EXCEPT ![Kernel] = Idle]
    /\ rec' = NoSweep
    /\ UNCHANGED <<store, clock, occ, task, env, ops, crashes>>

-----------------------------------------------------------------------------
Deliver(p) ==
    \/ PrepareAgain(p) \/ Prepare(p) \/ Exhaust(p) \/ BlockExhausted(p)
    \/ Claim(p) \/ Send(p)
    \/ MarkTaskAttemptSent(p) \/ FailTaskAttemptDelivery(p)
    \/ RecordDeliveryFailure(p) \/ Raise(p)

Reconcile ==
    \/ ReconcileSettle \/ ReconcileExpire \/ ReconcileScan \/ ReconcileEnd
    \/ \E a \in Attempts : ReconcileMark(a) \/ ReconcileStarted(a) \/ ReconcileRow(a)

Next ==
    \/ \E p \in Procs : Deliver(p) \/ Crash(p) \/ Restart(p)
    \/ \E p \in Procs, a \in Attempts, c \in {"scheduler", "rework", "child"} :
            Dispatch(p, a, c)
    \/ \E a \in Attempts, ok \in BOOLEAN :
            Heartbeat(a, ok) \/ SettleResult(a, ok)
    \/ \E a \in Attempts :
            WorkerDies(a) \/ LeaseLapses(a) \/ ClearActiveDispatch(a) \/ ProviderStops(a)
    \/ \E l \in Lanes, src \in Attempts \cup {NoAttempt},
          kind \in {"settled_ok", "settled_bad", "failed", "superseded"} :
            OperationEnds(l, kind, src)
    \/ \E i \in DOMAIN ops : SettleOperation(i)
    \/ RecordProviderStop \/ ReconcileBegin \/ Reconcile

Spec == Init /\ [][Next]_vars

(* The watcher loop of "zf start" runs every pending handler to its end,   *)
(* sweeps on every tick and reads every event; a process that died is      *)
(* started again by whoever runs zf (deaths are bounded); the clock passes *)
(* the lease of a worker that cannot renew.                                *)
Fairness ==
    /\ \A p \in Procs : WF_vars(Deliver(p)) /\ WF_vars(Restart(p))
    /\ WF_vars(Reconcile) /\ WF_vars(RecordProviderStop)
    /\ SF_vars(ReconcileBegin)
    /\ \A a \in Attempts : /\ WF_vars(a \in dead /\ LeaseLapses(a))
                           /\ SF_vars(ClearActiveDispatch(a))

FairSpec == Spec /\ Fairness

-----------------------------------------------------------------------------
(* Properties                                                              *)

(* One lane never has two live attempts: an attempt in prepared,           *)
(* delivering or sent is the one the lane's current pointer names, so the  *)
(* currentness check on results is decisive (ensure_for_dispatch           *)
(* supersedes before it moves the pointer, and no late write revives one). *)
OneLiveAttempt == LiveIsCurrent(rows, current)

(* The current pointer names the lane's last row in (series, ordinal)      *)
(* order, strictly: two dispatches never share a retry slot, and the row   *)
(* the budget is counted from is the row results are checked against.      *)
CurrentIsLatest == HeadIsLatest(rows, current)

(* Enforce mode: whatever dies, is redelivered or fails in between, a lane *)
(* gets at most MaxAttempts attempts per accepted result.                  *)
RetryBudget ==
    Enforce => \A l \in Lanes :
        /\ \A a \in LaneRows(rows, l) : rows[a].ordinal \in 1..MaxAttempts
        /\ Cardinality(LaneRows(rows, l)) <=
             MaxAttempts * (1 + Cardinality({a \in LaneRows(rows, l) :
                                               rows[a].status = "succeeded"}))

(* Enforce mode: a briefing reaches a worker at most once per attempt, and *)
(* only after attempt, lease and claim are on disk, even when the process  *)
(* dies anywhere or two processes deliver the same dispatch.               *)
AtMostOneDelivery ==
    Enforce => \A a \in Attempts :
        /\ deliveries[a] <= 1
        /\ deliveries[a] > 0 => rows[a].status \notin {"absent", "prepared"}

Phase(row) ==
    CASE row.status = "absent" -> "none" [] row.status \in Active -> "live" [] OTHER -> "ended"

Ledger == INSTANCE AttemptLanes WITH
             phase <- [a \in Attempts |-> Phase(rows[a])], handed <- deliveries,
             Once <- Enforce

(* Whatever handlers, sweeps, late results and deaths of several processes *)
(* interleave, an attempt is opened once, replaces its lane's live attempt *)
(* at that moment, and once ended is never live again.                     *)
ImplementsLanes == Ledger!Spec

(* A row closed by a failed operation was closed by an event about itself: *)
(* the event names it, or it existed when its operation ended, so the old  *)
(* operation event never settles a later redrive.                          *)
OperationFailureIsOwn ==
    \A a \in Attempts : rows[a].class = "operation" =>
        \E i \in DOMAIN ops :
            /\ ops[i].kind = "failed" /\ ops[i].lane = LaneOf[a]
            /\ ops[i].src = a \/ (ops[i].src = NoAttempt /\ rows[a].born <= ops[i].at)

(* A deadlettered row is always explained: its failed occurrence is in the *)
(* log before the row says so, so a crash between the two never leaves a   *)
(* task parked without the event that recovery and operators read.         *)
DeadletterExplained ==
    \A a \in Attempts : rows[a].status = "deadlettered" => <<"failed", a>> \in occ

(* A success, once recorded, is never taken back: no late failure, lease   *)
(* expiry, sweep or supersession rewrites a succeeded row.  It needs       *)
(* enforce mode and one dispatching process: fail_task_attempt_delivery    *)
(* updates the row whatever its status, so a second process whose send     *)
(* fails late can overwrite a result the kernel has settled meanwhile.     *)
SucceededIsFinal ==
    [][\A a \in Attempts :
          rows[a].status = "succeeded" => rows'[a].status = "succeeded"]_vars

(* Budget exhaustion parks the task: once the exhausted budget is reported *)
(* and the dispatch that met it has returned, the task is blocked.         *)
ExhaustedTaskBlocked ==
    <<"deadlettered", NoAttempt>> \in occ /\ At(Kernel, "idle")
        => task.status = "blocked"

(* An expired lease never leaves its task waiting: whichever write of the  *)
(* sweep the kernel dies after, the dispatch stops being the task's active *)
(* one (requeued, blocked, or cleared by its failed occurrence).           *)
ExpiredDispatchReleased ==
    \A a \in Attempts :
        (task.active = a /\ rows[a].status = "expired") ~> (task.active # a)

(* A dead worker's attempt leaves the active statuses.                     *)
DeadAttemptCloses ==
    \A a \in Attempts :
        (a \in dead /\ rows[a].status \in Active) ~> (rows[a].status \notin Active)
=============================================================================
