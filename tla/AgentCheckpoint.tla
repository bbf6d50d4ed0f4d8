-------------------------- MODULE AgentCheckpoint --------------------------
(***************************************************************************)
(* One semantic checkpoint of the Orchestrator Agent, from the durable     *)
(* request to its end: the WorkflowOperation row that the log reduces to,  *)
(* the kernel loop that dispatches checkpoint events, applies respawn      *)
(* requests and sweeps, the provider pane, "zf result submit", "zf stop"   *)
(* and "zf start".                                                         *)
(*                                                                         *)
(* Every append to the log is a step of its own, so another process or a   *)
(* death can come between any two. The log itself is represented by the    *)
(* row it reduces to and by what _emit_once and the other guards search    *)
(* it for.                                                                 *)
(***************************************************************************)
EXTENDS Naturals, Sequences, FiniteSets

CONSTANTS
    MaxDeaths,     \* how often the provider process dies by itself
    MaxStops,      \* how often an operator runs zf stop
    MaxMishaps,    \* how often the kernel or a submit dies, a submit outlives
                   \* its pane or a cool-down drops an event
    SendRaises,    \* whether a send to a live pane may raise
    RespawnOutcomes \* what may come of a respawn: spawned, refused, failed

ASSUME CheckpointAssumption ==
    /\ MaxDeaths \in Nat /\ MaxStops \in Nat /\ MaxMishaps \in Nat
    /\ SendRaises \in BOOLEAN
    /\ RespawnOutcomes \subseteq {"spawned", "refused", "failed"} /\ RespawnOutcomes # {}

VARIABLES
    op,         \* the reduced operation row
    started,    \* checkpoints with a workflow.operation.started event
    said,       \* once-only event types of the operation in the log
    causes,     \* checkpoints that caused an interrupted event
    cuts,       \* the number of interrupted events
    redriven,   \* interruptions with a redrive_admitted event
    cps,        \* the checkpoint.requested events, in order
    acked,      \* the durable cursor, counted in checkpoint events
    respawn,    \* the worker.respawn.requested event: none, requested, done or failed
    pane,       \* the provider: dead, idle or busy with the prompt
    prompts,    \* the prompts sent
    submit,     \* zf result submit: none, checked or admitted
    submitFor,  \* the dispatch the submit read from the row
    stray,      \* whether a submit has outlived its pane
    admitted,   \* dispatches with an admitted result
    pc,         \* where the kernel loop is
    mode,       \* a poll or a tick
    todo, last, \* the checkpoint event being handled, the last of the batch
    seen,       \* the row as the sweep read it, while the sweep uses it
    stop,       \* where zf stop is
    stopSaw,    \* whether zf stop read an active operation
    torn,       \* history: "crash" of a process, "stop" inside an iteration
    late,       \* history: a stray submit has ended the operation
    dropped,    \* history: the last checkpoint event that a cool-down dropped
    deaths, stops, mishaps

durable  == <<op, started, said, causes, cuts, redriven, cps, acked, respawn, admitted>>
provider == <<pane, prompts, submit, submitFor, deaths, stray>>
kernel   == <<pc, mode, todo, last, seen>>
past     == <<late, dropped>>
operator == <<stop, stopSaw, torn, stops, mishaps, past>>
vars     == <<durable, provider, kernel, operator>>

Terminal == {"settled", "failed", "blocked"}
Statuses == {"none", "requested", "running", "suspended"} \cup Terminal
Reasons  == {"none", "stop", "send_dead", "probe_dead", "ended"}
Rows     == [status : Statuses, reason : Reasons, retries : Nat, dispatch : Nat, cut : Nat]

NoRow == [status |-> "none", reason |-> "none", retries |-> 0, dispatch |-> 0, cut |-> 0]

TypeOK ==
    /\ op \in Rows /\ seen \in Rows
    /\ started \subseteq Nat /\ causes \subseteq Nat /\ redriven \subseteq Nat
    /\ admitted \subseteq Nat
    /\ said \subseteq {"retry_started", "settled", "failed", "blocked"}
    /\ cuts \in Nat /\ acked \in Nat /\ todo \in Nat /\ last \in Nat
    /\ cps \in Seq([kind : {"first", "restart", "retry"}, cut : Nat])
    /\ respawn \in {"none", "requested", "done", "failed"}
    /\ pane \in {"dead", "idle", "busy"} /\ prompts \in Nat
    /\ submit \in {"none", "checked", "admitted"} /\ submitFor \in Nat
    /\ stray \in BOOLEAN
    /\ pc \in {"down", "idle", "first", "event", "start", "retry", "send", "pane_dead",
               "send_failed", "request", "ack", "actions", "requeue", "result", "sweep",
               "redrive", "rearm", "probe", "lost", "probe_request"}
    /\ mode \in {"poll", "tick"}
    /\ stop \in {"none", "marked", "read", "cut", "dark"} /\ stopSaw \in BOOLEAN
    /\ torn \subseteq {"stop", "crash"} /\ late \in BOOLEAN /\ dropped \in Nat
    /\ deaths \in Nat /\ stops \in Nat /\ mishaps \in Nat

Init ==
    /\ op = NoRow /\ seen = NoRow
    /\ started = {} /\ said = {} /\ causes = {} /\ redriven = {} /\ admitted = {}
    /\ cuts = 0 /\ cps = <<>> /\ acked = 0 /\ respawn = "none"
    /\ pane = "idle" /\ prompts = 0 /\ submit = "none" /\ submitFor = 0
    /\ stray = FALSE /\ late = FALSE /\ dropped = 0
    /\ pc = "idle" /\ mode = "tick" /\ todo = 0 /\ last = 0
    /\ stop = "none" /\ stopSaw = FALSE /\ torn = {}
    /\ deaths = 0 /\ stops = 0 /\ mishaps = 0

-----------------------------------------------------------------------------
(* reduce_workflow_operations: what one more event makes of the row        *)

Started(row, c) ==
    IF row.status \in Terminal THEN row
    ELSE [row EXCEPT !.status = "running", !.dispatch = c]

RetryStarted(row, c) ==
    IF row.status \in {"suspended", "failed"}
    THEN [row EXCEPT !.status = "running", !.reason = "none",
                     !.retries = row.retries + 1, !.dispatch = c]
    ELSE row

(* Mutant of Interrupted: the reducer takes the event's name for the       *)
(* status.                                                                 *)
InterruptedVerbatim(row, why, n) ==
    IF row.status \in Terminal THEN row
    ELSE [row EXCEPT !.status = "interrupted", !.reason = why, !.cut = n]

(* Mutant of Interrupted: an ended operation is suspended all the same.    *)
InterruptedAlways(row, why, n) ==
    [row EXCEPT !.status = "suspended", !.reason = why, !.cut = n]

Interrupted(row, why, n) ==
    IF row.status \in Terminal THEN row
    ELSE [row EXCEPT !.status = "suspended", !.reason = why, !.cut = n]

Ended(row, how) == [row EXCEPT !.status = how, !.reason = "ended"]

Redriven(row) ==
    IF row.status \in {"suspended", "requested"}
    THEN [row EXCEPT !.status = "requested", !.dispatch = 0, !.reason = "none"]
    ELSE row

-----------------------------------------------------------------------------
(* WorkflowOperationService: an event is emitted unless _emit_once finds   *)
(* one like it                                                             *)

(* settled, failed and blocked, once each.                                 *)
End(how) ==
    /\ op' = IF how \in said THEN op ELSE Ended(op, how)
    /\ said' = said \cup {how}

(* An interruption with a cause of its own is never a duplicate.           *)
Interrupt(why) ==
    /\ cuts' = cuts + 1
    /\ op' = Interrupted(op, why, cuts + 1)

-----------------------------------------------------------------------------
(* The kernel loop                                                         *)

(* _prepare: ensure_operation appends the request.                         *)
EnsureOperation ==
    /\ pc = "idle" /\ stop = "none" /\ op.status = "none"
    /\ op' = [op EXCEPT !.status = "requested"]
    /\ pc' = "first"
    /\ UNCHANGED <<started, said, causes, cuts, redriven, cps, acked, respawn, admitted>>
    /\ UNCHANGED <<mode, todo, last, seen, provider, operator>>

(* Then it asks for the dispatch, only when it has created the operation.  *)
RequestCheckpoint ==
    /\ pc = "first"
    /\ cps' = Append(cps, [kind |-> "first", cut |-> 0])
    /\ pc' = "idle"
    /\ UNCHANGED <<op, started, said, causes, cuts, redriven, acked, respawn, admitted>>
    /\ UNCHANGED <<mode, todo, last, seen, provider, operator>>

(* An iteration begins unless the shutdown marker is there: a poll when    *)
(* there are new events, a tick at any time.                               *)
Begin ==
    /\ pc = "idle" /\ stop = "none"
    /\ mode' \in {"poll", "tick"}
    /\ mode' = "poll" => acked < Len(cps)
    /\ todo' = acked + 1
    /\ last' = Len(cps)
    /\ pc' = "event"
    /\ UNCHANGED <<seen, durable, provider, operator>>

(* The next thing of an iteration after an event: the next event, and in   *)
(* a poll the pending worker actions in between.                           *)
AfterEvent ==
    IF mode = "poll" THEN pc' = "actions" /\ todo' = todo
    ELSE pc' = "event" /\ todo' = todo + 1

(* And after the worker actions: a poll goes on with its batch, a tick     *)
(* sweeps.                                                                 *)
AfterActions ==
    IF mode = "poll" THEN pc' = "event" /\ todo' = todo + 1
    ELSE pc' = "sweep" /\ todo' = todo

IsRetry(c) == cps[c].kind = "retry"

(* Mutant of Dispatchable: the status of the row is not looked at.         *)
DispatchableUnread(c) == op.status # "none"

(* prepared_operation_from_checkpoint_event: the row is read when the      *)
(* event is handled, however old the event is.                             *)
Dispatchable(c) ==
    \/ op.status = "requested"
    \/ IsRetry(c) /\ op.status = "suspended"

(* dispatch_orchestrator_agent_operation begins, or has nothing to do.     *)
Prepare ==
    /\ pc = "event"
    /\ \/ /\ todo > last
          /\ pc' = "ack"
          /\ UNCHANGED todo
       \/ /\ todo <= last /\ Dispatchable(todo)
          /\ pc' = IF IsRetry(todo) THEN "retry" ELSE "start"
          /\ UNCHANGED todo
       \/ /\ todo <= last /\ ~Dispatchable(todo)
          /\ AfterEvent
    /\ UNCHANGED <<mode, last, seen, durable, provider, operator>>

(* _notify_orchestrator_agent: while Layer 2 cools down after an API block *)
(* or a timeout, of any role and at any time, the event is dropped, and it *)
(* counts as processed. (An event that is not dispatchable makes no        *)
(* difference.)                                                            *)
Drop ==
    /\ pc = "event" /\ todo <= last /\ Dispatchable(todo)
    /\ mishaps < MaxMishaps
    /\ dropped' = todo /\ mishaps' = mishaps + 1
    /\ AfterEvent
    /\ UNCHANGED <<mode, last, seen, durable, provider, stop, stopSaw, torn, stops, late>>

(* Mutant of MarkStarted: one started event for the operation is thought   *)
(* enough.                                                                 *)
MarkStartedOnce ==
    /\ pc = "start"
    /\ op' = IF started = {} THEN Started(op, todo) ELSE op
    /\ started' = IF started = {} THEN {todo} ELSE started
    /\ pc' = "send"
    /\ UNCHANGED <<said, causes, cuts, redriven, cps, acked, respawn, admitted>>
    /\ UNCHANGED <<mode, todo, last, seen, provider, operator>>

(* mark_started, once for each checkpoint.                                 *)
MarkStarted ==
    /\ pc = "start"
    /\ op' = IF todo \in started THEN op ELSE Started(op, todo)
    /\ started' = started \cup {todo}
    /\ pc' = "send"
    /\ UNCHANGED <<said, causes, cuts, redriven, cps, acked, respawn, admitted>>
    /\ UNCHANGED <<mode, todo, last, seen, provider, operator>>

(* mark_retry_started, once for each operation; it raises for a row that   *)
(* has moved on, and nothing on the way catches that: a tick is given up,  *)
(* a poll takes the watcher with it, and the batch is not acknowledged.    *)
MarkRetryStarted ==
    /\ pc = "retry"
    /\ IF op.status \in {"suspended", "failed"}
       THEN /\ op' = IF "retry_started" \in said THEN op ELSE RetryStarted(op, todo)
            /\ said' = said \cup {"retry_started"}
            /\ pc' = "send"
            /\ UNCHANGED torn
       ELSE /\ pc' = IF mode = "poll" THEN "down" ELSE "idle"
            /\ torn' = torn \cup {"crash"}
            /\ UNCHANGED <<op, said>>
    /\ UNCHANGED <<started, causes, cuts, redriven, cps, acked, respawn, admitted>>
    /\ UNCHANGED <<mode, todo, last, seen, provider, stop, stopSaw, stops, mishaps, past>>

(* _send_transport_task, after the row says running.                       *)
Send ==
    /\ pc = "send"
    /\ \/ /\ pane # "dead"
          /\ pane' = "busy"
          /\ prompts' = prompts + 1
          /\ AfterEvent
       \/ /\ pane = "dead"
          /\ pc' = "pane_dead"
          /\ UNCHANGED <<pane, prompts, todo>>
       \/ /\ pane # "dead" /\ SendRaises
          /\ pc' = "send_failed"
          /\ UNCHANGED <<pane, prompts, todo>>
    /\ UNCHANGED <<submit, submitFor, stray, deaths, mode, last, seen, durable, operator>>

(* A dead pane at the send: the operation waits for a respawn, unless this *)
(* was the retry already.                                                  *)
PaneDead ==
    /\ pc = "pane_dead"
    /\ IF IsRetry(todo)
       THEN End("blocked") /\ AfterEvent /\ UNCHANGED <<causes, cuts>>
       ELSE /\ IF todo \in causes THEN UNCHANGED <<op, cuts>> ELSE Interrupt("send_dead")
            /\ causes' = causes \cup {todo}
            /\ pc' = "request"
            /\ UNCHANGED <<todo, said>>
    /\ UNCHANGED <<started, redriven, cps, acked, respawn, admitted>>
    /\ UNCHANGED <<mode, last, seen, provider, operator>>

SendFailed ==
    /\ pc = "send_failed"
    /\ End(IF IsRetry(todo) THEN "blocked" ELSE "failed")
    /\ AfterEvent
    /\ UNCHANGED <<started, causes, cuts, redriven, cps, acked, respawn, admitted>>
    /\ UNCHANGED <<mode, last, seen, provider, operator>>

(* request_orchestrator_agent_checkpoint_respawn: one request for the      *)
(* operation, from the send or from the sweep.                             *)
RequestRespawn ==
    /\ pc \in {"request", "probe_request"}
    /\ respawn' = IF respawn = "none" THEN "requested" ELSE respawn
    /\ IF pc = "request" THEN AfterEvent ELSE pc' = "idle" /\ UNCHANGED todo
    /\ UNCHANGED <<op, started, said, causes, cuts, redriven, cps, acked, admitted>>
    /\ UNCHANGED <<mode, last, seen, provider, operator>>

(* The cursor moves behind the batch; a poll ends here, a tick goes on.    *)
Acknowledge ==
    /\ pc = "ack"
    /\ acked' = last
    /\ pc' = IF mode = "poll" THEN "idle" ELSE "actions"
    /\ UNCHANGED <<op, started, said, causes, cuts, redriven, cps, respawn, admitted>>
    /\ UNCHANGED <<mode, todo, last, seen, provider, operator>>

-----------------------------------------------------------------------------
(* _handle_worker_action_requests, _apply_worker_respawn_request           *)

(* What becomes of a submit when its pane goes: it is gone too, or it goes *)
(* on behind the back of the new one.                                      *)
LeaveSubmit ==
    /\ submit' = "none"
    /\ \/ UNCHANGED <<stray, mishaps>>
       \/ /\ submit # "none" /\ mishaps < MaxMishaps
          /\ stray' = TRUE /\ mishaps' = mishaps + 1

(* _respawn_instance terminates the old pane's process group and spawns a  *)
(* new pane, which may not become ready. Whatever the termination raises   *)
(* is swallowed, so a provider at work may go on with its prompt, and a    *)
(* submit of the old pane with its result. A held lease, the cooldown or   *)
(* the circuit breaker refuse the respawn, and that does not count as a    *)
(* failure.                                                                *)
ApplyRespawn ==
    /\ pc = "actions"
    /\ \/ /\ respawn # "requested"
          /\ AfterActions
          /\ UNCHANGED <<respawn, pane, submit, stray, mishaps>>
       \/ /\ respawn = "requested" /\ "spawned" \in RespawnOutcomes
          /\ \/ pane' = "idle" /\ LeaveSubmit
             \/ pane = "busy" /\ UNCHANGED <<pane, submit, stray, mishaps>>
          /\ pc' = "requeue"
          /\ UNCHANGED <<respawn, todo>>
       \/ /\ respawn = "requested" /\ "refused" \in RespawnOutcomes
          /\ pc' = "requeue"
          /\ UNCHANGED <<respawn, todo, pane, submit, stray, mishaps>>
       \/ /\ respawn = "requested" /\ "failed" \in RespawnOutcomes
          /\ \/ pane' \in {"dead", "idle"} /\ LeaveSubmit
             \/ UNCHANGED <<pane, submit, stray, mishaps>>
          /\ respawn' = "failed"
          /\ AfterActions
    /\ UNCHANGED <<op, started, said, causes, cuts, redriven, cps, acked, admitted>>
    /\ UNCHANGED <<prompts, deaths, submitFor, mode, last, seen>>
    /\ UNCHANGED <<stop, stopSaw, torn, stops, past>>

(* Mutant of Requeue: no search for the retry event of an earlier try.     *)
RequeueAlways ==
    /\ pc = "requeue"
    /\ cps' = IF op.status = "suspended"
              THEN Append(cps, [kind |-> "retry", cut |-> 0]) ELSE cps
    /\ pc' = "result"
    /\ UNCHANGED <<op, started, said, causes, cuts, redriven, acked, respawn, admitted>>
    /\ UNCHANGED <<mode, todo, last, seen, provider, operator>>

(* requeue_orchestrator_agent_checkpoint_after_respawn: one retry event    *)
(* for the request, if the operation still waits for it. It is a copy of   *)
(* the checkpoint event that the pane was dead for; an interruption that   *)
(* one names is named already, so its copy tells Rearm nothing new.        *)
Requeue ==
    /\ pc = "requeue"
    /\ cps' = IF op.status = "suspended" /\ \A c \in DOMAIN cps : ~IsRetry(c)
              THEN Append(cps, [kind |-> "retry", cut |-> 0]) ELSE cps
    /\ pc' = "result"
    /\ UNCHANGED <<op, started, said, causes, cuts, redriven, acked, respawn, admitted>>
    /\ UNCHANGED <<mode, todo, last, seen, provider, operator>>

(* worker.respawn.completed or failed: the request is handled for good.    *)
RespawnResult ==
    /\ pc = "result"
    /\ respawn' = IF \E c \in DOMAIN cps : IsRetry(c) THEN "done" ELSE "failed"
    /\ AfterActions
    /\ UNCHANGED <<op, started, said, causes, cuts, redriven, cps, acked, admitted>>
    /\ UNCHANGED <<mode, last, seen, provider, operator>>

-----------------------------------------------------------------------------
(* reconcile_orchestrator_agent_operation_liveness, once in every tick     *)

StoppedByOperator(row) == row.status = "suspended" /\ row.reason = "stop"

(* Mutant of Sweep: only an operation that had been dispatched is          *)
(* redriven.                                                               *)
SweepDispatched ==
    /\ pc = "sweep"
    /\ IF StoppedByOperator(op) /\ op.dispatch # 0
       THEN pc' = "redrive" /\ seen' = op
       ELSE pc' = "probe" /\ UNCHANGED seen
    /\ UNCHANGED <<mode, todo, last, durable, provider, operator>>

(* _redrive_explicitly_stopped_checkpoints reads the row; without any      *)
(* checkpoint event there is nothing to repeat.                            *)
Sweep ==
    /\ pc = "sweep"
    /\ IF ~StoppedByOperator(op) THEN pc' = "probe" /\ UNCHANGED <<op, said, seen>>
       ELSE IF cps = <<>> THEN pc' = "probe" /\ End("blocked") /\ UNCHANGED seen
       ELSE pc' = "redrive" /\ seen' = op /\ UNCHANGED <<op, said>>
    /\ UNCHANGED <<started, causes, cuts, redriven, cps, acked, respawn, admitted>>
    /\ UNCHANGED <<mode, todo, last, provider, operator>>

(* admit_redrive, once for each interruption; it raises for a row that has *)
(* moved on, which ends the sweep.                                         *)
AdmitRedrive ==
    /\ pc = "redrive"
    /\ IF op.status \in {"suspended", "requested"}
       THEN /\ op' = IF seen.cut \in redriven THEN op ELSE Redriven(op)
            /\ redriven' = redriven \cup {seen.cut}
            /\ pc' = "rearm" /\ UNCHANGED seen
       ELSE /\ pc' = "idle" /\ seen' = NoRow
            /\ UNCHANGED <<op, redriven>>
    /\ UNCHANGED <<started, said, causes, cuts, cps, acked, respawn, admitted>>
    /\ UNCHANGED <<mode, todo, last, provider, operator>>

(* Mutant of Rearm: one checkpoint event for the operation is thought      *)
(* enough.                                                                 *)
RearmOnce ==
    /\ pc = "rearm"
    /\ pc' = "probe" /\ seen' = NoRow
    /\ UNCHANGED <<mode, todo, last, durable, provider, operator>>

(* The checkpoint is asked for again, once for each interruption.          *)
Rearm ==
    /\ pc = "rearm"
    /\ cps' = IF \E c \in DOMAIN cps : cps[c].cut = seen.cut THEN cps
              ELSE Append(cps, [kind |-> "restart", cut |-> seen.cut])
    /\ pc' = "probe" /\ seen' = NoRow
    /\ UNCHANGED <<op, started, said, causes, cuts, redriven, acked, respawn, admitted>>
    /\ UNCHANGED <<mode, todo, last, provider, operator>>

(* A running operation, or one this sweep suspended, is a candidate.       *)
Probe ==
    /\ pc = "probe"
    /\ IF op.status = "running" \/ (op.status = "suspended" /\ op.reason = "probe_dead")
       THEN pc' = "lost" /\ seen' = op
       ELSE pc' = "idle" /\ UNCHANGED seen
    /\ UNCHANGED <<mode, todo, last, durable, provider, operator>>

(* Mutant of Lost: after the retry the loss is left to the next sweep.     *)
LostAfterRetry ==
    /\ pc = "lost" /\ seen' = NoRow
    /\ IF pane # "dead" \/ seen.retries >= 1 THEN pc' = "idle" /\ UNCHANGED <<op, cuts>>
       ELSE IF seen.status = "running"
       THEN pc' = "probe_request" /\ Interrupt("probe_dead")
       ELSE pc' = "probe_request" /\ UNCHANGED <<op, cuts>>
    /\ UNCHANGED <<started, said, causes, redriven, cps, acked, respawn, admitted>>
    /\ UNCHANGED <<mode, todo, last, provider, operator>>

(* Mutant of Lost: the dead provider is entered as a stop by the operator. *)
LostAsStop ==
    /\ pc = "lost" /\ seen' = NoRow
    /\ IF pane # "dead" THEN pc' = "idle" /\ UNCHANGED <<op, said, cuts>>
       ELSE IF seen.status = "running" /\ seen.retries >= 1
       THEN pc' = "idle" /\ End("blocked") /\ UNCHANGED cuts
       ELSE IF seen.status = "running"
       THEN pc' = "probe_request" /\ Interrupt("stop") /\ UNCHANGED said
       ELSE /\ pc' = IF seen.retries >= 1 THEN "idle" ELSE "probe_request"
            /\ UNCHANGED <<op, said, cuts>>
    /\ UNCHANGED <<started, causes, redriven, cps, acked, respawn, admitted>>
    /\ UNCHANGED <<mode, todo, last, provider, operator>>

(* Then is_alive is asked, and a dead provider is reported: the operation  *)
(* is suspended for one respawn, or blocked after the retry.               *)
Lost ==
    /\ pc = "lost" /\ seen' = NoRow
    /\ IF pane # "dead" THEN pc' = "idle" /\ UNCHANGED <<op, said, cuts>>
       ELSE IF seen.status = "running" /\ seen.retries >= 1
       THEN pc' = "idle" /\ End("blocked") /\ UNCHANGED cuts
       ELSE IF seen.status = "running"
       THEN pc' = "probe_request" /\ Interrupt("probe_dead") /\ UNCHANGED said
       ELSE /\ pc' = IF seen.retries >= 1 THEN "idle" ELSE "probe_request"
            /\ UNCHANGED <<op, said, cuts>>
    /\ UNCHANGED <<started, causes, redriven, cps, acked, respawn, admitted>>
    /\ UNCHANGED <<mode, todo, last, provider, operator>>

-----------------------------------------------------------------------------
(* The provider, and zf result submit, which it runs as a process of its   *)
(* own                                                                     *)

(* The process exits; a submit it has started may go on for a while.       *)
ProviderDies ==
    /\ pane # "dead" /\ deaths < MaxDeaths
    /\ pane' = "dead" /\ deaths' = deaths + 1
    /\ submit' \in {submit, "none"}
    /\ UNCHANGED <<prompts, submitFor, stray, durable, kernel, operator>>

(* _authorized_semantic_result reads the row once; the rest of the submit  *)
(* works with what it read.                                                *)
SubmitCheck ==
    /\ pane = "busy" /\ submit = "none"
    /\ IF op.status = "running"
       THEN submit' = "checked" /\ submitFor' = op.dispatch /\ UNCHANGED pane
       ELSE pane' = "idle" /\ UNCHANGED <<submit, submitFor>>
    /\ UNCHANGED <<prompts, deaths, stray, durable, kernel, operator>>

(* The turn ends with the submit.                                          *)
SubmitReturns ==
    /\ submit' = "none"
    /\ pane' = IF pane = "busy" THEN "idle" ELSE pane
    /\ UNCHANGED <<prompts, deaths, submitFor, stray, kernel, operator>>

(* report_legacy_result: the result is admitted, settle comes next.        *)
Admit ==
    /\ submit = "checked"
    /\ admitted' = admitted \cup {submitFor}
    /\ submit' = "admitted"
    /\ UNCHANGED <<op, started, said, causes, cuts, redriven, cps, acked, respawn>>
    /\ UNCHANGED <<pane, prompts, deaths, submitFor, stray, kernel, operator>>

(* The very result was admitted before: the first admission is returned    *)
(* and nothing is settled.                                                 *)
AdmitAgain ==
    /\ submit = "checked" /\ submitFor \in admitted
    /\ SubmitReturns
    /\ UNCHANGED durable

(* The last repair round was refused.                                      *)
ResultInvalid ==
    /\ submit = "checked"
    /\ End("failed")
    /\ SubmitReturns
    /\ UNCHANGED <<started, causes, cuts, redriven, cps, acked, respawn, admitted>>

Settle ==
    /\ submit = "admitted"
    /\ End("settled")
    /\ SubmitReturns
    /\ UNCHANGED <<started, causes, cuts, redriven, cps, acked, respawn, admitted>>

(* A stray submit has passed its check of the row and ends the operation,  *)
(* whoever works on it by then.                                            *)
StrayEnds ==
    /\ stray
    /\ End("settled") \/ End("failed")
    /\ stray' = FALSE
    /\ late' = (late \/ op.status \notin Terminal)
    /\ UNCHANGED <<started, causes, cuts, redriven, cps, acked, respawn, admitted, kernel>>
    /\ UNCHANGED <<pane, prompts, submit, submitFor, deaths>>
    /\ UNCHANGED <<stop, stopSaw, torn, stops, mishaps, dropped>>

-----------------------------------------------------------------------------
(* zf stop (ShutdownCoordinator), zf start and deaths                      *)

Stop ==
    /\ stop = "none" /\ pc # "down" /\ stops < MaxStops
    /\ stop' = "marked" /\ stops' = stops + 1
    /\ UNCHANGED <<stopSaw, torn, mishaps, past, durable, provider, kernel>>

(* interrupt_active_workflow_operations reads the rows. The marker stops   *)
(* the loop between two iterations only, so one may be under way.          *)
StopRead ==
    /\ stop = "marked"
    /\ stopSaw' = (op.status \in {"requested", "running"})
    /\ torn' = IF pc \in {"idle", "down"} THEN torn ELSE torn \cup {"stop"}
    /\ stop' = "read"
    /\ UNCHANGED <<stops, mishaps, past, durable, provider, kernel>>

StopInterrupt ==
    /\ stop = "read"
    /\ IF stopSaw THEN Interrupt("stop") ELSE UNCHANGED <<op, cuts>>
    /\ stop' = "cut"
    /\ UNCHANGED <<started, said, causes, redriven, cps, acked, respawn, admitted>>
    /\ UNCHANGED <<stopSaw, torn, stops, mishaps, past, provider, kernel>>

(* transport.shutdown *)
StopPanes ==
    /\ stop = "cut"
    /\ pane' = "dead" /\ LeaveSubmit
    /\ stop' = "dark"
    /\ UNCHANGED <<prompts, deaths, submitFor, stopSaw, torn, stops, past, durable, kernel>>

(* _kill_watcher, then the marker is removed.                              *)
StopWatcher ==
    /\ stop = "dark"
    /\ seen' = NoRow /\ pc' = "down"
    /\ stop' = "none"
    /\ UNCHANGED <<mode, todo, last, stopSaw, torn, stops, mishaps, past, durable, provider>>

KernelDies ==
    /\ pc # "down" /\ mishaps < MaxMishaps
    /\ seen' = NoRow /\ pc' = "down" /\ mishaps' = mishaps + 1 /\ torn' = torn \cup {"crash"}
    /\ UNCHANGED <<mode, todo, last, stop, stopSaw, stops, past, durable, provider>>

SubmitDies ==
    /\ submit # "none" /\ mishaps < MaxMishaps
    /\ submit' = "none" /\ mishaps' = mishaps + 1 /\ torn' = torn \cup {"crash"}
    /\ UNCHANGED <<pane, prompts, deaths, submitFor, stray, stop, stopSaw, stops, past, durable, kernel>>

(* zf start kills the session and spawns the panes anew.                   *)
Start ==
    /\ pc = "down" /\ stop = "none"
    /\ pc' = "idle"
    /\ pane' = "idle" /\ LeaveSubmit
    /\ UNCHANGED <<mode, todo, last, seen, prompts, deaths, submitFor, durable>>
    /\ UNCHANGED <<stop, stopSaw, torn, stops, past>>

-----------------------------------------------------------------------------
Loop ==
    \/ RequestCheckpoint \/ Prepare \/ Drop \/ MarkStarted \/ MarkRetryStarted \/ Send
    \/ PaneDead \/ SendFailed \/ RequestRespawn \/ Acknowledge \/ ApplyRespawn
    \/ Requeue \/ RespawnResult \/ Sweep \/ AdmitRedrive \/ Rearm \/ Probe \/ Lost

Submit == SubmitCheck \/ Admit \/ AdmitAgain \/ ResultInvalid \/ Settle

StopStep == StopRead \/ StopInterrupt \/ StopPanes \/ StopWatcher

Next ==
    \/ EnsureOperation \/ Begin \/ Loop \/ Submit \/ StrayEnds \/ StopStep \/ Start
    \/ Stop \/ ProviderDies \/ KernelDies \/ SubmitDies

Spec == Init /\ [][Next]_vars

(* The watcher goes on with the iteration it is in and comes to its tick   *)
(* again and again; a provider with a prompt ends its turn with a submit;  *)
(* a zf stop runs to its end and the runtime is started again.             *)
Fairness ==
    /\ WF_vars(EnsureOperation)
    /\ WF_vars(Loop)
    /\ WF_vars(Begin /\ mode' = "tick")
    /\ WF_vars(Submit)
    /\ WF_vars(StopStep)
    /\ WF_vars(Start)

FairSpec == Spec /\ Fairness

-----------------------------------------------------------------------------
(* The operation is retried at most once, and at most one checkpoint event *)
(* asks for a retry: requeue and mark_retry_started search the log before  *)
(* they append, and a death between the append and what follows it makes   *)
(* both run again.                                                         *)
RetryBound ==
    /\ op.retries <= 1
    /\ \A c, d \in DOMAIN cps : IsRetry(c) /\ IsRetry(d) => c = d

(* A stop met an iteration, or an event that a dead kernel had handled and *)
(* not acknowledged.                                                       *)
StopMetEvents == "stop" \in torn \/ (stops > 0 /\ "crash" \in torn)

(* Every prompt is paid for by a start or a retry in the log: redelivered  *)
(* checkpoint events and deaths of the kernel never send a second one. (A  *)
(* stop that meets an iteration can: mark_retry_started is then a          *)
(* duplicate, and the prompt is sent all the same.)                        *)
PromptsAccounted == StopMetEvents \/ prompts <= Cardinality(started) + op.retries

(* The agent is prompted once for the request, once more for every zf      *)
(* stop, and once more in all for providers that die: the rearmed event    *)
(* names the interruption it answers, and there is one respawn. How often  *)
(* the provider dies does not matter.                                      *)
PromptsBounded == StopMetEvents \/ prompts <= stops + 2

(* An operation that has ended, settled, failed or blocked, is never       *)
(* active again, whatever a sweep, a stop or a dispatch that read an older *)
(* row still appends; only the one retry may take up a failed one.         *)
TerminalStays ==
    [][op.status \in Terminal =>
         \/ op'.status \in Terminal
         \/ op.status = "failed" /\ op.retries = 0 /\ op'.retries = 1]_vars

(* The agent gets no prompt for an operation that has ended, however often *)
(* and however late its event is delivered: the row is read when the event *)
(* is handled, not when it was written. (Between that read and the send    *)
(* only a submit that has outlived its pane can end the operation.)        *)
NoPromptAfterEnd ==
    [][prompts' > prompts => StopMetEvents \/ late \/ op.status \notin Terminal]_vars

(* What zf stop has suspended is taken up again (or blocked) after the     *)
(* next start, deaths in the middle of the sweep included.                 *)
StopRedriven == StoppedByOperator(op) ~> ~StoppedByOperator(op)

(* The sweep notices a provider that died after a successful send.         *)
DeadProviderNoticed ==
    (op.status = "running" /\ pane = "dead") ~> ~(op.status = "running" /\ pane = "dead")

(* The one respawn failed, or was used up, and the operation waits for     *)
(* another one.                                                            *)
Orphaned ==
    /\ op.status = "suspended" /\ op.reason \in {"send_dead", "probe_dead"}
    /\ respawn = "failed" \/ "retry_started" \in said

(* The last checkpoint event was dropped by the cool-down: nothing looks   *)
(* at the operation until an operator stops the runtime.                   *)
Unheard == dropped # 0 /\ dropped = Len(cps)

(* Without a crash, and with a stop only between two iterations, a request *)
(* for a checkpoint comes to an end, or is orphaned, or is not heard: no   *)
(* death of the provider and no stop and start loses it. (late: the retry  *)
(* takes up a row that a stray submit failed, and _emit_once swallows its  *)
(* second failure.)                                                        *)
Resolved ==
    (op.status = "requested") ~>
        (op.status \in Terminal \/ torn # {} \/ late \/ Orphaned \/ Unheard)
=============================================================================
