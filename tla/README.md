# zaofu: a TLA+ verification project

`zaofu` is a control plane for coding agents. It keeps an append-only event log
and a handful of JSON stores under a state directory, dispatches tasks to worker
sessions, and after a crash recovers from what is on disk. Nearly everything
that can go wrong in it goes wrong *between two file writes*, or between two
processes that share those files. This directory holds models of those parts,
the TLC configurations that check them on small instances, and TLAPS proofs of
the results that matter most, for every value of the constants.

Paths below are relative to `src/src/zf/`. `PROJECT.json` gives the source lines
of every definition, the hazards with the line where each one bites, and the
mutants that show every checked property can fail.

## The system and its parts

One kernel process (`zf start`) watches `events.jsonl`. Every event it reads goes
to the handlers of the coordinator (`runtime/orchestrator*.py`), which read and
write the stores and append further events. Workers, operator commands and
sidecars are other processes: they append events and take the same file locks.

| part | code | here |
|---|---|---|
| TaskAttempt store | `core/state/task_attempts.py` | `TaskAttemptStore` |
| TaskAttempt runtime and dispatch callers | `runtime/task_attempt_runtime.py`, `task_attempt_operation_settlement.py`, `task_pipeline_attempt_recovery.py`, `runtime_authority_bridge.py`, parts of `orchestrator_dispatch.py` | `TaskAttempts`, abstractly `AttemptLanes` |
| event log, rotation, watcher, durable cursor | `core/events/log.py`, `core/state/rotation.py`, `runtime/watcher.py`, `orchestrator_event_cursor.py`, `durable_hook_catchup.py`, `cli/start.py` | `EventDelivery`, abstractly `EventQueue` |
| TaskStore: kanban, archive, terminal index | `core/task/store.py` | `TaskStore`, abstractly `TaskBoard` |
| task contract authority | `runtime/task_contract_authority.py`, `task_contract_authority_runtime.py` | `TaskAuthority` (composed with `TaskStore`), abstractly `ContractHistory` |
| file locks | `core/state/locks.py`, `runtime/session_mutex.py`, `respawn_lease.py` | `FileLocks` |
| Orchestrator Agent checkpoints: WorkflowOperation, dispatch, recovery sweep, result submit, `zf stop` | `runtime/workflow_operation.py`, `orchestrator_agent_*.py`, `call_result_admission.py`, `result_submit.py`, `shutdown.py`, parts of `agent_view_runtime.py` and `orchestrator_lifecycle.py` | `AgentCheckpoint` |
| Task Pipeline, budget guard, other users of WorkflowOperation | `runtime/task_pipeline_*.py`, `workflow_operation_*.py`, `workflow_budget_guard.py` | planned |
| event index and segments, integration queue, owner-visible outbox, fanout, channel reply queue | `core/events/index.py`, `segments.py`, `runtime/integration_queue.py`, `owner_visible_delivery.py`, `fanout*.py`, `channel_*.py` | planned |
| Run Manager, Supervisor, goal closure, rework, escalation, pause, controlled actions | `runtime/` | not modelled |
| transports, workdirs, git, spawn | `runtime/` | external: only their outcomes |
| projections, config loading, verification, cost, metrics, skills, memory, Web, CLI, Feishu, autoresearch | `core/`, `cli/`, `web/`, `integrations/`, `autoresearch/` | not modelled |

`PROJECT.json` lists them all with the reason for each one left out.

## Modules

```
TaskAttemptStore <- TaskAttempts <- MCTaskAttempts
                                 <- TaskAttemptsProofs <- TaskOutcomeProofs
EventDelivery <- MCEventDelivery, EventDeliveryProofs
TaskStore <- MCTaskStore, TaskStoreProofs
          <- TaskAuthority <- MCTaskAuthority            (composition)
                           <- TaskAuthorityProofs        (and TaskStoreProofs)
FileLocks <- FileLocksProofs
AgentCheckpoint <- AgentCheckpointProofs <- AgentPromptProofs

refinements:  TaskAttempts => AttemptLanes     EventDelivery => EventQueue
              TaskStore => TaskBoard           TaskAuthority => ContractHistory
```

### TaskAttemptStore and TaskAttempts

`rows` and `current` are `task_attempts.json`: one row per dispatch and one
pointer per lane (`run::task::attempt_key`). Every store method runs under the
file lock and ends in an atomic write, so each of them is an operator from the
stored value to the next one (`EnsureRows`, `ClaimDelivery`, `MarkSent`,
`RenewLease`, `Update`, `Expire`).

`TaskAttempts` is the runtime around it. `proc[p]` says where a process is in its
current handler, so a handler is as many steps as it makes durable writes: a
dispatch is `Dispatch`, `Prepare`, `Claim`, `Send`, then `MarkTaskAttemptSent` or
`FailTaskAttemptDelivery`, `RecordDeliveryFailure` and `Raise`. `Emit` appends the
occurrences a handler reports after its write and may stop after any of them.
Settlement comes from worker results (`SettleResult`), operation events
(`SettleOperation`), provider stops (`ProviderStops`) and the reconcile sweep,
which works from readings of log and store it took earlier (`rec`). The task's
`status` and `active_dispatch_id` in the TaskStore are `task`; the transport is
external and modelled by its outcomes: handed over, failed before or after that,
refused for good. Leases are a Boolean that may lapse at any time.

`AttemptLanes` is the promise of both: of an attempt it knows only whether it was
not opened yet, is live or has ended (`Phase` of its row), and how often it was
handed to a worker. `Begin` opens one and ends the live one of its lane in the
same step, `End` ends any of the live ones for good, `Hand` hands one over that
was opened, once where delivery is enforced. Nothing else may happen, whichever
handlers, sweeps and deaths the real steps are made of.

### EventDelivery and EventQueue

The file is a sequence of complete lines plus the bytes after the last newline;
a line is `LineBytes` long, so an offset can lie inside one. A long line (an
event in `Chunked`) reaches the file in two writes, between which the appender
may die or a reader may look. `Poll` is `poll_once` with its callbacks, `Tick`
and `StartupCatchUp` are `run_once` from the durable cursor. The watcher process
is single threaded, so each is one step with the death of the process as an
alternative at every event of the batch. `Woken` leaves a rate-limited event to
chance. `EventQueue` is the promise: an append-only log, a cursor that only
moves forward, nothing that must be handled unhandled behind it.

### TaskStore and TaskAuthority

`active`, `archive` and `index` are the three kinds of files. The first write of
a closing or a reopening is the action itself and `op` holds the writes still to
do (`Mark`, `Pop`, `Unmark`); `Crash` drops them. `ready()` and `get()` take no
lock, so each is two steps, one per file. `TaskAuthority` extends the store with
contract mutations: a request reads a record (`Ask`), is prepared against a second
reading (`Prepare`), and is applied by compare-and-swap on the authority revision
(`Swap`), while others close, patch and reopen the task. A change request is an
event and is handled again after a crash (`Restart`). Of the reasons to reject one
only staleness is modelled (`Refuse`): a request for an unknown task, by an actor
without the right or without a contract is rejected before it reads a revision
and changes nothing.

Each has its promise. `TaskBoard` is one record per task, which `Add`, `Move` and
`Reopen` change at once; the mapping (`Stored`) is the record a writer finds: the
one on the board, or the last archived one. The step that closes a task for
those who look at the board first is then `Pop`; a closing cut off before it is
one that has not happened, a reopening is done with its first write. (Readers
that look at the index first see the closing one write earlier: the finding
below.) `ContractHistory` is one row of mutations per task, each made by one
request from the revision before it (`Mutate`), and a set of requests reported
applied that are all in it (`Acknowledge`); closing, reopening, patching and
dying leave it alone.

### FileLocks

Both locks are `open` followed by `flock`, and `flock` locks the inode that was
opened. `FileLock` closes its file (`Close`), `SessionLock` also removes whatever
now has that name (`Unlink`); `Next` and `SessionNext` differ in nothing else. The
kernel drops a dead process's lock.

### AgentCheckpoint

One checkpoint operation with every process that touches it. `op` is the row
that `reduce_workflow_operations` makes of the log (`Started`, `RetryStarted`,
`Interrupted`, `Ended`, `Redriven` are the reducer, one event each), and
`started`, `said`, `causes`, `redriven`, `cps`, `respawn`, `admitted` are what the
guards before an append search the log for. The kernel loop is one thread: `pc`
says where it is, each append is a step, and in between other processes run or
the kernel dies. An iteration (`Begin`) is a poll or a tick: it dispatches the
checkpoint events behind the cursor (`Prepare`, `MarkStarted` or
`MarkRetryStarted`, `Send`, `PaneDead`, `SendFailed`, `RequestRespawn`,
`Acknowledge`), applies the respawn request (`ApplyRespawn`, `Requeue`,
`RespawnResult`) and, in a tick, sweeps: `Sweep`, `AdmitRedrive`, `Rearm` take up
what `zf stop` suspended, `Probe` and `Lost` look for a dead provider.
`zf result submit` runs in a process of its own (`SubmitCheck`, `Admit`,
`AdmitAgain`, `ResultInvalid`, `Settle`), as does `zf stop` (`Stop`, `StopRead`,
`StopInterrupt`, `StopPanes`, `StopWatcher`). A submit belongs to the process group
of its pane: terminating the pane ends it (`tmux.py:213`), a provider that dies by
itself may leave it running.

Three things go wrong beside deaths. The termination of a pane may fail, which
respawn and stop swallow (`orchestrator_lifecycle.py:1049`, `tmux.py:229`): a submit
then outlives its pane (`LeaveSubmit`) and ends the operation at some later moment
or never (`StrayEnds`); `late` records that it ended one that was still active. Its
check and admission are not steps of their own, and there is one such submit
at a time; a provider that survives its own termination is the pane that stays
busy. The cool-down after a blocked API call or a time-out of an agent drops a
checkpoint event for good (`Drop`, with `dropped` the last one dropped). And `mark_retry_started` raises for a row that is
neither suspended nor failed: nothing on the way up catches it, so the tick is
given up, or the poll takes the watcher down, with the batch unacknowledged, as
after a death (`torn`).

`Dispatchable` and `Requeue` leave out one case of the code, a row that `failed` with
the reason of a dead pane: no step of a checkpoint writes that pair, a dead pane
suspends or blocks.

## Runs

`MC*` modules only give values to constants. Each row is one cfg.

| run | what it shows |
|---|---|
| `attempts_enforce` | Enforce mode, operation lane, a replayable dispatch, an operation event and one death of the kernel anywhere: `OneLiveAttempt`, `CurrentIsLatest`, `AtMostOneDelivery`, `OperationFailureIsOwn`, `SucceededIsFinal`, and the refinement `ImplementsLanes` |
| `attempts_live` | Role lane with a worker that dies: `RetryBudget`, `DeadletterExplained`, and, with fairness, `ExpiredDispatchReleased` and `DeadAttemptCloses` |
| `delivery_once` | Torn lines, failing ticks, rate limits and two deaths, no rotation: `CursorCoversHandled`, the refinement `ImplementsQueue`, and `Delivered` with fairness |
| `store_files` | Two tasks, one waiting for the other, closing and reopening over two days with a death between two file writes and readers without the lock: `NeverVanishes`, `IndexLeadsToRecord`, `ReleasedAfterDeps`, `GetFinds`, `ReopenAdvances`, the refinement `ImplementsBoard`, and `DependentsReleased` with fairness |
| `authority_race` | A change request, a replan, evidence and closings race on one task: the refinement `ImplementsHistory` (which includes `NoLostMutation` and `RequestLandsOnce`), `EvidenceFirst`, and `RequestsSettle` with fairness |
| `locks_keep` | Three processes on one FileLock, two deaths: `OneLockFile`, `MutualExclusion`, `UpdatesKept`, and `LockProgress` with fairness |
| `checkpoint_recover` | A checkpoint whose provider dies twice, with a `zf stop`, one mishap (a death of the kernel or of a submit, a submit that outlives its pane, a dropped event), sends that raise and respawns that fail or are refused: `RetryBound`, `PromptsAccounted`, `PromptsBounded`, `TerminalStays`, `NoPromptAfterEnd`, and with fairness `StopRedriven`, `DeadProviderNoticed`, `Resolved` |
| `attempts_v_blocked`, `delivery_v_rotation`, `store_v_duplicate`, `authority_v_evidence`, `locks_v_unlink` | Disagreements between the code and what it says of itself, below |

### Bounds, and why they are enough

- *Attempts*: two dispatches of one lane. Every rule of the store compares a row
  with the lane's current row or counts up to the budget, so two rows, one retry
  and (in `live`) a budget of one meet every branch. One process dispatches in the
  runs; that the kernel and the recover CLI deliver the same dispatch at once is
  covered by the theorems, which hold for any number of rows and processes.
- *Crashes* (`MaxCrashes`): one or two. The states after a death are the states a
  second death starts from; what a death leaves behind is exposed by the next
  handler, which runs without one.
- *Events*: three, one that wakes the runtime, one that may be rate limited, one
  only observed; two of them long, so that two torn lines can meet.
- *Store*: two tasks, the second waiting for the first, one of them reopened
  once or twice (`MaxSequence`); the archive bound is what those closings need,
  so a closing is never cut off by it when liveness is checked; two days, so
  that records of a task lie in two archive files or in one.
- *Authority*: one task and two mutations that may ask for the same contract;
  three revisions, so that a replay can meet a revision later than its own.
  Outside the run, `EvidenceFirst` was also checked with two closings and two
  pieces of evidence (3.2 million states); the same for two stamps is violated.
- *Locks*: three processes (an owner, a process with the old file open, one
  that creates the new file) and as many inodes as they can create.
- *Checkpoint*: two deaths of the provider (before and after the one retry), one
  stop, one mishap of any kind (`MaxMishaps`), so that each pair of them can meet;
  about 560,000 states. Two mishaps of different kinds are left to the theorems.
  In a model without stray submits and drops the safety properties were also
  checked with one death, two stops and a crash (2.5 million states), and
  `PromptsBounded` with two deaths, two stops and a crash (7 million); a bound of
  one prompt fewer is violated.

### Fairness, and what in the code justifies it

- `TaskAttempts`: a handler runs to its end unless the process dies, and whoever
  runs zf starts a dead kernel again (weak fairness; nothing in the repository
  does it, and deaths are bounded). The sweep and the reaction to an
  occurrence compete with other handlers for the one thread, and the loop of
  `zf start` comes back to each of them on every tick: strong fairness. A lease
  lapses if its worker is dead.
- `EventDelivery`: the loop polls and ticks, `zf start` is run again after a
  death, an appender that lives finishes its line: weak fairness. Nothing is assumed of
  rate-limited events.
- `TaskStore`: the lock holder goes on, the scheduler polls `ready()`, and a task
  that was handed out or started is finished sooner or later (strong fairness,
  because the store is busy in between).
- `TaskAuthority`: the lock holder and the request's handler go on; taking the lock
  is strongly fair, since others take it in between.
- `FileLocks`: a process in the block, at a free lock or about to close goes on. A
  waiting process may give up (the deadline) at any time.
- `AgentCheckpoint`: the loop finishes the iteration it is in and ticks again, a
  provider that has a prompt ends its turn with a submit, a stop runs to its end
  and somebody starts the runtime again: weak fairness. Deaths are not fair.

`CHECK_DEADLOCK FALSE` is given for `authority_*` and `locks_*`: the requests and
updates are finitely many and the system is done afterwards.

## Proofs

TLAPS checks every theorem down to the last leaf; the assumptions are those on the
constants (`LaneAssumption`, `RuntimeAssumption`, `DeliveryAssumption`,
`TaskStoreAssumption`, `AbsentAssumption`, `AuthorityAssumption`,
`FileLocksAssumption`, `CheckpointAssumption`), which TLC evaluates in every run.

| module | theorems | argument |
|---|---|---|
| `TaskAttemptsProofs` | `TypeCorrect`, `LiveAttemptUnique`, `HeadIsLast`, `DeliveredOnce`, `ParkedIsExplained`, `FailedForOwnOperation`, `LanesRefinement` | for shadow and enforce mode and any number of processes. `IInv` adds to the properties that a working process has a dispatch (`Busy`), that the sweep's readings are a prefix of the log, and `Claimed`: whoever is about to send has claimed the row, alone, and it was not sent. `AtMostOneDelivery` alone is not inductive without it. Most actions are shown to be `Quiet` (they only settle rows and move no process to `send`), for which one lemma gives `IInv'`. The last two rest on `ExplainedInv`, which adds `ViewBorn`: a row the sweep has read still exists and has the birth it was read with, so comparing the age of an event with an old reading is comparing it with the row. Every step is `Accounted`: what it newly parks or blames on an operation the log explains. For `LanesRefinement` every step but `Prepare` and `Send` only ends attempts (`KeepsEnds`): a lemma for each kind of step says so; `Prepare` begins one, where `OneLiveAttempt` gives that the row it supersedes is the only live one of the lane, and `Send` hands one over, where `Claimed` gives that it is the first time and `Opened` that, in either mode, whoever claims or sends has its row on disk |
| `TaskOutcomeProofs` | `SuccessKept`, `BudgetKept` | assuming `OneDispatcher`: one dispatching process, enforce mode. `SuccessInv`: what a handler or the sweep is about to overwrite has not succeeded (for the replay of the log because its reading still has the statuses of the store). `CountInv` counts along a lane: the series of its last row is at most one more than the successes before it, and the number of rows at most what (series, ordinal) of the last row says; `RetryBudget` alone is not inductive, as it does not say where the rows are. With a second dispatching process TLC finds both violated: `fail_task_attempt_delivery` overwrites a row whatever its status |
| `EventDeliveryProofs` | `DeliveryTypes`, `CursorSound`, `DeliveryRefinement` | the types in every configuration; the other two assuming `Undisturbed`: no rotation, no exception in the startup catch-up, no start inside a line being written. `IInv` says that the cursor lies between two lines, that a running watcher has handled what it passed (`Passed`), and that a position inside a torn line belongs to bytes that will never decode (`PositionInFile`). Each step is a `Publish`, a `Consume` or a stutter of `EventQueue` |
| `TaskStoreProofs` | `StoreTypes`, `TaskNeverVanishes`, `IndexSound`, `GetNeverMisses`, `ReadySound`, `ReopeningAdvances`, `BoardRefinement`, `DuplicateNeedsCrash` | `IInv` adds what holds between the writes of one operation: the record is archived before the index names it, a task leaves the board only with an index entry, and loses the entry only when it is on the board. That the last record of a task exists (`Latest`) rests on `Least` and `Greatest`, from well-foundedness of the naturals. `ReopeningAdvances` needs `OrderInv`: the revisions of a task grow along its archive, the board is never behind the archive, and the day the index names holds the last record; a reopening reads exactly that record. `BoardRefinement` adds `ClosedInv`: archived records are closed ones, and while a closing is under way the last archived record is the one on the board but for its status, so `Pop` changes the status and nothing else. One lemma per write says which task's record it changes (`CloseLatest`, `IndexLatest`, `SaveLatest`, `AddLatest`, `PopLatest`). `DuplicateNeedsCrash` assumes `MaxCrashes = 0` and shows that only the operation in progress has its task on the board and in the index, so the third finding needs a death |
| `TaskAuthorityProofs` | `AuthorityTypes`, `MutationsNotLost`, `LandsOnce`, `HistoryRefinement`, `ReplanAdvances`, `AuthorityKeepsTasks`, `AuthorityIndexSound`, `EvidenceOutlivesFirstStamp` | `AuthInv` adds to `OrderInv` and the properties that a landed mutation is one revision after the reading its request was based on, and that the store has reached that revision (`Reached`), which no later step takes back: so a second swap on the same reading fails its comparison. `HistoryRefinement` adds `AllRecorded`: a change request that is reported applied, or about to be, has landed, because it never prepares a swap of fields only. No step of the store moves a revision (`OthersRevision`, from the lemmas above), and a request that has landed does not match again (`NotTwice`). `ReplanAdvances`, `AuthorityKeepsTasks` and `AuthorityIndexSound` carry the store's promises over to the composition, where a replan reopens tasks by its swap. `EvidenceOutlivesFirstStamp` is the scope in which finding 4 does not bite: `EvidenceInv` adds `ClosedInv` (an archived record has the evidence of the board) to `EvidenceFirst`; every step but a merge and a stamp leaves the revision and the evidence of every lookup alone (`SameEvidence`), and the first stamp is applied only if the evidence it writes is that of the task, as the token without a revision is the whole contract |
| `FileLocksProofs` | `FileLockOneFile`, `FileLockExcludes`, `FileLockKeepsUpdates` | `IInv`: every open file is the one the name stands for, so there is one lock to own; what a process inside has read is still in the file. The first of these, `OneLockFile` for the owners, is what `SessionLock` breaks |
| `AgentCheckpointProofs` | `CheckpointTypes`, `OneRetry`, `EndIsFinal` | for any number of deaths, stops and mishaps. `RetryInv` adds to `RetryBound` that a row with a retry has its `retry_started` event in the log, which is what `_emit_once` finds; without it a second retry event is not excluded. `EndIsFinal` goes through the reducer: `ReducerEnds` for the row, then one lemma for each kind of append |
| `AgentPromptProofs` | `PromptsPaid`, `PromptsTimely`, `PromptBudget` | under the exception the properties state (`StopMetEvents`). `PromptInv` carries a balance, `Credit`: starts and retries in the log cover the prompts sent and, at the send, the one to come. A mark is new when it is made because of one of two facts: without a stop, an operation that is still only requested has no start or retry yet (`NeverStopped`); without a crash, the cursor and the batch keep the kernel from an event it has handled (`NeverCrashed`). `PaneInv` has a dispatch past its check on a live pane work on a row that has not ended, unless a submit that outlived its pane ended it meanwhile (`late`): `PromptsTimely` says that nothing the kernel does or could have read leads to a prompt after the end, and does not hold without that exception. `PromptBudget` counts what `PromptsPaid` leaves open, the starts. An event is started once and, but for the first, names the interruption it answers, no two the same (`EventsInv`); the interruptions so answered, or about to be, are no more than the stops, less the one that has not written its interruption yet (`StopCuts`, `CutsPaid`); mapping each start to its interruption is then an injection, and `RetryBound` adds the one retry |

`StepKeeps` / `NextInv` have one step per action; the temporal theorems combine
them with `PTL`.

Only model-checked: the liveness properties (`ExpiredDispatchReleased`,
`DeadAttemptCloses`, `Delivered`, `DependentsReleased`, `RequestsSettle`,
`LockProgress`, `StopRedriven`, `DeadProviderNoticed`, `Resolved`), as TLAPS 1.4.5
has no rules for fairness and `ENABLED` here. Every safety property of a passing
run, the four refinements included, is proved, for every value of the constants that meets the assumptions on them and, where the
table says so, `Undisturbed` or `OneDispatcher`.

## Findings

1. `attempts_v_blocked`. An over-budget dispatch sets the task to blocked, and the
   dispatch caller's except branch then writes the status it had read before
   (`orchestrator_dispatch.py:2781`): the task is dispatched again.
2. `delivery_v_rotation`. Rotation archives lines nobody has read and
   `read_from_offset` opens only the active file (`rotation.py:68`): what was
   written while no watcher ran is lost at the first append of the next day.
3. `store_v_duplicate`. The duplicate a death leaves between `_mark_terminal` and
   `_save_raw` is not harmless (`store.py:327`): the board says open, the index
   says closed, dependents are released, and no later save repairs it.
4. `authority_v_evidence`. Evidence merged between the preparation and the swap of
   a mutation is written back to its old value (`task_contract_authority.py:158`). This takes
   a task that has been stamped before: `EvidenceFirst`.
5. `locks_v_unlink`. `SessionLock` removes its file after releasing the lock
   (`session_mutex.py:63`): two processes can then hold "the" lock.

### Further disagreements met while modelling

The passing runs exclude these cases by a constant or do not speak of them.

- `task_attempt_runtime.py:416`: a death between the write of a success and its
  occurrence leaves the success unreported; the sweep, which says it recovers
  missing occurrences, re-emits only `task.attempt.started`.
- `task_attempt_runtime.py:551`: a death between the expiry of a pipeline row and
  its hand-over leaves `recovery_owner=scheduler`; nothing repairs it and the
  pipeline's redrive passes the row over.
- `task_attempt_runtime.py:287`: in shadow mode a redelivered dispatch whose
  transport raises turns a succeeded row into a failed one; in enforce mode a
  second dispatching process whose send fails late does. (`SucceededIsFinal` and
  `RetryBudget` are about one dispatching process in enforce mode.)
- `cli/start.py:656`: a batch that wakes nobody is left to the catch-up, but a wake
  batch before the next tick moves the cursor behind it. (`CursorCoversHandled`
  speaks of wake events only.)
- `cli/start.py:673`: after an exception in the startup catch-up the first wake
  batch acknowledges the whole backlog (`Failing` has no `"starting"`).
- `watcher.py:56`: a watcher created between the two writes of a long line starts
  inside it and the event is passed over (`QuietStart`).
- `store.py:139`: `rebuild` enters reopened tasks as closed, and takes no lock.
- `task_contract_authority.py:369`: a death between the swap and the `applied` event
  makes the replay report a rejection of what was applied. (It does not land
  twice: `RequestLandsOnce`.)
- `store.py:209`: `get()` takes the first record of the day,
  `compare_and_update_contract` the last; a task closed, reopened and closed on
  one day can then not be reopened by a caller that used `get()`.
- `orchestrator_agent_recovery.py:329`, `orchestrator_agent_operations.py:281`,
  `orchestrator_agent_transport.py:63`: a death of the kernel between an append that
  moves the row and the append or send that follows it (redrive and new checkpoint
  event; request and first checkpoint event; start and send) leaves a checkpoint
  that nothing takes up until an operator stops the runtime. (`Resolved` speaks
  of behaviours without a crash.)
- `orchestrator.py:4665`: the cool-down of the Orchestrator Agent drops an event it
  would brief on; the comment there says that Layer 2 "will see it next time it
  wakes via the event tail". For a checkpoint event that does not help: its operation
  stays requested or suspended, no event follows, and a submit for it is
  refused. (`Unheard` in `Resolved`: dropping the last event of an operation.)
- `orchestrator_lifecycle.py:1049`, `tmux.py:229`: after a termination that failed
  unnoticed, a submit of the old provider may end the operation between the
  kernel's check of the row and its send, which goes out all the same; if it fails
  it, the retry takes the failed row up and a second failure is then
  swallowed by `_emit_once`. (`late` in `NoPromptAfterEnd` and `Resolved`.)
- `workflow_operation.py:885`: `mark_retry_started` raises when the row has moved on
  since it was prepared, and no caller up to the loop catches it. (`torn`.)
- `call_result_admission.py:254`: a submit that dies between the admission and the
  settlement leaves the operation running, and a repeated submit of the same
  result returns the first admission and settles nothing.
- `workflow_operation.py:1172`: "Suspend every non-terminal operation before worker
  processes stop" (`workflow_operation.py`, `interrupt_active_workflow_operations`)
  holds only if the loop is between two iterations: it looks at the marker
  there, and a start appended later makes the row running again. The respawn's
  retry can then be sent without a record of its own. (`StopMetEvents`.)
- `orchestrator_agent_recovery.py:55`: the respawn is requested once per operation.
  After a stop and a redrive a second dead pane at the send leaves it suspended
  for good, where `tests/test_orchestrator_agent_operations.py:815` expects a
  second death to block. (`Orphaned`.)

## What the models leave out

- Identity digests, payload contents, wording and audit-only events (heartbeat
  audits, shadow comparisons); a name is a model value.
- Time: leases, deadlines and intervals may pass at any moment. The day changes
  between two operations of the store, not inside one.
- A write of a JSON store replaces the file at once (`atomic_write_text`); only
  the event log is written in place.
- Torn lines longer than two writes, and an event appended twice.
- `read_all` and its caches, `EventWriter`'s own logic, the event index.
- The owner-visible outbox (`owner_visible_delivery.py`: a pass over the log that
  sends requested messages and appends their receipts).
- `TaskStore.rebuild` and the migration of old files.
- Of operations: a request whose hash differs from the recorded one, reservations, cancellation, supersession of a plan candidate by a
  newer one, repair rounds of an invalid result (only the last one is seen), and
  worker actions other than a respawn.
- The models cover the durable core, a small share of a large tree; most of the
  other code is projections, prompts, user interfaces and language-model driven
  loops.

## Plan

1. `WorkflowOperation` apart from checkpoints: reservation, cancellation and
   supersession, and the deaths that `Resolved` excuses as findings of their own.
2. `TaskPipeline`: the reconciler over operations and attempts, composed with
   `TaskAttempts`; budget guard and operator resume.
3. `EventIndex`/`read_all` against rotation; the channel reply queue and the
   owner-visible outbox; the integration queue.
