------------------------- MODULE AgentPromptProofs -------------------------
(***************************************************************************)
(* Every prompt of a checkpoint is paid for, none is sent for one that has *)
(* ended, and only stops make them more than two: proofs about             *)
(* AgentCheckpoint for any number of deaths, stops and mishaps and any     *)
(* outcome of a respawn.                                                   *)
(***************************************************************************)
EXTENDS AgentCheckpointProofs, FiniteSetTheorems

-----------------------------------------------------------------------------
(* The pane                                                                *)

(* While a stop has met no events of a kernel that runs or that died, the  *)
(* pane works on a prompt of an operation that is under way or has ended,  *)
(* and the kernel is about to send only when no other prompt is at work    *)
(* and, unless a submit that outlived its pane was late, the operation has *)
(* not ended.                                                              *)
PaneInv ==
    /\ pane = "busy" /\ stop # "cut" => op.status \notin {"none", "requested", "suspended"}
    /\ pc \in {"start", "retry", "send"} => pane # "busy"
    /\ pc \in {"start", "retry", "send"} /\ pane # "dead" => late \/ op.status \notin Terminal
    /\ pc = "pane_dead" => pane = "dead"
    /\ pc = "send" => op.status \notin {"none", "requested", "suspended"}

(* Every prompt sent or about to be sent is paid for.                      *)
Credit ==
    /\ prompts + (IF pc = "send" THEN 1 ELSE 0) <= Cardinality(started) + op.retries
    /\ pc = "start" => todo \notin started
    /\ pc = "retry" => "retry_started" \notin said

LEMMA Monotone ==
    ASSUME RetryInv, Next
    PROVE  /\ ~StopMetEvents' => ~StopMetEvents
           /\ stops' = 0 => stops = 0
           /\ torn' = {} => torn = {}
<1>1. torn \subseteq torn' /\ (stops' = stops \/ stops' = stops + 1)
  BY DEF Next, Loop, Submit, StopStep, EnsureOperation, Begin, RequestCheckpoint, Prepare,
         Drop, MarkStarted, MarkRetryStarted, Send, PaneDead, SendFailed, RequestRespawn, Acknowledge,
         ApplyRespawn, Requeue, RespawnResult, Sweep, AdmitRedrive, Rearm, Probe, Lost,
         SubmitCheck, Admit, AdmitAgain, ResultInvalid, Settle, SubmitReturns, StopRead,
         StopInterrupt, StopPanes, StopWatcher, Start, Stop, ProviderDies, KernelDies,
         SubmitDies, StrayEnds, operator, past
<1>2. stops \in Nat
  BY DEF RetryInv, TypeOK
<1>3. (stops' = 0 => stops = 0) /\ (stops > 0 => stops' > 0)
  BY <1>1, <1>2
<1> QED
  BY <1>1, <1>3 DEF StopMetEvents

(* A step of the kernel that leaves the row and the pane alone, and ends   *)
(* no mark or send.                                                        *)
LEMMA PaneFrame ==
    ASSUME PaneInv, UNCHANGED <<op, pane, stop, late>>,
           pc' \notin {"start", "retry", "send", "pane_dead"}
    PROVE  PaneInv'
BY DEF PaneInv

LEMMA PaneKernel ==
    ASSUME RetryInv, StopInv, PaneInv, Credit, "stop" \notin torn, Loop
    PROVE  PaneInv'
<1> USE DEF durable, provider, kernel, operator, past
<1>0. pc \notin {"idle", "down"} /\ stop # "cut" /\ UNCHANGED <<stop, late>>
  <2>1. pc \notin {"idle", "down"} /\ UNCHANGED <<stop, late>>
    BY DEF Loop, RequestCheckpoint, Prepare, Drop, MarkStarted, MarkRetryStarted, Send, PaneDead,
           SendFailed, RequestRespawn, Acknowledge, ApplyRespawn, Requeue, RespawnResult,
           Sweep, AdmitRedrive, Rearm, Probe, Lost
  <2> QED
    BY <2>1 DEF StopInv
<1>1. CASE \/ RequestCheckpoint \/ Drop \/ RequestRespawn \/ Acknowledge \/ Requeue \/ RespawnResult
           \/ Rearm \/ Probe
  <2>1. UNCHANGED <<op, pane>>
    BY <1>1 DEF RequestCheckpoint, Drop, RequestRespawn, Acknowledge, Requeue, RespawnResult, Rearm,
                Probe
  <2>2. pc' \notin {"start", "retry", "send", "pane_dead"}
    BY <1>1 DEF RequestCheckpoint, Drop, RequestRespawn, Acknowledge, Requeue, RespawnResult,
                Rearm, Probe, AfterEvent, AfterActions
  <2> QED
    BY <1>0, <2>1, <2>2, PaneFrame
<1>2. CASE Prepare
  <2>1. CASE pc' \in {"start", "retry"} /\ Dispatchable(todo)
    <3>1. op.status \in {"requested", "suspended"}
      BY <2>1 DEF Dispatchable
    <3> QED
      BY <1>0, <1>2, <2>1, <3>1 DEF Prepare, PaneInv, Terminal
  <2>2. CASE pc' \in {"ack", "actions", "event"}
    BY <1>0, <1>2, <2>2, PaneFrame DEF Prepare
  <2> QED
    BY <1>2, <2>1, <2>2 DEF Prepare, AfterEvent
<1>3. CASE MarkStarted
  <2>1. op' = Started(op, todo) /\ pc = "start" /\ pc' = "send" /\ pane' = pane
    BY <1>3 DEF MarkStarted, Credit
  <2>2. op \in Rows
    BY DEF RetryInv, TypeOK
  <2>3. (op' = op /\ op.status \in Terminal) \/ op'.status = "running"
    BY <2>1, <2>2 DEF Started, Rows
  <2> QED
    BY <1>0, <2>1, <2>3 DEF PaneInv, Terminal
<1>4. CASE MarkRetryStarted
  <2>1. CASE op.status \in {"suspended", "failed"}
    <3>1. op' = RetryStarted(op, todo) /\ pc = "retry" /\ pc' = "send" /\ pane' = pane
      BY <1>4, <2>1 DEF MarkRetryStarted, Credit
    <3>2. op'.status = "running"
      BY <2>1, <3>1 DEF RetryStarted, RetryInv, TypeOK, Rows
    <3> QED
      BY <1>0, <3>1, <3>2 DEF PaneInv, Terminal
  <2>2. CASE op.status \notin {"suspended", "failed"}
    <3>1. UNCHANGED <<op, pane>> /\ pc' \in {"down", "idle"}
      BY <1>4, <2>2 DEF MarkRetryStarted
    <3> QED
      BY <1>0, <3>1, PaneFrame
  <2> QED
    BY <2>1, <2>2
<1>5. CASE Send
  <2>1. op' = op /\ pc = "send" /\ op.status \notin {"none", "requested", "suspended"}
    BY <1>5 DEF Send, PaneInv
  <2>2. pc' \in {"actions", "event", "send_failed"} \/ (pc' = "pane_dead" /\ pane' = "dead")
    BY <1>5 DEF Send, AfterEvent
  <2> QED
    BY <1>0, <2>1, <2>2 DEF PaneInv
<1>6. CASE PaneDead
  <2>1. pane' = "dead" /\ pc' \in {"actions", "event", "request"}
    BY <1>6 DEF PaneDead, PaneInv, AfterEvent
  <2> QED
    BY <2>1 DEF PaneInv
<1>7. CASE SendFailed \/ Sweep
  <2>1. pane' = pane /\ pc' \in {"actions", "event", "probe", "redrive"}
    BY <1>7 DEF SendFailed, Sweep, AfterEvent
  <2>2. op' = op \/ op'.status \in Terminal
    BY <1>7, EndRow, Ways DEF SendFailed, Sweep
  <2> QED
    BY <1>0, <2>1, <2>2 DEF PaneInv, Terminal
<1>8. CASE Lost
  <2>1. pane' = pane /\ pc' \in {"idle", "probe_request"} /\ (op' = op \/ pane = "dead")
    BY <1>8 DEF Lost
  <2> QED
    BY <1>0, <2>1 DEF PaneInv
<1>9. CASE AdmitRedrive
  <2>1. pane' = pane /\ pc' \in {"idle", "rearm"}
        /\ (op' = op \/ op.status \in {"suspended", "requested"})
    BY <1>9 DEF AdmitRedrive
  <2> QED
    BY <1>0, <2>1 DEF PaneInv
<1>10. CASE ApplyRespawn
  <2>1. op' = op /\ pc' \in {"event", "sweep", "requeue"} /\ (pane' = pane \/ pane' # "busy")
    BY <1>10 DEF ApplyRespawn, LeaveSubmit, AfterActions
  <2> QED
    BY <1>0, <2>1 DEF PaneInv
<1> QED
  BY <1>1, <1>2, <1>3, <1>4, <1>5, <1>6, <1>7, <1>8, <1>9, <1>10 DEF Loop

LEMMA PaneOthers ==
    ASSUME RetryInv, StopInv, PaneInv, "stop" \notin torn', Next, ~Loop
    PROVE  PaneInv'
<1> USE DEF durable, provider, kernel, operator, past
<1>1. CASE EnsureOperation
  <2>1. op.status = "none" /\ stop = "none" /\ pc' = "first" /\ UNCHANGED <<pane, stop>>
    BY <1>1 DEF EnsureOperation
  <2> QED
    BY <2>1 DEF PaneInv
<1>2. CASE Begin
  BY <1>2, PaneFrame DEF Begin
<1>3. CASE SubmitCheck \/ Admit \/ AdmitAgain \/ ProviderDies
  BY <1>3 DEF SubmitCheck, Admit, AdmitAgain, ProviderDies, SubmitReturns, PaneInv
<1>4. CASE ResultInvalid \/ Settle
  <2>1. op' = op \/ op'.status \in Terminal
    BY <1>4, EndRow, Ways DEF ResultInvalid, Settle
  <2>2. submit # "none" /\ UNCHANGED <<pc, stop>>
        /\ ((pane = "dead" /\ pane' = "dead") \/ (pane = "busy" /\ pane' = "idle"))
    <3>1. pane \in {"dead", "idle", "busy"}
      BY DEF RetryInv, TypeOK
    <3>2. submit # "none" /\ UNCHANGED <<pc, stop>>
          /\ pane' = IF pane = "busy" THEN "idle" ELSE pane
      BY <1>4 DEF ResultInvalid, Settle, SubmitReturns
    <3> QED
      BY <3>1, <3>2 DEF StopInv
  <2> QED
    BY <2>1, <2>2 DEF PaneInv, Terminal
<1>5. CASE StopInterrupt
  <2>1. "stop" \notin torn /\ pc \in {"idle", "down"} /\ stop' = "cut" /\ pc' = pc
    BY <1>5 DEF StopInterrupt, StopInv
  <2> QED
    BY <2>1 DEF PaneInv
<1>6. CASE Stop \/ StopRead \/ SubmitDies
  BY <1>6 DEF Stop, StopRead, SubmitDies, PaneInv
<1>7. CASE StopPanes
  BY <1>7 DEF StopPanes, LeaveSubmit, PaneInv, Terminal
<1>8. CASE StopWatcher \/ KernelDies \/ Start
  BY <1>8 DEF StopWatcher, KernelDies, Start, LeaveSubmit, PaneInv
<1>9. CASE StrayEnds
  <2>1. op' = op \/ op'.status \in Terminal
    BY <1>9, EndRow, Ways DEF StrayEnds
  <2>2. UNCHANGED <<pc, pane, stop>> /\ late' = (late \/ op.status \notin Terminal)
    BY <1>9 DEF StrayEnds
  <2>3. late' \/ (~late /\ op.status \in Terminal)
    BY <2>2, Zenon
  <2>4. CASE late'
    BY <2>1, <2>2, <2>4 DEF PaneInv, Terminal
  <2>5. CASE ~late /\ op.status \in Terminal
    BY <2>1, <2>2, <2>5 DEF PaneInv, Terminal
  <2> QED
    BY <2>3, <2>4, <2>5
<1> QED
  BY <1>1, <1>2, <1>3, <1>4, <1>5, <1>6, <1>7, <1>8, <1>9 DEF Next, Submit, StopStep

-----------------------------------------------------------------------------
(* What keeps a mark from being made twice                                 *)

(* Without a stop the first mark is the only start, and nothing suspends   *)
(* the operation after the retry.                                          *)
NeverStopped ==
    /\ op.status \in {"none", "requested"} => started = {} /\ "retry_started" \notin said
    /\ "retry_started" \in said => op.status # "suspended"
    /\ pc = "start" => started = {} /\ "retry_started" \notin said
    /\ pc \in {"send", "pane_dead"} /\ ~IsRetry(todo) => "retry_started" \notin said

(* The checkpoint event c has been handled, and will not be again unless   *)
(* the kernel dies.                                                        *)
Past(c) ==
    IF InBatch THEN c < todo \/ (c = todo /\ pc \notin {"event", "start", "retry", "ack"})
    ELSE c <= acked

(* Without a crash the cursor keeps the kernel from what it has handled.   *)
NeverCrashed ==
    /\ \A c \in started : Past(c)
    /\ "retry_started" \in said => \E c \in DOMAIN cps : IsRetry(c) /\ Past(c)

PromptInv ==
    /\ RetryInv /\ BatchInv /\ StopInv /\ IsFiniteSet(started)
    /\ ~StopMetEvents => PaneInv /\ Credit
    /\ stops = 0 => NeverStopped
    /\ torn = {} => NeverCrashed

(* Prepare finds nothing twice.                                            *)
LEMMA Fresh ==
    ASSUME PromptInv, ~StopMetEvents, pc = "event", todo <= last, Dispatchable(todo)
    PROVE  IF IsRetry(todo) THEN "retry_started" \notin said ELSE todo \notin started
<1>1. stops = 0 \/ torn = {}
  BY DEF StopMetEvents, PromptInv, RetryInv, TypeOK
<1>2. op.status = "requested" \/ (IsRetry(todo) /\ op.status = "suspended")
  BY DEF Dispatchable
<1>3. CASE stops = 0
  BY <1>2, <1>3 DEF PromptInv, NeverStopped
<1>4. CASE torn = {}
  <2>1. ~Past(todo) /\ todo \in DOMAIN cps
    <3>1. todo \in Nat /\ last \in Nat /\ acked \in Nat /\ Len(cps) \in Nat
          /\ DOMAIN cps = 1 .. Len(cps)
      BY Lengths DEF PromptInv
    <3>2. acked < todo /\ last <= Len(cps) /\ InBatch
      BY DEF PromptInv, BatchInv, InBatch, Handling
    <3> QED
      BY <3>1, <3>2 DEF Past
  <2>2. todo \notin started
    BY <1>4, <2>1 DEF PromptInv, NeverCrashed
  <2>3. IsRetry(todo) => "retry_started" \notin said
    BY <1>4, <2>1 DEF PromptInv, NeverCrashed, RetryInv, RetryBound
  <2> QED
    BY <2>2, <2>3
<1> QED
  BY <1>1, <1>3, <1>4

LEMMA CreditFrame ==
    ASSUME Credit, RetryInv, IsFiniteSet(started), UNCHANGED <<prompts, started>>,
           op'.retries = op.retries, pc' \notin {"start", "retry", "send"}
    PROVE  Credit'
<1>1. prompts \in Nat /\ Cardinality(started) \in Nat /\ op.retries \in Nat
  BY FS_CardinalityType DEF RetryInv, TypeOK, Rows
<1>2. prompts <= Cardinality(started) + op.retries
  BY <1>1 DEF Credit
<1> QED
  BY <1>1, <1>2 DEF Credit

LEMMA CreditStill ==
    ASSUME Credit, UNCHANGED <<pc, todo, prompts, started>>, op'.retries = op.retries,
           "retry_started" \in said' => "retry_started" \in said
    PROVE  Credit'
BY DEF Credit

LEMMA CreditStep ==
    ASSUME PromptInv, ~StopMetEvents, Next
    PROVE  Credit'
<1> USE DEF durable, provider, kernel, operator, past
<1>0. RetryInv /\ BatchInv /\ StopInv /\ IsFiniteSet(started) /\ PaneInv /\ Credit
  BY DEF PromptInv
<1>n. prompts \in Nat /\ Cardinality(started) \in Nat /\ op.retries \in Nat /\ op \in Rows
  BY <1>0, FS_CardinalityType DEF RetryInv, TypeOK, Rows
<1>1. CASE EnsureOperation
  <2>1. op'.retries = op.retries
    BY <1>1, <1>n DEF EnsureOperation, Rows
  <2> QED
    BY <1>0, <1>1, <2>1, CreditFrame DEF EnsureOperation
<1>2. CASE \/ RequestCheckpoint \/ Begin \/ Drop \/ RequestRespawn \/ Acknowledge
           \/ ApplyRespawn \/ Requeue \/ RespawnResult \/ Rearm \/ Probe \/ StopWatcher \/ KernelDies \/ Start
  <2>1. UNCHANGED <<op, prompts, started>>
    BY <1>2 DEF RequestCheckpoint, Begin, Drop, RequestRespawn, Acknowledge, ApplyRespawn, Requeue,
                RespawnResult, Rearm, Probe, StopWatcher, KernelDies, Start
  <2>2. pc' \notin {"start", "retry", "send"}
    BY <1>2 DEF RequestCheckpoint, Begin, Drop, RequestRespawn, Acknowledge, ApplyRespawn, Requeue,
                RespawnResult, Rearm, Probe, StopWatcher, KernelDies, Start, AfterEvent,
                AfterActions
  <2> QED
    BY <1>0, <2>1, <2>2, CreditFrame
<1>3. CASE Prepare
  <2>0. UNCHANGED <<op, prompts, started, said>> /\ pc = "event"
    BY <1>3 DEF Prepare
  <2>1. CASE pc' \in {"ack", "actions", "event"}
    BY <1>0, <2>0, <2>1, CreditFrame
  <2>2. CASE /\ todo <= last /\ Dispatchable(todo) /\ todo' = todo
             /\ pc' = IF IsRetry(todo) THEN "retry" ELSE "start"
    <3>1. IF IsRetry(todo) THEN "retry_started" \notin said ELSE todo \notin started
      BY <2>0, <2>2, Fresh
    <3>2. prompts <= Cardinality(started) + op.retries
      BY <1>0, <1>n, <2>0 DEF Credit
    <3> QED
      BY <1>0, <1>n, <2>0, <2>2, <3>1, <3>2 DEF Credit
  <2> QED
    BY <1>3, <2>1, <2>2 DEF Prepare, AfterEvent
<1>4. CASE MarkStarted
  <2>1. todo \notin started /\ pc = "start" /\ pc' = "send" /\ prompts' = prompts
        /\ started' = started \cup {todo}
    BY <1>0, <1>4 DEF MarkStarted, Credit
  <2>2. op'.retries = op.retries
    BY <1>4, <1>n DEF MarkStarted, Started, Rows
  <2>3. Cardinality(started') = Cardinality(started) + 1
    BY <1>0, <2>1, FS_AddElement
  <2>4. prompts <= Cardinality(started) + op.retries
    BY <1>0, <1>n, <2>1 DEF Credit
  <2>5. prompts' + 1 <= Cardinality(started') + op'.retries
    BY <1>n, <2>1, <2>2, <2>3, <2>4
  <2> QED
    BY <2>1, <2>3, <2>5 DEF Credit
<1>5. CASE MarkRetryStarted
  <2>0. pc = "retry" /\ UNCHANGED <<prompts, started>>
        /\ prompts <= Cardinality(started) + op.retries
    BY <1>0, <1>5, <1>n DEF MarkRetryStarted, Credit
  <2>1. CASE op.status \in {"suspended", "failed"}
    <3>1. op' = RetryStarted(op, todo) /\ pc' = "send"
      BY <1>0, <1>5, <2>1 DEF MarkRetryStarted, Credit
    <3>2. op'.retries = op.retries + 1
      BY <1>n, <2>1, <3>1 DEF RetryStarted, Rows
    <3>3. prompts' + 1 <= Cardinality(started') + op'.retries
      BY <1>n, <2>0, <3>2
    <3> QED
      BY <1>0, <2>0, <3>1, <3>3 DEF Credit
  <2>2. CASE op.status \notin {"suspended", "failed"}
    <3>1. op' = op /\ pc' \in {"down", "idle"}
      BY <1>5, <2>2 DEF MarkRetryStarted
    <3> QED
      BY <1>0, <2>0, <3>1, CreditFrame
  <2> QED
    BY <2>1, <2>2
<1>6. CASE Send
  <2>1. pc = "send" /\ prompts' \in {prompts, prompts + 1} /\ UNCHANGED <<op, started>>
    BY <1>6 DEF Send
  <2>2. pc' \in {"actions", "event", "pane_dead", "send_failed"}
    BY <1>6 DEF Send, AfterEvent
  <2>3. prompts' <= Cardinality(started') + op'.retries
    BY <1>0, <1>n, <2>1 DEF Credit
  <2>4. prompts' \in Nat
    BY <1>n, <2>1
  <2> QED
    BY <1>0, <2>1, <2>2, <2>3, <2>4 DEF Credit
<1>7. CASE PaneDead \/ SendFailed \/ Sweep \/ Lost
  <2>1. op'.retries = op.retries
    BY <1>0, <1>7, EndRow, CutRow, Ways DEF PaneDead, SendFailed, Sweep, Lost
  <2>2. UNCHANGED <<prompts, started>>
    BY <1>7 DEF PaneDead, SendFailed, Sweep, Lost
  <2>3. pc' \notin {"start", "retry", "send"}
    BY <1>7 DEF PaneDead, SendFailed, Sweep, Lost, AfterEvent
  <2> QED
    BY <1>0, <2>1, <2>2, <2>3, CreditFrame
<1>8. CASE AdmitRedrive
  <2>1. op'.retries = op.retries
    BY <1>8, <1>n DEF AdmitRedrive, Redriven, Rows
  <2> QED
    BY <1>0, <1>8, <2>1, CreditFrame DEF AdmitRedrive
<1>9. CASE ResultInvalid \/ Settle \/ StrayEnds
  <2>1. op'.retries = op.retries /\ ("retry_started" \in said' => "retry_started" \in said)
    BY <1>0, <1>9, EndRow, Ways DEF ResultInvalid, Settle, StrayEnds
  <2> QED
    BY <1>0, <1>9, <2>1, CreditStill DEF ResultInvalid, Settle, StrayEnds, SubmitReturns
<1>10. CASE StopInterrupt
  <2>1. op'.retries = op.retries
    BY <1>0, <1>10, CutRow, Ways DEF StopInterrupt
  <2> QED
    BY <1>0, <1>10, <2>1, CreditStill DEF StopInterrupt
<1>11. CASE \/ SubmitCheck \/ Admit \/ AdmitAgain \/ Stop \/ StopRead \/ StopPanes
            \/ ProviderDies \/ SubmitDies
  BY <1>0, <1>11, CreditStill DEF SubmitCheck, Admit, AdmitAgain, SubmitReturns, Stop, StopRead,
                                  StopPanes, ProviderDies, SubmitDies
<1> QED
  BY <1>1, <1>2, <1>3, <1>4, <1>5, <1>6, <1>7, <1>8, <1>9, <1>10, <1>11
     DEF Next, Loop, Submit, StopStep

LEMMA FiniteStep ==
    ASSUME IsFiniteSet(started), Next
    PROVE  IsFiniteSet(started')
<1>1. started' = started \/ started' = started \cup {todo}
  BY DEF Next, Loop, Submit, StopStep, EnsureOperation, Begin, RequestCheckpoint, Prepare,
         Drop, MarkStarted, MarkRetryStarted, Send, PaneDead, SendFailed, RequestRespawn, Acknowledge,
         ApplyRespawn, Requeue, RespawnResult, Sweep, AdmitRedrive, Rearm, Probe, Lost,
         SubmitCheck, Admit, AdmitAgain, ResultInvalid, Settle, SubmitReturns, StopRead,
         StopInterrupt, StopPanes, StopWatcher, Start, Stop, ProviderDies, KernelDies,
         SubmitDies, StrayEnds, durable
<1> QED
  BY <1>1, FS_AddElement

(* A row that is left alone or ends, in a step that marks nothing.         *)
LEMMA UnstoppedFrame ==
    ASSUME NeverStopped, op' = op \/ op'.status \in Terminal,
           "retry_started" \in said' => "retry_started" \in said,
           started' = started,
           \/ pc' \notin {"start", "send", "pane_dead"}
           \/ UNCHANGED <<pc, todo, cps>>
    PROVE  NeverStopped'
BY DEF NeverStopped, Terminal, IsRetry

LEMMA UnstoppedStep ==
    ASSUME PromptInv, stops' = 0, stops = 0, Next
    PROVE  NeverStopped'
<1> USE DEF durable, provider, kernel, operator, past
<1>0. RetryInv /\ BatchInv /\ StopInv /\ NeverStopped /\ op \in Rows
  BY DEF PromptInv, RetryInv, TypeOK
<1>s. stop = "none" /\ pc \notin {"redrive", "rearm"}
  BY <1>0 DEF StopInv
<1>1. CASE EnsureOperation
  <2>1. op.status = "none" /\ pc' = "first" /\ UNCHANGED <<started, said>>
    BY <1>1 DEF EnsureOperation
  <2>2. op'.status = "requested"
    BY <1>0, <1>1 DEF EnsureOperation, Rows
  <2> QED
    BY <1>0, <2>1, <2>2 DEF NeverStopped
<1>2. CASE \/ RequestCheckpoint \/ Begin \/ Drop \/ RequestRespawn \/ Acknowledge
           \/ ApplyRespawn \/ Requeue \/ RespawnResult \/ Probe \/ KernelDies \/ Start
  <2>1. UNCHANGED <<op, started, said>>
    BY <1>2 DEF RequestCheckpoint, Begin, Drop, RequestRespawn, Acknowledge, ApplyRespawn, Requeue,
                RespawnResult, Probe, KernelDies, Start
  <2>2. pc' \notin {"start", "send", "pane_dead"}
    BY <1>2 DEF RequestCheckpoint, Begin, Drop, RequestRespawn, Acknowledge, ApplyRespawn, Requeue,
                RespawnResult, Probe, KernelDies, Start, AfterEvent, AfterActions
  <2> QED
    BY <1>0, <2>1, <2>2, UnstoppedFrame
<1>3. CASE Prepare
  <2>0. UNCHANGED <<op, started, said>>
    BY <1>3 DEF Prepare
  <2>1. CASE pc' \in {"ack", "actions", "event", "retry"}
    BY <1>0, <2>0, <2>1, UnstoppedFrame
  <2>2. CASE pc' = "start" /\ Dispatchable(todo) /\ ~IsRetry(todo)
    <3>1. op.status = "requested"
      BY <2>2 DEF Dispatchable
    <3> QED
      BY <1>0, <2>0, <2>2, <3>1 DEF NeverStopped
  <2> QED
    BY <1>3, <2>1, <2>2 DEF Prepare, AfterEvent
<1>4. CASE MarkStarted
  <2>1. pc' = "send" /\ started = {} /\ "retry_started" \notin said /\ said' = said
        /\ op' = Started(op, todo)
    BY <1>0, <1>4 DEF MarkStarted, NeverStopped
  <2>2. op'.status \notin {"none", "requested"}
    BY <1>0, <2>1 DEF Started, Rows, Terminal
  <2> QED
    BY <2>1, <2>2 DEF NeverStopped
<1>5. CASE MarkRetryStarted
  <2>0. pc = "retry" /\ IsRetry(todo) /\ started' = started /\ cps' = cps
    BY <1>0, <1>5 DEF MarkRetryStarted, BatchInv
  <2>1. CASE op' = op /\ said' = said /\ pc' \in {"down", "idle"}
    BY <1>0, <2>0, <2>1, UnstoppedFrame
  <2>2. CASE pc' = "send" /\ todo' = todo
    <3>1. IsRetry(todo)'
      BY <2>0, <2>2 DEF IsRetry
    <3>2. op'.status \notin {"none", "requested", "suspended"}
      <4>1. CASE op' = RetryStarted(op, todo) /\ op.status \in {"suspended", "failed"}
        BY <1>0, <4>1 DEF RetryStarted, Rows
      <4>2. CASE op' = op /\ op.status \in {"suspended", "failed"} /\ "retry_started" \in said
        BY <1>0, <4>2 DEF NeverStopped
      <4> QED
        BY <1>5, <2>2, <4>1, <4>2 DEF MarkRetryStarted
    <3> QED
      BY <2>2, <3>1, <3>2 DEF NeverStopped
  <2> QED
    BY <1>5, <2>1, <2>2 DEF MarkRetryStarted
<1>6. CASE Send
  <2>1. pc = "send" /\ UNCHANGED <<op, said, started, cps>>
        /\ (pc' \notin {"start", "send", "pane_dead"} \/ (pc' = "pane_dead" /\ todo' = todo))
    BY <1>6 DEF Send, AfterEvent
  <2> QED
    BY <1>0, <2>1 DEF NeverStopped, IsRetry
<1>7. CASE PaneDead
  <2>0. pc = "pane_dead" /\ started' = started /\ pc' \in {"actions", "event", "request"}
    BY <1>7 DEF PaneDead, AfterEvent
  <2>1. CASE IsRetry(todo)
    <3>1. End("blocked")
      BY <1>7, <2>1 DEF PaneDead
    <3> QED
      BY <1>0, <2>0, <3>1, EndRow, Ways, UnstoppedFrame
  <2>2. CASE ~IsRetry(todo)
    <3>1. "retry_started" \notin said /\ said' = said
      BY <1>0, <1>7, <2>0, <2>2 DEF PaneDead, NeverStopped
    <3>2. op' = op \/ op'.status = "suspended"
      BY <1>0, <1>7, <2>2, CutRow, Ways DEF PaneDead
    <3> QED
      BY <1>0, <2>0, <3>1, <3>2 DEF NeverStopped
  <2> QED
    BY <2>1, <2>2
<1>8. CASE SendFailed \/ Sweep
  <2>1. (op' = op \/ op'.status \in Terminal)
        /\ ("retry_started" \in said' => "retry_started" \in said)
    BY <1>0, <1>8, EndRow, Ways DEF SendFailed, Sweep
  <2>2. started' = started /\ pc' \notin {"start", "send", "pane_dead"}
    BY <1>8 DEF SendFailed, Sweep, AfterEvent
  <2> QED
    BY <1>0, <2>1, <2>2, UnstoppedFrame
<1>9. CASE Lost
  <2>0. pc = "lost" /\ started' = started /\ pc' \in {"idle", "probe_request"}
    BY <1>9 DEF Lost
  <2>1. CASE (op' = op /\ said' = said) \/ End("blocked")
    BY <1>0, <2>0, <2>1, EndRow, Ways, UnstoppedFrame
  <2>2. CASE Interrupt("probe_dead") /\ said' = said /\ ~(seen.retries >= 1)
    <3>1. "retry_started" \notin said
      BY <1>0, <2>0, <2>2 DEF BatchInv, StopInv
    <3>2. op' = op \/ op'.status = "suspended"
      BY <1>0, <2>2, CutRow, Ways
    <3> QED
      BY <1>0, <2>0, <2>2, <3>1, <3>2 DEF NeverStopped
  <2> QED
    BY <1>9, <2>1, <2>2 DEF Lost
<1>10. CASE ResultInvalid \/ Settle \/ StrayEnds
  <2>1. (op' = op \/ op'.status \in Terminal)
        /\ ("retry_started" \in said' => "retry_started" \in said)
    BY <1>0, <1>10, EndRow, Ways DEF ResultInvalid, Settle, StrayEnds
  <2> QED
    BY <1>0, <1>10, <2>1, UnstoppedFrame DEF ResultInvalid, Settle, StrayEnds, SubmitReturns
<1>11. CASE SubmitCheck \/ Admit \/ AdmitAgain \/ ProviderDies \/ SubmitDies
  BY <1>0, <1>11, UnstoppedFrame
     DEF SubmitCheck, Admit, AdmitAgain, SubmitReturns, ProviderDies, SubmitDies
<1>12. ~Stop /\ ~StopStep /\ ~AdmitRedrive /\ ~Rearm
  <2>1. ~Stop
    <3>1. 0 + 1 # 0 OBVIOUS
    <3> QED BY <3>1 DEF Stop
  <2> QED
    BY <1>s, <2>1 DEF StopStep, StopRead, StopInterrupt, StopPanes, StopWatcher, AdmitRedrive,
                      Rearm
<1> QED
  BY <1>1, <1>2, <1>3, <1>4, <1>5, <1>6, <1>7, <1>8, <1>9, <1>10, <1>11, <1>12
     DEF Next, Loop, Submit

(* What was handled stays so while nobody dies and no stop cuts a batch.   *)
LEMMA PastKept ==
    ASSUME PromptInv, torn' = {}, torn = {}, Next, NEW c \in Nat, Past(c)
    PROVE  Past(c)'
<1> USE DEF durable, provider, kernel, operator, past
<1>0. RetryInv /\ BatchInv /\ StopInv
  BY DEF PromptInv
<1>n. acked \in Nat /\ todo \in Nat /\ last \in Nat /\ mode \in {"poll", "tick"}
  BY <1>0, Lengths
<1>1. CASE UNCHANGED <<pc, mode, todo, acked>>
  BY <1>1 DEF Past, InBatch
<1>2. CASE ~InBatch /\ ~InBatch' /\ acked' = acked
  BY <1>2 DEF Past
<1>3. CASE Begin
  <2>1. ~InBatch /\ InBatch' /\ todo' = acked + 1
    BY <1>3 DEF Begin, InBatch, Handling
  <2> QED
    BY <1>n, <2>1 DEF Past
<1>4. ASSUME AfterEvent, mode' = mode, todo <= last,
             pc \in {"event", "start", "retry", "send", "pane_dead", "send_failed", "request"}
      PROVE  Past(c)'
  <2>1. InBatch /\ c <= todo
    BY <1>4, <1>n DEF Past, InBatch, Handling
  <2>2. CASE pc' = "actions" /\ todo' = todo /\ mode = "poll"
    BY <1>4, <1>n, <2>1, <2>2 DEF Past, InBatch, Handling
  <2>3. CASE pc' = "event" /\ todo' = todo + 1
    BY <1>4, <1>n, <2>1, <2>3 DEF Past, InBatch, Handling
  <2> QED
    BY <1>4, <2>2, <2>3 DEF AfterEvent
<1>5. ASSUME InBatch, InBatch', todo' = todo,
             \/ pc \in {"event", "start", "retry"}
             \/ pc' \notin {"event", "start", "retry", "ack"}
      PROVE  Past(c)'
  BY <1>5 DEF Past
<1>6. ASSUME AfterActions, UNCHANGED <<mode, acked>>, pc \in {"actions", "result"}
      PROVE  Past(c)'
  <2>1. CASE mode = "poll"
    <3>1. InBatch /\ InBatch' /\ todo' = todo + 1 /\ c <= todo
      BY <1>6, <1>n, <2>1 DEF AfterActions, Past, InBatch, Handling
    <3> QED
      BY <1>n, <3>1 DEF Past
  <2>2. CASE mode # "poll"
    BY <1>2, <1>6, <2>2 DEF AfterActions, InBatch, Handling
  <2> QED
    BY <2>1, <2>2
<1>7. CASE Prepare
  <2>1. CASE AfterEvent /\ todo <= last
    BY <1>4, <1>7, <2>1 DEF Prepare
  <2>2. CASE todo' = todo /\ pc' \in {"ack", "start", "retry"}
    BY <1>5, <1>7, <2>2 DEF Prepare, InBatch, Handling
  <2> QED
    BY <1>7, <2>1, <2>2 DEF Prepare
<1>8. CASE MarkStarted
  BY <1>5, <1>8 DEF MarkStarted, InBatch, Handling
<1>9. CASE (MarkRetryStarted /\ pc' = "send") \/ Send \/ PaneDead \/ SendFailed
  <2>0. pc \in {"retry", "send", "pane_dead", "send_failed"} /\ mode' = mode
    BY <1>9 DEF MarkRetryStarted, Send, PaneDead, SendFailed
  <2>1. todo <= last
    BY <1>0, <2>0 DEF BatchInv, InBatch, Handling
  <2>2. CASE AfterEvent
    BY <1>4, <2>0, <2>1, <2>2
  <2>3. CASE todo' = todo /\ pc' \in {"send", "pane_dead", "send_failed", "request"}
    BY <1>5, <2>0, <2>3 DEF InBatch, Handling
  <2> QED
    BY <1>9, <2>2, <2>3 DEF MarkRetryStarted, Send, PaneDead, SendFailed
<1>10. CASE RequestRespawn
  <2>1. CASE pc = "request" /\ AfterEvent
    <3>1. todo <= last
      BY <1>0, <2>1 DEF BatchInv, InBatch, Handling
    <3> QED
      BY <1>4, <1>10, <2>1, <3>1 DEF RequestRespawn
  <2>2. CASE pc = "probe_request" /\ pc' = "idle"
    BY <1>2, <1>10, <2>2 DEF RequestRespawn, InBatch, Handling
  <2> QED
    BY <1>10, <2>1, <2>2 DEF RequestRespawn
<1>11. CASE Acknowledge
  <2>1. InBatch /\ ~InBatch' /\ acked' = last /\ todo <= last + 1 /\ c < todo
    BY <1>0, <1>11, <1>n DEF Acknowledge, InBatch, Handling, BatchInv, Past
  <2> QED
    BY <1>n, <2>1 DEF Past
<1>12. CASE ApplyRespawn
  <2>1. CASE AfterActions
    BY <1>6, <1>12, <2>1 DEF ApplyRespawn
  <2>2. CASE pc' = "requeue" /\ todo' = todo
    <3>1. pc = "actions" /\ UNCHANGED <<mode, acked>>
      BY <1>12 DEF ApplyRespawn
    <3> QED
      BY <1>2, <1>5, <2>2, <3>1 DEF InBatch, Handling
  <2> QED
    BY <1>12, <2>1, <2>2 DEF ApplyRespawn
<1>13. CASE Requeue
  <2>1. pc = "requeue" /\ pc' = "result" /\ UNCHANGED <<mode, acked, todo>>
    BY <1>13 DEF Requeue
  <2> QED
    BY <1>2, <1>5, <2>1 DEF InBatch, Handling
<1>14. CASE RespawnResult
  BY <1>6, <1>14 DEF RespawnResult
<1>15. CASE \/ EnsureOperation \/ RequestCheckpoint \/ Sweep \/ AdmitRedrive \/ Rearm
            \/ Probe \/ Lost \/ Start
  <2>1. acked' = acked
        /\ pc \in {"idle", "first", "sweep", "redrive", "rearm", "probe", "lost", "down"}
        /\ pc' \in {"first", "idle", "probe", "redrive", "rearm", "lost", "probe_request"}
    BY <1>15 DEF EnsureOperation, RequestCheckpoint, Sweep, AdmitRedrive, Rearm, Probe, Lost, Start
  <2> QED
    BY <1>2, <2>1 DEF InBatch, Handling
<1>16. CASE StopWatcher
  <2>1. pc \in {"idle", "down"} /\ pc' = "down" /\ acked' = acked
    BY <1>0, <1>16 DEF StopWatcher, StopInv
  <2> QED
    BY <1>2, <2>1 DEF InBatch, Handling
<1>17. CASE Submit \/ StrayEnds \/ Stop \/ StopRead \/ StopInterrupt \/ StopPanes \/ ProviderDies
  BY <1>1, <1>17 DEF Submit, SubmitCheck, Admit, AdmitAgain, ResultInvalid, Settle, SubmitReturns,
                     StrayEnds, Stop, StopRead, StopInterrupt, StopPanes, ProviderDies
<1>18. ~KernelDies /\ ~SubmitDies /\ (MarkRetryStarted => pc' = "send")
  BY DEF KernelDies, SubmitDies, MarkRetryStarted
<1>19. CASE Drop
  <2>1. AfterEvent /\ mode' = mode /\ todo <= last /\ pc = "event"
    BY <1>19 DEF Drop
  <2> QED
    BY <1>4, <2>1
<1> QED
  BY <1>3, <1>7, <1>8, <1>9, <1>10, <1>11, <1>12, <1>13, <1>14, <1>15, <1>16, <1>17, <1>18, <1>19
     DEF Next, Loop, StopStep

LEMMA UncrashedFrame ==
    ASSUME PromptInv, torn' = {}, torn = {}, Next, started' = started,
           "retry_started" \in said' => "retry_started" \in said,
           \A c \in DOMAIN cps : IsRetry(c) => c \in DOMAIN cps' /\ IsRetry(c)'
    PROVE  NeverCrashed'
<1>1. started \subseteq Nat /\ DOMAIN cps \subseteq Nat /\ NeverCrashed
  BY LogTyped, Zenon DEF PromptInv
<1>2. \A c \in started' : Past(c)'
  BY <1>1, PastKept DEF NeverCrashed
<1>3. "retry_started" \in said' => \E c \in DOMAIN cps' : IsRetry(c)' /\ Past(c)'
  BY <1>1, PastKept DEF NeverCrashed
<1> QED
  BY <1>2, <1>3 DEF NeverCrashed

LEMMA UncrashedStep ==
    ASSUME PromptInv, torn' = {}, torn = {}, Next
    PROVE  NeverCrashed'
<1> USE DEF durable, provider, kernel, operator, past
<1>0. RetryInv /\ BatchInv /\ StopInv /\ NeverCrashed /\ cps \in Seq(Events)
      /\ started \subseteq Nat /\ DOMAIN cps \subseteq Nat
  BY LogTyped, Zenon DEF PromptInv
<1>1. \A e \in Events : \A c \in DOMAIN cps :
        c \in DOMAIN Append(cps, e) /\ Append(cps, e)[c] = cps[c]
  BY <1>0
<1>2. CASE RequestCheckpoint \/ Requeue \/ Rearm
  <2>1. cps' = cps \/ \E e \in Events : cps' = Append(cps, e)
    BY <1>0, <1>2 DEF RequestCheckpoint, Requeue, Rearm, Events, RetryInv, TypeOK, Rows
  <2>2. \A c \in DOMAIN cps : IsRetry(c) => c \in DOMAIN cps' /\ IsRetry(c)'
    BY <1>1, <2>1 DEF IsRetry
  <2>3. UNCHANGED <<started, said>>
    BY <1>2 DEF RequestCheckpoint, Requeue, Rearm
  <2> QED
    BY <2>2, <2>3, UncrashedFrame
<1>3. CASE MarkStarted
  <2>1. Past(todo)'
    BY <1>3 DEF MarkStarted, Past, InBatch, Handling
  <2>2. started' = started \cup {todo} /\ todo' = todo /\ UNCHANGED <<said, cps>>
    BY <1>3 DEF MarkStarted
  <2>3. \A c \in started : Past(c)'
    BY <1>0, PastKept DEF NeverCrashed
  <2>4. \A c \in started' : Past(c)'
    BY <2>1, <2>2, <2>3
  <2>5. "retry_started" \in said' => \E c \in DOMAIN cps' : IsRetry(c)' /\ Past(c)'
    BY <1>0, <2>2, PastKept DEF NeverCrashed, IsRetry
  <2> QED
    BY <2>4, <2>5 DEF NeverCrashed
<1>4. CASE MarkRetryStarted /\ pc' = "send"
  <2>1. pc = "retry" /\ UNCHANGED <<todo, started, cps, mode>>
    BY <1>4 DEF MarkRetryStarted
  <2>2. IsRetry(todo) /\ todo \in DOMAIN cps
    <3>1. acked < todo /\ todo <= last /\ last <= Len(cps) /\ IsRetry(todo)
      BY <1>0, <2>1 DEF BatchInv, InBatch, Handling
    <3> QED
      BY <1>0, <3>1, Lengths
  <2>3. PICK t \in DOMAIN cps : t = todo
    BY <2>2
  <2>4. t \in DOMAIN cps' /\ IsRetry(t)' /\ Past(t)'
    BY <1>4, <2>1, <2>2, <2>3 DEF IsRetry, Past, InBatch, Handling
  <2>5. \A c \in started' : Past(c)'
    BY <1>0, <2>1, PastKept DEF NeverCrashed
  <2> QED
    BY <2>4, <2>5 DEF NeverCrashed
<1>5. ASSUME UNCHANGED <<started, cps>>, "retry_started" \in said' => "retry_started" \in said
      PROVE  NeverCrashed'
  BY <1>5, UncrashedFrame DEF IsRetry
<1>6. CASE MarkRetryStarted /\ pc' # "send"
  BY <1>5, <1>6 DEF MarkRetryStarted
<1>7. CASE \/ EnsureOperation \/ Begin \/ Prepare \/ Drop \/ Send \/ RequestRespawn \/ Acknowledge
           \/ ApplyRespawn \/ RespawnResult \/ AdmitRedrive \/ Probe
  BY <1>5, <1>7 DEF EnsureOperation, Begin, Prepare, Drop, Send, RequestRespawn, Acknowledge,
                    ApplyRespawn, RespawnResult, AdmitRedrive, Probe
<1>8. CASE PaneDead \/ SendFailed \/ Sweep \/ Lost \/ ResultInvalid \/ Settle \/ StrayEnds
  <2>1. "retry_started" \in said' => "retry_started" \in said
    BY <1>0, <1>8, EndRow, Ways DEF PaneDead, SendFailed, Sweep, Lost, ResultInvalid, Settle,
                                  StrayEnds
  <2>2. UNCHANGED <<started, cps>>
    BY <1>8 DEF PaneDead, SendFailed, Sweep, Lost, ResultInvalid, Settle,
                                  StrayEnds
  <2> QED
    BY <1>5, <2>1, <2>2
<1>9. CASE \/ SubmitCheck \/ Admit \/ AdmitAgain \/ StopStep \/ Start \/ Stop \/ ProviderDies
           \/ KernelDies \/ SubmitDies
  BY <1>5, <1>9 DEF SubmitCheck, Admit, AdmitAgain, SubmitReturns, StopStep, StopRead,
                    StopInterrupt, StopPanes, StopWatcher, Start, Stop, ProviderDies,
                    KernelDies, SubmitDies
<1> QED
  BY <1>2, <1>3, <1>4, <1>6, <1>7, <1>8, <1>9 DEF Next, Loop, Submit

-----------------------------------------------------------------------------
(* The inductive invariant and what follows from it                        *)

LEMMA InitPrompt == Init => PromptInv
<1> SUFFICES ASSUME Init PROVE PromptInv
  OBVIOUS
<1>1. RetryInv
  BY InitRetry
<1>2. op.status = "none" /\ op.reason = "none" /\ op.retries = 0 /\ Len(cps) = 0
  BY DEF Init, NoRow
<1>3. BatchInv
  BY <1>2 DEF Init, BatchInv, InBatch, Handling
<1>4. StopInv /\ PaneInv /\ NeverStopped
  BY <1>2 DEF Init, StopInv, PaneInv, NeverStopped
<1>5. IsFiniteSet(started) /\ Cardinality(started) = 0
  BY FS_EmptySet DEF Init
<1>6. Credit
  BY <1>2, <1>5 DEF Init, Credit
<1>7. NeverCrashed
  BY DEF Init, NeverCrashed
<1> QED
  BY <1>1, <1>3, <1>4, <1>5, <1>6, <1>7 DEF PromptInv

LEMMA StepPrompt == PromptInv /\ [Next]_vars => PromptInv'
<1>1. ASSUME PromptInv, UNCHANGED vars PROVE PromptInv'
  <2>1. RetryInv'
    BY <1>1, StepRetry DEF PromptInv
  <2>2. UNCHANGED <<op, started, said, cps, acked, pane, prompts, submit, pc, mode, todo, last,
                    seen, stop, torn, stops, late>>
    BY <1>1 DEF vars, durable, provider, kernel, operator, past
  <2>3. BatchInv' /\ StopInv' /\ IsFiniteSet(started')
    BY <1>1, <2>2 DEF PromptInv, BatchInv, StopInv, InBatch, IsRetry
  <2>4. ~StopMetEvents' => PaneInv' /\ Credit'
    BY <1>1, <2>2 DEF PromptInv, StopMetEvents, PaneInv, Credit
  <2>5. stops' = 0 => NeverStopped'
    BY <1>1, <2>2 DEF PromptInv, NeverStopped, IsRetry
  <2>6. torn' = {} => NeverCrashed'
    BY <1>1, <2>2 DEF PromptInv, NeverCrashed, IsRetry, Past, InBatch
  <2> QED
    BY <2>1, <2>3, <2>4, <2>5, <2>6 DEF PromptInv
<1>2. ASSUME PromptInv, Next PROVE PromptInv'
  <2>0. RetryInv /\ BatchInv /\ StopInv /\ IsFiniteSet(started)
    BY <1>2 DEF PromptInv
  <2>1. RetryInv'
    BY <1>2, <2>0, StepRetry
  <2>2. BatchInv' /\ StopInv' /\ IsFiniteSet(started')
    BY <1>2, <2>0, BatchStep, StopKernel, StopOthers, FiniteStep
  <2>3. ASSUME ~StopMetEvents' PROVE PaneInv' /\ Credit'
    <3>1. ~StopMetEvents
      BY <1>2, <2>0, <2>3, Monotone
    <3>2. "stop" \notin torn /\ "stop" \notin torn'
      BY <2>3, <3>1 DEF StopMetEvents
    <3>3. PaneInv /\ Credit
      BY <1>2, <3>1 DEF PromptInv
    <3> QED
      BY <1>2, <2>0, <3>1, <3>2, <3>3, PaneKernel, PaneOthers, CreditStep
  <2>4. stops' = 0 => NeverStopped'
    BY <1>2, <2>0, Monotone, UnstoppedStep
  <2>5. torn' = {} => NeverCrashed'
    BY <1>2, <2>0, Monotone, UncrashedStep
  <2> QED
    BY <2>1, <2>2, <2>3, <2>4, <2>5 DEF PromptInv
<1> QED
  BY <1>1, <1>2

LEMMA AlwaysPrompt == Spec => []PromptInv
BY InitPrompt, StepPrompt, PTL DEF Spec

(* Every prompt is paid for by a start or a retry in the log, however      *)
(* often events are redelivered, panes respawned and the runtime stopped.  *)
THEOREM PromptsPaid == Spec => []PromptsAccounted
<1>1. PromptInv => PromptsAccounted
  <2> SUFFICES ASSUME PromptInv, ~StopMetEvents
               PROVE  prompts <= Cardinality(started) + op.retries
    BY DEF PromptsAccounted
  <2>1. prompts \in Nat /\ Cardinality(started) \in Nat /\ op.retries \in Nat
    BY FS_CardinalityType DEF PromptInv, RetryInv, TypeOK, Rows
  <2> QED
    BY <2>1 DEF PromptInv, Credit
<1> QED
  BY <1>1, AlwaysPrompt, PTL

PromptTimely == prompts' > prompts => StopMetEvents \/ late \/ op.status \notin Terminal

LEMMA StepTimely == PromptInv /\ [Next]_vars => PromptTimely
<1> SUFFICES ASSUME PromptInv, [Next]_vars, prompts' > prompts, ~StopMetEvents, ~late
             PROVE  op.status \notin Terminal
  BY DEF PromptTimely
<1> USE DEF durable, provider, kernel, operator, past
<1>1. prompts \in Nat
  BY DEF PromptInv, RetryInv, TypeOK
<1>2. prompts' # prompts
  BY <1>1
<1>3. pc = "send" /\ pane # "dead"
  BY <1>2
     DEF Next, vars, Loop, Submit, StopStep, EnsureOperation, Begin, RequestCheckpoint, Prepare,
         Drop, MarkStarted, MarkRetryStarted, Send, PaneDead, SendFailed, RequestRespawn, Acknowledge,
         ApplyRespawn, Requeue, RespawnResult, Sweep, AdmitRedrive, Rearm, Probe, Lost,
         SubmitCheck, Admit, AdmitAgain, ResultInvalid, Settle, SubmitReturns, StopRead,
         StopInterrupt, StopPanes, StopWatcher, Start, Stop, ProviderDies, KernelDies,
         SubmitDies, StrayEnds
<1> QED
  BY <1>3 DEF PromptInv, PaneInv

(* The agent gets no prompt for a checkpoint that has ended, unless a      *)
(* submit of an earlier pane outlived it and ended the checkpoint since.   *)
THEOREM PromptsTimely == Spec => NoPromptAfterEnd
<1>1. PromptInv /\ [Next]_vars => [PromptTimely]_vars
  BY StepTimely
<1> QED
  BY AlwaysPrompt, <1>1, PTL DEF Spec, NoPromptAfterEnd, PromptTimely

-----------------------------------------------------------------------------
(* How many prompts there can be                                           *)

(* The interruptions by a stop that a checkpoint event answers, that the   *)
(* row names, or that the sweep is about to answer.                        *)
StopCuts ==
    {n \in Nat : \/ \E c \in DOMAIN cps : cps[c].kind = "restart" /\ cps[c].cut = n
                 \/ op.reason = "stop" /\ op.cut = n
                 \/ pc \in {"redrive", "rearm"} /\ seen.cut = n}

(* A stop that has not written its interruption yet.                       *)
Pending == IF stop \in {"marked", "read"} THEN 1 ELSE 0

(* There are no more of them than stops.                                   *)
CutsPaid == IsFiniteSet(StopCuts) /\ Cardinality(StopCuts) + Pending <= stops

BudgetInv == PromptInv /\ CutsPaid /\ EventsInv

LEMMA CutsShrink ==
    ASSUME RetryInv, CutsPaid, StopCuts' \subseteq StopCuts, Pending' <= Pending, stops' = stops
    PROVE  CutsPaid'
<1>1. IsFiniteSet(StopCuts') /\ Cardinality(StopCuts') <= Cardinality(StopCuts)
  BY FS_Subset DEF CutsPaid
<1>2. Cardinality(StopCuts) \in Nat /\ Cardinality(StopCuts') \in Nat /\ stops \in Nat
  BY <1>1, FS_CardinalityType DEF CutsPaid, RetryInv, TypeOK
<1>3. Pending \in {0, 1} /\ Pending' \in {0, 1}
  BY DEF Pending
<1> QED
  BY <1>1, <1>2, <1>3 DEF CutsPaid

(* A step that writes no restart event and reads nothing into the sweep.   *)
LEMMA CutsFrame ==
    ASSUME RetryInv, CutsPaid, cps' = cps, UNCHANGED <<stop, stops>>,
           op'.reason = "stop" => op.reason = "stop" /\ op'.cut = op.cut,
           pc' \in {"redrive", "rearm"} => pc \in {"redrive", "rearm"} /\ seen' = seen
    PROVE  CutsPaid'
<1>1. StopCuts' \subseteq StopCuts
  BY DEF StopCuts
<1>2. Pending' <= Pending
  BY DEF Pending
<1> QED
  BY <1>1, <1>2, CutsShrink

LEMMA NextStop == ASSUME NEW c \in Nat, NEW n \in Nat, c + 0 <= n PROVE c + 1 <= n + 1
  OBVIOUS

(* Only the sweep of a stopped row, its event and the stop itself touch    *)
(* these interruptions.                                                    *)
LEMMA CutsStep ==
    ASSUME PromptInv, CutsPaid, Next
    PROVE  CutsPaid'
<1> USE DEF durable, provider, kernel, operator, past
<1>0. RetryInv /\ op \in Rows /\ seen \in Rows /\ stops \in Nat /\ cuts \in Nat
      /\ op.cut \in Nat /\ seen.cut \in Nat
  BY DEF PromptInv, RetryInv, TypeOK, Rows
<1>n. Cardinality(StopCuts) \in Nat /\ IsFiniteSet(StopCuts)
  BY FS_CardinalityType DEF CutsPaid
<1>1. CASE \/ Begin \/ Prepare \/ Drop \/ Send \/ RequestRespawn \/ Acknowledge \/ ApplyRespawn
           \/ RespawnResult \/ Probe \/ SubmitCheck \/ Admit \/ AdmitAgain \/ Start
           \/ ProviderDies \/ KernelDies \/ SubmitDies
  <2>1. UNCHANGED <<op, cps, stop, stops>>
    BY <1>1 DEF Begin, Prepare, Drop, Send, RequestRespawn, Acknowledge, ApplyRespawn, RespawnResult,
                Probe, SubmitCheck, Admit, AdmitAgain, SubmitReturns, Start, ProviderDies, KernelDies, SubmitDies
  <2>2. pc' \notin {"redrive", "rearm"} \/ UNCHANGED <<pc, seen>>
    BY <1>1 DEF Begin, Prepare, Drop, Send, RequestRespawn, Acknowledge, ApplyRespawn, RespawnResult,
                Probe, SubmitCheck, Admit, AdmitAgain, SubmitReturns, Start, ProviderDies, KernelDies, SubmitDies, AfterEvent,
                AfterActions
  <2> QED
    BY <1>0, <2>1, <2>2, CutsFrame
<1>2. CASE EnsureOperation \/ MarkStarted \/ MarkRetryStarted \/ AdmitRedrive
  <2>1. op'.reason = "stop" => op.reason = "stop" /\ op'.cut = op.cut
    BY <1>0, <1>2 DEF EnsureOperation, MarkStarted, MarkRetryStarted, AdmitRedrive, Started,
                      RetryStarted, Redriven, Rows
  <2>2. /\ UNCHANGED <<cps, stop, stops>>
        /\ pc' \in {"redrive", "rearm"} => pc \in {"redrive", "rearm"} /\ seen' = seen
    BY <1>2 DEF EnsureOperation, MarkStarted, MarkRetryStarted, AdmitRedrive
  <2> QED
    BY <1>0, <2>1, <2>2, CutsFrame
<1>3. CASE PaneDead \/ SendFailed \/ Lost \/ ResultInvalid \/ Settle \/ StrayEnds
  <2>1. op'.reason = "stop" => op' = op
    <3>1. ASSUME NEW how \in Terminal, End(how) PROVE op' = op \/ op'.reason = "ended"
      BY <1>0, <3>1 DEF End, Ended, Rows
    <3>2. ASSUME NEW why \in {"send_dead", "probe_dead"}, Interrupt(why)
          PROVE  op' = op \/ op'.reason = why
      BY <1>0, <3>2 DEF Interrupt, Interrupted, Rows
    <3> QED
      BY <1>3, <3>1, <3>2, Ways DEF PaneDead, SendFailed, Lost, ResultInvalid, Settle,
                                       StrayEnds
  <2>2. /\ UNCHANGED <<cps, stop, stops>>
        /\ pc' \in {"redrive", "rearm"} => pc' = pc /\ seen' = seen
    BY <1>3 DEF PaneDead, SendFailed, Lost, ResultInvalid, Settle, StrayEnds, SubmitReturns, AfterEvent
  <2> QED
    BY <1>0, <2>1, <2>2, CutsFrame
<1>4. CASE Sweep
  <2>1. cps' = cps /\ UNCHANGED <<stop, stops>>
    BY <1>4 DEF Sweep
  <2>2. op'.reason = "stop" => op' = op
    BY <1>0, <1>4 DEF Sweep, End, Ended, Rows
  <2>3. pc' \in {"redrive", "rearm"} => op.reason = "stop" /\ seen' = op
    BY <1>4 DEF Sweep, StoppedByOperator
  <2>4. StopCuts' \subseteq StopCuts
    BY <2>1, <2>2, <2>3 DEF StopCuts
  <2> QED
    BY <1>0, <2>1, <2>4, CutsShrink DEF Pending
<1>5. CASE RequestCheckpoint \/ Requeue \/ Rearm
  <2>1. UNCHANGED <<op, stop, stops>> /\ pc' \notin {"redrive", "rearm"}
    BY <1>5 DEF RequestCheckpoint, Requeue, Rearm
  <2>2. \/ cps' = cps
        \/ \E e \in Events : /\ cps' = Append(cps, e)
                             /\ e.kind = "restart" => pc = "rearm" /\ e.cut = seen.cut
    <3>1. CASE RequestCheckpoint
      <4>1. PICK e : e = [kind |-> "first", cut |-> 0]
        OBVIOUS
      <4>2. e \in Events /\ e.kind # "restart"
        BY <4>1 DEF Events
      <4>3. cps' = Append(cps, e)
        BY <3>1, <4>1 DEF RequestCheckpoint
      <4> QED
        BY <4>2, <4>3
    <3>2. CASE Requeue
      <4>1. PICK e : e = [kind |-> "retry", cut |-> 0]
        OBVIOUS
      <4>2. e \in Events /\ e.kind # "restart"
        BY <4>1 DEF Events
      <4>3. cps' = cps \/ cps' = Append(cps, e)
        BY <3>2, <4>1 DEF Requeue
      <4> QED
        BY <4>2, <4>3
    <3>3. CASE Rearm
      <4>1. PICK e : e = [kind |-> "restart", cut |-> seen.cut]
        OBVIOUS
      <4>2. seen.cut \in Nat
        BY <1>0 DEF RetryInv, TypeOK, Rows
      <4>3. e \in Events /\ e.cut = seen.cut
        BY <4>1, <4>2 DEF Events
      <4>4. pc = "rearm" /\ (cps' = cps \/ cps' = Append(cps, e))
        BY <3>3, <4>1 DEF Rearm
      <4> QED
        BY <4>3, <4>4
    <3> QED
      BY <1>5, <3>1, <3>2, <3>3
  <2>3. ASSUME NEW e \in Events, cps' = Append(cps, e),
               e.kind = "restart" => pc = "rearm" /\ e.cut = seen.cut
        PROVE  StopCuts' \subseteq StopCuts
    <3>1. cps \in Seq(Events)
      BY <1>0 DEF RetryInv, TypeOK, Events
    <3>2. \A c \in DOMAIN cps' : (c \in DOMAIN cps /\ cps'[c] = cps[c]) \/ cps'[c] = e
      BY <2>3, <3>1
    <3> QED
      BY <2>1, <2>3, <3>2 DEF StopCuts
  <2>4. StopCuts' \subseteq StopCuts
    BY <2>1, <2>2, <2>3 DEF StopCuts
  <2> QED
    BY <1>0, <2>1, <2>4, CutsShrink DEF Pending
<1>6. CASE StopRead \/ StopPanes \/ StopWatcher
  <2>1. UNCHANGED <<op, cps, stops>> /\ (UNCHANGED <<pc, seen>> \/ pc' = "down") /\ Pending' <= Pending
    <3>1. UNCHANGED <<op, cps, stops>> /\ (UNCHANGED <<pc, seen>> \/ pc' = "down")
      BY <1>6 DEF StopRead, StopPanes, StopWatcher
    <3>2. CASE StopRead
      BY <3>2 DEF StopRead, Pending
    <3>3. CASE StopPanes \/ StopWatcher
      <4>1. stop' \notin {"marked", "read"} /\ stop \notin {"marked", "read"}
        BY <3>3 DEF StopPanes, StopWatcher
      <4> QED
        BY <3>1, <4>1 DEF Pending
    <3> QED
      BY <1>6, <3>1, <3>2, <3>3
  <2>2. StopCuts' \subseteq StopCuts
    BY <2>1 DEF StopCuts
  <2> QED
    BY <1>0, <2>1, <2>2, CutsShrink
<1>7. CASE Stop
  <2>1. UNCHANGED <<op, cps, seen, pc>> /\ stops' = stops + 1 /\ Pending = 0 /\ Pending' = 1
    BY <1>7 DEF Stop, Pending
  <2>2. StopCuts' = StopCuts
    BY <2>1 DEF StopCuts
  <2> QED
    BY <1>0, <1>n, <2>1, <2>2, NextStop DEF CutsPaid
<1>8. CASE StopInterrupt
  <2>1. UNCHANGED <<cps, seen, pc, stops>> /\ Pending = 1 /\ Pending' = 0
    BY <1>8 DEF StopInterrupt, Pending
  <2>2. op' = op \/ op'.cut = cuts + 1
    BY <1>0, <1>8 DEF StopInterrupt, Interrupt, Interrupted, Rows
  <2>3. StopCuts' \subseteq StopCuts \cup {cuts + 1}
    <3>1. CASE op' = op
      BY <2>1, <3>1 DEF StopCuts
    <3>2. CASE op'.cut = cuts + 1
      BY <2>1, <3>2 DEF StopCuts
    <3> QED
      BY <2>2, <3>1, <3>2
  <2>4. /\ IsFiniteSet(StopCuts \cup {cuts + 1})
        /\ Cardinality(StopCuts \cup {cuts + 1}) \in {Cardinality(StopCuts), Cardinality(StopCuts) + 1}
    BY <1>n, FS_AddElement
  <2>5. /\ IsFiniteSet(StopCuts')
        /\ Cardinality(StopCuts') <= Cardinality(StopCuts \cup {cuts + 1})
    BY <2>3, <2>4, FS_Subset
  <2>6. Cardinality(StopCuts') \in Nat
    BY <2>5, FS_CardinalityType
  <2>7. Cardinality(StopCuts) + 1 <= stops
    BY <2>1 DEF CutsPaid
  <2>8. Cardinality(StopCuts') + 0 <= stops
    BY <1>0, <1>n, <2>4, <2>5, <2>6, <2>7
  <2> QED
    BY <2>1, <2>5, <2>8 DEF CutsPaid
<1> QED
  BY <1>1, <1>2, <1>3, <1>4, <1>5, <1>6, <1>7, <1>8
     DEF Next, Loop, Submit, StopStep

-----------------------------------------------------------------------------
LEMMA InitBudget == Init => BudgetInv
<1> SUFFICES ASSUME Init PROVE BudgetInv
  OBVIOUS
<1>1. PromptInv
  BY InitPrompt
<1>2. op.reason = "none" /\ op.status = "none" /\ DOMAIN cps = {} /\ cps = <<>>
  <2>1. op = NoRow /\ cps = <<>>
    BY DEF Init
  <2> QED
    BY <2>1 DEF NoRow
<1>3. StopCuts = {} /\ Pending = 0 /\ stops = 0
  BY <1>2 DEF Init, StopCuts, Pending
<1>4. CutsPaid
  BY <1>3, FS_EmptySet DEF CutsPaid
<1>5. EventsInv
  BY <1>2 DEF Init, EventsInv
<1> QED
  BY <1>1, <1>4, <1>5 DEF BudgetInv

LEMMA StepBudget == BudgetInv /\ [Next]_vars => BudgetInv'
<1> SUFFICES ASSUME BudgetInv, [Next]_vars PROVE BudgetInv'
  OBVIOUS
<1>0. PromptInv /\ RetryInv /\ BatchInv /\ CutsPaid /\ EventsInv
  BY DEF BudgetInv, PromptInv
<1>1. PromptInv'
  BY <1>0, StepPrompt
<1>2. CASE Next
  BY <1>0, <1>1, <1>2, CutsStep, EventsStep DEF BudgetInv
<1>3. CASE UNCHANGED vars
  <2>1. UNCHANGED <<op, cps, started, pc, seen, stop, stops>>
    BY <1>3 DEF vars, durable, provider, kernel, operator, past
  <2>2. CutsPaid' /\ EventsInv'
    BY <1>0, <2>1, CutsFrame, EventsFrame
  <2> QED
    BY <1>1, <2>2 DEF BudgetInv
<1> QED
  BY <1>2, <1>3

LEMMA ElementTyped == ASSUME cps \in Seq(Events) PROVE \A c \in DOMAIN cps : cps[c] \in Events
OBVIOUS

(* There are at most as many starts as stops, and the first one: an event  *)
(* is started once, and its interruption tells it from the others.         *)
LEMMA StartsBounded ==
    ASSUME BudgetInv
    PROVE  Cardinality(started) \in Nat /\ Cardinality(started) <= stops + 1
<1> DEFINE f == [c \in started |-> cps[c].cut]
<1>0. /\ RetryInv /\ CutsPaid /\ EventsInv /\ IsFiniteSet(started)
      /\ cps \in Seq(Events) /\ stops \in Nat
  BY DEF BudgetInv, PromptInv, RetryInv, TypeOK, Events
<1>1. Cardinality(started) \in Nat /\ Cardinality(StopCuts) \in Nat
  BY <1>0, FS_CardinalityType DEF CutsPaid
<1>2. \A c \in started : c \in DOMAIN cps /\ cps[c] \in Events /\ cps[c].kind # "retry"
  <2>1. \A c \in DOMAIN cps : cps[c] \in Events
    BY <1>0, ElementTyped
  <2> QED
    BY <1>0, <2>1, Zenon DEF EventsInv, IsRetry
<1>3. \A c \in started : f[c] \in StopCuts \cup {0}
  <2> SUFFICES ASSUME NEW c \in started PROVE cps[c].cut \in StopCuts \cup {0}
    OBVIOUS
  <2>1. cps[c].kind \in {"first", "restart"} /\ cps[c].cut \in Nat /\ c \in DOMAIN cps
    BY <1>2 DEF Events
  <2>2. CASE cps[c].kind = "first"
    BY <1>0, <2>1, <2>2 DEF EventsInv
  <2>3. CASE cps[c].kind = "restart"
    BY <2>1, <2>3 DEF StopCuts
  <2> QED
    BY <2>1, <2>2, <2>3
<1>4. \A c, d \in started : f[c] = f[d] => c = d
  BY <1>0 DEF EventsInv
<1>5. f \in Injection(started, StopCuts \cup {0})
  <2>1. f \in [started -> StopCuts \cup {0}]
    BY <1>3
  <2> QED
    BY <1>4, <2>1 DEF Injection, IsInjective
<1>6. /\ IsFiniteSet(StopCuts \cup {0})
      /\ Cardinality(StopCuts \cup {0}) \in {Cardinality(StopCuts), Cardinality(StopCuts) + 1}
  BY <1>0, FS_AddElement DEF CutsPaid
<1> HIDE DEF f
<1>7. Cardinality(started) <= Cardinality(StopCuts \cup {0})
  BY <1>5, <1>6, FS_Injection
<1>8. Cardinality(StopCuts) <= stops
  <2>1. Pending \in {0, 1}
    BY DEF Pending
  <2> QED
    BY <1>0, <1>1, <2>1 DEF CutsPaid
<1> QED
  BY <1>0, <1>1, <1>6, <1>7, <1>8

(* One prompt for the request, one for every zf stop, and one in all for   *)
(* providers that die, however often they do and whatever the respawns     *)
(* come to.                                                                *)
THEOREM PromptBudget == Spec => []PromptsBounded
<1>1. BudgetInv => PromptsBounded
  <2> SUFFICES ASSUME BudgetInv, ~StopMetEvents PROVE prompts <= stops + 2
    BY DEF PromptsBounded
  <2>1. prompts \in Nat /\ op.retries \in Nat /\ stops \in Nat /\ op.retries <= 1
    BY DEF BudgetInv, PromptInv, RetryInv, RetryBound, TypeOK, Rows
  <2>2. prompts <= Cardinality(started) + op.retries
    <3>1. Credit /\ Cardinality(started) \in Nat
      BY StartsBounded DEF BudgetInv, PromptInv
    <3> QED
      BY <2>1, <3>1 DEF Credit
  <2> QED
    BY <2>1, <2>2, StartsBounded
<1>2. Spec => []BudgetInv
  BY InitBudget, StepBudget, PTL DEF Spec
<1> QED
  BY <1>1, <1>2, PTL
=============================================================================
