----------------------- MODULE AgentCheckpointProofs -----------------------
(***************************************************************************)
(* Proofs about AgentCheckpoint, for any number of deaths, stops and       *)
(* mishaps and any outcome of a respawn.                                   *)
(***************************************************************************)
EXTENDS AgentCheckpoint, TLAPS

(* RetryBound is not inductive: that a second retry_started event is never *)
(* written is known from the first one being found in the log.             *)
RetryInv ==
    /\ TypeOK
    /\ RetryBound
    /\ op.retries = 1 => "retry_started" \in said

Events == [kind : {"first", "restart", "retry"}, cut : Nat]

-----------------------------------------------------------------------------
(* The reducer                                                             *)

(* Every event of the service leaves a row a row, and only the retry       *)
(* counts.                                                                 *)
LEMMA ReducerRows ==
    ASSUME NEW row \in Rows, NEW c \in Nat, NEW how \in Terminal, NEW why \in Reasons
    PROVE  /\ Started(row, c) \in Rows /\ Started(row, c).retries = row.retries
           /\ Interrupted(row, why, c) \in Rows
           /\ Interrupted(row, why, c).retries = row.retries
           /\ Ended(row, how) \in Rows /\ Ended(row, how).retries = row.retries
           /\ Redriven(row) \in Rows /\ Redriven(row).retries = row.retries
           /\ RetryStarted(row, c) \in Rows
           /\ RetryStarted(row, c).retries \in {row.retries, row.retries + 1}
<1> USE DEF Rows, Statuses, Terminal, Reasons
<1>1. Started(row, c) \in Rows /\ Started(row, c).retries = row.retries
  BY DEF Started
<1>2. Interrupted(row, why, c) \in Rows /\ Interrupted(row, why, c).retries = row.retries
  BY DEF Interrupted
<1>3. Ended(row, how) \in Rows /\ Ended(row, how).retries = row.retries
  BY DEF Ended
<1>4. Redriven(row) \in Rows /\ Redriven(row).retries = row.retries
  BY DEF Redriven
<1>5. RetryStarted(row, c) \in Rows
  <2>1. [row EXCEPT !.status = "running"] \in Rows
    OBVIOUS
  <2>2. row.retries + 1 \in Nat
    OBVIOUS
  <2>3. \A r \in Rows, n \in Nat :
          [r EXCEPT !.reason = "none", !.retries = n, !.dispatch = c] \in Rows
    OBVIOUS
  <2>4. [row EXCEPT !.status = "running", !.reason = "none",
                    !.retries = row.retries + 1, !.dispatch = c] \in Rows
    BY <2>1, <2>2, <2>3
  <2> QED
    BY <2>4 DEF RetryStarted
<1>6. RetryStarted(row, c).retries \in {row.retries, row.retries + 1}
  BY DEF RetryStarted
<1> QED
  BY <1>1, <1>2, <1>3, <1>4, <1>5, <1>6

(* No event but the retry's takes a row out of its end.                    *)
LEMMA ReducerEnds ==
    ASSUME NEW row \in Rows, NEW c \in Nat, NEW how \in Terminal, NEW why \in Reasons,
           row.status \in Terminal
    PROVE  /\ Started(row, c).status \in Terminal
           /\ Interrupted(row, why, c).status \in Terminal
           /\ Ended(row, how).status \in Terminal
           /\ Redriven(row).status \in Terminal
           /\ \/ RetryStarted(row, c).status \in Terminal
              \/ /\ row.status = "failed"
                 /\ RetryStarted(row, c).retries = row.retries + 1
BY DEF Rows, Statuses, Terminal, Reasons, Started, Interrupted, Ended, Redriven, RetryStarted

-----------------------------------------------------------------------------
(* The inductive step                                                      *)

LEMMA NoRowTyped == NoRow \in Rows
BY DEF NoRow, Rows, Statuses, Reasons

LEMMA InitRetry == Init => RetryInv
<1>1. NoRow \in Rows /\ NoRow.retries = 0
  BY DEF NoRow, Rows, Statuses, Reasons
<1>2. Init => TypeOK
  <2>1. Init => cps \in Seq([kind : {"first", "restart", "retry"}, cut : Nat])
    BY DEF Init
  <2>2. Init => op \in Rows /\ seen \in Rows
    BY <1>1 DEF Init
  <2>3. Init => stopSaw \in BOOLEAN /\ stray \in BOOLEAN /\ late \in BOOLEAN
    BY Zenon DEF Init
  <2>4. Init => /\ started \subseteq Nat /\ causes \subseteq Nat /\ redriven \subseteq Nat
                /\ admitted \subseteq Nat /\ torn \subseteq {"stop", "crash"}
                /\ said \subseteq {"retry_started", "settled", "failed", "blocked"}
    BY DEF Init
  <2> QED
    BY <2>1, <2>2, <2>3, <2>4 DEF Init, TypeOK
<1>3. Init => RetryBound /\ (op.retries = 1 => "retry_started" \in said)
  BY <1>1 DEF Init, RetryBound
<1> QED
  BY <1>2, <1>3 DEF RetryInv

(* Steps of the kernel that change no row and ask for no retry.            *)
LEMMA QuietStep ==
    ASSUME RetryInv,
           \/ Begin \/ Prepare \/ Drop \/ Send \/ RequestRespawn \/ Acknowledge
           \/ ApplyRespawn \/ RespawnResult \/ Probe
           \/ ProviderDies \/ SubmitCheck \/ Admit \/ AdmitAgain
           \/ Stop \/ StopRead \/ StopPanes \/ StopWatcher
           \/ KernelDies \/ SubmitDies \/ Start
    PROVE  RetryInv'
<1> USE DEF RetryInv, TypeOK, RetryBound, IsRetry, durable, provider, kernel, operator, past
<1>1. CASE Begin
  BY <1>1 DEF Begin
<1>2. CASE Prepare
  BY <1>2 DEF Prepare, AfterEvent
<1>3. CASE Send
  BY <1>3 DEF Send, AfterEvent
<1>4. CASE RequestRespawn
  BY <1>4 DEF RequestRespawn, AfterEvent
<1>5. CASE Acknowledge
  BY <1>5 DEF Acknowledge
<1>6. CASE ApplyRespawn
  <2>1. mishaps' \in Nat
    <3>1. mishaps' = mishaps \/ mishaps' = mishaps + 1
      BY <1>6, Zenon DEF ApplyRespawn, LeaveSubmit
    <3> QED
      BY <3>1
  <2>2. stray' \in BOOLEAN
    BY <1>6, Zenon DEF ApplyRespawn, LeaveSubmit
  <2> QED
    <3>1. respawn' \in {respawn, "failed"} /\ pane' \in {pane, "dead", "idle"}
          /\ submit' \in {submit, "none"}
      BY <1>6 DEF ApplyRespawn, LeaveSubmit
    <3>2. todo' \in {todo, todo + 1} /\ pc' \in {"event", "sweep", "requeue"}
      BY <1>6 DEF ApplyRespawn, AfterActions
    <3>3. /\ UNCHANGED <<op, started, said, causes, cuts, redriven, cps, acked, admitted>>
          /\ UNCHANGED <<prompts, deaths, submitFor, mode, last, seen>>
          /\ UNCHANGED <<stop, stopSaw, torn, stops, late, dropped>>
      BY <1>6 DEF ApplyRespawn
    <3> QED
      BY <2>1, <2>2, <3>1, <3>2, <3>3
<1>7. CASE RespawnResult
  BY <1>7 DEF RespawnResult, AfterActions
<1>8. CASE Probe
  BY <1>8 DEF Probe
<1>9. CASE ProviderDies
  BY <1>9 DEF ProviderDies
<1>10. CASE SubmitCheck
  BY <1>10 DEF SubmitCheck, Rows
<1>11. CASE Admit
  BY <1>11 DEF Admit
<1>12. CASE AdmitAgain
  BY <1>12 DEF AdmitAgain, SubmitReturns
<1>13. CASE Stop
  BY <1>13 DEF Stop
<1>14. CASE StopRead
  BY <1>14 DEF StopRead
<1>15. CASE StopPanes
  <2>1. mishaps' \in Nat
    BY <1>15 DEF StopPanes, LeaveSubmit
  <2>2. stray' \in BOOLEAN
    BY <1>15, Zenon DEF StopPanes, LeaveSubmit
  <2> QED
    BY <1>15, <2>1, <2>2 DEF StopPanes, LeaveSubmit
<1>16. CASE StopWatcher
  BY <1>16, NoRowTyped DEF StopWatcher
<1>17. CASE KernelDies
  BY <1>17, NoRowTyped DEF KernelDies
<1>18. CASE SubmitDies
  BY <1>18 DEF SubmitDies
<1>19. CASE Start
  <2>1. mishaps' \in Nat
    BY <1>19 DEF Start, LeaveSubmit
  <2>2. stray' \in BOOLEAN
    BY <1>19, Zenon DEF Start, LeaveSubmit
  <2> QED
    BY <1>19, <2>1, <2>2 DEF Start, LeaveSubmit
<1>20. CASE Drop
  BY <1>20 DEF Drop, AfterEvent
<1> QED
  BY <1>1, <1>2, <1>3, <1>4, <1>5, <1>6, <1>7, <1>8, <1>9, <1>10, <1>11, <1>12, <1>13, <1>14, <1>15, <1>16, <1>17, <1>18, <1>19,
     <1>20

(* What the service appends leaves a row that a retry has not touched.     *)
LEMMA EndStep ==
    ASSUME RetryInv, NEW how \in Terminal, End(how)
    PROVE  op' \in Rows /\ op'.retries = op.retries /\ said \subseteq said'
           /\ said' \subseteq {"retry_started", "settled", "failed", "blocked"}
<1>1. Ended(op, how) \in Rows /\ Ended(op, how).retries = op.retries
  <2>1. "none" \in Reasons
    BY DEF Reasons
  <2> QED
    BY <2>1, ReducerRows DEF RetryInv, TypeOK
<1> QED
  BY <1>1 DEF End, RetryInv, TypeOK, Terminal

LEMMA InterruptStep ==
    ASSUME RetryInv, NEW why \in Reasons, Interrupt(why)
    PROVE  op' \in Rows /\ op'.retries = op.retries /\ cuts' \in Nat
<1>1. cuts + 1 \in Nat
  BY DEF RetryInv, TypeOK
<1>2. Interrupted(op, why, cuts + 1) \in Rows
      /\ Interrupted(op, why, cuts + 1).retries = op.retries
  <2>1. "failed" \in Terminal
    BY DEF Terminal
  <2> QED
    BY <1>1, <2>1, ReducerRows DEF RetryInv, TypeOK
<1> QED
  BY <1>1, <1>2 DEF Interrupt

(* One more event keeps the log's checkpoint events, and the retry alone   *)
(* of its kind if it is the first.                                         *)
LEMMA AppendEvent ==
    ASSUME NEW s \in Seq(Events), NEW e \in Events,
           \A c, d \in DOMAIN s : s[c].kind = "retry" /\ s[d].kind = "retry" => c = d,
           e.kind = "retry" => \A c \in DOMAIN s : s[c].kind # "retry"
    PROVE  /\ Append(s, e) \in Seq(Events)
           /\ \A c, d \in DOMAIN Append(s, e) :
                 Append(s, e)[c].kind = "retry" /\ Append(s, e)[d].kind = "retry" => c = d
<1> DEFINE t == Append(s, e)
<1>1. t \in Seq(Events) /\ Len(s) \in Nat /\ Len(t) = Len(s) + 1
      /\ DOMAIN s = 1..Len(s) /\ DOMAIN t = 1..Len(t)
  OBVIOUS
<1>2. \A c \in DOMAIN t : (c \in DOMAIN s /\ t[c] = s[c]) \/ (c = Len(s) + 1 /\ t[c] = e)
  BY <1>1
<1> HIDE DEF t
<1>3. \A c, d \in DOMAIN t : t[c].kind = "retry" /\ t[d].kind = "retry" => c = d
  BY <1>2
<1> QED
  BY <1>1, <1>3 DEF t

(* A step that moves the row, the readings of the sweep or the loop, and   *)
(* neither retries nor asks for it.                                        *)
LEMMA RowFrame ==
    ASSUME RetryInv, op' \in Rows, op'.retries = op.retries, said \subseteq said',
           said' \subseteq {"retry_started", "settled", "failed", "blocked"},
           seen' \in Rows, cuts' \in Nat, redriven' \subseteq Nat,
           causes' \subseteq Nat, todo' \in Nat, stray' \in BOOLEAN, late' \in BOOLEAN,
           pc' \in {pc, "probe", "redrive", "rearm", "idle", "probe_request", "request",
                   "actions", "event", "first"},
           UNCHANGED <<started, cps, acked, respawn, admitted, mode, last>>,
           pane' \in {pane, "idle"}, submit' \in {submit, "none"}, stop' \in {stop, "cut"},
           UNCHANGED <<prompts, submitFor, deaths, stopSaw, torn, stops, mishaps, dropped>>
    PROVE  RetryInv'
<1>1. op'.retries <= 1 /\ (op'.retries = 1 => "retry_started" \in said')
  BY DEF RetryInv, RetryBound
<1>2. \A c, d \in DOMAIN cps' : IsRetry(c)' /\ IsRetry(d)' => c = d
  BY DEF RetryInv, RetryBound, IsRetry
<1>3. TypeOK'
  BY DEF RetryInv, TypeOK
<1> QED
  BY <1>1, <1>2, <1>3 DEF RetryInv, RetryBound

(* Steps that change the row or append a checkpoint event.                 *)
LEMMA RowStep ==
    ASSUME RetryInv,
           \/ EnsureOperation \/ RequestCheckpoint \/ MarkStarted \/ MarkRetryStarted
           \/ PaneDead \/ SendFailed \/ Requeue \/ Sweep \/ AdmitRedrive \/ Rearm \/ Lost
           \/ ResultInvalid \/ Settle \/ StrayEnds \/ StopInterrupt
    PROVE  RetryInv'
<1>0. "failed" \in Terminal /\ "settled" \in Terminal /\ "blocked" \in Terminal
      /\ "stop" \in Reasons /\ "send_dead" \in Reasons /\ "probe_dead" \in Reasons
  BY DEF Terminal, Reasons
<1>16. /\ op \in Rows /\ seen \in Rows /\ cuts \in Nat /\ todo \in Nat
       /\ redriven \subseteq Nat /\ causes \subseteq Nat
       /\ stray \in BOOLEAN /\ late \in BOOLEAN
       /\ said \subseteq {"retry_started", "settled", "failed", "blocked"}
  BY DEF RetryInv, TypeOK
<1> USE DEF RetryInv, TypeOK, RetryBound, IsRetry, durable, provider, kernel, operator, past
<1>1. CASE EnsureOperation
  <2>1. op' \in Rows /\ op'.retries = op.retries
    BY <1>1 DEF EnsureOperation, Rows, Statuses
  <2>2. /\ pc' = "first"
        /\ UNCHANGED <<started, said, causes, cuts, redriven, cps, acked, respawn, admitted>>
        /\ UNCHANGED <<mode, todo, last, seen, provider, operator>>
    BY <1>1 DEF EnsureOperation
  <2> HIDE DEF RetryInv, TypeOK
  <2> QED
    BY <1>16, <2>1, <2>2, RowFrame
<1>2. CASE RequestCheckpoint
  <2> DEFINE e == [kind |-> "first", cut |-> 0]
  <2>1. e \in Events /\ e.kind # "retry" /\ cps \in Seq(Events)
    BY DEF Events
  <2>2. cps' \in Seq(Events)
        /\ \A c, d \in DOMAIN cps' : cps'[c].kind = "retry" /\ cps'[d].kind = "retry" => c = d
    <3>1. cps' = Append(cps, e)
      BY <1>2 DEF RequestCheckpoint
    <3> HIDE DEF e
    <3> QED
      BY <2>1, <3>1, AppendEvent
  <2>3. /\ pc' = "idle"
        /\ UNCHANGED <<op, started, said, causes, cuts, redriven, acked, respawn, admitted>>
        /\ UNCHANGED <<mode, todo, last, seen, provider, operator>>
    BY <1>2 DEF RequestCheckpoint
  <2> HIDE DEF e
  <2> QED
    BY <2>2, <2>3 DEF Events
<1>3. CASE MarkStarted
  <2>1. op' \in Rows /\ op'.retries = op.retries
    BY <1>3, <1>0, ReducerRows DEF MarkStarted
  <2> QED
    BY <1>3, <2>1 DEF MarkStarted
<1>4. CASE MarkRetryStarted
  <2>1. op' \in Rows
    <3>1. RetryStarted(op, todo) \in Rows
      BY <1>16, <1>0, ReducerRows
    <3>2. op' \in {op, RetryStarted(op, todo)}
      BY <1>4, Zenon DEF MarkRetryStarted
    <3> HIDE DEF RetryInv, TypeOK
    <3> QED
      BY <1>16, <3>1, <3>2
  <2>2. /\ op'.retries <= 1
        /\ op'.retries = 1 => "retry_started" \in said'
    <3>1. RetryStarted(op, todo).retries \in {op.retries, op.retries + 1}
      BY <1>0, ReducerRows
    <3> QED
      BY <1>4, <3>1 DEF MarkRetryStarted, Rows
  <2> QED
    <3>1. said' \subseteq {"retry_started", "settled", "failed", "blocked"}
      BY <1>4 DEF MarkRetryStarted
    <3>2. pc' \in {"send", "down", "idle"} /\ torn' \subseteq {"stop", "crash"}
      BY <1>4 DEF MarkRetryStarted
    <3> QED
      BY <1>4, <2>1, <2>2, <3>1, <3>2 DEF MarkRetryStarted
<1>5. CASE PaneDead
  <2>1. op' \in Rows /\ op'.retries = op.retries /\ cuts' \in Nat /\ said \subseteq said'
        /\ said' \subseteq {"retry_started", "settled", "failed", "blocked"}
    BY <1>5, <1>0, EndStep, InterruptStep DEF PaneDead
  <2> QED
    <3>1. causes' \subseteq Nat
      <4>1. causes' = causes \/ causes' = causes \cup {todo}
        BY <1>5, Zenon DEF PaneDead
      <4> QED
        BY <4>1
    <3>2. todo' \in Nat /\ pc' \in {"request", "actions", "event"}
      <4>1. AfterEvent \/ (pc' = "request" /\ todo' = todo)
        BY <1>5 DEF PaneDead
      <4> HIDE DEF RetryInv, TypeOK
      <4> QED
        BY <1>16, <4>1 DEF AfterEvent
    <3> QED
      <4>1. /\ UNCHANGED <<started, redriven, cps, acked, respawn, admitted, mode, last, seen>>
            /\ UNCHANGED <<provider, operator>>
        BY <1>5 DEF PaneDead
      <4> HIDE DEF RetryInv, TypeOK
      <4> QED
        BY <1>16, <2>1, <3>1, <3>2, <4>1, RowFrame
<1>6. CASE SendFailed
  <2>1. op' \in Rows /\ op'.retries = op.retries /\ said \subseteq said'
        /\ said' \subseteq {"retry_started", "settled", "failed", "blocked"}
    BY <1>6, <1>0, EndStep DEF SendFailed
  <2> QED
    <3>1. todo' \in Nat /\ pc' \in {"actions", "event"}
      BY <1>6 DEF SendFailed, AfterEvent
    <3>2. /\ UNCHANGED <<started, causes, cuts, redriven, cps, acked, respawn, admitted>>
          /\ UNCHANGED <<mode, last, seen, provider, operator>>
      BY <1>6 DEF SendFailed
    <3> HIDE DEF RetryInv, TypeOK
    <3> QED
      BY <1>16, <2>1, <3>1, <3>2, RowFrame
<1>7. CASE Requeue
  <2> DEFINE e == [kind |-> "retry", cut |-> 0]
  <2>1. e \in Events /\ e.kind = "retry" /\ cps \in Seq(Events)
    BY DEF Events
  <2>2. cps' \in Seq(Events)
        /\ \A c, d \in DOMAIN cps' : cps'[c].kind = "retry" /\ cps'[d].kind = "retry" => c = d
    <3> HIDE DEF e
    <3>1. CASE cps' = cps
      BY <2>1, <3>1
    <3>2. CASE cps' = Append(cps, e) /\ \A c \in DOMAIN cps : cps[c].kind # "retry"
      BY <2>1, <3>2, AppendEvent
    <3> QED
      BY <1>7, <3>1, <3>2 DEF Requeue, e
  <2>3. /\ pc' = "result"
        /\ UNCHANGED <<op, started, said, causes, cuts, redriven, acked, respawn, admitted>>
        /\ UNCHANGED <<mode, todo, last, seen, provider, operator>>
    BY <1>7 DEF Requeue
  <2> HIDE DEF e
  <2> QED
    BY <2>2, <2>3 DEF Events
<1>8. CASE Sweep
  <2>1. op' \in Rows /\ op'.retries = op.retries /\ said \subseteq said'
        /\ said' \subseteq {"retry_started", "settled", "failed", "blocked"}
    BY <1>8, <1>0, EndStep DEF Sweep
  <2> QED
    <3>1. seen' \in Rows /\ pc' \in {"probe", "redrive"}
      BY <1>8 DEF Sweep
    <3>2. /\ UNCHANGED <<started, causes, cps, acked, respawn, admitted, mode, todo, last>>
          /\ UNCHANGED <<pane, prompts, submit, submitFor, deaths, stray, operator>>
          /\ UNCHANGED <<cuts, redriven>>
      BY <1>8 DEF Sweep
    <3> HIDE DEF RetryInv, TypeOK
    <3> QED
      BY <1>16, <2>1, <3>1, <3>2, RowFrame
<1>9. CASE AdmitRedrive
  <2>1. op' \in Rows /\ op'.retries = op.retries
    <3>1. op' = op \/ op' = Redriven(op)
      BY <1>9 DEF AdmitRedrive
    <3> QED
      BY <1>0, <3>1, ReducerRows
  <2>2. seen.cut \in Nat
    BY DEF Rows
  <2> QED
    <3>1. redriven' \subseteq Nat
      BY <1>9, <2>2 DEF AdmitRedrive
    <3> QED
      <4>1. seen' \in Rows /\ pc' \in {"rearm", "idle"}
        BY <1>9, NoRowTyped DEF AdmitRedrive
      <4>2. /\ UNCHANGED <<started, causes, cps, acked, respawn, admitted, mode, todo, last>>
            /\ UNCHANGED <<pane, prompts, submit, submitFor, deaths, stray, operator>>
            /\ UNCHANGED <<cuts, said>>
        BY <1>9 DEF AdmitRedrive
      <4> HIDE DEF RetryInv, TypeOK
      <4> QED
        BY <1>16, <2>1, <3>1, <4>1, <4>2, RowFrame
<1>10. CASE Rearm
  <2> DEFINE e == [kind |-> "restart", cut |-> seen.cut]
  <2>1. e \in Events /\ e.kind # "retry" /\ cps \in Seq(Events)
    BY DEF Events, Rows
  <2>2. cps' \in Seq(Events)
        /\ \A c, d \in DOMAIN cps' : cps'[c].kind = "retry" /\ cps'[d].kind = "retry" => c = d
    <3> HIDE DEF e
    <3>1. CASE cps' = cps
      BY <2>1, <3>1
    <3>2. CASE cps' = Append(cps, e)
      BY <2>1, <3>2, AppendEvent
    <3> QED
      BY <1>10, <3>1, <3>2 DEF Rearm, e
  <2>3. /\ pc' = "probe"
        /\ UNCHANGED <<op, started, said, causes, cuts, redriven, acked, respawn, admitted>>
        /\ seen' \in Rows /\ UNCHANGED <<mode, todo, last, provider, operator>>
    BY <1>10, NoRowTyped DEF Rearm
  <2> HIDE DEF e
  <2> QED
    <3>1. TypeOK'
      <4>1. cps' \in Seq([kind : {"first", "restart", "retry"}, cut : Nat])
        BY <2>2, Zenon DEF Events
      <4>2. TypeOK
        BY DEF RetryInv
      <4> HIDE DEF RetryInv, RetryBound, IsRetry
      <4> QED
        BY <2>3, <4>1, <4>2
    <3>2. RetryBound' /\ (op'.retries = 1 => "retry_started" \in said')
      BY <2>2, <2>3
    <3> QED
      BY <3>1, <3>2
<1>11. CASE Lost
  <2>1. op' \in Rows /\ op'.retries = op.retries /\ cuts' \in Nat /\ said \subseteq said'
        /\ said' \subseteq {"retry_started", "settled", "failed", "blocked"}
    BY <1>11, <1>0, EndStep, InterruptStep DEF Lost
  <2> QED
    <3>1. seen' \in Rows /\ pc' \in {"idle", "probe_request"}
      BY <1>11, NoRowTyped DEF Lost
    <3>2. /\ UNCHANGED <<started, causes, cps, acked, respawn, admitted, mode, todo, last>>
          /\ UNCHANGED <<pane, prompts, submit, submitFor, deaths, stray, operator>>
          /\ UNCHANGED redriven
      BY <1>11 DEF Lost
    <3> HIDE DEF RetryInv, TypeOK
    <3> QED
      BY <1>16, <2>1, <3>1, <3>2, RowFrame
<1>12. CASE ResultInvalid
  <2>1. op' \in Rows /\ op'.retries = op.retries /\ said \subseteq said'
        /\ said' \subseteq {"retry_started", "settled", "failed", "blocked"}
    BY <1>12, <1>0, EndStep DEF ResultInvalid
  <2> QED
    <3>1. pane' \in {pane, "idle"} /\ submit' = "none"
      BY <1>12 DEF ResultInvalid, SubmitReturns
    <3>2. /\ UNCHANGED <<started, causes, cps, acked, respawn, admitted, mode, todo, last>>
          /\ UNCHANGED <<prompts, submitFor, deaths, stray, pc, seen, cuts, redriven, operator>>
      BY <1>12 DEF ResultInvalid, SubmitReturns
    <3> HIDE DEF RetryInv, TypeOK
    <3> QED
      BY <1>16, <2>1, <3>1, <3>2, RowFrame
<1>13. CASE Settle
  <2>1. op' \in Rows /\ op'.retries = op.retries /\ said \subseteq said'
        /\ said' \subseteq {"retry_started", "settled", "failed", "blocked"}
    BY <1>13, <1>0, EndStep DEF Settle
  <2> QED
    <3>1. pane' \in {pane, "idle"} /\ submit' = "none"
      BY <1>13 DEF Settle, SubmitReturns
    <3>2. /\ UNCHANGED <<started, causes, cps, acked, respawn, admitted, mode, todo, last>>
          /\ UNCHANGED <<prompts, submitFor, deaths, stray, pc, seen, cuts, redriven, operator>>
      BY <1>13 DEF Settle, SubmitReturns
    <3> HIDE DEF RetryInv, TypeOK
    <3> QED
      BY <1>16, <2>1, <3>1, <3>2, RowFrame
<1>14. CASE StopInterrupt
  <2>1. op' \in Rows /\ op'.retries = op.retries /\ cuts' \in Nat
    BY <1>14, <1>0, InterruptStep DEF StopInterrupt
  <2> QED
    <3>1. /\ UNCHANGED <<started, causes, cps, acked, respawn, admitted, mode, todo, last>>
          /\ UNCHANGED <<pane, submit, prompts, submitFor, deaths, stray, pc, seen, said, redriven>>
          /\ stop' = "cut" /\ UNCHANGED <<stopSaw, torn, stops, mishaps, late, dropped>>
      BY <1>14 DEF StopInterrupt
    <3> HIDE DEF RetryInv, TypeOK
    <3> QED
      BY <1>16, <2>1, <3>1, RowFrame
<1>15. CASE StrayEnds
  <2>1. op' \in Rows /\ op'.retries = op.retries /\ said \subseteq said'
        /\ said' \subseteq {"retry_started", "settled", "failed", "blocked"}
    BY <1>15, <1>0, EndStep DEF StrayEnds
  <2>2. late' \in BOOLEAN /\ stray' \in BOOLEAN
    BY <1>15, Zenon DEF StrayEnds
  <2> QED
    <3>1. /\ UNCHANGED <<started, causes, cps, acked, respawn, admitted, mode, todo, last>>
          /\ UNCHANGED <<pane, prompts, submit, submitFor, deaths, pc, seen, cuts, redriven>>
          /\ UNCHANGED <<stop, stopSaw, torn, stops, mishaps, dropped>>
      BY <1>15 DEF StrayEnds
    <3> HIDE DEF RetryInv, TypeOK
    <3> QED
      BY <1>16, <2>1, <2>2, <3>1, RowFrame
<1> QED
  BY <1>1, <1>2, <1>3, <1>4, <1>5, <1>6, <1>7, <1>8, <1>9, <1>10, <1>11, <1>12, <1>13, <1>14, <1>15

-----------------------------------------------------------------------------
LEMMA StepRetry == RetryInv /\ [Next]_vars => RetryInv'
<1> SUFFICES ASSUME RetryInv, [Next]_vars
             PROVE  RetryInv'
  OBVIOUS
<1>1. CASE UNCHANGED vars
  <2>1. /\ UNCHANGED <<op, said, seen, cuts, redriven, pc, stray, late, pane, submit, stop>>
        /\ UNCHANGED <<started, causes, cps, acked, respawn, admitted, mode, todo, last>>
        /\ UNCHANGED <<prompts, submitFor, deaths, stopSaw, torn, stops, mishaps, dropped>>
    BY <1>1 DEF vars, durable, provider, kernel, operator, past
  <2>2. /\ op \in Rows /\ seen \in Rows /\ cuts \in Nat /\ redriven \subseteq Nat
        /\ stray \in BOOLEAN /\ late \in BOOLEAN
        /\ said \subseteq {"retry_started", "settled", "failed", "blocked"}
        /\ causes \subseteq Nat /\ todo \in Nat
    BY DEF RetryInv, TypeOK
  <2> QED
    BY <2>1, <2>2, RowFrame
<1>2. CASE Next
  BY <1>2, QuietStep, RowStep DEF Next, Loop, Submit, StopStep
<1> QED
  BY <1>1, <1>2

LEMMA AlwaysRetry == Spec => []RetryInv
BY InitRetry, StepRetry, PTL DEF Spec

(* Every variable keeps its type, however often anything dies.             *)
THEOREM CheckpointTypes == Spec => []TypeOK
<1>1. RetryInv => TypeOK
  BY DEF RetryInv
<1> QED
  BY AlwaysRetry, <1>1, PTL

(* A checkpoint is retried at most once, and asked to be retried at most   *)
(* once, however often requeue and the dispatch run again.                 *)
THEOREM OneRetry == Spec => []RetryBound
<1>1. RetryInv => RetryBound
  BY DEF RetryInv
<1> QED
  BY AlwaysRetry, <1>1, PTL

(* The step of the action property TerminalStays.                          *)
EndKept ==
    op.status \in Terminal =>
      \/ op'.status \in Terminal
      \/ op.status = "failed" /\ op.retries = 0 /\ op'.retries = 1

(* Only the events of the service change a row, and the reducer guards the *)
(* end against each but the retry's, which the log search admits once.     *)
LEMMA StepEnds == RetryInv /\ [Next]_vars => EndKept
<1> SUFFICES ASSUME RetryInv, [Next]_vars, op.status \in Terminal
             PROVE  \/ op'.status \in Terminal
                    \/ op.status = "failed" /\ op.retries = 0 /\ op'.retries = 1
  BY DEF EndKept
<1>1. op \in Rows /\ todo \in Nat /\ cuts + 1 \in Nat
  BY DEF RetryInv, TypeOK
<1>2. "failed" \in Terminal /\ "settled" \in Terminal /\ "blocked" \in Terminal
      /\ "stop" \in Reasons /\ "send_dead" \in Reasons /\ "probe_dead" \in Reasons
  BY DEF Terminal, Reasons
<1>3. ASSUME NEW how \in Terminal, End(how)
      PROVE  op'.status \in Terminal
  BY <1>1, <1>2, <1>3, ReducerEnds DEF End
<1>4. ASSUME NEW why \in Reasons, Interrupt(why)
      PROVE  op'.status \in Terminal
  BY <1>1, <1>2, <1>4, ReducerEnds DEF Interrupt
<1>5. CASE op' = op
  BY <1>5
<1>6. CASE EnsureOperation
  BY <1>6 DEF EnsureOperation, Terminal
<1>7. CASE MarkStarted
  BY <1>1, <1>2, <1>7, ReducerEnds DEF MarkStarted
<1>8. CASE MarkRetryStarted
  <2>1. CASE op' = op
    BY <2>1
  <2>2. CASE op' = RetryStarted(op, todo) /\ "retry_started" \notin said
    <3>1. op.retries = 0
      BY <2>2, <1>1 DEF RetryInv, RetryBound, Rows
    <3>2. \/ RetryStarted(op, todo).status \in Terminal
          \/ op.status = "failed" /\ RetryStarted(op, todo).retries = op.retries + 1
      BY <1>1, <1>2, ReducerEnds
    <3> QED
      BY <2>2, <3>1, <3>2
  <2> QED
    BY <1>8, <2>1, <2>2 DEF MarkRetryStarted
<1>9. CASE \/ PaneDead \/ SendFailed \/ Sweep \/ Lost \/ ResultInvalid \/ Settle \/ StrayEnds
           \/ StopInterrupt
  BY <1>9, <1>2, <1>3, <1>4
     DEF PaneDead, SendFailed, Sweep, Lost, ResultInvalid, Settle, StrayEnds,
         StopInterrupt
<1>10. CASE AdmitRedrive
  BY <1>1, <1>2, <1>10, ReducerEnds DEF AdmitRedrive
<1> QED
  <2>1. CASE UNCHANGED vars
    BY <2>1, <1>5 DEF vars, durable
  <2>2. CASE RequestCheckpoint \/ Requeue \/ Rearm \/ RequestRespawn \/ Acknowledge
             \/ ApplyRespawn \/ RespawnResult \/ Admit
    BY <2>2, <1>5 DEF RequestCheckpoint, Requeue, Rearm, RequestRespawn, Acknowledge,
                      ApplyRespawn, RespawnResult, Admit
  <2>3. CASE \/ Begin \/ Prepare \/ Drop \/ Send \/ Probe \/ ProviderDies \/ SubmitCheck \/ AdmitAgain
             \/ Stop \/ StopRead \/ StopPanes \/ StopWatcher \/ KernelDies \/ SubmitDies \/ Start
    BY <2>3, <1>5 DEF Begin, Prepare, Drop, Send, Probe, ProviderDies, SubmitCheck, AdmitAgain,
                      Stop, StopRead, StopPanes, StopWatcher, KernelDies, SubmitDies, Start,
                      durable
  <2> QED
    BY <1>6, <1>7, <1>8, <1>9, <1>10, <2>1, <2>2, <2>3 DEF Next, Loop, Submit, StopStep

(* An ended checkpoint stays ended; only its one retry may take up a       *)
(* failed one.                                                             *)
THEOREM EndIsFinal == Spec => TerminalStays
<1>1. RetryInv /\ [Next]_vars => [EndKept]_vars
  BY StepEnds
<1> QED
  BY AlwaysRetry, <1>1, PTL DEF Spec, TerminalStays, EndKept
-----------------------------------------------------------------------------
(* What the proofs about prompts build on                                 *)

Handling == {"event", "start", "retry", "send", "pane_dead", "send_failed", "request", "ack"}

(* The kernel is between the begin of a batch and its acknowledgement.     *)
InBatch == pc \in Handling \/ (mode = "poll" /\ pc \in {"actions", "requeue", "result"})

(* The batch lies behind the cursor and inside the log.                    *)
BatchInv ==
    /\ acked <= Len(cps)
    /\ InBatch => acked < todo /\ todo <= last + 1 /\ last <= Len(cps)
    /\ InBatch /\ pc \notin {"event", "ack"} => todo <= last
    /\ pc = "start" => ~IsRetry(todo)
    /\ pc = "retry" => IsRetry(todo)
    /\ pc = "lost" => seen.retries = op.retries

-----------------------------------------------------------------------------
(* The rows that the service leaves                                        *)

LEMMA EndRow ==
    ASSUME RetryInv, NEW how \in Terminal, End(how)
    PROVE  /\ op'.retries = op.retries
           /\ op' = op \/ op'.status \in Terminal
           /\ op'.reason \in {op.reason, "ended"}
           /\ "retry_started" \in said' => "retry_started" \in said
<1>1. op'.retries = op.retries
  BY EndStep
<1>2. op \in Rows /\ "retry_started" \notin Terminal
  BY DEF RetryInv, TypeOK, Terminal
<1>3. op' = op \/ op' = Ended(op, how)
  BY DEF End
<1>4. Ended(op, how).status = how /\ Ended(op, how).reason = "ended"
  BY <1>2 DEF Ended, Rows
<1> QED
  BY <1>1, <1>2, <1>3, <1>4 DEF End

LEMMA CutRow ==
    ASSUME RetryInv, NEW why \in Reasons, Interrupt(why)
    PROVE  /\ op'.retries = op.retries
           /\ (op' = op /\ op.status \in Terminal) \/ op'.status = "suspended"
           /\ op'.reason \in {op.reason, why}
<1>1. op'.retries = op.retries
  BY InterruptStep
<1>2. op \in Rows
  BY DEF RetryInv, TypeOK
<1> QED
  BY <1>1, <1>2 DEF Interrupt, Interrupted, Rows

LEMMA Ways ==
    /\ "failed" \in Terminal /\ "settled" \in Terminal /\ "blocked" \in Terminal
    /\ "stop" \in Reasons /\ "send_dead" \in Reasons /\ "probe_dead" \in Reasons
BY DEF Terminal, Reasons

-----------------------------------------------------------------------------
(* The batch                                                               *)

LEMMA Lengths ==
    ASSUME RetryInv
    PROVE  /\ acked \in Nat /\ todo \in Nat /\ last \in Nat /\ Len(cps) \in Nat
           /\ DOMAIN cps = 1 .. Len(cps) /\ mode \in {"poll", "tick"}
BY DEF RetryInv, TypeOK

LEMMA BatchFrame ==
    ASSUME BatchInv, op'.retries = op.retries,
           UNCHANGED <<pc, mode, todo, last, cps, acked, seen>>
    PROVE  BatchInv'
BY DEF BatchInv, InBatch, IsRetry

(* The log grows outside a batch, or where no event of it is at hand.      *)
LEMMA BatchLog ==
    ASSUME RetryInv, BatchInv, Len(cps') \in Nat, Len(cps') >= Len(cps),
           UNCHANGED <<mode, todo, last, acked>>,
           \/ pc = "first" /\ pc' = "idle"
           \/ pc = "rearm" /\ pc' = "probe"
           \/ pc = "requeue" /\ pc' = "result"
    PROVE  BatchInv'
BY Lengths DEF BatchInv, InBatch, Handling

LEMMA BatchEvent ==
    ASSUME RetryInv, BatchInv, AfterEvent, todo <= last,
           pc \in {"event", "start", "retry", "send", "pane_dead", "send_failed", "request"},
           UNCHANGED <<mode, last, cps, acked>>
    PROVE  BatchInv'
BY Lengths DEF BatchInv, InBatch, Handling, AfterEvent

LEMMA BatchActions ==
    ASSUME RetryInv, BatchInv, AfterActions, pc \in {"actions", "result"},
           UNCHANGED <<mode, last, cps, acked>>
    PROVE  BatchInv'
BY Lengths DEF BatchInv, InBatch, Handling, AfterActions

LEMMA BatchStep ==
    ASSUME RetryInv, BatchInv, Next
    PROVE  BatchInv'
<1> USE DEF durable, provider, kernel, operator, past
<1>1. CASE EnsureOperation
  BY <1>1, Lengths DEF EnsureOperation, BatchInv, InBatch, Handling
<1>2. CASE RequestCheckpoint
  <2>1. Len(cps') = Len(cps) + 1
    <3>1. PICK e : e = [kind |-> "first", cut |-> 0]
      OBVIOUS
    <3>2. cps' = Append(cps, e)
      BY <1>2, <3>1 DEF RequestCheckpoint
    <3> QED
      BY <3>2 DEF RetryInv, TypeOK
  <2>2. Len(cps') \in Nat /\ Len(cps') >= Len(cps)
    BY <2>1, Lengths
  <2> QED
    BY <1>2, <2>2, BatchLog DEF RequestCheckpoint
<1>3. CASE Begin
  <2>1. /\ todo' = acked + 1 /\ last' = Len(cps) /\ pc' = "event"
        /\ UNCHANGED <<cps, acked>>
    BY <1>3 DEF Begin
  <2> QED
    <3>1. acked <= Len(cps) /\ todo' = acked + 1 /\ last' = Len(cps)
      BY <2>1 DEF BatchInv
    <3>2. acked' <= Len(cps') /\ acked' < todo' /\ todo' <= last' + 1 /\ last' <= Len(cps')
      BY <2>1, <3>1, Lengths
    <3> QED
      BY <2>1, <3>2 DEF BatchInv
<1>4. CASE Prepare
  <2>1. CASE AfterEvent /\ todo <= last
    BY <1>4, <2>1, BatchEvent DEF Prepare
  <2>2. CASE todo > last /\ pc' = "ack" /\ UNCHANGED todo
    BY <1>4, <2>2, Lengths DEF Prepare, BatchInv, InBatch, Handling
  <2>3. CASE /\ todo <= last /\ UNCHANGED todo
             /\ pc' = IF IsRetry(todo) THEN "retry" ELSE "start"
    BY <1>4, <2>3, Lengths DEF Prepare, BatchInv, InBatch, Handling, IsRetry
  <2> QED
    BY <1>4, <2>1, <2>2, <2>3 DEF Prepare
<1>5. CASE MarkStarted
  BY <1>5, Lengths DEF MarkStarted, BatchInv, InBatch, Handling
<1>6. CASE MarkRetryStarted
  <2>1. CASE pc' \in {"down", "idle"}
    BY <1>6, <2>1, Lengths DEF MarkRetryStarted, BatchInv, InBatch, Handling
  <2>2. CASE pc' = "send" /\ UNCHANGED todo
    BY <1>6, <2>2, Lengths DEF MarkRetryStarted, BatchInv, InBatch, Handling
  <2> QED
    BY <1>6, <2>1, <2>2 DEF MarkRetryStarted
<1>7. CASE Send
  <2>0. pc = "send" /\ todo <= last /\ UNCHANGED <<mode, last, cps, acked>>
    BY <1>7 DEF Send, BatchInv, InBatch, Handling
  <2>1. CASE AfterEvent
    BY <2>0, <2>1, BatchEvent
  <2>2. CASE pc' \in {"pane_dead", "send_failed"} /\ UNCHANGED todo
    BY <2>0, <2>2, Lengths DEF BatchInv, InBatch, Handling
  <2> QED
    BY <1>7, <2>1, <2>2 DEF Send
<1>8. CASE PaneDead
  <2>0. pc = "pane_dead" /\ todo <= last /\ UNCHANGED <<mode, last, cps, acked>>
    BY <1>8 DEF PaneDead, BatchInv, InBatch, Handling
  <2>1. CASE AfterEvent
    BY <2>0, <2>1, BatchEvent
  <2>2. CASE pc' = "request" /\ UNCHANGED todo
    BY <2>0, <2>2, Lengths DEF BatchInv, InBatch, Handling
  <2> QED
    BY <1>8, <2>1, <2>2 DEF PaneDead
<1>9. CASE SendFailed
  <2>0. pc = "send_failed" /\ todo <= last /\ UNCHANGED <<mode, last, cps, acked>> /\ AfterEvent
    BY <1>9 DEF SendFailed, BatchInv, InBatch, Handling
  <2> QED
    BY <2>0, BatchEvent
<1>10. CASE RequestRespawn
  <2>0. UNCHANGED <<mode, last, cps, acked>>
    BY <1>10 DEF RequestRespawn
  <2>1. CASE pc = "request" /\ AfterEvent
    <3>1. todo <= last
      BY <2>1 DEF BatchInv, InBatch, Handling
    <3> QED
      BY <2>0, <2>1, <3>1, BatchEvent
  <2>2. CASE pc' = "idle"
    BY <2>0, <2>2, Lengths DEF BatchInv, InBatch, Handling
  <2> QED
    BY <1>10, <2>1, <2>2 DEF RequestRespawn
<1>11. CASE Acknowledge
  BY <1>11, Lengths DEF Acknowledge, BatchInv, InBatch, Handling
<1>12. CASE ApplyRespawn
  <2>0. pc = "actions" /\ UNCHANGED <<mode, last, cps, acked>>
    BY <1>12 DEF ApplyRespawn
  <2>1. CASE AfterActions
    BY <2>0, <2>1, BatchActions
  <2>2. CASE pc' = "requeue" /\ UNCHANGED todo
    BY <2>0, <2>2, Lengths DEF BatchInv, InBatch, Handling
  <2> QED
    BY <1>12, <2>1, <2>2 DEF ApplyRespawn
<1>13. CASE Requeue
  <2>1. Len(cps') \in Nat /\ Len(cps') >= Len(cps)
    <3>1. PICK e : e = [kind |-> "retry", cut |-> 0]
      OBVIOUS
    <3>2. cps' = cps \/ cps' = Append(cps, e)
      BY <1>13, <3>1 DEF Requeue
    <3>3. Len(Append(cps, e)) = Len(cps) + 1
      BY DEF RetryInv, TypeOK
    <3> QED
      BY <3>2, <3>3, Lengths
  <2> QED
    BY <1>13, <2>1, BatchLog DEF Requeue
<1>14. CASE RespawnResult
  BY <1>14, BatchActions DEF RespawnResult
<1>15. CASE Rearm
  <2>1. Len(cps') \in Nat /\ Len(cps') >= Len(cps)
    <3>1. PICK e : e = [kind |-> "restart", cut |-> seen.cut]
      OBVIOUS
    <3>2. cps' = cps \/ cps' = Append(cps, e)
      BY <1>15, <3>1 DEF Rearm
    <3>3. Len(Append(cps, e)) = Len(cps) + 1
      BY DEF RetryInv, TypeOK
    <3> QED
      BY <3>2, <3>3, Lengths
  <2> QED
    BY <1>15, <2>1, BatchLog DEF Rearm
<1>16. CASE Sweep \/ AdmitRedrive \/ Lost \/ StopWatcher \/ KernelDies \/ Start
  <2>1. pc' \in {"probe", "redrive", "rearm", "idle", "probe_request", "down"}
        /\ UNCHANGED <<cps, acked>>
    BY <1>16 DEF Sweep, AdmitRedrive, Lost, StopWatcher, KernelDies, Start
  <2> QED
    BY <2>1, Lengths DEF BatchInv, InBatch, Handling
<1>17. CASE Probe
  BY <1>17, Lengths DEF Probe, BatchInv, InBatch, Handling
<1>18. CASE ResultInvalid \/ Settle \/ StrayEnds
  <2>1. op'.retries = op.retries
    BY <1>18, EndRow, Ways DEF ResultInvalid, Settle, StrayEnds
  <2> QED
    BY <1>18, <2>1, BatchFrame DEF ResultInvalid, Settle, StrayEnds, SubmitReturns
<1>19. CASE StopInterrupt
  <2>1. op'.retries = op.retries
    BY <1>19, CutRow, Ways DEF StopInterrupt
  <2> QED
    BY <1>19, <2>1, BatchFrame DEF StopInterrupt
<1>20. CASE \/ SubmitCheck \/ Admit \/ AdmitAgain \/ Stop \/ StopRead \/ StopPanes
            \/ ProviderDies \/ SubmitDies
  BY <1>20, BatchFrame DEF SubmitCheck, Admit, AdmitAgain, SubmitReturns, Stop, StopRead,
                           StopPanes, ProviderDies, SubmitDies
<1>21. CASE Drop
  BY <1>21, BatchEvent DEF Drop
<1> QED
  BY <1>1, <1>2, <1>3, <1>4, <1>5, <1>6, <1>7, <1>8, <1>9, <1>10, <1>11, <1>12, <1>13,
     <1>14, <1>15, <1>16, <1>17, <1>18, <1>19, <1>20, <1>21 DEF Next, Loop, Submit, StopStep

-----------------------------------------------------------------------------
(* Stops, panes and submits                                                *)

(* An idle pane runs no submit; the retry is counted when it is written;   *)
(* only a stop leads to a redrive; and a stop that met no iteration has    *)
(* the kernel to itself.                                                   *)
StopInv ==
    /\ pane = "idle" => submit = "none"
    /\ "retry_started" \in said => op.retries = 1
    /\ stops = 0 => stop = "none" /\ op.reason # "stop" /\ pc \notin {"redrive", "rearm"}
    /\ stop \in {"read", "cut", "dark"} /\ "stop" \notin torn => pc \in {"idle", "down"}

(* A step of the kernel that sends nothing and asks for no redrive.        *)
LEMMA StopFrame ==
    ASSUME StopInv, op'.retries = op.retries,
           op'.reason \in {op.reason, "none", "ended", "send_dead", "probe_dead"},
           "retry_started" \in said' => "retry_started" \in said,
           pc' \notin {"redrive", "rearm"}, pc \notin {"idle", "down"},
           UNCHANGED <<pane, submit, stop, torn, stops>>
    PROVE  StopInv'
BY DEF StopInv

LEMMA StopKernel ==
    ASSUME RetryInv, StopInv, Loop
    PROVE  StopInv'
<1> USE DEF durable, provider, kernel, operator, past
<1>1. CASE \/ RequestCheckpoint \/ Prepare \/ Drop \/ RequestRespawn \/ Acknowledge \/ Requeue
           \/ RespawnResult \/ Probe
  <2>1. UNCHANGED <<op, said, pane, submit, stop, torn, stops>> /\ pc \notin {"idle", "down"}
    BY <1>1 DEF RequestCheckpoint, Prepare, Drop, RequestRespawn, Acknowledge, Requeue,
                RespawnResult, Probe
  <2>2. pc' \notin {"redrive", "rearm"}
    BY <1>1 DEF RequestCheckpoint, Prepare, Drop, RequestRespawn, Acknowledge, Requeue,
                RespawnResult, Probe, AfterEvent, AfterActions
  <2> QED
    BY <2>1, <2>2, StopFrame
<1>2. CASE MarkStarted
  <2>1. op'.retries = op.retries /\ op'.reason = op.reason
    BY <1>2 DEF MarkStarted, Started, RetryInv, TypeOK, Rows
  <2> QED
    BY <1>2, <2>1, StopFrame DEF MarkStarted
<1>3. CASE MarkRetryStarted
  <2>1. CASE UNCHANGED <<op, said>>
    <3>1. CASE pc' = "send"
      BY <1>3, <2>1, <3>1, StopFrame DEF MarkRetryStarted
    <3>2. CASE pc' \in {"down", "idle"}
      BY <1>3, <2>1, <3>2 DEF MarkRetryStarted, StopInv
    <3> QED
      BY <1>3, <3>1, <3>2 DEF MarkRetryStarted
  <2>2. CASE op.status \in {"suspended", "failed"} /\ "retry_started" \notin said
    <3>1. op.retries = 0
      BY <2>2 DEF RetryInv, RetryBound, TypeOK, Rows
    <3>2. op' = RetryStarted(op, todo) /\ pc = "retry" /\ pc' = "send"
          /\ UNCHANGED <<pane, submit, stop, torn, stops>>
      BY <1>3, <2>2 DEF MarkRetryStarted
    <3>3. op'.retries = 1 /\ op'.reason = "none"
      BY <2>2, <3>1, <3>2 DEF RetryStarted, RetryInv, TypeOK, Rows
    <3> QED
      BY <3>2, <3>3 DEF StopInv
  <2> QED
    BY <1>3, <2>1, <2>2 DEF MarkRetryStarted
<1>4. CASE PaneDead
  <2>1. op'.retries = op.retries /\ op'.reason \in {op.reason, "ended", "send_dead"}
        /\ ("retry_started" \in said' => "retry_started" \in said)
    BY <1>4, EndRow, CutRow, Ways DEF PaneDead
  <2> QED
    BY <1>4, <2>1, StopFrame DEF PaneDead, AfterEvent
<1>5. CASE SendFailed
  <2>1. op'.retries = op.retries /\ op'.reason \in {op.reason, "ended"}
        /\ ("retry_started" \in said' => "retry_started" \in said)
    BY <1>5, EndRow, Ways DEF SendFailed
  <2> QED
    BY <1>5, <2>1, StopFrame DEF SendFailed, AfterEvent
<1>6. CASE Lost
  <2>1. op'.retries = op.retries /\ op'.reason \in {op.reason, "ended", "probe_dead"}
        /\ ("retry_started" \in said' => "retry_started" \in said)
    BY <1>6, EndRow, CutRow, Ways DEF Lost
  <2> QED
    BY <1>6, <2>1, StopFrame DEF Lost
<1>7. CASE Sweep
  <2>1. CASE pc' = "probe"
    <3>1. op'.retries = op.retries /\ op'.reason \in {op.reason, "ended"}
          /\ ("retry_started" \in said' => "retry_started" \in said)
      BY <1>7, <2>1, EndRow, Ways DEF Sweep
    <3> QED
      BY <1>7, <2>1, <3>1, StopFrame DEF Sweep
  <2>2. CASE StoppedByOperator(op) /\ UNCHANGED <<op, said>>
    BY <1>7, <2>2 DEF Sweep, StoppedByOperator, StopInv
  <2> QED
    BY <1>7, <2>1, <2>2 DEF Sweep
<1>8. CASE AdmitRedrive
  <2>1. op'.retries = op.retries /\ op'.reason \in {op.reason, "none"}
    BY <1>8 DEF AdmitRedrive, Redriven, RetryInv, TypeOK, Rows
  <2> QED
    BY <1>8, <2>1 DEF AdmitRedrive, StopInv
<1>9. CASE Rearm
  BY <1>9 DEF Rearm, StopInv
<1>10. CASE Send
  BY <1>10 DEF Send, AfterEvent, StopInv
<1>11. CASE ApplyRespawn
  BY <1>11 DEF ApplyRespawn, LeaveSubmit, AfterActions, StopInv
<1> QED
  BY <1>1, <1>2, <1>3, <1>4, <1>5, <1>6, <1>7, <1>8, <1>9, <1>10, <1>11 DEF Loop

LEMMA StopOthers ==
    ASSUME RetryInv, StopInv, Next, ~Loop
    PROVE  StopInv'
<1> USE DEF durable, provider, kernel, operator, past
<1>1. CASE EnsureOperation
  BY <1>1 DEF EnsureOperation, StopInv, RetryInv, TypeOK, Rows
<1>2. CASE Begin
  BY <1>2 DEF Begin, StopInv
<1>3. CASE SubmitCheck \/ Admit \/ AdmitAgain \/ ProviderDies
  BY <1>3 DEF SubmitCheck, Admit, AdmitAgain, ProviderDies, SubmitReturns, StopInv
<1>4. CASE ResultInvalid \/ Settle \/ StrayEnds
  <2>1. op'.retries = op.retries /\ op'.reason \in {op.reason, "ended"}
        /\ ("retry_started" \in said' => "retry_started" \in said)
    BY <1>4, EndRow, Ways DEF ResultInvalid, Settle, StrayEnds
  <2> QED
    <3>1. UNCHANGED <<pc, stop, torn, stops>>
          /\ (UNCHANGED <<pane, submit>> \/ submit' = "none")
      BY <1>4 DEF ResultInvalid, Settle, StrayEnds, SubmitReturns
    <3> QED
      BY <2>1, <3>1 DEF StopInv
<1>5. CASE Stop
  <2>1. stops' # 0
    <3>1. stops \in Nat
      BY DEF RetryInv, TypeOK
    <3>2. stops' = stops + 1
      BY <1>5 DEF Stop
    <3> QED
      BY <3>1, <3>2
  <2> QED
    BY <1>5, <2>1 DEF Stop, StopInv
<1>6. CASE StopInterrupt
  <2>1. op'.retries = op.retries
    BY <1>6, CutRow, Ways DEF StopInterrupt
  <2> QED
    BY <1>6, <2>1 DEF StopInterrupt, StopInv
<1>7. CASE StopRead \/ StopPanes \/ StopWatcher \/ KernelDies \/ SubmitDies \/ Start
  BY <1>7 DEF StopRead, StopPanes, StopWatcher, KernelDies, SubmitDies, Start, LeaveSubmit,
              StopInv
<1> QED
  BY <1>1, <1>2, <1>3, <1>4, <1>5, <1>6, <1>7 DEF Next, Submit, StopStep

-----------------------------------------------------------------------------
(* The events that can be started                                          *)

(* Only first and restart events are started, the first is written once,   *)
(* and no two events answer the same interruption.                         *)
EventsInv ==
    /\ op.status = "none" => pc \notin {"first", "rearm"}
    /\ op.status = "none" \/ pc = "first" => cps = <<>>
    /\ \A c \in started : c \in DOMAIN cps /\ ~IsRetry(c)
    /\ \A c \in DOMAIN cps : cps[c].kind = "first" => cps[c].cut = 0
    /\ \A c, d \in DOMAIN cps :
         ~IsRetry(c) /\ ~IsRetry(d) /\ cps[c].cut = cps[d].cut => c = d

LEMMA LogTyped ==
    ASSUME RetryInv
    PROVE  started \subseteq Nat /\ cps \in Seq(Events) /\ DOMAIN cps \subseteq Nat
<1>1. started \subseteq Nat /\ cps \in Seq(Events)
  BY DEF RetryInv, TypeOK, Events
<1>2. DOMAIN cps \subseteq Nat
  BY Lengths
<1> QED
  BY <1>1, <1>2

LEMMA EventsFrame ==
    ASSUME EventsInv, UNCHANGED <<cps, started>>, op'.status = "none" => op.status = "none",
           pc' \in {"first", "rearm"} => pc' = pc
    PROVE  EventsInv'
BY DEF EventsInv, IsRetry

LEMMA OneMoreEvent ==
    ASSUME cps \in Seq(Events), NEW e \in Events, cps' = Append(cps, e)
    PROVE  \E n \in Nat : /\ DOMAIN cps' = DOMAIN cps \cup {n} /\ cps'[n] = e
                          /\ \A c \in DOMAIN cps : cps'[c] = cps[c]
<1>1. PICK n \in Nat : n = Len(cps) + 1
  OBVIOUS
<1>2. /\ DOMAIN cps = 1 .. (n - 1) /\ DOMAIN cps' = 1 .. n /\ cps'[n] = e
      /\ \A c \in DOMAIN cps : cps'[c] = cps[c]
  BY <1>1
<1>3. n >= 1 /\ 1 .. n = 1 .. (n - 1) \cup {n}
  BY <1>1
<1> QED
  BY <1>2, <1>3

(* One more event, of a kind that is not there yet or a retry.             *)
LEMMA EventsGrow ==
    ASSUME RetryInv, EventsInv, NEW e \in Events, cps' = Append(cps, e), started' = started,
           op' = op, op.status # "none", pc' \notin {"first", "rearm"},
           e.kind = "first" => e.cut = 0,
           e.kind # "retry" => \A c \in DOMAIN cps : ~IsRetry(c) => cps[c].cut # e.cut
    PROVE  EventsInv'
<1>1. cps \in Seq(Events)
  BY LogTyped, Zenon
<1>2. PICK n \in Nat : /\ DOMAIN cps' = DOMAIN cps \cup {n} /\ cps'[n] = e
                      /\ \A c \in DOMAIN cps : cps'[c] = cps[c]
  BY <1>1, OneMoreEvent, Zenon
<1>3. \A c \in DOMAIN cps : c \in DOMAIN cps' /\ (IsRetry(c)' <=> IsRetry(c))
  BY <1>2, Zenon DEF IsRetry
<1>4. \A c \in started : c \in DOMAIN cps' /\ ~IsRetry(c)'
  BY <1>3, Zenon DEF EventsInv
<1>5. ASSUME NEW c \in DOMAIN cps', cps'[c].kind = "first" PROVE cps'[c].cut = 0
  <2>1. CASE c = n
    BY <1>2, <1>5, <2>1, Zenon
  <2>2. CASE c \in DOMAIN cps
    BY <1>2, <1>5, <2>2, Zenon DEF EventsInv
  <2> QED
    BY <1>2, <2>1, <2>2, Zenon
<1>6. ~IsRetry(n)' => \A c \in DOMAIN cps : ~IsRetry(c) => cps'[c].cut # cps'[n].cut
  BY <1>2, Zenon DEF IsRetry
<1>7. ASSUME NEW c \in DOMAIN cps', NEW d \in DOMAIN cps',
             ~IsRetry(c)', ~IsRetry(d)', cps'[c].cut = cps'[d].cut
      PROVE  c = d
  <2>1. CASE c \in DOMAIN cps /\ d \in DOMAIN cps
    <3>1. ~IsRetry(c) /\ ~IsRetry(d) /\ cps[c].cut = cps[d].cut
      BY <1>2, <1>3, <1>7, <2>1, Zenon
    <3> QED
      BY <2>1, <3>1, Zenon DEF EventsInv
  <2>2. CASE c \in DOMAIN cps /\ d = n
    BY <1>3, <1>6, <1>7, <2>2, Zenon
  <2>3. CASE c = n /\ d \in DOMAIN cps
    BY <1>3, <1>6, <1>7, <2>3, Zenon
  <2> QED
    BY <1>2, <2>1, <2>2, <2>3, Zenon
<1>8. op'.status # "none" /\ pc' \notin {"first", "rearm"}
  OBVIOUS
<1> QED
  BY <1>4, <1>5, <1>7, <1>8 DEF EventsInv

LEMMA EventsStep ==
    ASSUME RetryInv, BatchInv, EventsInv, Next
    PROVE  EventsInv'
<1> USE DEF durable, provider, kernel, operator, past
<1>0. RetryInv /\ BatchInv /\ op \in Rows /\ seen.cut \in Nat /\ cps \in Seq(Events)
  BY DEF RetryInv, TypeOK, Rows, Events
<1>1. CASE EnsureOperation
  <2>1. UNCHANGED <<cps, started>> /\ op'.status = "requested" /\ cps = <<>> /\ pc' = "first"
    BY <1>0, <1>1 DEF EnsureOperation, EventsInv, Rows
  <2> QED
    BY <2>1 DEF EventsInv, IsRetry
<1>2. CASE RequestCheckpoint
  <2>1. cps = <<>> /\ op.status # "none"
    BY <1>2 DEF RequestCheckpoint, EventsInv
  <2>2. PICK e \in Events : e = [kind |-> "first", cut |-> 0]
    BY DEF Events
  <2>3. e.kind = "first" /\ e.cut = 0 /\ DOMAIN cps = {}
    BY <2>1, <2>2
  <2>4. cps' = Append(cps, e) /\ UNCHANGED <<op, started>> /\ pc' = "idle"
    BY <1>2, <2>2 DEF RequestCheckpoint
  <2> QED
    BY <1>0, <2>1, <2>3, <2>4, EventsGrow
<1>3. CASE Requeue
  <2>1. UNCHANGED <<op, started>> /\ pc' = "result"
    BY <1>3 DEF Requeue
  <2>2. CASE cps' = cps
    BY <2>1, <2>2, EventsFrame
  <2>3. CASE cps' # cps
    <3>1. PICK e \in Events : e = [kind |-> "retry", cut |-> 0]
      BY DEF Events
    <3>2. cps' = Append(cps, e) /\ op.status = "suspended" /\ e.kind = "retry"
      BY <1>3, <2>3, <3>1 DEF Requeue
    <3> QED
      BY <1>0, <2>1, <3>2, EventsGrow
  <2> QED
    BY <2>2, <2>3
<1>4. CASE Rearm
  <2>1. UNCHANGED <<op, started>> /\ pc' = "probe" /\ op.status # "none"
    BY <1>4 DEF Rearm, EventsInv
  <2>2. CASE cps' = cps
    BY <2>1, <2>2, EventsFrame
  <2>3. CASE cps' # cps
    <3>1. PICK e \in Events : e = [kind |-> "restart", cut |-> seen.cut]
      BY <1>0 DEF Events
    <3>2. e.kind = "restart" /\ e.cut = seen.cut
      BY <3>1
    <3>3. cps' = Append(cps, e) /\ \A c \in DOMAIN cps : cps[c].cut # e.cut
      BY <1>4, <2>3, <3>1, <3>2 DEF Rearm
    <3> QED
      BY <1>0, <2>1, <3>2, <3>3, EventsGrow
  <2> QED
    BY <2>2, <2>3
<1>5. CASE MarkStarted
  <2>1. todo \in DOMAIN cps /\ ~IsRetry(todo)
    <3>1. pc = "start"
      BY <1>5 DEF MarkStarted
    <3>2. acked < todo /\ todo <= last /\ last <= Len(cps) /\ ~IsRetry(todo)
      BY <1>0, <3>1 DEF BatchInv, InBatch, Handling
    <3>3. acked \in Nat /\ todo \in Nat /\ last \in Nat /\ Len(cps) \in Nat
          /\ DOMAIN cps = 1 .. Len(cps)
      BY <1>0, Lengths, Zenon
    <3> QED
      BY <3>2, <3>3
  <2>2. cps' = cps /\ started' = started \cup {todo} /\ pc' = "send"
        /\ (op'.status = "none" => op.status = "none")
    BY <1>0, <1>5 DEF MarkStarted, Started, Rows
  <2> QED
    BY <2>1, <2>2 DEF EventsInv, IsRetry
<1>6. CASE AdmitRedrive
  <2>1. UNCHANGED <<cps, started>> /\ pc' \in {"rearm", "idle"}
    BY <1>6 DEF AdmitRedrive
  <2>2. pc' = "rearm" => op'.status # "none"
    BY <1>0, <1>6 DEF AdmitRedrive, Redriven, Rows
  <2>3. op'.status = "none" => op.status = "none"
    BY <1>0, <1>6 DEF AdmitRedrive, Redriven, Rows
  <2> QED
    BY <2>1, <2>2, <2>3 DEF EventsInv, IsRetry
<1>7. CASE PaneDead \/ SendFailed \/ Sweep \/ Lost \/ ResultInvalid \/ Settle \/ StrayEnds
  <2>1. op'.status = "none" => op.status = "none"
    <3>1. ASSUME NEW how \in Terminal, End(how) PROVE op' = op \/ op'.status # "none"
      BY <1>0, <3>1, EndRow DEF Terminal
    <3>2. ASSUME NEW why \in Reasons, Interrupt(why) PROVE op' = op \/ op'.status # "none"
      BY <1>0, <3>2, CutRow
    <3> QED
      BY <1>7, <3>1, <3>2, Ways DEF PaneDead, SendFailed, Sweep, Lost, ResultInvalid, Settle,
                                       StrayEnds
  <2>2. UNCHANGED <<cps, started>> /\ (pc' \in {"first", "rearm"} => pc' = pc)
    BY <1>7 DEF PaneDead, SendFailed, Sweep, Lost, ResultInvalid, Settle, StrayEnds, SubmitReturns,
                AfterEvent
  <2> QED
    BY <2>1, <2>2, EventsFrame
<1>8. CASE MarkRetryStarted \/ StopInterrupt
  <2>1. op'.status = "none" => op.status = "none"
    BY <1>0, <1>8, CutRow, Ways DEF MarkRetryStarted, RetryStarted, StopInterrupt, Rows
  <2>2. UNCHANGED <<cps, started>> /\ (pc' \in {"first", "rearm"} => pc' = pc)
    BY <1>8 DEF MarkRetryStarted, StopInterrupt, AfterEvent
  <2> QED
    BY <2>1, <2>2, EventsFrame
<1>9. CASE \/ Begin \/ Prepare \/ Drop \/ Send \/ RequestRespawn \/ Acknowledge \/ ApplyRespawn
           \/ RespawnResult \/ Probe \/ SubmitCheck \/ Admit \/ AdmitAgain \/ Start
           \/ ProviderDies \/ KernelDies \/ SubmitDies \/ Stop \/ StopRead \/ StopPanes
           \/ StopWatcher
  <2>1. UNCHANGED <<op, cps, started>>
    BY <1>9 DEF Begin, Prepare, Drop, Send, RequestRespawn, Acknowledge, ApplyRespawn, RespawnResult,
                Probe, SubmitCheck, Admit, AdmitAgain, SubmitReturns, Start, ProviderDies,
                KernelDies, SubmitDies, Stop, StopRead, StopPanes, StopWatcher
  <2>2. pc' \in {"first", "rearm"} => pc' = pc
    BY <1>9 DEF Begin, Prepare, Drop, Send, RequestRespawn, Acknowledge, ApplyRespawn, RespawnResult,
                Probe, SubmitCheck, Admit, AdmitAgain, SubmitReturns, Start, ProviderDies,
                KernelDies, SubmitDies, Stop, StopRead, StopPanes, StopWatcher, AfterEvent,
                AfterActions
  <2> QED
    BY <2>1, <2>2, EventsFrame
<1> QED
  BY <1>1, <1>2, <1>3, <1>4, <1>5, <1>6, <1>7, <1>8, <1>9 DEF Next, Loop, Submit, StopStep
=============================================================================
