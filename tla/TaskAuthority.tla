--------------------------- MODULE TaskAuthority ---------------------------
(***************************************************************************)
(* TaskContractAuthorityService over the TaskStore: change requests of     *)
(* roles and replans of the runtime read a task, prepare a new contract    *)
(* and apply it with a compare-and-swap on the authority revision, while   *)
(* other processes close tasks and merge evidence. A request is an event,  *)
(* so it is handled again after a crash.                                   *)
(***************************************************************************)
EXTENDS TaskStore

CONSTANTS
    Requests,  \* contract mutations
    Wanted,    \* the contracts each of them may ask for
    Replans    \* those of refresh_writer_task_contract, which may reopen

ASSUME AuthorityAssumption ==
    Replans \subseteq Requests /\ Wanted \in [Requests -> SUBSET Contracts]

VARIABLES
    req,      \* the state of every request
    outcome,  \* what the log says of a request: applied, rejected
    landed,   \* the mutations that reached the store, with their sequence
    noted     \* the evidence merged into tasks

requests == <<req, outcome, landed>>
authVars == <<vars, requests, noted>>

Revision(rec) == <<rec.seq, rec.contract>>

Request0 == [pc |-> "new", task |-> Absent, contract |-> NoContract,
             was |-> "backlog", base |-> Absent]

AuthTypeOK ==
    /\ TypeOK
    /\ req \in [Requests -> {Request0} \cup
                  [pc: {"queued", "prepared", "landed", "done"}, task: Tasks,
                   contract: Contracts, was: Open \cup Terminal, base: Record]]
    /\ outcome \in [Requests -> SUBSET {"applied", "rejected"}]
    /\ landed \subseteq [request: Requests, task: Tasks, seq: Nat]
    /\ noted \subseteq [task: Tasks, note: Notes]

AuthInit ==
    /\ Init
    /\ req = [r \in Requests |-> Request0]
    /\ outcome = [r \in Requests |-> {}]
    /\ landed = {} /\ noted = {}

Goto(r, pc) == req' = [req EXCEPT ![r].pc = pc]

-----------------------------------------------------------------------------
(* A role, or the replan, reads the task and asks for a new contract.      *)
Ask(r, t, contract) ==
    /\ req[r].pc = "new"
    /\ t \in added
    /\ req' = [req EXCEPT ![r] = [pc |-> "queued", task |-> t, contract |-> contract,
                                  was |-> Get(t).status, base |-> Get(t)]]
    /\ UNCHANGED <<vars, outcome, landed, noted>>

(* A stale change request is reported rejected.                            *)
Refuse(r) ==
    /\ r \notin Replans
    /\ Goto(r, "done")
    /\ outcome' = [outcome EXCEPT ![r] = @ \cup {"rejected"}]
    /\ UNCHANGED landed

(* Mutant of Conflict: the caller tries again with the revision it holds.  *)
ConflictRetried(r) == Goto(r, "queued") /\ UNCHANGED <<outcome, landed>>

(* Mutant of Conflict: the loser of a swap is reported as applied.         *)
ConflictApplied(r) ==
    /\ Goto(r, "done")
    /\ outcome' = [outcome EXCEPT ![r] = @ \cup {"applied"}]
    /\ UNCHANGED landed

(* A replan, or whoever finds out later, raises: this rejection does not   *)
(* name the request.                                                       *)
Conflict(r) == Goto(r, "done") /\ UNCHANGED <<outcome, landed>>

(* A replan resets the status it read, and reopens a task that was done.   *)
Resets(r)  == r \in Replans /\ req[r].was \in {"done", "blocked", "failed", "review", "test"}
Reopens(r) == r \in Replans /\ req[r].was = "done"

Unchanged(r, rec) == rec.seq # 0 /\ rec.contract = req[r].contract

(* apply_change_request and replace up to the compare-and-swap: settled    *)
(* already; stale, seen by the first or only by the second of two reads;   *)
(* nothing to change; or prepared, with the evidence of now.               *)
Prepare(r) ==
    /\ req[r].pc = "queued"
    /\ LET current == Get(req[r].task)
       IN \/ /\ outcome[r] # {}
             /\ Goto(r, "done")
             /\ UNCHANGED <<outcome, landed>>
          \/ /\ outcome[r] = {}
             /\ Revision(current) # Revision(req[r].base)
             /\ Refuse(r) \/ Conflict(r)
          \/ /\ outcome[r] = {}
             /\ Revision(current) = Revision(req[r].base) /\ Unchanged(r, current)
             /\ ~Resets(r) \/ current.status = "backlog"
             /\ Goto(r, "done")
             /\ UNCHANGED <<outcome, landed>>
          \/ /\ outcome[r] = {}
             /\ Revision(current) = Revision(req[r].base)
             /\ r \in Replans \/ ~Unchanged(r, current)
             /\ current.seq < MaxSequence
             /\ req' = [req EXCEPT ![r].pc = "prepared", ![r].base = current]
             /\ UNCHANGED <<outcome, landed>>
    /\ UNCHANGED <<vars, noted>>

(* The contract stays: a replan then only updates fields of the task.      *)
FieldsOnly(r) == Unchanged(r, req[r].base)

(* Whether the store finds the record: on the board, or in the archive if  *)
(* the contract update may reopen it.                                      *)
Found(r) == req[r].task \in OnBoard \/ (Reopens(r) /\ ~FieldsOnly(r))

(* Mutant of Matches: the revision alone, also where there is none.        *)
MatchesRevision(r) == Revision(Latest(req[r].task)) = Revision(req[r].base)

(* The token: the revision, and the whole contract where there is none.    *)
Matches(r) ==
    LET found == Latest(req[r].task)
        base  == req[r].base
    IN /\ Revision(found) = Revision(base)
       /\ base.seq = 0 => found.meta = base.meta

(* Mutant of NewStatus: the reset status is not one of the board.          *)
NewStatusReopened(r, rec) ==
    IF Resets(r) /\ req[r].base.status # "backlog" THEN "reopened" ELSE rec.status

(* The status a replan sets, if it was another when the task was read.     *)
NewStatus(r, rec) ==
    IF Resets(r) /\ req[r].base.status # "backlog" THEN "backlog" ELSE rec.status

(* What is written: the contract and its evidence as prepared.             *)
Mutated(r) ==
    LET found == Latest(req[r].task)
        base  == req[r].base
    IN IF FieldsOnly(r) THEN [found EXCEPT !.status = NewStatus(r, found)]
       ELSE [status |-> NewStatus(r, found), seq |-> base.seq + 1,
             contract |-> req[r].contract, meta |-> base.meta]

(* compare_and_update_contract, or _fields when only fields change.        *)
Swap(r) ==
    /\ req[r].pc = "prepared" /\ Idle
    /\ \/ /\ Found(r) /\ Matches(r)
          /\ Replace(req[r].task, Mutated(r))
          /\ Goto(r, "landed")
          /\ landed' = IF FieldsOnly(r) THEN landed
                       ELSE landed \cup {[request |-> r, task |-> req[r].task,
                                          seq |-> req[r].base.seq + 1]}
          /\ UNCHANGED outcome
       \/ /\ ~(Found(r) /\ Matches(r))
          /\ Conflict(r)
          /\ UNCHANGED vars
    /\ UNCHANGED noted

(* task.contract.revision.applied, once the store is done.                 *)
Report(r) ==
    /\ req[r].pc = "landed" /\ (op.do = "unmark" => op.task # req[r].task)
    /\ Goto(r, "done")
    /\ outcome' = IF r \in Replans THEN outcome
                  ELSE [outcome EXCEPT ![r] = @ \cup {"applied"}]
    /\ UNCHANGED <<vars, landed, noted>>

(* The process dies; the event of a change request is delivered again.     *)
Restart(r) ==
    /\ req[r].pc \in {"prepared", "landed"} /\ crashes < MaxCrashes
    /\ crashes' = crashes + 1
    /\ Goto(r, IF r \in Replans THEN "done" ELSE "queued")
    /\ op' = IF op.do = "unmark" /\ op.task = req[r].task THEN NoOp ELSE op
    /\ UNCHANGED <<files, day, added, readers, outcome, landed, noted>>

Merge(t, note) ==
    /\ Patch(t, note)
    /\ noted' = noted \cup {[task |-> t, note |-> note]}
    /\ UNCHANGED requests

(* The other writers of the store.                                         *)
Others ==
    /\ \/ \E t \in Tasks : Add(t)
       \/ \E t \in Tasks, status \in Open : Update(t, status)
       \/ \E t \in Tasks, status \in Closings : Close(t, status)
       \/ Mark \/ Pop \/ Unmark \/ NextDay
       \/ Crash /\ op.do # "unmark"
    /\ UNCHANGED <<requests, noted>>

AuthNext ==
    \/ Others
    \/ \E t \in Tasks, note \in Notes : Merge(t, note)
    \/ \E r \in Requests :
          \/ \E t \in Tasks, contract \in Wanted[r] : Ask(r, t, contract)
          \/ Prepare(r) \/ Swap(r) \/ Report(r) \/ Restart(r)

AuthSpec == AuthInit /\ [][AuthNext]_authVars

AuthFairSpec ==
    /\ AuthSpec
    /\ WF_authVars(Others /\ ~Idle)
    /\ \A r \in Requests : WF_authVars(Prepare(r)) /\ SF_authVars(Swap(r)) /\ WF_authVars(Report(r))

-----------------------------------------------------------------------------
(* Properties                                                              *)

(* Two mutations never land on the same revision of a task, even when it   *)
(* is closed, reopened or half reopened in between: none is lost.          *)
NoLostMutation ==
    \A m, n \in landed : m.task = n.task /\ m.seq = n.seq => m.request = n.request

(* A request is delivered again after a crash, yet lands at most once.     *)
RequestLandsOnce == \A m, n \in landed : m.request = n.request => m = n

(* The revision a writer finds, whichever file holds the task.             *)
RevisionOf == [t \in Tasks |-> IF t \in added THEN Latest(t).seq ELSE 0]

History == INSTANCE ContractHistory WITH
              revision <- RevisionOf, history <- landed,
              applied <- {r \in Requests : "applied" \in outcome[r]}

(* Requests that race with each other, with closings and with deaths leave *)
(* one history: every revision of a task was made by exactly one request,  *)
(* on the revision before it, and an applied report is true.               *)
ImplementsHistory == History!Spec

(* A semantic writer does not roll back newer evidence: what was merged    *)
(* into the contract of a task on the board stays there.                   *)
EvidenceKept == \A n \in noted : n.task \in OnBoard => n.note \in active[n.task].meta

(* Where that holds: the token of a task without a revision is its whole   *)
(* contract, so evidence outlives the first stamp, and deaths and closings *)
(* around it, wherever the record lies. The second stamp may drop it.      *)
EvidenceFirst ==
    \A n \in noted : Latest(n.task).seq <= 1 => n.note \in Latest(n.task).meta

(* Every request is settled, whatever else happens to the task.            *)
RequestsSettle == \A r \in Requests : req[r].pc = "queued" ~> req[r].pc = "done"
=============================================================================
