-------------------------- MODULE TaskAttemptStore --------------------------
(***************************************************************************)
(* The canonical TaskAttempt store, core/state/task_attempts.py: one row   *)
(* per dispatch of one task, and one "current" pointer per lane.  Every    *)
(* method of the class runs under the file lock and ends in an atomic      *)
(* write, so each of them is one operator from the stored value to the     *)
(* next one; the runtime that calls them is module TaskAttempts.           *)
(*                                                                         *)
(* Abstractions.  An attempt is named by its dispatch id (the code derives *)
(* attempt_id from run, task and dispatch).  A lane stands for the scope   *)
(* key run::task::attempt_key, whose digest covers the operation, so all   *)
(* rows of a lane have the same operation_id.  The lease is the Boolean    *)
(* "lapsed" (lease_expires_at is in the past), created_at is the logical   *)
(* time "born".                                                            *)
(***************************************************************************)
EXTENDS Naturals

CONSTANTS Attempts,       \* dispatch ids, each the identity of one attempt
          Lanes,          \* run::task::attempt_key scopes
          LaneOf,         \* the lane a dispatch is made for
          PipelineLanes,  \* lanes whose identity_version is operation-v2
          NoAttempt       \* the empty pointer

ASSUME LaneAssumption ==
    /\ LaneOf \in [Attempts -> Lanes]
    /\ PipelineLanes \subseteq Lanes
    /\ NoAttempt \notin Attempts

Active == {"prepared", "delivering", "sent"}

Statuses ==
    Active \cup {"succeeded", "failed", "expired", "superseded", "deadlettered"}

FailureClasses == {"none", "lease_expired", "transport", "semantic", "operation", "provider_stop"}

Owners == {"none", "scheduler", "human", "workflow", "run_manager"}

Row == [status    : Statuses \cup {"absent"},
        series    : Nat,
        ordinal   : Nat,
        born      : Nat,
        lapsed    : BOOLEAN,
        class     : FailureClasses,
        retryable : {"unset", "yes", "no"},
        owner     : Owners]

AbsentRow == [status |-> "absent", series |-> 0, ordinal |-> 0, born |-> 0,
              lapsed |-> FALSE, class |-> "none", retryable |-> "unset",
              owner |-> "none"]

(* What _load_unlocked returns when the file does not exist yet.           *)
EmptyRows == [a \in Attempts |-> AbsentRow]
EmptyCurrent == [l \in Lanes |-> NoAttempt]

Known(rows) == {a \in Attempts : rows[a].status # "absent"}

LaneRows(rows, l) == {a \in Known(rows) : LaneOf[a] = l}

IsPipeline(a) == LaneOf[a] \in PipelineLanes

-----------------------------------------------------------------------------
(* ensure_for_dispatch                                                     *)

(* _attempt_order: series, then ordinal, then created_at.                  *)
Precedes(r, s) ==
    \/ r.series < s.series
    \/ r.series = s.series /\ r.ordinal < s.ordinal
    \/ r.series = s.series /\ r.ordinal = s.ordinal /\ r.born < s.born

Latest(rows, l) ==
    CHOOSE a \in LaneRows(rows, l) :
        \A b \in LaneRows(rows, l) \ {a} : Precedes(rows[b], rows[a])

(* Mutant of NextSlot: a retry reuses the slot of the attempt it follows.  *)
NextSlotReused(rows, l) ==
    IF LaneRows(rows, l) = {}
    THEN [series |-> 1, ordinal |-> 1]
    ELSE LET last == rows[Latest(rows, l)]
         IN IF last.status = "succeeded"
            THEN [series |-> last.series + 1, ordinal |-> 1]
            ELSE [series |-> last.series, ordinal |-> last.ordinal]

(* A success opens a new series; anything else counts on in the same one.  *)
NextSlot(rows, l) ==
    IF LaneRows(rows, l) = {}
    THEN [series |-> 1, ordinal |-> 1]
    ELSE LET last == rows[Latest(rows, l)]
         IN IF last.status = "succeeded"
            THEN [series |-> last.series + 1, ordinal |-> 1]
            ELSE [series |-> last.series, ordinal |-> last.ordinal + 1]

(* Mutant of OverBudget: the limit is off by one.                          *)
OverBudgetLate(rows, a, max) ==
    max > 0 /\ NextSlot(rows, LaneOf[a]).ordinal > max + 1

(* TaskAttemptLimitError; max_attempts = 0 means "no limit".               *)
OverBudget(rows, a, max) ==
    max > 0 /\ NextSlot(rows, LaneOf[a]).ordinal > max

(* Mutant of Supersedes: only an attempt not yet claimed is superseded.    *)
SupersedesPrepared(rows, current, a) ==
    {b \in Attempts : b = current[LaneOf[a]] /\ rows[b].status = "prepared"}

(* The row the new attempt replaces, if the code marks it superseded.      *)
Supersedes(rows, current, a) ==
    {b \in Attempts : /\ b = current[LaneOf[a]]
                      /\ rows[b].status \notin {"succeeded", "deadlettered"}}

EnsureRows(rows, current, a, now) ==
    LET slot == NextSlot(rows, LaneOf[a])
    IN [b \in Attempts |->
          IF b = a
          THEN [AbsentRow EXCEPT !.status = "prepared", !.series = slot.series,
                                 !.ordinal = slot.ordinal, !.born = now]
          ELSE IF b \in Supersedes(rows, current, a)
          THEN [rows[b] EXCEPT !.status = "superseded"]
          ELSE rows[b]]

EnsureCurrent(current, a) == [current EXCEPT ![LaneOf[a]] = a]

-----------------------------------------------------------------------------
(* The other writers                                                       *)

ClaimDelivery(rows, a) ==
    IF rows[a].status = "prepared"
    THEN [rows EXCEPT ![a].status = "delivering"]
    ELSE rows

MarkSent(rows, a) ==
    IF rows[a].status \in {"delivering", "sent"}
    THEN [rows EXCEPT ![a].status = "sent"]
    ELSE rows

RenewLease(rows, a) ==
    IF rows[a].status \in Active
    THEN [rows EXCEPT ![a].lapsed = FALSE]
    ELSE rows

(* Mutant of Given: an argument left out erases the field.                 *)
GivenErasing(new, old) == new

(* update() writes the status whatever it was, and a field only when the   *)
(* caller passed one ("" is the argument left out).                        *)
Given(new, old) == IF new = "" THEN old ELSE new

Update(rows, a, status, class, retryable, owner) ==
    IF rows[a].status = "absent"
    THEN rows
    ELSE [rows EXCEPT ![a].status = status,
                      ![a].class = Given(class, @),
                      ![a].retryable = Given(retryable, @),
                      ![a].owner = Given(owner, @)]

(* Mutant of Expiring: an attempt claimed but not marked sent is missed.   *)
ExpiringSent(rows) == {a \in Attempts : rows[a].status = "sent" /\ rows[a].lapsed}

Expiring(rows) == {a \in Attempts : rows[a].status \in Active /\ rows[a].lapsed}

Expire(rows) ==
    [a \in Attempts |->
        IF a \in Expiring(rows)
        THEN [rows[a] EXCEPT !.status = "expired", !.class = "lease_expired",
                             !.retryable = "yes", !.owner = "scheduler"]
        ELSE rows[a]]

-----------------------------------------------------------------------------
(* The readers                                                             *)

(* current_for_attempt: the current row of the lane a supplied id names.   *)
CurrentForAttempt(rows, current, a) ==
    IF rows[a].status = "absent" THEN NoAttempt ELSE current[LaneOf[a]]

(* current_for_task and _select_unambiguous: the only active current row,  *)
(* or the only current row when none is active.                            *)
CurrentForTask(rows, current) ==
    LET heads == {current[l] : l \in Lanes} \ {NoAttempt}
        live  == {a \in heads : rows[a].status \in Active}
    IN IF \E a \in live : live = {a}
       THEN CHOOSE a \in live : TRUE
       ELSE IF live = {} /\ \E a \in heads : heads = {a}
       THEN CHOOSE a \in heads : TRUE
       ELSE NoAttempt

-----------------------------------------------------------------------------
(* What the store promises its callers                                     *)

LiveIsCurrent(rows, current) ==
    \A a \in Attempts : rows[a].status \in Active => current[LaneOf[a]] = a

HeadIsLatest(rows, current) ==
    \A l \in Lanes :
        LET head == current[l]
        IN IF LaneRows(rows, l) = {} THEN head = NoAttempt
           ELSE /\ head \in LaneRows(rows, l)
                /\ \A b \in LaneRows(rows, l) \ {head} :
                    \/ rows[b].series < rows[head].series
                    \/ /\ rows[b].series = rows[head].series
                       /\ rows[b].ordinal < rows[head].ordinal

(* A write that opens no attempt: no row appears, disappears, goes live    *)
(* again or moves to another retry slot.                                   *)
Keeps(old, new) ==
    \A a \in Attempts :
        /\ new[a].status \in Active => old[a].status \in Active
        /\ new[a].status = "prepared" => old[a].status = "prepared"
        /\ (new[a].status = "absent") <=> (old[a].status = "absent")
        /\ new[a].series = old[a].series
        /\ new[a].ordinal = old[a].ordinal
=============================================================================
