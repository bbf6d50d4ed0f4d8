----------------------------- MODULE TaskBoard -----------------------------
(***************************************************************************)
(* What the task store promises its callers: a task is one record, and an  *)
(* operation on it happens at once or not at all, although update and      *)
(* compare_and_update_contract write up to three files and may be cut off  *)
(* between two of them.                                                    *)
(***************************************************************************)
EXTENDS Naturals

CONSTANTS
    Tasks, Open, Terminal, Contracts,
    NewTask,  \* the record of a task that was just added
    Absent    \* no such task

VARIABLE tasks

Init == tasks = [t \in Tasks |-> Absent]

IsOpen(t)   == tasks[t] # Absent /\ tasks[t].status \in Open
IsClosed(t) == tasks[t] # Absent /\ tasks[t].status \in Terminal

Add(batch) ==
    /\ \A t \in batch : tasks[t] = Absent
    /\ tasks' = [t \in Tasks |-> IF t \in batch THEN NewTask ELSE tasks[t]]

(* An open task gets another status, or is closed as it is.                *)
Move(t, status) ==
    /\ IsOpen(t)
    /\ tasks' = [tasks EXCEPT ![t].status = status]

(* A closed task goes on from its last record, one revision later.         *)
Reopen(t, contract) ==
    /\ IsClosed(t)
    /\ tasks' = [tasks EXCEPT ![t] = [tasks[t] EXCEPT !.status = "backlog",
                                                      !.contract = contract, !.seq = @ + 1]]

Next ==
    \/ \E batch \in SUBSET Tasks : Add(batch)
    \/ \E t \in Tasks, status \in Open \cup Terminal : Move(t, status)
    \/ \E t \in Tasks, contract \in Contracts : Reopen(t, contract)

Spec == Init /\ [][Next]_tasks
=============================================================================
