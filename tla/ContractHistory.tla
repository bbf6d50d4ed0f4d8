-------------------------- MODULE ContractHistory --------------------------
(***************************************************************************)
(* What the contract authority promises those who ask for changes: the     *)
(* revisions of a task are one row of mutations without gaps, each the     *)
(* work of one request and based on the revision before it, and what is    *)
(* reported applied is in that row.                                        *)
(***************************************************************************)
EXTENDS Naturals

CONSTANTS Tasks, Requests

VARIABLES
    revision,  \* the number of mutations a task has had
    history,   \* the mutations: which request made which revision
    applied    \* the requests reported applied

vars == <<revision, history, applied>>

Init == revision = [t \in Tasks |-> 0] /\ history = {} /\ applied = {}

Landed == {m.request : m \in history}

Mutate(r, t) ==
    /\ r \notin Landed
    /\ revision' = [revision EXCEPT ![t] = @ + 1]
    /\ history' = history \cup {[request |-> r, task |-> t, seq |-> revision[t] + 1]}
    /\ UNCHANGED applied

Acknowledge(r) ==
    /\ r \in Landed
    /\ applied' = applied \cup {r}
    /\ UNCHANGED <<revision, history>>

Next == \E r \in Requests : Acknowledge(r) \/ \E t \in Tasks : Mutate(r, t)

Spec == Init /\ [][Next]_vars
=============================================================================
