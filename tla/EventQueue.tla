----------------------------- MODULE EventQueue -----------------------------
(***************************************************************************)
(* The promise of the event log to its one durable consumer: an append-only *)
(* log, a cursor that only moves forward, and no event that must be         *)
(* handled behind the cursor unhandled. Handling twice is allowed.          *)
(***************************************************************************)
EXTENDS Naturals, Sequences

CONSTANTS
    Items,  \* what a line of the log may hold
    Must    \* the items that may not be skipped

VARIABLES log, acked, done

vars == <<log, acked, done>>

Init == log = <<>> /\ acked = 0 /\ done = {}

Publish ==
    /\ \E item \in Items : log' = Append(log, item)
    /\ UNCHANGED <<acked, done>>

(* The consumer handles items of the log and then moves its cursor.        *)
Consume ==
    /\ log' = log
    /\ done \subseteq done' /\ done' \subseteq done \cup {log[i] : i \in DOMAIN log}
    /\ acked <= acked' /\ acked' <= Len(log)
    /\ \A i \in 1..acked' : log[i] \in Must => log[i] \in done'

Next == Publish \/ Consume

Spec == Init /\ [][Next]_vars
=============================================================================
