-------------------------- MODULE MCTaskAuthority --------------------------
(* One task without blockers, two mutations of its contract.               *)
EXTENDS TaskAuthority

CONSTANTS t1, r1, r2, c1, c2

MCDeps == [t \in Tasks |-> {}]
MCWanted == [r \in Requests |-> IF r = r1 THEN {c1} ELSE {c1, c2}]
=============================================================================
