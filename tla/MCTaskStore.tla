---------------------------- MODULE MCTaskStore ----------------------------
(* Two tasks, the second blocked by the first.                             *)
EXTENDS TaskStore

CONSTANTS t1, t2

MCDeps == [t \in Tasks |-> IF t = t2 THEN {t1} ELSE {}]
=============================================================================
