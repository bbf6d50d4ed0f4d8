--------------------------- MODULE MCTaskAttempts ---------------------------
(* Two dispatches of one task, in a role lane or in an operation-v2 lane.  *)
EXTENDS TaskAttempts

CONSTANTS a1, a2, role, stage, kernel

RoleLane == [a \in Attempts |-> role]
StageLane == [a \in Attempts |-> stage]
=============================================================================
