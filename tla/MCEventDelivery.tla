-------------------------- MODULE MCEventDelivery --------------------------
(* Three events, told apart by how the watcher treats them.                *)
EXTENDS EventDelivery

CONSTANTS e1, e2, e3
=============================================================================
