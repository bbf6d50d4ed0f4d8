---------------------------- MODULE AttemptLanes ----------------------------
(***************************************************************************)
(* What the TaskAttempt store and its runtime promise a lane: an attempt   *)
(* is opened once, which ends the one before it in the same step; it ends  *)
(* for good; and it is handed to a worker after it was opened, and only    *)
(* once where delivery is enforced.                                        *)
(***************************************************************************)
EXTENDS Naturals

CONSTANTS
    Attempts,
    LaneOf,  \* the lane of an attempt
    Once     \* whether a second delivery is refused

VARIABLES
    phase,  \* of each attempt: none, live or ended
    handed  \* how often it was handed to a worker

vars == <<phase, handed>>

Init == phase = [a \in Attempts |-> "none"] /\ handed = [a \in Attempts |-> 0]

Live == {a \in Attempts : phase[a] = "live"}

Begin(a) ==
    /\ phase[a] = "none"
    /\ phase' = [b \in Attempts |->
                   IF b = a THEN "live"
                   ELSE IF b \in Live /\ LaneOf[b] = LaneOf[a] THEN "ended" ELSE phase[b]]
    /\ UNCHANGED handed

(* A sweep ends several attempts at once.                                  *)
End(S) ==
    /\ phase' = [a \in Attempts |-> IF a \in S THEN "ended" ELSE phase[a]]
    /\ UNCHANGED handed

Hand(a) ==
    /\ phase[a] # "none" /\ (Once => handed[a] = 0)
    /\ handed' = [handed EXCEPT ![a] = @ + 1]
    /\ UNCHANGED phase

Next ==
    \/ \E a \in Attempts : Begin(a) \/ Hand(a)
    \/ \E S \in SUBSET Live : End(S)

Spec == Init /\ [][Next]_vars
=============================================================================
