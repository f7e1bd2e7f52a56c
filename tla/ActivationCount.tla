-------------------------- MODULE ActivationCount --------------------------
(* What the activation counter of the daemon promises the manager that       *)
(* reads its file: the file trails the true total, never runs ahead of it,   *)
(* never goes back but by a reset, and a restart costs only what the file    *)
(* had not been told.                                                        *)
EXTENDS Naturals

VARIABLES total, \* activations counted since the last reset
          shown  \* what the file says

vars == <<total, shown>>

Init == total = 0 /\ shown = 0

Count == total' = total + 1 /\ UNCHANGED shown

Save == shown' \in shown .. total /\ UNCHANGED total

Reset == total' = 0 /\ shown' = 0

Restart == total' = shown /\ UNCHANGED shown

Next == Count \/ Save \/ Reset \/ Restart

Spec == Init /\ [][Next]_vars
=============================================================================
