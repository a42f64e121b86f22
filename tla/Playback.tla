------------------------------ MODULE Playback ------------------------------
(***************************************************************************)
(* What the video output promises to its viewer.  The Total fields of the  *)
(* stream are converted one after the other and pass the display in that   *)
(* order.  The field on display is the next one to pass or the one that    *)
(* passed last, and never an earlier one than before.  The sequence is     *)
(* complete only when every field was converted and has passed; it may be  *)
(* stopped at any time.                                                    *)
(***************************************************************************)
EXTENDS Naturals

CONSTANT Total

VARIABLES converted, passed, shown, outcome

vars == << converted, passed, shown, outcome >>

Init == converted = 0 /\ passed = 0 /\ shown = 0 /\ outcome = "playing"

Convert ==
  /\ converted < Total /\ outcome # "complete"
  /\ converted' = converted + 1
  /\ UNCHANGED << passed, shown, outcome >>

\* The next field goes on display, or the last one that passed stays there.
Show ==
  /\ outcome = "playing"
  /\ shown' \in {passed, passed + 1}
  /\ shown <= shown' /\ shown' <= converted
  /\ UNCHANGED << converted, passed, outcome >>

\* A field leaves the queue: it was on display, or it is skipped.
Pass ==
  /\ passed < converted
  /\ passed' = passed + 1
  /\ UNCHANGED << converted, shown, outcome >>

Complete ==
  /\ outcome = "playing" /\ converted = Total /\ passed = Total
  /\ outcome' = "complete" /\ shown' \in {shown, passed}
  /\ UNCHANGED << converted, passed >>

Stop ==
  /\ outcome = "playing"
  /\ outcome' = "stopped"
  /\ UNCHANGED << converted, passed, shown >>

Next == Convert \/ Show \/ Pass \/ Complete \/ Stop

Spec == Init /\ [][Next]_vars
=============================================================================
