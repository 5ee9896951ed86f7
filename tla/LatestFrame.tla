---------------------------- MODULE LatestFrame ----------------------------
(***************************************************************************)
(* What the presenter's mailbox promises (ui/presenter.h): "the most       *)
(* up-to-date guest output image without long interlocking".  A consumer   *)
(* always takes the newest complete frame, frames in between are dropped,  *)
(* and what is on the screen never goes back, whichever thread painted it. *)
(***************************************************************************)
EXTENDS Naturals

VARIABLES
    latest,    \* the newest frame published
    taken,     \* the newest frame a consumer has taken
    shown      \* the frame on the screen, 0 for none

Init == latest = 0 /\ taken = 0 /\ shown = 0

Publish == latest' = latest + 1 /\ UNCHANGED <<taken, shown>>

Take == taken' = latest /\ UNCHANGED <<latest, shown>>

Show ==
    /\ \E f \in shown .. taken : shown' = f
    /\ UNCHANGED <<latest, taken>>

\* The surface is gone.
Blank == shown' = 0 /\ UNCHANGED <<latest, taken>>

Next == Publish \/ Take \/ Show \/ Blank

Spec == Init /\ [][Next]_<<latest, taken, shown>>
=============================================================================
