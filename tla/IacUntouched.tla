---------------------------- MODULE IacUntouched ----------------------------
(* IacHoming with a history: whether a tool or the diagnostic jumper has asked
   for anything since the first power-on. *)
EXTENDS IacHoming

VARIABLE untouched \* no Mode-4 request and no diagnostic jumper so far

UntouchedInit == Init /\ untouched = ~diag

UntouchedNext == Next /\ untouched' = (untouched /\ ~mode4' /\ ~diag')

UntouchedSpec ==
  UntouchedInit /\ [][UntouchedNext]_<<vars, untouched>> /\ Fairness

\* When no tool and no jumper has interfered, the release of power always finds the
\* valve parked and marked (step 111), even after a battery that delayed the start
\* of the homing to the first housekeeping loop.
ReleasedUntouched == untouched => ReleasedIsParked
=============================================================================
