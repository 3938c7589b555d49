-------------------------- MODULE KeyOffRefinement --------------------------
(* KeyOff implements KeyOffAbs: the phase is read off the latch and the
   key-off timer, the record off the retained run time. *)
EXTENDS KeyOff

absPhase ==
  IF latched THEN "down"
  ELSE IF timer > HousekeepingCount THEN "saved" ELSE "armed"

Abs == INSTANCE KeyOffAbs WITH phase <- absPhase, recorded <- (runtime # 0)

\* Every behaviour of the key-off code is one the abstract protocol allows:
\* power is released only from the saved phase, with the run record gone.
ImplementsAbs == Abs!Spec
=============================================================================
