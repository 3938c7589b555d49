---------------------------- MODULE MCStartupFuel ----------------------------
(* TLC instance of StartupFuel.  The turn of segment F comes five interrupts
   after the hand-off, and the quickest start takes six, as 17 against 20. *)
EXTENDS StartupFuel

MCLevels == {1, 2}
MCDelays == {1}
MCRepeats == {1}
MCDecays == {1}
=============================================================================
