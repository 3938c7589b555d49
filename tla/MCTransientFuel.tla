--------------------------- MODULE MCTransientFuel ---------------------------
(* TLC instance of TransientFuel: two qualifying passes to enter, three
   disqualified ones of lockout, two pulses, two events. *)
EXTENDS TransientFuel
=============================================================================
