---------------------------- MODULE MCIacHoming -----------------------------
(* TLC instances of IacHoming.  In a byte of 10 or 16 values the park positions
   5 and 9 keep the two traits of 144 in 256: the top bit is set, and the
   distance from the stop to it does not fit an opening command. *)
EXTENDS IacHoming

\* Anywhere from the closed stop to the end of the modelled range.
Anywhere == 0 .. Stop
=============================================================================
