--------------------------- MODULE MCIacUntouched ---------------------------
(* TLC instance of IacUntouched, with the constants of MCIacHoming. *)
EXTENDS MCIacHoming, IacUntouched
=============================================================================
