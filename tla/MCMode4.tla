------------------------------- MODULE MCMode4 -------------------------------
(* TLC instance of Mode4: two of the entry commands, a timeout of three
   seconds, and a byte that wraps soon after it. *)
EXTENDS Mode4

SomeCommands == {"errors", "iac"}
=============================================================================
