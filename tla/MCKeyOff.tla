------------------------------ MODULE MCKeyOff ------------------------------
(* TLC instance of KeyOff: every period and threshold scaled down, parities
   and orderings kept. *)
EXTENDS KeyOffRefinement
=============================================================================
