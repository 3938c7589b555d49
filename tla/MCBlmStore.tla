----------------------------- MODULE MCBlmStore -----------------------------
(* TLC instance of BlmStore: two cells, the trim range scaled to four values
   and the 32-count period to six odd IRQs, tails and segments in order. *)
EXTENDS BlmStore
=============================================================================
