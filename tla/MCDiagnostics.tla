---------------------------- MODULE MCDiagnostics ----------------------------
(* TLC instance of Diagnostics: two codes, a masked one and code 51, with the
   thresholds scaled down in order. *)
EXTENDS Diagnostics
=============================================================================
