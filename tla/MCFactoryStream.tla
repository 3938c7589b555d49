--------------------------- MODULE MCFactoryStream ---------------------------
(* The stream with tables of 3, 6 and 4 bytes of 2 bits, one factory cycle   *)
(* of 4 counts, and two resets.                                              *)
EXTENDS FactoryStream
=============================================================================
