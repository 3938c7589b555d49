----------------------------- MODULE MCDiagFlash -----------------------------
(* TLC instance of DiagFlash: the masks of the code, errors reported at
   both ends of a word, one with the digit six, one masked out. *)
EXTENDS DiagFlash

\* LC1D0..LC1D4: $F7, $CE, $FF, $E0, $00.
CodeMasks == {2, 3, 4, 5, 7, 8, 9, 10, 11, 14, 15, 16} \cup 18 .. 28

\* Codes 16 (masked out), 23, 36 (first of its word) and 51 (last of it).
SomeErrors == {6, 9, 18, 25}
=============================================================================
