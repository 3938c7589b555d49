----------------------------- MODULE MCOutputs --------------------------------
(* TLC instance of Outputs: a round of six interrupts, a capture timer of eight
   values, and every delay, test time and limit cut to one or two passes, but for
   the limit of the low-MAF code, which is the real one. *)
EXTENDS Outputs

MCLimit == [c \in {13, 21, 24, 32, 34, 44, 45} |-> IF c = 34 THEN 1 ELSE 0]
=============================================================================
