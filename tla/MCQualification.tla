---------------------------- MODULE MCQualification ---------------------------
(* TLC instance of Qualification for the low-MAF code, with its real limit. *)
EXTENDS Qualification

MCLimit == [c \in Timed |-> IF c = 34 THEN 1 ELSE 0]
=============================================================================
