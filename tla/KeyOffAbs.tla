------------------------------ MODULE KeyOffAbs -----------------------------
(***************************************************************************)
(* What key-off promises, without counters, references or parity: the run  *)
(* record is only ever dropped as a whole, power is released only once it  *)
(* has been dropped, and only a power cycle ends the powered-down state.   *)
(***************************************************************************)

VARIABLES
  phase,    \* "armed", "saved" (run record dropped) or "down"
  recorded  \* the retained RAM holds a run record (run time not zero)

absVars == <<phase, recorded>>

Init == phase = "armed" /\ recorded = FALSE

\* A running engine accumulates run time; a wrapping word may read zero.
Record ==
  /\ phase = "armed"
  /\ recorded' \in BOOLEAN
  /\ UNCHANGED phase

Save ==
  /\ phase = "armed"
  /\ phase' = "saved" /\ recorded' = FALSE

\* Ignition returns before power is released.
Resume ==
  /\ phase = "saved"
  /\ phase' = "armed"
  /\ UNCHANGED recorded

Release ==
  /\ phase = "saved"
  /\ phase' = "down"
  /\ UNCHANGED recorded

\* A power cycle may come at any time and keeps, drops or overwrites the record.
Restart ==
  /\ phase' = "armed"
  /\ recorded' \in BOOLEAN

Next == Record \/ Save \/ Resume \/ Release \/ Restart

Spec == Init /\ [][Next]_absVars

\* The promise: powered down means nothing of the run is left to resume.
DownIsDropped == phase # "armed" => ~recorded
=============================================================================
