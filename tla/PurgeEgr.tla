-------------------------------- MODULE PurgeEgr ------------------------------
(***************************************************************************)
(* Major-loop segments B and C: exhaust gas recirculation and canister     *)
(* purge.  One action per pass; a power-on may come between any two.       *)
(***************************************************************************)
EXTENDS Integers

CONSTANTS Requests \* purge duties the flow table gives (16 .. 255)

VARIABLES
  egr,     \* $0112 # 0
  late,    \* $0001 b4: the engine has run for STEP83_RUN_TIME
  command, \* $0113: filtered purge command
  least    \* $0114: smallest request since the command last reached one

vars == <<egr, late, command, least>>

\* bua_egr82: the throttle must reach the higher threshold to start EGR, the lower
\* one keeps it; throttle 1 lies between them.
SegmentB(qualified, throttle) ==
  /\ egr' = (qualified /\ throttle >= IF egr THEN 1 ELSE 2)
  /\ UNCHANGED <<late, command, least>>

-----------------------------------------------------------------------------
(* bua_purge83. *)

\* bua_lag_filter_8_8 of the command's whole part with coefficient 32, of which
\* the whole part is kept.
Filtered(req) == (32 * req + 224 * command) \div 256

LeastOf(req) == IF command = 0 \/ least = 0 \/ req < least THEN req ELSE least

\* Speed, throttle and flow thresholds are lower while the purge is on; inputs 1
\* lies between them.
Qualified(allowed, inputs) ==
  late' /\ allowed /\ inputs >= IF command > 0 THEN 1 ELSE 2

\* Mutant: a command that has reached the smallest request does not release it.
PurgesMutant(req) ==
  /\ command' = Filtered(req)
  /\ least' = LeastOf(req)

Purges(req) ==
  /\ command' = Filtered(req)
  /\ least' = IF command' >= LeastOf(req) THEN 0 ELSE LeastOf(req)

Shuts == command' = 0 /\ UNCHANGED least

SegmentC(ranLong, allowed, inputs, req) ==
  /\ late' = (late \/ ranLong)
  /\ \/ Qualified(allowed, inputs) /\ Purges(req)
     \/ ~Qualified(allowed, inputs) /\ Shuts
  /\ UNCHANGED egr

Init ==
  /\ egr = FALSE /\ late = FALSE /\ command = 0 /\ least = 0

\* The housekeeping after key-off forgets how long the engine has run.
KeyOffShuts == late' = FALSE /\ UNCHANGED <<egr, command, least>>

\* Power-on clears the RAM from $002E up; $0001 lies below it, and goes with the
\* retained bytes only when these are recovered.
PowerOn ==
  /\ late' \in {late, FALSE}
  /\ egr' = FALSE /\ command' = 0 /\ least' = 0

Next ==
  \/ \E qualified \in BOOLEAN, throttle \in 0 .. 2 : SegmentB(qualified, throttle)
  \/ \E ranLong, allowed \in BOOLEAN, inputs \in 0 .. 2, req \in Requests :
       SegmentC(ranLong, allowed, inputs, req)
  \/ KeyOffShuts
  \/ PowerOn

Spec == Init /\ [][Next]_vars

-----------------------------------------------------------------------------
(* Properties. *)

TypeOK ==
  /\ egr \in BOOLEAN /\ late \in BOOLEAN
  /\ command \in 0 .. 255 /\ least \in Requests \cup {0}
  /\ (least > 0 => command < least)
=============================================================================
