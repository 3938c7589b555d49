---------------------------- MODULE BatteryOutputs ---------------------------
(***************************************************************************)
(* What the battery voltage decides about outputs: segment E turns it into *)
(* ignition on and off, segment 1 releases every actuator when it is high  *)
(* for two passes, and after key-off segment 7 heats the MAF wire for a    *)
(* second to burn it clean, if the odd loop's housekeeping asked for it.   *)
(*                                                                         *)
(* One action per timer interrupt: its odd or even loop, then its segment. *)
(***************************************************************************)
EXTENDS Integers

CONSTANTS
  Cycle,        \* interrupts of one round of the major loop (16)
  Seg1, Seg7, SegE, \* counts of the three segments (1, 7, 14)
  Housekeeping, \* STEP111_HOUSEKEEPING_COUNT (8)
  PowerDown,    \* STEP111_POWERDOWN_COUNT (901)
  BurnDelay,    \* STEP86_BURNOFF_DELAY (50)
  BurnTime      \* STEP86_BURNOFF_TIME (10)

VARIABLES
  count,     \* MINOR_COUNT modulo the round
  raw,       \* $007E as segment E stored it: "off", "between", "on" or "high"
  ignOff,    \* $0033 b4
  permitted, \* $0033 b5: closed loop was reached
  timer,     \* $008B odd loops since ignition off
  running,   \* $0034 b7
  enabled,   \* $003E b6: burn-off asked for
  barred,    \* $003E b4: burn-off forbidden
  high,      \* $0035 b6: the last segment 1 saw a high battery
  delay,     \* $00B8
  time,      \* $00B7
  wire,      \* $3FDA holds $DFFF: the wire is heated
  driven,    \* what holds actuator registers above $D000: "none", "engine"
             \* (or Mode 4), "service" (the field-service jumper, $0041 b7)
  down,      \* sim_soft_powerdown_latched
  burn,      \* history: passes of segment 7 that waited and that heated since
             \* segment E last saw the ignition on
  tardy      \* history: the burn-off was asked for in a later housekeeping loop
             \* than the first, by an engine that caught again after key-off

vars == <<count, raw, ignOff, permitted, timer, running, enabled, barred, high, delay,
          time, wire, driven, down, burn, tardy>>

NextCount == (count + 1) % Cycle
Levels    == {"off", "between", "on", "high"}

-----------------------------------------------------------------------------
(* The odd loop: bua_ignition_shutdown_odd_step111. *)

OddOn ==
  /\ ~ignOff
  /\ timer' = 0
  /\ UNCHANGED <<running, enabled, tardy>>

OddDebounce ==
  /\ ignOff /\ timer < Housekeeping
  /\ timer' = timer + 1
  /\ UNCHANGED <<running, enabled, tardy>>

\* Mutant: a high battery does not forbid the burn-off.
AsksForBurnMutant(stationary) == running /\ permitted /\ stationary

\* A running engine that has been in closed loop, in a vehicle at rest.
AsksForBurn(stationary) == running /\ permitted /\ stationary /\ ~barred

OddHousekeeping ==
  /\ ignOff /\ timer >= Housekeeping /\ timer < PowerDown
  /\ timer' = timer + 1
  /\ running' = FALSE
  /\ \E stationary \in BOOLEAN : enabled' = (enabled \/ AsksForBurn(stationary))
  /\ tardy' = (IF enabled THEN tardy ELSE enabled' /\ timer > Housekeeping)

OddLoop == OddOn \/ OddDebounce \/ OddHousekeeping

\* Power is released: the interrupt ends before its segment.
OddPowerdown ==
  /\ NextCount % 2 = 1
  /\ ignOff /\ timer >= PowerDown
  /\ down' = TRUE
  /\ UNCHANGED <<raw, ignOff, permitted, timer, running, enabled, barred, high, delay,
                 time, wire, driven, burn, tardy>>

-----------------------------------------------------------------------------
(* The segments. *)

\* bua_battery86_seg1_gate.
TooHigh == raw = "high" /\ high

Segment1 ==
  /\ high' = (raw = "high")
  /\ barred' = (barred \/ raw = "high")
  /\ driven' \in
       IF TooHigh THEN {"none"}
       ELSE IF ~running' THEN {"none", "service"}
       ELSE {"none", "engine"}
  /\ UNCHANGED <<delay, time, wire, burn>>

\* The odd loop of the same interrupt may just have asked for it.
Burning == ignOff /\ enabled'

BurnOffIdle ==
  /\ ~Burning
  /\ wire' = FALSE
  /\ UNCHANGED <<delay, time, burn>>

BurnOffWaits ==
  /\ Burning /\ delay > 0
  /\ delay' = delay - 1 /\ wire' = FALSE
  /\ burn' = [burn EXCEPT !.waited = @ + 1]
  /\ UNCHANGED time

BurnOffSpent ==
  /\ Burning /\ delay = 0 /\ time = 0
  /\ wire' = FALSE
  /\ UNCHANGED <<delay, time, burn>>

\* Mutant: the burn-off is not timed.
BurnOffHeatsMutant ==
  /\ Burning /\ delay = 0 /\ time > 0
  /\ wire' = TRUE
  /\ UNCHANGED <<delay, time, burn>>

BurnOffHeats ==
  /\ Burning /\ delay = 0 /\ time > 0
  /\ time' = time - 1 /\ wire' = TRUE
  /\ burn' = [burn EXCEPT !.heated = @ + 1]
  /\ UNCHANGED delay

Segment7 ==
  /\ BurnOffIdle \/ BurnOffWaits \/ BurnOffSpent \/ BurnOffHeats
  /\ UNCHANGED <<high, barred, driven>>

\* bua_battery86_segment_e: at or above the on limit the burn-off is armed anew,
\* below the off limit the ignition is off, between them nothing changes.
IgnitionOn  == raw' \in {"on", "high"}
IgnitionOff == raw' = "off"

SegmentE ==
  /\ raw' \in Levels
  /\ ignOff' = (IgnitionOff \/ (ignOff /\ ~IgnitionOn))
  /\ enabled' = (enabled /\ ~IgnitionOn)
  /\ IF IgnitionOn
     THEN delay' = BurnDelay /\ time' = BurnTime
     ELSE UNCHANGED <<delay, time>>
  /\ burn' = IF IgnitionOn THEN [burn EXCEPT !.waited = 0, !.heated = 0] ELSE burn

\* The interrupts without one of the three segments; among them is segment 5,
\* whose closed-loop entry permits the burn-off.
OtherSegment ==
  /\ permitted' \in {permitted} \cup (IF running THEN {TRUE} ELSE {})
  /\ UNCHANGED <<raw, ignOff, barred, high, delay, time, wire, driven, burn>>

OddIrq ==
  /\ NextCount % 2 = 1
  /\ OddLoop
  /\ \/ NextCount = Seg1 /\ Segment1 /\ UNCHANGED <<raw, ignOff, permitted>>
     \/ NextCount = Seg7 /\ Segment7 /\ UNCHANGED <<raw, ignOff, permitted>>
     \/ NextCount \notin {Seg1, Seg7} /\ OtherSegment
  /\ UNCHANGED down

\* The even loop's reference state may start or stop the engine at any time.
EvenIrq ==
  /\ NextCount % 2 = 0
  /\ running' \in BOOLEAN
  /\ \/ /\ NextCount = SegE /\ SegmentE
        /\ UNCHANGED <<permitted, barred, high, wire, driven>>
     \/ NextCount # SegE /\ OtherSegment /\ UNCHANGED enabled
  /\ UNCHANGED <<timer, down, tardy>>

Irq ==
  /\ ~down
  /\ count' = NextCount
  /\ OddPowerdown \/ OddIrq \/ EvenIrq

\* bua_battery86_segment_e at a power-on that reaches normal startup; the wait
\* of $C938 keeps the cleared RAM.
PowerOn(level, normal) ==
  /\ count' = IF normal THEN SegE ELSE 0
  /\ raw' = level
  /\ ignOff' = (normal /\ level = "off")
  /\ delay' = IF normal /\ level \in {"on", "high"} THEN BurnDelay ELSE 0
  /\ time' = IF normal /\ level \in {"on", "high"} THEN BurnTime ELSE 0
  /\ permitted' = FALSE /\ timer' = 0 /\ running' = FALSE
  /\ enabled' = FALSE /\ barred' = FALSE /\ high' = FALSE
  /\ wire' = FALSE /\ driven' = "none" /\ down' = FALSE
  /\ burn' = [waited |-> 0, heated |-> 0] /\ tardy' = FALSE

Init ==
  /\ count = SegE /\ raw \in Levels
  /\ ignOff = FALSE /\ permitted = FALSE /\ timer = 0 /\ running = FALSE
  /\ enabled = FALSE /\ barred = FALSE /\ high = FALSE
  /\ delay = 0 /\ time = 0 /\ wire = FALSE /\ driven = "none"
  /\ down = FALSE /\ burn = [waited |-> 0, heated |-> 0] /\ tardy = FALSE

Next ==
  \/ Irq
  \/ \E level \in Levels, normal \in BOOLEAN : PowerOn(level, normal)

Spec == Init /\ [][Next]_vars

-----------------------------------------------------------------------------
(* Properties. *)

TypeOK ==
  /\ count \in 0 .. Cycle - 1 /\ raw \in Levels
  /\ ignOff \in BOOLEAN /\ permitted \in BOOLEAN /\ running \in BOOLEAN
  /\ enabled \in BOOLEAN /\ barred \in BOOLEAN /\ high \in BOOLEAN
  /\ timer \in 0 .. PowerDown
  /\ delay \in 0 .. BurnDelay /\ time \in 0 .. BurnTime
  /\ wire \in BOOLEAN /\ driven \in {"none", "engine", "service"}
  /\ down \in BOOLEAN /\ tardy \in BOOLEAN
  /\ burn \in [waited : 0 .. BurnDelay, heated : 0 .. BurnTime]

\* Segment 7 heats the wire with the ignition off only, after the whole delay,
\* for no more than the burn-off time, and never after a battery that was too
\* high since power-on: key flicks, engines that catch again and reports of
\* segment E between two of its passes do not add up to more.
HeatsWhenEarned ==
  [][count' # count /\ count' = Seg7 /\ ~down' /\ wire' =>
       /\ ignOff /\ ~barred
       /\ burn.waited = BurnDelay /\ burn.heated < BurnTime]_vars

\* When the odd loop releases power no actuator is left driven for the engine,
\* and the wire is cold unless the burn-off was asked for late.
ReleasedQuiet == down => driven # "engine" /\ (wire => tardy)
=============================================================================
