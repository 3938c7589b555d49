-------------------------------- MODULE Outputs -------------------------------
(***************************************************************************)
(* Six units of the major loop: injection air (AirControl), EGR and purge  *)
(* (PurgeEgr), the battery tests (BatteryOutputs), the vehicle speed       *)
(* (RoadSpeed), the temperatures with the fan (Sensors) and the trouble    *)
(* codes (Qualification).                                                  *)
(*                                                                         *)
(* The units share no variable: what one of them reads of another is an    *)
(* input that it may find at any value.  So a behaviour of all is one of   *)
(* each, and it is enough to explore them one at a time: `unit' says which *)
(* one runs, and the others stay as they start.                            *)
(***************************************************************************)
EXTENDS Integers

CONSTANTS
  OpenDelay, DropHold, LoadDrop, HighRpmCount, OxygenTime, LowLoad, HighLoad,
  Loads,                                                  \* AirControl
  Requests,                                               \* PurgeEgr
  Cycle, Seg1, Seg7, SegE, Housekeeping, PowerDown, BurnDelay, BurnTime,
                                                          \* BatteryOutputs
  Ticks, W, NoEdgeLimit, Periods,                         \* RoadSpeed
  Converted, MinOn, LowTime, HighTime,                    \* Sensors
  Limit, Watchable                                        \* Qualification

ASSUME AirAssumption ==
  /\ OpenDelay \in Nat /\ DropHold \in Nat \ {0} /\ LoadDrop \in Nat
  /\ HighRpmCount \in Nat /\ OxygenTime \in Nat \ {0}
  /\ LowLoad \in Nat /\ HighLoad \in Nat
  /\ Loads \subseteq Nat /\ Requests \subseteq 1 .. 255

ASSUME CycleAssumption ==
  /\ Cycle \in Nat /\ Cycle % 2 = 0
  /\ Seg1 \in 0 .. Cycle - 1 /\ Seg7 \in 0 .. Cycle - 1 /\ SegE \in 0 .. Cycle - 1
  /\ Seg1 % 2 = 1 /\ Seg7 % 2 = 1 /\ SegE % 2 = 0 /\ Seg1 # Seg7

\* Delay, burn-off and the pass that ends it fit between housekeeping and the
\* release of power: 61 rounds of 8 odd loops against 893 loops.
ASSUME BurnAssumption ==
  /\ Housekeeping \in Nat /\ BurnDelay \in Nat /\ BurnTime \in Nat \ {0}
  /\ PowerDown \in Nat
  /\ Housekeeping + (BurnDelay + BurnTime + 1) * (Cycle \div 2) <= PowerDown

\* A capture is never a whole turn of the timer behind the edge before it.
ASSUME SpeedAssumption ==
  /\ Ticks \in Nat \ {0} /\ W \in Nat \ {0} /\ NoEdgeLimit \in Nat \ {0}
  /\ Periods \subseteq 1 .. W - 1

ASSUME SensorsAssumption ==
  /\ Converted \subseteq 0 .. 255
  /\ MinOn \in Nat /\ LowTime \in Nat /\ HighTime \in Nat

ASSUME CodesAssumption ==
  /\ Watchable \subseteq {13, 24, 32, 34, 44, 45}
  /\ \A c \in {13, 21, 24, 32, 34, 44, 45} : Limit[c] \in Nat

VARIABLES
  unit, \* the unit that runs
  history, divert, valves, open, drop, rpm, rich, lean, load, aired,
  egr, late, command, least,
  count, raw, ignOff, permitted, timer, running, enabled, barred, high, delay, time,
  wire, driven, down, burn, tardy,
  now, period, due, reg, old, mid, new, moving, noEdge, report, fresh, since, gaps,
  range, filtered, coolant, failed, fan, minOn, lowTimer, highTimer, lowMat,
  highMat, mat, codes, quiet, lowSeen, highSeen,
  test, counts, reported, warm, tpsLow, tpsHigh, mafLow, product, watch, streak, lowMaf

airVars ==
  <<history, divert, valves, open, drop, rpm, rich, lean, load, aired>>
purgeVars == <<egr, late, command, least>>
batteryVars ==
  <<count, raw, ignOff, permitted, timer, running, enabled, barred, high, delay, time,
    wire, driven, down, burn, tardy>>
speedVars ==
  <<now, period, due, reg, old, mid, new, moving, noEdge, report, fresh, since, gaps>>
tempsVars ==
  <<range, filtered, coolant, failed, fan, minOn, lowTimer, highTimer, lowMat,
    highMat, mat, codes, quiet, lowSeen, highSeen>>
codesVars ==
  <<test, counts, reported, warm, tpsLow, tpsHigh, mafLow, product, watch, streak,
    lowMaf>>

Air     == INSTANCE AirControl
Purge   == INSTANCE PurgeEgr
Battery == INSTANCE BatteryOutputs
Speed   == INSTANCE RoadSpeed
Temps   == INSTANCE Sensors
Codes   == INSTANCE Qualification

vars == <<unit, airVars, purgeVars, batteryVars, speedVars, tempsVars, codesVars>>

Init ==
  /\ unit \in {"air", "purge", "battery", "speed", "temps", "codes"}
  /\ Air!Init /\ Purge!Init /\ Battery!Init /\ Speed!Init /\ Temps!Init /\ Codes!Init
  /\ unit # "battery" => raw = "on"
  /\ unit # "codes" => watch = 34

AirStep ==
  /\ unit = "air"
  /\ Air!Next
  /\ UNCHANGED <<unit, purgeVars, batteryVars, speedVars, tempsVars, codesVars>>

PurgeStep ==
  /\ unit = "purge"
  /\ Purge!Next
  /\ UNCHANGED <<unit, airVars, batteryVars, speedVars, tempsVars, codesVars>>

BatteryStep ==
  /\ unit = "battery"
  /\ Battery!Next
  /\ UNCHANGED <<unit, airVars, purgeVars, speedVars, tempsVars, codesVars>>

SpeedStep ==
  /\ unit = "speed"
  /\ Speed!Next
  /\ UNCHANGED <<unit, airVars, purgeVars, batteryVars, tempsVars, codesVars>>

TempsStep ==
  /\ unit = "temps"
  /\ Temps!Next
  /\ UNCHANGED <<unit, airVars, purgeVars, batteryVars, speedVars, codesVars>>

CodesStep ==
  /\ unit = "codes"
  /\ Codes!Next
  /\ UNCHANGED <<unit, airVars, purgeVars, batteryVars, speedVars, tempsVars>>

Next == AirStep \/ PurgeStep \/ BatteryStep \/ SpeedStep \/ TempsStep \/ CodesStep

Spec == Init /\ [][Next]_vars

-----------------------------------------------------------------------------
(* The units' properties. *)

\* Every timer, counter and command of the six units is in its range.
TypeOK ==
  /\ Air!TypeOK /\ Purge!TypeOK /\ Battery!TypeOK /\ Speed!TypeOK /\ Temps!TypeOK
  /\ Codes!TypeOK

\* Once the engine has run in closed loop and lost it, injection air is supplied
\* for at most the open delay (bua_air81).
OpenLoopAirEnds == Air!OpenLoopAirEnds

\* The MAF wire is heated only with the ignition off, after the whole delay, for no
\* more than the burn-off time and never after a battery too high (segment 7).
HeatsWhenEarned == Battery!HeatsWhenEarned

\* When power is released no actuator is left driven for the engine, and the wire
\* is cold unless the burn-off was asked for late (step 111 and segments 1 and 7).
ReleasedQuiet == Battery!ReleasedQuiet

\* Segment 2 works with no shorter a period than the last two times between edges
\* are sure to leave in the captures; a stop of more than a turn of the timer, with
\* or without a power-on in it, is sure to leave nothing.
SpeedIsBounded == Speed!SpeedIsBounded

\* The fan goes off only after its minimum time without a demand, and never after
\* a kept coolant fault (bua_fan79).
FanStaysOn == Temps!FanStaysOn

\* A MAT fault is found only for a MAT on one side for the whole test time, another
\* timed code only for more tests in a row than its limit that did not find its
\* reading in range, and no mixture is both lean and rich (steps 84 and 108).
FaultsEarned == Temps!MatFaultEarned /\ Codes!CodesEarned
=============================================================================
