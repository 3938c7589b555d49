-------------------------------- MODULE Sensors -------------------------------
(***************************************************************************)
(* Two temperature sensors with their fault tests, and the cooling fan:    *)
(* segment 6 reads the coolant, segment 5 (every other round) drives the   *)
(* fan, segment A reads the manifold air temperature (MAT), segment D      *)
(* takes its codes and clears its timers while the engine stands.          *)
(*                                                                         *)
(* One action per pass of a segment; a power-on may come between any two.  *)
(* Converted temperatures are the bytes the thresholds tell apart.         *)
(***************************************************************************)
EXTENDS Integers

CONSTANTS
  Converted, \* converted coolant bytes that occur
  MinOn,     \* passes the fan stays on after the last demand (75)
  LowTime,   \* STEP84_MAT_LOW_TIME (120)
  HighTime   \* STEP84_MAT_HIGH_TIME (120)

\* Bounds of the coolant byte.
RangeUp      == 120 \* above: the 348-ohm range from the next pass on
RangeDown    == 106 \* up to here: the 3840-ohm range
Err14High    == 227 \* STEP85_ERR14_HIGH
CoolDefault  == 135 \* STEP85_COOL_DEFAULT

VARIABLES
  range,    \* $0030 b0: the 348-ohm range
  filtered, \* $003B b4: the coolant filter has its first value
  coolant,  \* high byte of $005B
  failed,   \* $0035 b1: coolant fault
  fan,      \* $00F4 # 0
  minOn,    \* $00F5
  lowTimer, highTimer, \* $00AC and $00AD
  lowMat,   \* $0043 b4
  highMat,  \* $0040 b1
  mat,      \* $0060: "read" or "default"
  codes,    \* $004C b0 and $004D b6: MAT codes 23 and 25 latched for the logger
  quiet,    \* history: fan passes since the last that demanded the fan
  lowSeen,  \* history: passes of segment A in a row, diagnostic delay aside, that
            \* read a low MAT
  highSeen  \* history: the same for a high MAT

coolantVars == <<range, filtered, coolant, failed>>
fanVars     == <<fan, minOn, quiet>>
matVars     == <<lowTimer, highTimer, lowMat, highMat, mat, codes, lowSeen, highSeen>>
vars        == <<coolantVars, fanVars, matVars>>

Least(a, b) == IF a < b THEN a ELSE b

-----------------------------------------------------------------------------
(* Segment 6: bua_cool85_step. *)

\* A raw byte above 250 (ERR15) converts to less than RangeDown in both ranges,
\* and to no more than 22 in the 3840-ohm one.
Samples(use348) ==
  { s \in [byte : Converted, raised : BOOLEAN] :
      s.raised => s.byte <= IF use348 THEN 67 ELSE 22 }

SegmentRange(s) == range' = (s.byte > RangeUp \/ (range /\ s.byte > RangeDown))

Faulty(s) == s.byte >= Err14High \/ s.raised

\* The fault is kept only when the engine has run, the default value always.
CoolantFails(s, runTime) ==
  /\ Faulty(s)
  /\ failed' = (failed \/ runTime > 0)
  /\ coolant' = CoolDefault
  /\ UNCHANGED filtered

\* The lag filter ends somewhere between the old value and the new one.
CoolantReads(s) ==
  /\ ~Faulty(s)
  /\ coolant' \in IF filtered
                  THEN { c \in Converted \cup {coolant, s.byte} :
                           \/ coolant <= c /\ c <= s.byte
                           \/ s.byte <= c /\ c <= coolant }
                  ELSE {s.byte}
  /\ filtered' = TRUE
  /\ UNCHANGED failed

Segment6(s, runTime) ==
  /\ SegmentRange(s)
  /\ CoolantFails(s, runTime) \/ CoolantReads(s)
  /\ UNCHANGED <<fanVars, matVars>>

-----------------------------------------------------------------------------
(* Segment 5: bua_fan79.  acSlow: $0037 b6 is clear below 35 mph; fast: its b7 *)
(* is set above 11 mph.  A running fan lowers its own threshold.               *)

Threshold(fast) ==
  IF fast THEN IF fan THEN 200 ELSE 207 ELSE IF fan THEN 193 ELSE 197

Demand(acSlow, fast) == failed \/ acSlow \/ coolant >= Threshold(fast)

\* Mutant: only a demand that starts the fan arms the timer.
FanDemandedMutant ==
  /\ fan' = TRUE
  /\ minOn' = IF fan THEN Least(minOn, MinOn) ELSE MinOn
  /\ quiet' = 0

FanDemanded == fan' = TRUE /\ minOn' = MinOn /\ quiet' = 0

FanHeld ==
  /\ minOn > 0
  /\ minOn' = minOn - 1
  /\ quiet' = quiet + 1
  /\ UNCHANGED fan

FanReleased ==
  /\ minOn = 0
  /\ fan' = FALSE
  /\ quiet' = 0
  /\ UNCHANGED minOn

Segment5(acSlow, fast) ==
  /\ \/ Demand(acSlow, fast) /\ FanDemanded
     \/ ~Demand(acSlow, fast) /\ (FanHeld \/ FanReleased)
  /\ UNCHANGED <<coolantVars, matVars>>

-----------------------------------------------------------------------------
(* Segment A: bua_mat84_step.  A low MAT counts while the vehicle stands, a     *)
(* high one while it moves; a flag stays until the MAT has left its side.       *)

LowTest(level, moving) ==
  /\ lowTimer' = IF level # "low" THEN 0
                 ELSE IF lowTimer > LowTime THEN lowTimer
                 ELSE IF moving THEN 0 ELSE lowTimer + 1
  /\ lowMat' = (level = "low" /\ (lowMat \/ lowTimer > LowTime))

HighTest(level, moving) ==
  /\ highTimer' = IF level # "high" THEN 0
                  ELSE IF highTimer > HighTime THEN highTimer
                  ELSE IF ~moving THEN 0 ELSE highTimer + 1
  /\ highMat' = (level = "high" /\ (highMat \/ highTimer > HighTime))

\* Before the diagnostic delay, and again when a key-off has reset the run time,
\* the pass stores the reading and leaves timers and flags as they are.
MatUntested ==
  /\ mat' = "read"
  /\ UNCHANGED <<lowTimer, highTimer, lowMat, highMat, codes, lowSeen, highSeen>>

MatTested(level, moving) ==
  /\ LowTest(level, moving)
  /\ HighTest(level, moving)
  /\ mat' = IF lowMat' \/ highMat' THEN "default" ELSE "read"
  /\ codes' = codes \cup (IF lowMat' THEN {23} ELSE IF highMat' THEN {25} ELSE {})
  /\ lowSeen' = IF level = "low" THEN Least(lowSeen + 1, LowTime + 2) ELSE 0
  /\ highSeen' = IF level = "high" THEN Least(highSeen + 1, HighTime + 2) ELSE 0

SegmentA(level, moving, delayed) ==
  /\ IF delayed THEN MatUntested ELSE MatTested(level, moving)
  /\ UNCHANGED <<coolantVars, fanVars>>

-----------------------------------------------------------------------------
(* Segment D: every path of a pass ends with the codes cleared; with the engine *)
(* stopped and the jumper out the front has cleared the timers, not the flags.  *)

SegmentD(stopped, jumper) ==
  /\ codes' = {}
  /\ IF stopped /\ ~jumper
     THEN lowTimer' = 0 /\ highTimer' = 0
     ELSE UNCHANGED <<lowTimer, highTimer>>
  /\ UNCHANGED <<coolantVars, fanVars, lowMat, highMat, mat, lowSeen, highSeen>>

-----------------------------------------------------------------------------

Init ==
  /\ range = FALSE /\ filtered = FALSE
  /\ coolant = 0 /\ failed = FALSE
  /\ fan = FALSE /\ minOn = 0
  /\ lowTimer = 0 /\ highTimer = 0 /\ lowMat = FALSE /\ highMat = FALSE
  /\ mat = "read" /\ codes = {}
  /\ quiet = 0 /\ lowSeen = 0 /\ highSeen = 0

\* Normal startup reads the coolant once, in the 3840-ohm range because $003C b7
\* says that COP2 has not toggled yet, and has the filter start anew after it; a
\* fault is kept at once if the run time is a retained one.  The wait of $C938
\* keeps the cleared RAM.
PowerOnReads ==
  \/ \E s \in Samples(FALSE), runTime \in {0, 1} :
       /\ range' = (s.byte > RangeUp)
       /\ coolant' = IF Faulty(s) THEN CoolDefault ELSE s.byte
       /\ failed' = (Faulty(s) /\ runTime > 0)
  \/ range' = FALSE /\ coolant' = 0 /\ failed' = FALSE

PowerOn ==
  /\ PowerOnReads
  /\ filtered' = FALSE
  /\ fan' = FALSE /\ minOn' = 0
  /\ lowTimer' = 0 /\ highTimer' = 0 /\ lowMat' = FALSE /\ highMat' = FALSE
  /\ mat' = "read" /\ codes' = {}
  /\ quiet' = 0 /\ lowSeen' = 0 /\ highSeen' = 0

Next ==
  \/ \E s \in Samples(range), runTime \in {0, 1} : Segment6(s, runTime)
  \/ \E acSlow, fast \in BOOLEAN : Segment5(acSlow, fast)
  \/ \E level \in {"low", "good", "high"}, moving, delayed \in BOOLEAN :
       SegmentA(level, moving, delayed)
  \/ \E stopped, jumper \in BOOLEAN : SegmentD(stopped, jumper)
  \/ PowerOn

Spec == Init /\ [][Next]_vars

-----------------------------------------------------------------------------
(* Properties. *)

TypeOK ==
  /\ {range, filtered, failed, fan, lowMat, highMat} \subseteq BOOLEAN
  /\ coolant \in 0 .. 255
  /\ minOn \in 0 .. MinOn /\ quiet \in 0 .. MinOn
  /\ lowTimer \in 0 .. LowTime + 1 /\ highTimer \in 0 .. HighTime + 1
  /\ mat \in {"read", "default"} /\ codes \subseteq {23, 25}
  /\ lowSeen \in 0 .. LowTime + 2 /\ highSeen \in 0 .. HighTime + 2

\* The fan goes off only when the whole minimum time has passed without a demand,
\* and never again once a coolant fault has been kept, until the next power-on.
FanStaysOn ==
  [][fan /\ ~fan' => PowerOn \/ (quiet = MinOn /\ ~failed)]_vars

\* A MAT fault is found only for a MAT that every tested pass of the whole test
\* time read on the same side, whatever passes without a test came between.
MatFaultEarned ==
  /\ lowMat => lowSeen > LowTime + 1
  /\ highMat => highSeen > HighTime + 1
=============================================================================
