-------------------------- MODULE IacHoming_proofs --------------------------
(***************************************************************************)
(* Proofs about IacHoming for every byte width, park position and timer    *)
(* calibration.                                                            *)
(*                                                                         *)
(* Phases holds whatever a tool does: it bounds what one loop of step      *)
(* commands can have done since the even loop that issued them.  While     *)
(* neither a tool nor the jumper has interfered, InTime ties the work a    *)
(* homing has left to the odd loops that key-off has left.                 *)
(***************************************************************************)
EXTENDS IacUntouched, TLAPS

\* Motor services since the last even minor loop.
Served == IF odd THEN 1 ELSE IF stage = "minor" THEN 2 ELSE 0

FlagsOK ==
  /\ stage \in {"mode4", "motor", "minor"}
  /\ odd \in BOOLEAN /\ latched \in BOOLEAN /\ ignOff \in BOOLEAN
  /\ volts \in BOOLEAN /\ running \in BOOLEAN
  /\ diag \in BOOLEAN /\ diagDone \in BOOLEAN /\ mode4 \in BOOLEAN
  /\ skip \in BOOLEAN /\ closing \in BOOLEAN /\ opening \in BOOLEAN
  /\ motorOn \in BOOLEAN

NumbersOK ==
  /\ timer \in 0 .. PowerdownCount
  /\ pos \in 0 .. Byte - 1 /\ cmd \in 0 .. Byte - 1 /\ pintle \in 0 .. Byte - 1

\* Outside a homing nothing commands the valve; the close phase commands it
\* only toward the stop; the open phase moves count and valve together, and a
\* position forced by a reset cannot come back down within one loop.
Phases ==
  /\ opening => closing
  /\ ~closing => cmd = 0
  /\ closing /\ ~opening =>
       /\ pintle <= pos
       /\ cmd = 0 \/ Byte - 1 - Served <= cmd
  /\ opening =>
       \/ pintle = pos
       \/ pos > Stop /\ (cmd < Half \/ Byte - 1 - Served <= pos)

IInv == FlagsOK /\ NumbersOK /\ Phases

-----------------------------------------------------------------------------
(* Arithmetic of the step commands. *)

LEMMA HalfFacts == Half \in Nat /\ Byte = Half + Half /\ 4 < Half
<1>1. Byte % 2 = 0 /\ Byte \in Nat
  BY PositionAssumption
<1>2. Half \in Nat /\ Byte = Half + Half
  BY <1>1 DEF Half
<1>3. QED
  BY <1>2, PositionAssumption

\* A distance that is zero modulo a byte is zero: the count is at Park.
LEMMA OpeningRange ==
  ASSUME pos \in 0 .. Byte - 1
  PROVE  /\ OpeningCommand \in 0 .. Half - 1
         /\ OpeningCommand = 0 => pos = Park
<1> DEFINE d == (Park - pos) % Byte
<1>1. d = IF pos <= Park THEN Park - pos ELSE Park - pos + Byte
  BY PositionAssumption, HalfFacts
<1>2. d \in 0 .. Byte - 1 /\ (d = 0 => pos = Park)
  BY <1>1, PositionAssumption
<1> HIDE DEF d
<1>3. OpeningCommand = IF d >= Half THEN Half - 1 ELSE d
  BY DEF OpeningCommand, d
<1>4. QED
  BY <1>2, <1>3, HalfFacts

\* At Park the restart initialiser has nothing to command.
LEMMA RestartRests == MoveToPark(Park) = 0
BY PositionAssumption DEF MoveToPark

LEMMA NoStep ==
  ASSUME cmd \in 0 .. Byte - 1, Magnitude(cmd) # 0
  PROVE  cmd # 0
BY HalfFacts DEF Magnitude

-----------------------------------------------------------------------------
(* The invariant holds initially and after every step. *)

LEMMA InitInv == Init => IInv
<1> SUFFICES ASSUME Init PROVE IInv
  OBVIOUS
<1>1. FlagsOK
  BY DEF Init, FlagsOK
<1>2. NumbersOK
  BY PositionAssumption, TimerAssumption, HalfFacts DEF Init, NumbersOK
<1>3. Phases
  BY DEF Init, Phases
<1>4. QED
  BY <1>1, <1>2, <1>3 DEF IInv

LEMMA NextFlags == FlagsOK /\ [Next]_vars => FlagsOK'
<1> SUFFICES ASSUME FlagsOK, [Next]_vars PROVE FlagsOK'
  OBVIOUS
<1> USE DEF FlagsOK
<1>1. CASE Mode4Idle \/ Mode4Exit
  <2>1. stage' \in {"mode4", "motor", "minor"} /\ mode4' \in BOOLEAN
    BY <1>1 DEF Mode4Idle, Mode4Exit, Mode4Step, tool
  <2>2. UNCHANGED <<odd, keyVars, diag, diagDone, homing, motor>>
    BY <1>1 DEF Mode4Idle, Mode4Exit, tool
  <2>3. QED
    BY <2>1, <2>2 DEF keyVars, homing, motor
<1>2. ASSUME NEW iacReset \in BOOLEAN, Mode4Enter(iacReset) PROVE FlagsOK'
  BY <1>2 DEF Mode4Enter, Mode4Step, keyVars, motor
<1>3. CASE MotorStep /\ motorOn' \in BOOLEAN
  BY <1>3 DEF MotorStep, keyVars, tool
<1>4. CASE MotorOff \/ MotorRests \/ MotorEnables \/ MotorClosesStep
             \/ MotorOpensStep
  <2>1. MotorStep
    BY <1>4 DEF MotorOff, MotorRests, MotorEnables, MotorClosesStep,
                MotorOpensStep, MotorMoves
  <2>2. motorOn' \in BOOLEAN
    BY <1>4 DEF MotorOff, MotorRests, MotorEnables, MotorClosesStep,
                MotorOpensStep, motor
  <2>3. QED
    BY <1>3, <2>1, <2>2
<1>5. ASSUME NEW run \in BOOLEAN, Segment3(run)
      PROVE  /\ skip' \in BOOLEAN /\ diag' \in BOOLEAN
             /\ UNCHANGED <<diagDone, mode4>>
  BY <1>5 DEF Segment3
<1>6. ASSUME OddStep, running' \in BOOLEAN, latched' \in BOOLEAN,
             \/ \E run \in BOOLEAN : Segment3(run)
             \/ UNCHANGED <<skip, tool>>
      PROVE  FlagsOK'
  BY <1>5, <1>6 DEF OddStep, motor, tool
<1>7. CASE OddIgnitionOn \/ OddDebounce \/ OddHousekeeping \/ OddPowerdown
  BY <1>6, <1>7 DEF OddIgnitionOn, OddDebounce, OddHousekeeping, OddPowerdown
<1>8. ASSUME EvenStep, diagDone' \in BOOLEAN, skip' \in BOOLEAN,
             closing' \in BOOLEAN, opening' \in BOOLEAN
      PROVE  FlagsOK'
  BY <1>8 DEF EvenStep, BatterySegment, motor
<1>9. CASE HomingIdle \/ HomingStart \/ HomingCloses \/ HomingTurns
             \/ HomingOpens
  BY <1>8, <1>9 DEF HomingIdle, HomingStart, HomingCloses, HomingTurns,
                    HomingOpens, homing
<1>10. CASE HomingCompletes
  BY <1>8, <1>10 DEF HomingCompletes
<1>11. CASE EngineStarts
  BY <1>11 DEF EngineStarts, tool, homing, motor
<1>12. CASE \E recover \in BOOLEAN : PowerCycle(recover)
  BY <1>12 DEF PowerCycle, motor
<1>13. CASE UNCHANGED vars
  BY <1>13 DEF vars
<1>14. QED
  BY <1>1, <1>2, <1>4, <1>7, <1>9, <1>10, <1>11, <1>12, <1>13 DEF Next, Irq

LEMMA NextNumbers == IInv /\ [Next]_vars => NumbersOK'
<1> SUFFICES ASSUME IInv, [Next]_vars PROVE NumbersOK'
  OBVIOUS
<1>0. NumbersOK /\ Phases
  BY DEF IInv
<1> USE DEF NumbersOK
<1>1. CASE Mode4Idle \/ Mode4Exit
  BY <1>0, <1>1 DEF Mode4Idle, Mode4Exit, keyVars, homing, motor
<1>2. ASSUME NEW iacReset \in BOOLEAN, Mode4Enter(iacReset) PROVE NumbersOK'
  BY <1>0, <1>2, HalfFacts DEF Mode4Enter, keyVars, motor
<1>3. CASE MotorOff \/ MotorRests \/ MotorEnables
  BY <1>0, <1>3 DEF MotorOff, MotorRests, MotorEnables, MotorStep, keyVars, motor
<1>4. CASE MotorClosesStep
  BY <1>0, <1>4, NoStep, HalfFacts
     DEF MotorClosesStep, MotorMoves, MotorStep, keyVars
<1>5. CASE MotorOpensStep
  <2>1. cmd # 0 /\ cmd < Half
    BY <1>0, <1>5, NoStep, HalfFacts DEF MotorOpensStep, MotorMoves, Closes
  <2>2. opening
    BY <1>0, <2>1, HalfFacts DEF Phases, Served
  <2>3. pos < Stop => pintle = pos
    BY <1>0, <2>2, PositionAssumption DEF Phases, Stop
  <2>4. QED
    BY <1>0, <1>5, <2>1, <2>3, PositionAssumption
       DEF MotorOpensStep, MotorMoves, MotorStep, keyVars, Stop
<1>6. CASE OddIgnitionOn \/ OddDebounce \/ OddHousekeeping \/ OddPowerdown
  <2>1. UNCHANGED <<pos, cmd, pintle>>
    BY <1>6 DEF OddIgnitionOn, OddDebounce, OddHousekeeping, OddPowerdown,
                OddStep, motor
  <2>2. timer' \in 0 .. PowerdownCount
    <3>1. CASE OddIgnitionOn
      BY <3>1, TimerAssumption DEF OddIgnitionOn
    <3>2. CASE OddDebounce
      BY <1>0, <3>2, TimerAssumption DEF OddDebounce
    <3>3. CASE OddHousekeeping
      BY <1>0, <3>3, TimerAssumption DEF OddHousekeeping
    <3>4. CASE OddPowerdown
      BY <1>0, <3>4 DEF OddPowerdown
    <3>5. QED
      BY <1>6, <3>1, <3>2, <3>3, <3>4
  <2>3. QED
    BY <1>0, <2>1, <2>2
<1>7. CASE HomingIdle \/ HomingStart \/ HomingCloses \/ HomingTurns
  BY <1>0, <1>7, HalfFacts, PositionAssumption
     DEF HomingIdle, HomingStart, HomingCloses, HomingTurns, EvenStep, homing, motor
<1>8. CASE HomingOpens
  BY <1>0, <1>8, HalfFacts, OpeningRange DEF HomingOpens, EvenStep, motor
<1>9. CASE HomingCompletes
  <2>1. pos = Park
    BY <1>0, <1>9, OpeningRange DEF HomingCompletes
  <2>2. cmd' = 0
    BY <1>9, <2>1, RestartRests DEF HomingCompletes
  <2>3. QED
    BY <1>0, <1>9, <2>2, HalfFacts DEF HomingCompletes, EvenStep, motor
<1>10. CASE EngineStarts
  BY <1>0, <1>10 DEF EngineStarts, homing, motor
<1>11. CASE \E recover \in BOOLEAN : PowerCycle(recover)
  BY <1>0, <1>11, PositionAssumption, TimerAssumption, HalfFacts
     DEF PowerCycle, motor
<1>12. CASE UNCHANGED vars
  BY <1>0, <1>12 DEF vars
<1>13. QED
  BY <1>1, <1>2, <1>3, <1>4, <1>5, <1>6, <1>7, <1>8, <1>9, <1>10, <1>11, <1>12
     DEF Next, Irq

LEMMA NextPhases == IInv /\ [Next]_vars => Phases'
<1> SUFFICES ASSUME IInv, [Next]_vars PROVE Phases'
  OBVIOUS
<1>0. FlagsOK /\ NumbersOK /\ Phases
  BY DEF IInv
<1> USE DEF Phases
<1>1. ASSUME UNCHANGED <<closing, opening, pos, cmd, pintle>>,
             UNCHANGED <<Served>>
      PROVE  Phases'
  BY <1>0, <1>1
<1>2. CASE Mode4Idle \/ Mode4Exit \/ EngineStarts
  BY <1>1, <1>2 DEF Mode4Idle, Mode4Exit, Mode4Step, EngineStarts, Served,
                    homing, motor
<1>3. CASE OddIgnitionOn \/ OddDebounce \/ OddHousekeeping \/ OddPowerdown
  <2>1. OddStep
    BY <1>3 DEF OddIgnitionOn, OddDebounce, OddHousekeeping, OddPowerdown
  <2>2. UNCHANGED Served
    BY <2>1 DEF OddStep, Served
  <2>3. QED
    BY <1>1, <2>1, <2>2 DEF OddStep, motor
<1>4. CASE UNCHANGED vars
  BY <1>1, <1>4 DEF vars, Served
<1>5. ASSUME NEW iacReset \in BOOLEAN, Mode4Enter(iacReset) PROVE Phases'
  <2>1. Served' = Served /\ UNCHANGED <<opening, cmd, pintle>>
    BY <1>5 DEF Mode4Enter, Mode4Step, Served, motor
  <2>2. CASE ~iacReset
    BY <1>0, <1>1, <1>5, <2>1, <2>2 DEF Mode4Enter, FlagsOK
  <2>3. CASE iacReset
    <3>1. closing' /\ pos' = Byte - 1
      BY <1>5, <2>3 DEF Mode4Enter
    <3>2. Served \in 0 .. 2
      BY DEF Served
    <3>3. QED
      BY <1>0, <2>1, <3>1, <3>2, HalfFacts, PositionAssumption
         DEF NumbersOK, Stop
  <2>4. QED
    BY <2>2, <2>3
\* A motor service is one more service since the even loop.
<1>6. ASSUME MotorStep
      PROVE  /\ UNCHANGED <<closing, opening>>
             /\ Served \in 0 .. 1 /\ Served' = Served + 1
  <2>1. UNCHANGED <<closing, opening>>
    BY <1>6 DEF MotorStep
  <2>2. Served \in 0 .. 1 /\ Served' = Served + 1
    <3>1. stage = "motor" /\ stage' = "minor" /\ odd \in BOOLEAN /\ odd' = ~odd
      BY <1>0, <1>6 DEF MotorStep, FlagsOK
    <3>2. Served = (IF odd THEN 1 ELSE 0) /\ Served' = (IF odd' THEN 1 ELSE 2)
      BY <3>1, Zenon DEF Served
    <3>3. odd' = IF odd THEN FALSE ELSE TRUE
      BY <3>1
    <3>4. CASE odd
      <4>1. Served = 1 /\ Served' = 2
        BY <3>2, <3>3, <3>4, Zenon
      <4>2. QED
        BY <4>1
    <3>5. CASE ~odd
      <4>1. Served = 0 /\ Served' = 1
        BY <3>2, <3>3, <3>5, Zenon
      <4>2. QED
        BY <4>1
    <3>6. QED
      BY <3>4, <3>5
  <2>3. QED
    BY <2>1, <2>2
<1>7. CASE MotorOff \/ MotorRests \/ MotorEnables
  BY <1>0, <1>6, <1>7, HalfFacts DEF MotorOff, MotorRests, MotorEnables, motor,
                                     NumbersOK
<1>8. CASE MotorClosesStep
  <2>1. cmd # 0 /\ Half <= cmd /\ cmd' = cmd - 1
    BY <1>0, <1>8, NoStep DEF MotorClosesStep, MotorMoves, Closes, NumbersOK
  <2>2. /\ pos' = IF pos # 0 THEN pos - 1 ELSE 0
        /\ pintle' = IF pintle # 0 THEN pintle - 1 ELSE 0
    BY <1>8 DEF MotorClosesStep
  <2>3. MotorStep
    BY <1>8 DEF MotorClosesStep, MotorMoves
  <2>4. QED
    BY <1>0, <1>6, <2>1, <2>2, <2>3, HalfFacts, PositionAssumption
       DEF NumbersOK, Stop
<1>9. CASE MotorOpensStep
  <2>1. cmd # 0 /\ cmd < Half /\ cmd' = cmd - 1
    BY <1>0, <1>9, NoStep, HalfFacts
       DEF MotorOpensStep, MotorMoves, Closes, NumbersOK
  <2>2. IF pos < Stop THEN pos' = pos + 1 /\ pintle' = pintle + 1
                      ELSE UNCHANGED <<pos, pintle>>
    BY <1>9 DEF MotorOpensStep
  <2>3. MotorStep
    BY <1>9 DEF MotorOpensStep, MotorMoves
  <2>4. opening
    BY <1>0, <1>6, <2>1, <2>3, HalfFacts DEF NumbersOK
  <2>5. QED
    BY <1>0, <1>6, <2>1, <2>2, <2>3, <2>4, HalfFacts, PositionAssumption
       DEF NumbersOK, Stop
\* An even loop starts the count of services again.
<1>10. ASSUME EvenStep PROVE Served' = 0 /\ UNCHANGED pintle
  BY <1>10 DEF EvenStep, Served, motor
<1>11. CASE HomingIdle
  BY <1>0, <1>10, <1>11 DEF HomingIdle, homing, Requested
<1>12. CASE HomingStart
  BY <1>0, <1>10, <1>12, HalfFacts DEF HomingStart, NumbersOK
<1>13. CASE HomingCloses
  BY <1>0, <1>10, <1>13, HalfFacts DEF HomingCloses, NumbersOK
<1>14. CASE HomingTurns
  BY <1>0, <1>10, <1>14 DEF HomingTurns, NumbersOK
<1>15. CASE HomingOpens
  <2>1. cmd' < Half
    BY <1>0, <1>15, OpeningRange, HalfFacts DEF HomingOpens, NumbersOK
  <2>2. QED
    BY <1>0, <1>10, <1>15, <2>1 DEF HomingOpens
<1>16. CASE HomingCompletes
  <2>1. pos = Park /\ cmd' = 0
    BY <1>0, <1>16, OpeningRange, RestartRests DEF HomingCompletes, NumbersOK
  <2>2. QED
    <3>1. opening /\ closing /\ pintle = pos
      BY <1>0, <1>16, <2>1, PositionAssumption DEF HomingCompletes, Stop
    <3>2. UNCHANGED <<pos, pintle>> /\ cmd' < Half
      BY <1>10, <1>16, <2>1, HalfFacts DEF HomingCompletes
    <3>3. CASE ignOff
      BY <1>16, <3>1, <3>2, <3>3 DEF HomingCompletes
    <3>4. CASE ~ignOff
      BY <1>16, <2>1, <3>2, <3>4 DEF HomingCompletes
    <3>5. QED
      BY <3>3, <3>4
<1>17. CASE \E recover \in BOOLEAN : PowerCycle(recover)
  BY <1>17 DEF PowerCycle
<1>18. QED
  BY <1>2, <1>3, <1>4, <1>5, <1>7, <1>8, <1>9, <1>11, <1>12, <1>13, <1>14,
     <1>15, <1>16, <1>17 DEF Next, Irq

LEMMA Invariant == Spec => []IInv
<1>1. IInv /\ [Next]_vars => IInv'
  BY NextFlags, NextNumbers, NextPhases DEF IInv
<1>2. QED
  BY InitInv, <1>1, PTL DEF Spec

\* Every variable keeps its type, the eight-bit ones their width.
THEOREM TypeCorrect == Spec => []TypeOK
<1>1. IInv => TypeOK
  BY DEF IInv, FlagsOK, NumbersOK, TypeOK
<1>2. QED
  BY Invariant, <1>1, PTL

\* The close phase cannot end before the valve is at its stop.
THEOREM CloseReachesStop == Spec => []CountCoversValve
<1>1. IInv => CountCoversValve
  BY DEF IInv, Phases, CountCoversValve
<1>2. QED
  BY Invariant, <1>1, PTL

\* The open phase is exact unless a reset has pushed the count out of range.
THEOREM OpenIsExact == Spec => []OpenPhaseExact
<1>1. IInv => OpenPhaseExact
  BY DEF IInv, Phases, OpenPhaseExact
<1>2. QED
  BY Invariant, <1>1, PTL

\* The believed position can be trusted in both phases.
THEOREM BelievedCanBeTrusted == Spec => []BelievedIsReal
  <1>1. CountCoversValve /\ OpenPhaseExact => BelievedIsReal
    BY DEF BelievedIsReal
  <1> QED
    BY <1>1, CloseReachesStop, OpenIsExact, PTL

\* The parked mark is only set with count and valve at the park position.
THEOREM MarkMeansParked == Spec => MarkedOnlyParked
<1>1. IInv /\ [Next]_vars => (~skip /\ skip' => pos' = Park /\ pintle' = Park)
  <2> SUFFICES ASSUME IInv, [Next]_vars, ~skip, skip'
               PROVE  pos' = Park /\ pintle' = Park
    OBVIOUS
  <2>1. HomingCompletes
    BY DEF Next, Irq, vars, Mode4Idle, Mode4Enter, Mode4Exit, MotorOff,
           MotorRests, MotorEnables, MotorClosesStep, MotorOpensStep, MotorMoves,
           MotorStep, OddIgnitionOn, OddDebounce, OddHousekeeping, OddPowerdown,
           Segment3, HomingIdle, HomingStart, HomingCloses, HomingTurns,
           HomingOpens, EngineStarts, PowerCycle, homing
  <2>2. NumbersOK /\ Phases
    BY DEF IInv
  <2>3. pos = Park /\ opening /\ UNCHANGED <<pos, pintle>>
    BY <2>1, <2>2, OpeningRange DEF HomingCompletes, NumbersOK, EvenStep, motor
  <2>4. pintle = pos
    BY <2>2, <2>3, PositionAssumption DEF Phases, Stop
  <2>5. QED
    BY <2>3, <2>4
<1>2. QED
  BY Invariant, <1>1, PTL DEF Spec, MarkedOnlyParked

-----------------------------------------------------------------------------
(* Power is released only when the valve is parked.  Without a tool nothing
   restarts a homing, so the work it has left, in motor services, can be read
   off the state and compared with the services key-off still grants. *)

Tight ==
  /\ ~diag /\ ~mode4
  /\ skip => pos = Park /\ pintle = Park /\ cmd = 0 /\ (closing => opening)
  /\ closing /\ ~opening => Byte - 1 - Served <= cmd
  /\ opening =>
       /\ pintle = pos /\ pos <= Park
       /\ cmd >= Half => pos = 0
       /\ cmd < Half => /\ cmd <= Park - pos
                        /\ cmd = Park - pos \/ Half - 1 - Served <= cmd

\* Motor services since the last odd minor loop.
SinceOdd == IF odd THEN (IF stage = "minor" THEN 2 ELSE 0) ELSE 1

Enabling == IF motorOn THEN 0 ELSE 1

\* The wait for the next even loop, the close phase from the largest count, the
\* loop spent at the stop and the open phase; a phase may end one service early.
Work ==
  IF ~closing THEN 2 - Served + Byte + 2 + Park + 1 + Enabling
  ELSE IF ~opening
       THEN (IF pos > 0 THEN pos + 1 ELSE 2 - Served) + 2 + Park + 1 + Enabling
  ELSE IF cmd >= Half THEN 2 - Served + Park + 1 + Enabling
  ELSE IF pos < Park THEN Park - pos + 1 + Enabling
  ELSE 2 - Served

Budget == 2 * (PowerdownCount - timer) - SinceOdd

Timely ==
  /\ timer > HousekeepingCount => ~running
  /\ timer > 0 /\ (odd <=> stage # "minor") => ignOff
  /\ latched => skip /\ stage = "mode4"
  /\ timer > HousekeepingCount /\ ignOff /\ ~skip => Work <= Budget

LEMMA ServedRange == Served \in 0 .. 2 /\ SinceOdd \in 0 .. 2 /\ Enabling \in 0 .. 1
BY DEF Served, SinceOdd, Enabling

LEMMA MagnitudeFacts ==
  ASSUME cmd \in 0 .. Byte - 1
  PROVE  /\ cmd < Half => Magnitude(cmd) = cmd
         /\ Byte - 3 <= cmd => Magnitude(cmd) # 0
         /\ Magnitude(Half) = 0
<1>1. ASSUME NEW c \in Nat, c < Half PROVE c % Half = c
  BY <1>1, HalfFacts
<1>2. ASSUME NEW c \in Nat, Half <= c, c < Half + Half PROVE c % Half = c - Half
  BY <1>2, HalfFacts
<1>3. cmd < Half => Magnitude(cmd) = cmd
  BY <1>1 DEF Magnitude
<1>4. Byte - 3 <= cmd => Magnitude(cmd) # 0
  BY <1>2, HalfFacts DEF Magnitude
<1>5. Magnitude(Half) = 0
  BY <1>2, HalfFacts DEF Magnitude
<1>6. QED
  BY <1>3, <1>4, <1>5

LEMMA MotorCounts ==
  ASSUME FlagsOK, MotorStep
  PROVE  Served' = Served + 1 /\ SinceOdd' = SinceOdd + 1 /\ Served \in 0 .. 1
<1>1. stage = "motor" /\ stage' = "minor" /\ odd \in BOOLEAN /\ odd' = ~odd
  BY DEF MotorStep, FlagsOK
<1>2. odd' = IF odd THEN FALSE ELSE TRUE
  BY <1>1
<1>3. CASE odd
  <2>1. Served = 1 /\ Served' = 2 /\ SinceOdd = 0 /\ SinceOdd' = 1
    BY <1>1, <1>2, <1>3, Zenon DEF Served, SinceOdd
  <2>2. QED
    BY <2>1
<1>4. CASE ~odd
  <2>1. Served = 0 /\ Served' = 1 /\ SinceOdd = 1 /\ SinceOdd' = 2
    BY <1>1, <1>2, <1>4, Zenon DEF Served, SinceOdd
  <2>2. QED
    BY <2>1
<1>5. QED
  BY <1>3, <1>4

LEMMA InitTight == Init => Tight /\ Timely
<1> SUFFICES ASSUME Init PROVE Tight /\ Timely
  OBVIOUS
<1>1. Tight
  BY DEF Init, Tight
<1>2. Timely
  BY TimerAssumption DEF Init, Timely
<1>3. QED
  BY <1>1, <1>2

\* A step after which neither a Mode-4 request nor the diagnostic jumper stands.
Untouching == [Next]_vars /\ ~mode4' /\ ~diag'

LEMMA NextTight == IInv /\ Tight /\ Untouching => Tight'
<1> SUFFICES ASSUME IInv, Tight, [Next]_vars, ~mode4', ~diag' PROVE Tight'
  BY DEF Untouching
<1>0. FlagsOK /\ NumbersOK /\ Phases
  BY DEF IInv
<1>1. ASSUME UNCHANGED <<closing, opening, pos, cmd, pintle, Served>>,
             skip' => skip, ~diag', ~mode4'
      PROVE  Tight'
  BY <1>1 DEF Tight
<1>2. CASE Mode4Idle \/ EngineStarts
  BY <1>1, <1>2 DEF Mode4Idle, Mode4Step, EngineStarts, Served, homing, motor,
                    tool, Tight
<1>3. ~Mode4Exit /\ \A iacReset \in BOOLEAN : ~Mode4Enter(iacReset)
  BY DEF Mode4Exit, Mode4Enter, Tight
<1>4. CASE OddIgnitionOn \/ OddDebounce \/ OddHousekeeping \/ OddPowerdown
  <2>1. OddStep
    BY <1>4 DEF OddIgnitionOn, OddDebounce, OddHousekeeping, OddPowerdown
  <2>2. UNCHANGED Served
    BY <2>1 DEF OddStep, Served
  <2>3. ASSUME NEW run \in BOOLEAN, Segment3(run)
        PROVE  (skip' => skip) /\ ~diag' /\ ~mode4'
    <3>1. skip' = skip \/ skip' = (skip /\ ~run)
      BY <2>3 DEF Segment3
    <3>2. skip' => skip
      BY <3>1, Zenon
    <3>3. QED
      BY <3>2
  <2>4. (skip' => skip) /\ ~diag' /\ ~mode4'
    <3>1. CASE OddPowerdown
      BY <3>1 DEF OddPowerdown, Tight, tool
    <3>2. CASE ~OddPowerdown
      BY <1>0, <1>4, <2>3, <3>2
         DEF OddIgnitionOn, OddDebounce, OddHousekeeping, FlagsOK
    <3>3. QED
      BY <3>1, <3>2
  <2>5. QED
    BY <1>1, <2>1, <2>2, <2>4 DEF OddStep, motor
<1>5. CASE UNCHANGED vars
  BY <1>1, <1>5 DEF vars, Served, Tight
<1>6. ASSUME MotorStep
      PROVE  /\ UNCHANGED <<closing, opening, skip>> /\ ~diag' /\ ~mode4'
             /\ Served \in 0 .. 1 /\ Served' = Served + 1
  BY <1>0, <1>6, MotorCounts DEF MotorStep, Tight, tool
<1>7. CASE MotorOff \/ MotorRests \/ MotorEnables
  <2>1. MotorStep /\ UNCHANGED <<pos, cmd, pintle>>
    BY <1>7 DEF MotorOff, MotorRests, MotorEnables, motor
  <2>2. QED
    BY <1>0, <1>6, <2>1, HalfFacts DEF Tight, NumbersOK
<1>8. CASE MotorClosesStep
  <2>1. MotorStep /\ Half < cmd /\ cmd' = cmd - 1
    BY <1>0, <1>8, MagnitudeFacts, HalfFacts
       DEF MotorClosesStep, MotorMoves, Closes, NumbersOK
  <2>2. /\ pos' = IF pos # 0 THEN pos - 1 ELSE 0
        /\ pintle' = IF pintle # 0 THEN pintle - 1 ELSE 0
    BY <1>8 DEF MotorClosesStep
  <2>3. ~skip
    BY <2>1, HalfFacts DEF Tight
  <2>4. QED
    BY <1>0, <1>6, <2>1, <2>2, <2>3, HalfFacts, PositionAssumption
       DEF Tight, NumbersOK
<1>9. CASE MotorOpensStep
  <2>1. MotorStep /\ cmd # 0 /\ cmd < Half /\ cmd' = cmd - 1
    BY <1>0, <1>9, NoStep, HalfFacts
       DEF MotorOpensStep, MotorMoves, Closes, NumbersOK
  <2>2. opening
    BY <1>0, <1>6, <2>1, HalfFacts DEF Tight, Phases, NumbersOK
  <2>3. ~skip /\ pos < Park
    BY <1>0, <2>1, <2>2, PositionAssumption, HalfFacts DEF Tight, NumbersOK
  <2>4. pos' = pos + 1 /\ pintle' = pintle + 1
    BY <1>0, <1>9, <2>3, PositionAssumption DEF MotorOpensStep, Stop, NumbersOK
  <2>5. QED
    BY <1>0, <1>6, <2>1, <2>2, <2>3, <2>4, HalfFacts, PositionAssumption
       DEF Tight, NumbersOK
<1>10. ASSUME EvenStep PROVE Served' = 0 /\ UNCHANGED pintle /\ ~diag' /\ ~mode4'
  BY <1>10 DEF EvenStep, Served, motor, Tight
<1>11. CASE HomingIdle
  <2>1. ~closing /\ ~opening /\ UNCHANGED <<skip, closing, opening, pos, cmd>>
    BY <1>0, <1>11 DEF HomingIdle, homing, Requested, Phases
  <2>2. QED
    BY <1>10, <1>11, <2>1 DEF HomingIdle, Tight
<1>12. CASE HomingStart
  <2>1. ~skip
    BY <1>12 DEF HomingStart, Requested, Tight
  <2>2. QED
    BY <1>0, <1>10, <1>12, <2>1, HalfFacts DEF HomingStart, Tight
<1>13. CASE HomingCloses
  BY <1>0, <1>10, <1>13, HalfFacts DEF HomingCloses, Tight, NumbersOK
<1>14. CASE HomingTurns
  <2>1. ~skip /\ pintle = 0 /\ pos = 0
    BY <1>0, <1>14 DEF HomingTurns, Tight, NumbersOK, Phases
  <2>2. QED
    BY <1>0, <1>10, <1>14, <2>1, HalfFacts, PositionAssumption
       DEF HomingTurns, Tight, NumbersOK
<1>15. CASE HomingOpens
  <2>1. pos < Park
    <3>1. pos <= Park
      BY <1>15 DEF HomingOpens, Tight
    <3>2. pos # Park
      BY <1>15, HalfFacts, PositionAssumption DEF HomingOpens, OpeningCommand
    <3>3. QED
      BY <1>0, <3>1, <3>2, PositionAssumption DEF NumbersOK
  <2>2. /\ cmd' \in Nat /\ cmd' < Half /\ cmd' <= Park - pos
        /\ cmd' = Park - pos \/ Half - 1 <= cmd'
    <3>1. (Park - pos) % Byte = Park - pos
      BY <1>0, <2>1, HalfFacts, PositionAssumption DEF NumbersOK
    <3>2. cmd' = IF Park - pos >= Half THEN Half - 1 ELSE Park - pos
      BY <1>15, <3>1 DEF HomingOpens, OpeningCommand
    <3>3. QED
      BY <1>0, <2>1, <3>2, HalfFacts, PositionAssumption DEF NumbersOK
  <2>3. ~skip
    BY <1>0, <2>1, PositionAssumption DEF Tight, NumbersOK
  <2>4. QED
    <3>1. /\ UNCHANGED <<skip, closing, opening, pos>> /\ opening
          /\ EvenStep
      BY <1>15 DEF HomingOpens
    <3>2. QED
      BY <1>0, <1>10, <2>1, <2>2, <2>3, <3>1, HalfFacts DEF Tight, NumbersOK
<1>16. CASE HomingCompletes
  <2>1. pos = Park /\ cmd' = 0 /\ opening /\ pintle = pos /\ UNCHANGED pos
    BY <1>0, <1>16, OpeningRange, RestartRests
       DEF HomingCompletes, NumbersOK, Tight
  <2>2. (closing' => opening') /\ (opening' => opening)
    BY <1>0, <1>16 DEF HomingCompletes, Phases
  <2>3. QED
    BY <1>0, <1>10, <1>16, <2>1, <2>2, HalfFacts, PositionAssumption
       DEF HomingCompletes, Tight
<1>17. CASE \E recover \in BOOLEAN : PowerCycle(recover)
  BY <1>17, PositionAssumption DEF PowerCycle, Tight, motor
<1>18. QED
  BY <1>2, <1>3, <1>4, <1>5, <1>7, <1>8, <1>9, <1>11, <1>12, <1>13, <1>14,
     <1>15, <1>16, <1>17 DEF Next, Irq

LEMMA OneLess ==
  ASSUME NEW p \in Nat, NEW b \in Nat, NEW s \in 0 .. 1, NEW e \in 0 .. 1,
         NEW f \in 0 .. 1, f = e \/ f = e - 1
  PROVE  /\ 2 - (s + 1) + b + 2 + p + 1 + f <= (2 - s + b + 2 + p + 1 + e) - 1
         /\ 2 - (s + 1) + p + 1 + f <= (2 - s + p + 1 + e) - 1
  OBVIOUS

\* With the engine stopped every motor service does a unit of the work left.
LEMMA MotorWorks ==
  ASSUME FlagsOK, NumbersOK, Phases, Tight, ~running, ~skip,
         MotorOff \/ MotorRests \/ MotorEnables \/ MotorClosesStep \/ MotorOpensStep
  PROVE  Work' <= Work - 1
<1>0. Byte \in Nat /\ Park \in Nat
  BY PositionAssumption
<1>1. MotorStep
  BY DEF MotorOff, MotorRests, MotorEnables, MotorClosesStep, MotorOpensStep,
         MotorMoves
<1>2. Served \in 0 .. 1 /\ Served' = Served + 1
  BY <1>1, MotorCounts
<1>3. UNCHANGED <<closing, opening>>
  BY <1>1 DEF MotorStep
<1>4. Enabling \in 0 .. 1 /\ Enabling' \in 0 .. 1
  BY DEF Enabling
<1>5. ~MotorOff
  BY DEF MotorOff, Gated
<1>6. ASSUME MotorRests
      PROVE  Magnitude(cmd) = 0 /\ UNCHANGED <<pos, cmd, Enabling>>
  BY <1>6 DEF MotorRests, motor, Enabling
<1>7. ASSUME MotorEnables
      PROVE  UNCHANGED <<pos, cmd>> /\ Enabling' = Enabling - 1
  <2>1. UNCHANGED <<pos, cmd>> /\ ~motorOn /\ motorOn'
    BY <1>7 DEF MotorEnables
  <2>2. Enabling = 1 /\ Enabling' = 0
    BY <2>1, Zenon DEF Enabling
  <2>3. QED
    BY <2>1, <2>2
<1>8. ASSUME MotorClosesStep
      PROVE  /\ Half <= cmd /\ Magnitude(cmd) # 0 /\ cmd' = cmd - 1
             /\ pos' = (IF pos # 0 THEN pos - 1 ELSE 0) /\ Enabling' = Enabling
  BY <1>8 DEF MotorClosesStep, MotorMoves, Closes, Enabling
<1>9. ASSUME MotorOpensStep
      PROVE  /\ cmd < Half /\ cmd # 0 /\ cmd' = cmd - 1 /\ Enabling' = Enabling
             /\ pos' = (IF pos < Stop THEN pos + 1 ELSE pos)
  BY <1>9, NoStep, HalfFacts
     DEF MotorOpensStep, MotorMoves, Closes, Enabling, NumbersOK
<1>10. CASE ~closing
  <2>1. cmd = 0 /\ Magnitude(cmd) = 0
    BY <1>10, MagnitudeFacts, HalfFacts DEF Phases, NumbersOK
  <2>2. Work = 2 - Served + Byte + 2 + Park + 1 + Enabling
    BY <1>10 DEF Work
  <2>3. Work' = 2 - Served' + Byte + 2 + Park + 1 + Enabling'
    BY <1>3, <1>10 DEF Work
  <2>4. Enabling' = Enabling \/ Enabling' = Enabling - 1
    <3>1. MotorRests
      BY <1>5, <1>8, <1>9, <2>1, NoStep
         DEF MotorEnables, MotorClosesStep, MotorOpensStep, MotorMoves, NumbersOK
    <3>2. QED
      BY <1>4, <1>6, <3>1
  <2>5. QED
    BY <1>0, <1>2, <1>4, <2>2, <2>3, <2>4, OneLess
<1>11. CASE closing /\ ~opening
  <2>1. Byte - 3 <= cmd /\ Magnitude(cmd) # 0 /\ Half <= cmd
    BY <1>2, <1>11, MagnitudeFacts, HalfFacts DEF Tight, NumbersOK
  <2>2. MotorEnables \/ MotorClosesStep
    BY <1>5, <1>6, <1>9, <2>1, HalfFacts DEF NumbersOK
  <2>3. Work = (IF pos > 0 THEN pos + 1 ELSE 2 - Served) + 2 + Park + 1 + Enabling
    BY <1>11 DEF Work
  <2>4. Work' = (IF pos' > 0 THEN pos' + 1 ELSE 2 - Served') + 2 + Park + 1 + Enabling'
    BY <1>3, <1>11 DEF Work
  <2>5. CASE MotorEnables
    BY <1>2, <1>4, <1>7, <2>3, <2>4, <2>5, PositionAssumption DEF NumbersOK
  <2>6. CASE MotorClosesStep
    BY <1>2, <1>4, <1>8, <2>3, <2>4, <2>6, PositionAssumption DEF NumbersOK
  <2>7. QED
    BY <2>2, <2>5, <2>6
<1>12. CASE closing /\ opening /\ cmd >= Half
  <2>1. Work = 2 - Served + Park + 1 + Enabling
    BY <1>12 DEF Work
  <2>2. pos = 0
    BY <1>12 DEF Tight
  <2>3. pos' = 0 /\ cmd' >= Half /\ (Enabling' = Enabling \/ Enabling' = Enabling - 1)
    <3>1. CASE MotorClosesStep
      <4>1. cmd # Half
        BY <1>8, <3>1, MagnitudeFacts DEF NumbersOK
      <4>2. QED
        BY <1>4, <1>8, <1>12, <2>2, <3>1, <4>1, HalfFacts DEF NumbersOK
    <3>2. CASE MotorRests \/ MotorEnables
      BY <1>4, <1>6, <1>7, <1>12, <2>2, <3>2
    <3>3. ~MotorOpensStep
      BY <1>9, <1>12, HalfFacts DEF NumbersOK
    <3>4. QED
      BY <1>5, <3>1, <3>2, <3>3
  <2>4. Work' = 2 - Served' + Park + 1 + Enabling'
    <3>1. closing' /\ opening'
      BY <1>3, <1>12
    <3>2. QED
      BY <2>3, <3>1 DEF Work
  <2>5. Enabling' = Enabling \/ Enabling' = Enabling - 1
    BY <2>3
  <2>6. QED
    BY <1>0, <1>2, <1>4, <2>1, <2>4, <2>5, OneLess
<1>13. CASE closing /\ opening /\ cmd < Half
  <2>1. ~(cmd >= Half) /\ pos <= Park /\ cmd <= Park - pos
        /\ (cmd = Park - pos \/ Half - 1 - Served <= cmd)
    BY <1>13, HalfFacts DEF Tight, NumbersOK
  <2>2. Work = IF pos < Park THEN Park - pos + 1 + Enabling ELSE 2 - Served
    BY <1>13, <2>1 DEF Work
  <2>3. ASSUME ~(cmd' >= Half)
        PROVE  Work' = IF pos' < Park THEN Park - pos' + 1 + Enabling'
                                      ELSE 2 - Served'
    BY <1>3, <1>13, <2>3 DEF Work
  <2>4. CASE MotorRests
    <3>1. cmd = 0
      BY <1>6, <1>13, <2>4, MagnitudeFacts DEF NumbersOK
    <3>2. pos = Park
      BY <1>2, <2>1, <3>1, HalfFacts, PositionAssumption DEF NumbersOK
    <3>3. QED
      BY <1>2, <1>6, <2>1, <2>2, <2>3, <2>4, <3>2, PositionAssumption
  <2>5. CASE MotorEnables
    BY <1>2, <1>4, <1>7, <2>1, <2>2, <2>3, <2>5, PositionAssumption DEF NumbersOK
  <2>6. CASE MotorOpensStep
    <3>1. pos < Park /\ pos' = pos + 1 /\ ~(cmd' >= Half)
      BY <1>9, <2>1, <2>6, HalfFacts, PositionAssumption DEF NumbersOK, Stop
    <3>2. QED
      BY <1>2, <1>4, <1>9, <2>2, <2>3, <2>6, <3>1, PositionAssumption
         DEF NumbersOK
  <2>7. ~MotorClosesStep
    BY <1>8, <1>13, HalfFacts DEF NumbersOK
  <2>8. QED
    BY <1>5, <2>4, <2>5, <2>6, <2>7
<1>14. closing \in BOOLEAN /\ opening \in BOOLEAN /\ (cmd >= Half \/ cmd < Half)
  BY HalfFacts DEF FlagsOK, NumbersOK
<1>15. QED
  BY <1>10, <1>11, <1>12, <1>13, <1>14

\* With ignition off an even loop never adds to the work left.
LEMMA EvenKeeps ==
  ASSUME FlagsOK, NumbersOK, Phases, Tight, ignOff, ~skip, ~skip',
         HomingIdle \/ HomingStart \/ HomingCloses \/ HomingTurns \/ HomingOpens
           \/ HomingCompletes
  PROVE  Work' = Work
<1>0. Byte \in Nat /\ Park \in Nat /\ 0 < Park /\ Half <= Park /\ Half < Byte
  BY PositionAssumption, HalfFacts
<1>1. EvenStep
  BY DEF HomingIdle, HomingStart, HomingCloses, HomingTurns, HomingOpens,
         HomingCompletes
<1>2. Served = 2 /\ Served' = 0 /\ Enabling' = Enabling
  BY <1>1 DEF EvenStep, Served, Enabling, motor
<1>3. Enabling \in 0 .. 1
  BY DEF Enabling
<1>4. ~HomingIdle /\ ~HomingCompletes
  BY DEF HomingIdle, HomingCompletes, Requested
<1>5. CASE HomingStart
  <2>1. ~closing /\ closing' /\ ~opening' /\ pos' = Byte - 1
    BY <1>5 DEF HomingStart
  <2>2. Work = 2 - Served + Byte + 2 + Park + 1 + Enabling
    BY <2>1 DEF Work
  <2>3. pos' > 0
    BY <2>1, HalfFacts
  <2>4. Work' = pos' + 1 + 2 + Park + 1 + Enabling'
    BY <2>1, <2>3 DEF Work
  <2>5. QED
    BY <1>0, <1>2, <1>3, <2>1, <2>2, <2>4
<1>6. CASE HomingCloses
  <2>1. closing /\ ~opening /\ closing' /\ ~opening' /\ pos' = pos /\ pos # 0
    BY <1>6 DEF HomingCloses
  <2>2. pos > 0 /\ pos' > 0
    BY <2>1 DEF NumbersOK
  <2>3. Work = pos + 1 + 2 + Park + 1 + Enabling
    BY <2>1, <2>2 DEF Work
  <2>4. Work' = pos' + 1 + 2 + Park + 1 + Enabling'
    BY <2>1, <2>2 DEF Work
  <2>5. QED
    BY <1>2, <2>1, <2>3, <2>4
<1>7. CASE HomingTurns
  <2>1. /\ closing /\ ~opening /\ closing' /\ opening' /\ ~(pos > 0)
        /\ cmd' >= Half
    BY <1>0, <1>7 DEF HomingTurns
  <2>2. Work = 2 - Served + 2 + Park + 1 + Enabling
    BY <2>1 DEF Work
  <2>3. Work' = 2 - Served' + Park + 1 + Enabling'
    BY <2>1 DEF Work
  <2>4. QED
    BY <1>0, <1>2, <1>3, <2>2, <2>3
<1>8. CASE HomingOpens
  <2>1. closing /\ opening /\ closing' /\ opening' /\ pos' = pos
    BY <1>8 DEF HomingOpens, Phases
  <2>2. pos # Park /\ pos < Park
    <3>1. pos # Park
      BY <1>8, HalfFacts, <1>0 DEF HomingOpens, OpeningCommand
    <3>2. QED
      BY <1>0, <2>1, <3>1 DEF Tight, NumbersOK
  <2>3. ~(cmd' >= Half)
    BY <1>8, OpeningRange, HalfFacts DEF HomingOpens, NumbersOK
  <2>4. Work' = Park - pos' + 1 + Enabling'
    BY <2>1, <2>2, <2>3 DEF Work
  <2>5. CASE cmd >= Half
    <3>1. pos = 0 /\ Work = 2 - Served + Park + 1 + Enabling
      BY <2>1, <2>5 DEF Work, Tight
    <3>2. QED
      BY <1>0, <1>2, <1>3, <2>1, <2>4, <3>1
  <2>6. CASE ~(cmd >= Half)
    <3>1. Work = Park - pos + 1 + Enabling
      BY <2>1, <2>2, <2>6 DEF Work
    <3>2. QED
      BY <1>2, <2>1, <2>4, <3>1
  <2>7. QED
    BY <2>5, <2>6
<1>9. QED
  BY <1>4, <1>5, <1>6, <1>7, <1>8

LEMMA Descends ==
  ASSUME NEW w \in Int, NEW v \in Int, NEW b \in Int, v <= w - 1, w <= b
  PROVE  v <= b - 1
  OBVIOUS

\* The longest homing: from an idle valve whose motor is off.
LEMMA WorkBound ==
  ASSUME NumbersOK, Phases, Tight
  PROVE  Work \in 0 .. Byte + Park + 6
<1>0. Byte \in Nat /\ Park \in Nat
  BY PositionAssumption
<1>1. Served \in 0 .. 2 /\ Enabling \in 0 .. 1 /\ pos \in 0 .. Byte - 1
  BY ServedRange DEF NumbersOK
<1>2. QED
  BY <1>0, <1>1 DEF Work

\* The calibration leaves a homing time: its longest run fits in the odd loops
\* between the first housekeeping loop and the release of power.
InTime == Byte + Park + 6 <= 2 * (PowerdownCount - HousekeepingCount - 1)

LEMMA NextTimely ==
  InTime /\ IInv /\ Tight /\ Timely /\ Untouching => Timely'
<1> SUFFICES ASSUME InTime, IInv, Tight, Timely, Untouching, [Next]_vars
             PROVE  Timely'
  BY DEF Untouching
<1>0. FlagsOK /\ NumbersOK /\ Phases /\ Tight' /\ IInv'
  BY NextTight, NextFlags, NextNumbers, NextPhases DEF IInv
<1>1. ASSUME UNCHANGED <<closing, opening, pos, cmd, motorOn, Served, SinceOdd,
                         timer, ignOff, skip, latched>>,
             odd' = odd, (stage' = "minor") <=> (stage = "minor"),
             stage' = stage \/ ~latched,
             running' = running \/ timer <= HousekeepingCount
      PROVE  Timely'
  <2>1. UNCHANGED <<Work, Budget>>
    BY <1>1 DEF Work, Budget, Enabling
  <2>2. QED
    BY <1>0, <1>1, <2>1, TimerAssumption DEF Timely, NumbersOK
<1>2. CASE Mode4Idle
  BY <1>1, <1>2 DEF Mode4Idle, Mode4Step, Served, SinceOdd, keyVars, homing, motor
<1>3. CASE EngineStarts
  BY <1>1, <1>3 DEF EngineStarts, Served, SinceOdd, homing, motor
<1>4. CASE UNCHANGED vars
  BY <1>1, <1>4 DEF vars, Served, SinceOdd
<1>5. CASE \E recover \in BOOLEAN : PowerCycle(recover)
  BY <1>5, TimerAssumption DEF PowerCycle, Timely
<1>6. CASE MotorOff \/ MotorRests \/ MotorEnables \/ MotorClosesStep \/ MotorOpensStep
  <2>1. MotorStep
    BY <1>6 DEF MotorOff, MotorRests, MotorEnables, MotorClosesStep,
                MotorOpensStep, MotorMoves
  <2>2. UNCHANGED <<latched, ignOff, running, timer, skip>>
    BY <2>1 DEF MotorStep, keyVars
  <2>3. stage = "motor" /\ stage' = "minor" /\ odd' = ~odd /\ odd \in BOOLEAN
    BY <1>0, <2>1 DEF MotorStep, FlagsOK
  <2>4. ~latched /\ ((odd' <=> stage' # "minor") => (odd <=> stage # "minor"))
    BY <2>3 DEF Timely
  <2>5. timer > HousekeepingCount /\ ignOff /\ ~skip => Work' <= Budget'
    <3> SUFFICES ASSUME timer > HousekeepingCount, ignOff, ~skip
                 PROVE  Work' <= Budget'
      OBVIOUS
    <3>1. Work' <= Work - 1 /\ Work <= Budget
      BY <1>0, <1>6, MotorWorks DEF Timely
    <3>2. Budget' = Budget - 1 /\ Budget \in Int
      BY <1>0, <2>1, <2>2, MotorCounts, ServedRange, TimerAssumption
         DEF Budget, NumbersOK
    <3>3. Work \in Int /\ Work' \in Int
      <4>1. Work \in Int
        BY <1>0, WorkBound, PositionAssumption
      <4>2. Served' \in Int /\ Enabling' \in Int /\ pos' \in Int
        BY <1>0, PositionAssumption DEF Served, Enabling, IInv, NumbersOK
      <4>3. Work' \in Int
        BY <4>2, PositionAssumption DEF Work
      <4>4. QED
        BY <4>1, <4>3
    <3>4. QED
      BY <3>1, <3>2, <3>3, Descends
  <2>6. QED
    BY <2>2, <2>4, <2>5 DEF Timely
<1>7. CASE HomingIdle \/ HomingStart \/ HomingCloses \/ HomingTurns \/ HomingOpens
             \/ HomingCompletes
  <2>1. EvenStep /\ (~skip' => ~skip)
    BY <1>7 DEF HomingIdle, HomingStart, HomingCloses, HomingTurns, HomingOpens,
                HomingCompletes, homing
  <2>2. /\ UNCHANGED <<odd, latched, running, timer>> /\ ~odd
        /\ stage = "minor" /\ stage' = "mode4"
    BY <2>1 DEF EvenStep
  <2>3. ~latched /\ (timer > 0 => ignOff) /\ ~(odd' <=> stage' # "minor")
    BY <2>2 DEF Timely
  <2>4. timer > HousekeepingCount /\ ~skip' => Work' <= Budget'
    <3> SUFFICES ASSUME timer > HousekeepingCount, ~skip' PROVE Work' <= Budget'
      OBVIOUS
    <3>1. ignOff /\ ~skip
      BY <1>0, <2>1, <2>3, TimerAssumption DEF NumbersOK
    <3>2. Work' = Work /\ Work <= Budget
      BY <1>0, <1>7, <3>1, EvenKeeps DEF Timely
    <3>3. Budget' = Budget
      BY <2>2 DEF Budget, SinceOdd
    <3>4. QED
      BY <3>2, <3>3
  <2>5. QED
    BY <2>2, <2>3, <2>4 DEF Timely
<1>8. ASSUME OddStep
      PROVE  /\ odd /\ odd' /\ stage = "minor" /\ stage' = "mode4" /\ ~latched
             /\ SinceOdd = 2 /\ SinceOdd' = 0 /\ Work' = Work
             /\ UNCHANGED ignOff
  BY <1>8 DEF OddStep, SinceOdd, Work, Served, Enabling, Timely, motor
<1>9. CASE OddIgnitionOn
  BY <1>8, <1>9, TimerAssumption DEF OddIgnitionOn, Timely
<1>10. CASE OddDebounce
  <2>1. ignOff' /\ ~latched' /\ ~(timer' > HousekeepingCount)
    BY <1>0, <1>8, <1>10, TimerAssumption DEF OddDebounce, NumbersOK
  <2>2. QED
    BY <2>1 DEF Timely
<1>11. CASE OddHousekeeping
  <2>1. ignOff' /\ ~latched' /\ ~running' /\ timer' = timer + 1
    BY <1>8, <1>11 DEF OddHousekeeping
  <2>2. ~skip' => ~skip
    BY <1>11 DEF OddHousekeeping, Segment3
  <2>3. OddStep /\ ignOff
    BY <1>11 DEF OddHousekeeping
  <2>4. ~skip' => Work' <= Budget'
    <3>1. CASE timer > HousekeepingCount
      <4>1. ~skip => Work <= Budget
        BY <2>3, <3>1 DEF Timely
      <4>2. Budget' = Budget
        BY <1>0, <1>8, <2>1, <2>3, TimerAssumption DEF Budget, NumbersOK
      <4>3. QED
        BY <1>8, <2>2, <2>3, <4>1, <4>2
    <3>2. CASE timer = HousekeepingCount
      <4>1. Budget' = 2 * (PowerdownCount - HousekeepingCount - 1)
        BY <1>8, <2>1, <2>3, <3>2, TimerAssumption DEF Budget
      <4>2. Work \in 0 .. Byte + Park + 6
        BY <1>0, WorkBound
      <4>3. Work' = Work
        BY <1>8, <2>3
      <4>4. QED
        BY <4>1, <4>2, <4>3, PositionAssumption, TimerAssumption DEF InTime
    <3>3. timer > HousekeepingCount \/ timer = HousekeepingCount
      BY <1>0, <1>11, TimerAssumption DEF OddHousekeeping, NumbersOK
    <3>4. QED
      BY <3>1, <3>2, <3>3
  <2>5. QED
    BY <2>1, <2>4 DEF Timely
<1>12. CASE OddPowerdown
  <2>1. OddStep /\ ignOff /\ UNCHANGED <<timer, running, skip>>
    BY <1>12 DEF OddPowerdown
  <2>2. timer = PowerdownCount /\ timer > HousekeepingCount
    BY <1>0, <1>12, TimerAssumption DEF OddPowerdown, NumbersOK
  <2>3. Budget = -2
    BY <1>8, <2>1, <2>2, TimerAssumption DEF Budget
  <2>4. Work \in 0 .. Byte + Park + 6
    BY <1>0, WorkBound
  <2>5. skip
    BY <2>1, <2>2, <2>3, <2>4, PositionAssumption DEF Timely
  <2>6. QED
    BY <1>8, <2>1, <2>2, <2>5 DEF Timely
<1>13. ~Mode4Exit /\ \A iacReset \in BOOLEAN : ~Mode4Enter(iacReset)
  BY DEF Mode4Exit, Mode4Enter, Tight, Untouching
<1>14. QED
  BY <1>2, <1>3, <1>4, <1>5, <1>6, <1>7, <1>9, <1>10, <1>11, <1>12, <1>13
     DEF Next, Irq

\* Where no tool and no jumper can be connected, every step is such a step.
LEMMA NoTool == ~ToolPresent /\ FlagsOK /\ Tight /\ [Next]_vars => Untouching
<1> SUFFICES ASSUME ~ToolPresent, FlagsOK, Tight, [Next]_vars
             PROVE  ~mode4' /\ ~diag'
  BY DEF Untouching
<1>1. ~mode4 /\ ~diag
  BY DEF Tight
<1>2. CASE Mode4Idle \/ EngineStarts \/ UNCHANGED vars
  BY <1>1, <1>2 DEF Mode4Idle, EngineStarts, vars, tool
<1>3. ~Mode4Exit /\ \A iacReset \in BOOLEAN : ~Mode4Enter(iacReset)
  BY DEF Mode4Exit, Mode4Enter
<1>4. CASE MotorOff \/ MotorRests \/ MotorEnables \/ MotorClosesStep \/ MotorOpensStep
  BY <1>1, <1>4 DEF MotorOff, MotorRests, MotorEnables, MotorClosesStep,
                    MotorOpensStep, MotorMoves, MotorStep, tool
<1>5. ASSUME NEW run \in BOOLEAN, Segment3(run) PROVE ~mode4' /\ ~diag'
  <2>1. mode4' = mode4
    BY <1>5 DEF Segment3
  <2>2. diag' = diag \/ diag' \in {FALSE}
    BY <1>5, Zenon DEF Segment3
  <2>3. CASE diag' = diag
    BY <1>1, <2>1, <2>3
  <2>4. CASE diag' \in {FALSE}
    <3>1. diag' = FALSE
      BY <2>4
    <3>2. QED
      BY <1>1, <2>1, <3>1
  <2>5. QED
    BY <2>2, <2>3, <2>4
<1>6. CASE OddIgnitionOn \/ OddDebounce \/ OddHousekeeping \/ OddPowerdown
  <2>1. CASE OddPowerdown
    BY <1>1, <2>1 DEF OddPowerdown, tool
  <2>2. running \in BOOLEAN /\ FALSE \in BOOLEAN
    BY DEF FlagsOK
  <2>3. CASE ~OddPowerdown
    <3>1. Segment3(running) \/ Segment3(FALSE)
      BY <1>6, <2>3 DEF OddIgnitionOn, OddDebounce, OddHousekeeping
    <3>2. QED
      BY <1>5, <2>2, <3>1
  <2>4. QED
    BY <2>1, <2>3
<1>7. CASE HomingIdle \/ HomingStart \/ HomingCloses \/ HomingTurns \/ HomingOpens
             \/ HomingCompletes
  BY <1>1, <1>7 DEF HomingIdle, HomingStart, HomingCloses, HomingTurns, HomingOpens,
                    HomingCompletes, EvenStep
<1>8. CASE \E recover \in BOOLEAN : PowerCycle(recover)
  BY <1>8 DEF PowerCycle
<1>9. QED
  BY <1>2, <1>3, <1>4, <1>6, <1>7, <1>8 DEF Next, Irq

\* For every calibration that leaves a homing time, key-off without a tool
\* releases power only with the valve parked and marked so.
THEOREM ReleaseFindsParked ==
  ASSUME ~ToolPresent, InTime PROVE Spec => []ReleasedIsParked
<1>1. Init => IInv /\ Tight /\ Timely
  BY InitInv, InitTight
<1>2. IInv /\ Tight /\ Timely /\ [Next]_vars => (IInv /\ Tight /\ Timely)'
  BY NextFlags, NextNumbers, NextPhases, NextTight, NextTimely, NoTool DEF IInv
<1>3. Tight /\ Timely => ReleasedIsParked
  BY DEF Tight, Timely, ReleasedIsParked
<1>4. QED
  BY <1>1, <1>2, <1>3, PTL DEF Spec

\* With tools and jumper present, the same holds for as long as none of them has
\* asked for anything: what they may do later cannot have spoiled it before.
THEOREM UntouchedFindsParked ==
  ASSUME InTime PROVE UntouchedSpec => []ReleasedUntouched
<1> DEFINE UInv == IInv /\ (untouched => Tight /\ Timely)
<1>1. UntouchedInit => UInv
  BY InitInv, InitTight DEF UntouchedInit
<1>2. ASSUME UInv, [UntouchedNext]_<<vars, untouched>> PROVE UInv'
  <2>1. [Next]_vars
    BY <1>2 DEF UntouchedNext
  <2>2. IInv'
    BY <1>2, <2>1, NextFlags, NextNumbers, NextPhases DEF IInv
  <2>3. ASSUME untouched' PROVE Tight' /\ Timely'
    <3>1. CASE UntouchedNext
      <4>1. untouched /\ Untouching
        BY <2>1, <2>3, <3>1 DEF UntouchedNext, Untouching
      <4>2. QED
        BY <1>2, <4>1, NextTight, NextTimely
    <3>2. CASE UNCHANGED <<vars, untouched>>
      <4>1. IInv /\ Tight /\ Timely /\ ~mode4 /\ ~diag
        BY <1>2, <2>3, <3>2 DEF Tight
      <4>2. ~mode4' /\ ~diag'
        BY <3>2, <4>1 DEF vars
      <4>3. Untouching
        BY <2>1, <4>2 DEF Untouching
      <4>4. QED
        BY <4>1, <4>3, NextTight, NextTimely
    <3>3. QED
      BY <1>2, <3>1, <3>2
  <2>4. QED
    BY <2>2, <2>3
<1>3. UInv => ReleasedUntouched
  BY DEF Tight, Timely, ReleasedUntouched, ReleasedIsParked
<1>4. QED
  BY <1>1, <1>2, <1>3, PTL DEF UntouchedSpec
=============================================================================
