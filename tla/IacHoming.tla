------------------------------ MODULE IacHoming -----------------------------
(***************************************************************************)
(* Homing of the idle-air valve, from the Mode-4 scheduler and the motor   *)
(* service of every 6.25-ms IRQ through the even-loop homing state machine *)
(* to the power release that ends key-off.                                 *)
(*                                                                         *)
(* One IRQ takes three steps, in the order of irq_6p25ms: bua_mode4_       *)
(* scheduler_step116, bua_iac_motor_service_6p25ms, and the odd or even    *)
(* minor loop with the major segment it shares the IRQ with.  The minor    *)
(* count is kept as its parity; which odd IRQ is segment 3 and which even  *)
(* one is segment E is left open.                                          *)
(***************************************************************************)
EXTENDS Integers

CONSTANTS
  Byte,             \* values of a byte (256)
  Park,             \* STEP111_IAC_PARK_POSITION (144)
  HousekeepingCount,\* STEP111_HOUSEKEEPING_COUNT (8)
  PowerdownCount,   \* STEP111_POWERDOWN_COUNT, LC012 ($0385)
  LostPositions,    \* where the valve may stand when the ECM is first powered
  ToolPresent       \* a serial tool or the diagnostic jumper may be connected

\* Signed step commands: the top bit of a byte is the closing direction.
Half == Byte \div 2
Stop == Park + 1     \* opening steps count only below 145

ASSUME PositionAssumption ==
  /\ Byte \in Nat /\ Byte % 2 = 0
  /\ Park \in Nat /\ Half <= Park /\ Park + 4 < Byte
  /\ LostPositions \subseteq 0 .. Byte - 1
  /\ ToolPresent \in BOOLEAN

ASSUME TimerAssumption ==
  /\ HousekeepingCount \in Nat /\ PowerdownCount \in Nat
  /\ HousekeepingCount < PowerdownCount

VARIABLES
  stage,    \* next step of the IRQ: "mode4", "motor" or "minor"
  odd,      \* parity of MINOR_COUNT
  latched,  \* sim_soft_powerdown_latched
  ignOff,   \* $0033 b4
  volts,    \* L007E lies in the window that keeps a running engine's motor on
  running,  \* $0034 b7
  timer,    \* $008B:$008C
  diag,     \* $0035 b5: the diagnostic jumper asks for the IAC reset
  diagDone, \* $003C b0
  mode4,    \* $0035 b3: a Mode-4 request has been taken
  skip,     \* $0002 b4, retained: the valve is parked, skip the reset
  closing,  \* $00F3 b2
  opening,  \* $00F3 b1
  pos,      \* $002C, retained: the position the software believes
  cmd,      \* $0101: the step command, direction in the top bit
  motorOn,  \* sim_iac_motor_on
  pintle    \* where the valve really stands, in steps from its closed stop

homing  == <<skip, closing, opening, pos, cmd>>
motor   == <<motorOn, pintle>>
keyVars == <<latched, ignOff, volts, running, timer>>
tool    == <<diag, diagDone, mode4>>
vars == <<stage, odd, latched, ignOff, volts, running, timer, diag, diagDone,
          mode4, skip, closing, opening, pos, cmd, motorOn, pintle>>

Closes(c)    == c >= Half
Magnitude(c) == c % Half

-----------------------------------------------------------------------------
(* bua_mode4_scheduler_step116: the IAC part of the first pass of a request. *)

Mode4Step == stage = "mode4" /\ ~latched /\ stage' = "motor"

\* No tool, a request already taken, or none present.
Mode4Idle ==
  /\ Mode4Step
  /\ UNCHANGED <<odd, keyVars, tool, homing, motor>>

\* A request may ask for the IAC reset: the position is forced in whatever
\* phase the homing is, and the open-phase bit is left alone.
Mode4Enter(iacReset) ==
  /\ Mode4Step /\ ToolPresent /\ ~mode4
  /\ mode4' = TRUE
  /\ closing' = (closing \/ iacReset)
  /\ pos' = IF iacReset THEN Byte - 1 ELSE pos
  /\ UNCHANGED <<odd, keyVars, diag, diagDone, skip, opening, cmd, motor>>

Mode4Exit ==
  /\ Mode4Step /\ ToolPresent /\ mode4
  /\ mode4' = FALSE
  /\ UNCHANGED <<odd, keyVars, diag, diagDone, homing, motor>>

-----------------------------------------------------------------------------
(* bua_iac_motor_service_6p25ms: at most one step of the command per IRQ. *)

MotorStep ==
  /\ stage = "motor" /\ stage' = "minor"
  /\ odd' = ~odd
  /\ UNCHANGED <<keyVars, tool, skip, closing, opening>>

Gated == running /\ ~volts

MotorOff ==
  /\ MotorStep /\ Gated
  /\ motorOn' = FALSE
  /\ UNCHANGED <<pos, cmd, pintle>>

MotorRests ==
  /\ MotorStep /\ ~Gated /\ Magnitude(cmd) = 0
  /\ UNCHANGED <<pos, cmd, motor>>

\* An off motor is only enabled; the step waits for the next service.
MotorEnables ==
  /\ MotorStep /\ ~Gated /\ Magnitude(cmd) # 0 /\ ~motorOn
  /\ motorOn' = TRUE
  /\ UNCHANGED <<pos, cmd, pintle>>

MotorMoves == MotorStep /\ ~Gated /\ Magnitude(cmd) # 0 /\ motorOn

MotorClosesStep ==
  /\ MotorMoves /\ Closes(cmd)
  /\ cmd' = cmd - 1
  /\ pos' = IF pos # 0 THEN pos - 1 ELSE 0
  /\ pintle' = IF pintle # 0 THEN pintle - 1 ELSE 0
  /\ UNCHANGED motorOn

\* Beyond the stop the command is consumed but nothing moves.
MotorOpensStep ==
  /\ MotorMoves /\ ~Closes(cmd)
  /\ cmd' = cmd - 1
  /\ IF pos < Stop THEN pos' = pos + 1 /\ pintle' = pintle + 1
                   ELSE UNCHANGED <<pos, pintle>>
  /\ UNCHANGED motorOn

-----------------------------------------------------------------------------
(* Odd minor loop: the key-off front, then segment 3 when it is due. *)

OddStep ==
  /\ stage = "minor" /\ odd /\ stage' = "mode4"
  /\ UNCHANGED <<odd, ignOff, volts, closing, opening, pos, cmd, motor>>

\* seg3_misc_100ms: a running engine drops the mark that the valve is parked,
\* and the diagnostic jumper is sampled.
Segment3(run) ==
  \/ UNCHANGED <<skip, diag, diagDone, mode4>>
  \/ /\ skip' = (skip /\ ~run)
     /\ diag' \in IF ToolPresent THEN BOOLEAN ELSE {FALSE}
     /\ UNCHANGED <<diagDone, mode4>>

OddIgnitionOn ==
  /\ OddStep /\ ~ignOff
  /\ timer' = 0
  /\ Segment3(running)
  /\ UNCHANGED <<latched, running>>

OddDebounce ==
  /\ OddStep /\ ignOff /\ timer < HousekeepingCount
  /\ timer' = timer + 1
  /\ Segment3(running)
  /\ UNCHANGED <<latched, running>>

OddHousekeeping ==
  /\ OddStep /\ ignOff
  /\ HousekeepingCount <= timer /\ timer < PowerdownCount
  /\ timer' = timer + 1 /\ running' = FALSE
  /\ Segment3(FALSE)
  /\ UNCHANGED latched

OddPowerdown ==
  /\ OddStep /\ ignOff /\ PowerdownCount <= timer
  /\ latched' = TRUE
  /\ UNCHANGED <<timer, running, tool, skip>>

-----------------------------------------------------------------------------
(* Even minor loop: bua_iac_shutdown_homing_even_step111, then segment E
   when it is due. *)

BatterySegment ==
  ignOff' \in BOOLEAN /\ volts' \in BOOLEAN

EvenStep ==
  /\ stage = "minor" /\ ~odd /\ stage' = "mode4"
  /\ BatterySegment
  /\ UNCHANGED <<odd, latched, running, timer, diag, mode4, motor>>

\* fast: RPM_DIV25 is at least 80.
Requested(fast) ==
  \/ closing
  \/ diag /\ ~diagDone /\ fast
  \/ ~skip /\ ignOff

HomingIdle ==
  /\ EvenStep
  /\ \E fast \in BOOLEAN : ~Requested(fast)
  /\ UNCHANGED <<diagDone, homing>>

\* Mutant: the position is not forced, so the close phase trusts it.
HomingStartMutant ==
  /\ EvenStep
  /\ \E fast \in BOOLEAN : Requested(fast)
  /\ ~opening /\ ~closing
  /\ closing' = TRUE
  /\ cmd' = Byte - 1
  /\ UNCHANGED <<diagDone, skip, opening, pos>>

\* The position becomes the largest one: the count reaches zero only after the
\* valve has met its stop, wherever it stood.
HomingStart ==
  /\ EvenStep
  /\ \E fast \in BOOLEAN : Requested(fast)
  /\ ~opening /\ ~closing
  /\ closing' = TRUE
  /\ pos' = Byte - 1 /\ cmd' = Byte - 1
  /\ UNCHANGED <<diagDone, skip, opening>>

HomingCloses ==
  /\ EvenStep /\ ~opening /\ closing /\ pos # 0
  /\ cmd' = Byte - 1
  /\ UNCHANGED <<diagDone, skip, closing, opening, pos>>

\* Mutant: the turn is decided but the phase bit is not stored.
HomingTurnsMutant ==
  /\ EvenStep /\ ~opening /\ closing /\ pos = 0
  /\ cmd' = Park
  /\ UNCHANGED <<diagDone, skip, closing, opening, pos>>

\* At zero the phase turns.  The command of this one loop is the park position
\* itself, whose top bit makes it a closing command against the stop.
HomingTurns ==
  /\ EvenStep /\ ~opening /\ closing /\ pos = 0
  /\ opening' = TRUE
  /\ cmd' = Park
  /\ UNCHANGED <<diagDone, skip, closing, pos>>

\* The remaining distance as a byte; one whose top bit is set becomes the
\* largest opening command.
OpeningCommand ==
  IF (Park - pos) % Byte >= Half THEN Half - 1 ELSE (Park - pos) % Byte

\* Mutant: the remaining distance is not recomputed.
HomingOpensMutant ==
  /\ EvenStep /\ opening /\ OpeningCommand # 0
  /\ cmd' = Half - 1
  /\ UNCHANGED <<diagDone, skip, closing, opening, pos>>

HomingOpens ==
  /\ EvenStep /\ opening /\ OpeningCommand # 0
  /\ cmd' = OpeningCommand
  /\ UNCHANGED <<diagDone, skip, closing, opening, pos>>

\* bua_iac_move_to_park_step111.
MoveToPark(position) ==
  IF position >= Park
  THEN LET far == position - Park
       IN  IF far = 0 THEN 0 ELSE Half + (IF far > Half - 1 THEN Half - 1 ELSE far)
  ELSE Park - position

\* Mutant: completion does not look at the distance that is left.
HomingCompletesMutant ==
  /\ EvenStep /\ opening
  /\ skip' = TRUE
  /\ diagDone' = (diagDone \/ diag)
  /\ IF ignOff
     THEN cmd' = 0 /\ UNCHANGED <<closing, opening>>
     ELSE /\ closing' = FALSE /\ opening' = FALSE
          /\ cmd' = MoveToPark(pos)
  /\ UNCHANGED pos

\* Parked.  With ignition off the phase bits stay, and every even loop comes
\* back here; with ignition on bua_iac_restart_ld335_step111 clears them.
HomingCompletes ==
  /\ EvenStep /\ opening /\ OpeningCommand = 0
  /\ skip' = TRUE
  /\ diagDone' = (diagDone \/ diag)
  /\ IF ignOff
     THEN cmd' = 0 /\ UNCHANGED <<closing, opening>>
     ELSE /\ closing' = FALSE /\ opening' = FALSE
          /\ cmd' = MoveToPark(pos)
  /\ UNCHANGED pos

Irq ==
  \/ Mode4Idle \/ Mode4Exit
  \/ \E iacReset \in BOOLEAN : Mode4Enter(iacReset)
  \/ MotorOff \/ MotorRests \/ MotorEnables \/ MotorClosesStep \/ MotorOpensStep
  \/ OddIgnitionOn \/ OddDebounce \/ OddHousekeeping \/ OddPowerdown
  \/ HomingIdle \/ HomingStart \/ HomingCloses \/ HomingTurns
  \/ HomingOpens \/ HomingCompletes

-----------------------------------------------------------------------------
(* Between two IRQs: the engine starts, or the host cycles power. *)

\* The reference state qualifies the engine; it cannot do so once key-off
\* housekeeping has begun (NoRequalification of KeyOff).
EngineStarts ==
  /\ stage = "mode4" /\ ~latched
  /\ ~running /\ timer <= HousekeepingCount
  /\ running' = TRUE
  /\ UNCHANGED <<stage, odd, latched, ignOff, volts, timer, tool, homing, motor>>

\* Power-on clears $002E..$01B2.  What it retains is the believed position and
\* the parked mark, unless the retained check fails: then the position is taken
\* to be Park and the mark is lost.  The valve stays where it is.
PowerCycle(recover) ==
  /\ stage = "mode4"
  /\ latched' = FALSE /\ running' = FALSE /\ timer' = 0
  /\ ignOff' \in BOOLEAN /\ volts' \in BOOLEAN
  /\ diag' = FALSE /\ diagDone' = FALSE /\ mode4' = FALSE
  /\ closing' = FALSE /\ opening' = FALSE /\ cmd' = 0
  /\ skip' = (skip /\ ~recover)
  /\ pos' = IF recover THEN Park ELSE pos
  /\ odd' = FALSE
  /\ UNCHANGED <<stage, motor>>

Init ==
  /\ stage = "mode4" /\ odd = FALSE
  /\ latched = FALSE /\ running = FALSE /\ timer = 0
  /\ ignOff \in BOOLEAN /\ volts \in BOOLEAN
  /\ diag = FALSE /\ diagDone = FALSE /\ mode4 = FALSE
  /\ skip = FALSE /\ closing = FALSE /\ opening = FALSE
  /\ pos = Park /\ cmd = 0 /\ motorOn = TRUE
  /\ pintle \in LostPositions

Next ==
  \/ Irq
  \/ EngineStarts
  \/ \E recover \in BOOLEAN : PowerCycle(recover)

\* The timer interrupt is periodic: an IRQ that can run does.
Fairness == WF_vars(Irq)

Spec == Init /\ [][Next]_vars /\ Fairness

-----------------------------------------------------------------------------
(* Type invariant. *)

TypeOK ==
  /\ stage \in {"mode4", "motor", "minor"}
  /\ odd \in BOOLEAN /\ latched \in BOOLEAN /\ ignOff \in BOOLEAN
  /\ volts \in BOOLEAN /\ running \in BOOLEAN
  /\ timer \in 0 .. PowerdownCount
  /\ diag \in BOOLEAN /\ diagDone \in BOOLEAN /\ mode4 \in BOOLEAN
  /\ skip \in BOOLEAN /\ closing \in BOOLEAN /\ opening \in BOOLEAN
  /\ pos \in 0 .. Byte - 1 /\ cmd \in 0 .. Byte - 1
  /\ motorOn \in BOOLEAN /\ pintle \in 0 .. Byte - 1

(* Safety. *)

\* While the homing closes, the count never falls below the real position, so
\* a count of zero is the closed stop: whatever the position was believed to
\* be, after lost steps, a recovery or a Mode-4 reset in mid-phase.
CountCoversValve == closing /\ ~opening => pintle <= pos

\* While it opens, the believed position is the real one, unless a Mode-4 reset
\* has forced it out of the range in which opening steps count.
OpenPhaseExact == opening => pintle = pos \/ pos > Stop

\* The position the program believes is one the homing can trust in either phase.
BelievedIsReal == CountCoversValve /\ OpenPhaseExact

\* The mark that later key-offs skip the reset on is only ever set with both
\* the count and the valve at the park position, whichever way the homing was
\* requested, interrupted or restarted.
MarkedOnlyParked == [][~skip /\ skip' => pos' = Park /\ pintle' = Park]_vars

\* Power is never released in the middle of a homing: the $0385 odd loops of
\* key-off outlast the close and the open phase from any position, even one
\* begun late because the engine was still running on a bad battery.
ReleasedIsParked == latched => skip /\ pos = Park /\ pintle = Park

(* Liveness. *)

PowerStays ==
  <>[][~(\E recover \in BOOLEAN : PowerCycle(recover)) /\ ~Mode4Enter(TRUE)]_vars

\* A homing that is not cut short by a power cycle, by the release of power, or
\* by a reset in its open phase parks the valve, whatever asked for it.
HomingEnds ==
  /\ PowerStays
  /\ [](opening => pos <= Stop)
  /\ <>[](volts \/ ~running)
  => []<>(~closing \/ latched \/ (pos = Park /\ pintle = Park))

\* The documentation's account of homing (docs/reference/IDLE_AIR_CONTROL_
\* THEORY.md:174-178): after the closed stop is reached, an open phase toward
\* the park position, then reset-complete and reinitialisation.  A Mode-4 reset
\* that arrives in the open phase defeats it: the open phase never ends.
OpenPhaseEnds ==
  PowerStays /\ <>[](~ignOff /\ volts) => []<>(~opening \/ pos = Park)
=============================================================================
