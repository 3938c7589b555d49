------------------------------- MODULE KeyOff -------------------------------
(***************************************************************************)
(* Key-on, engine qualification and key-off of the 1227165 ECM.            *)
(*                                                                         *)
(* irq_6p25ms runs every 6.25 ms.  An odd count runs the ignition-shutdown *)
(* front (bua_ignition_shutdown_odd_step111), an even count the reference  *)
(* state (bua_reference_state_12p5ms), and the count also selects one of   *)
(* the major segments, of which segment 3 and segment E (battery) touch    *)
(* the state kept here.  The host may cycle power between any two IRQs.    *)
(***************************************************************************)
EXTENDS Integers

CONSTANTS
  ByteMod,          \* values of an 8-bit counter (256)
  MinorPeriod,      \* counts of MINOR_COUNT in one second (160)
  MajorLoop,        \* major segments (16)
  AAByte,           \* the factory fill pattern as a count ($AA)
  HousekeepingCount,\* STEP111_HOUSEKEEPING_COUNT (8)
  PowerdownCount,   \* STEP111_POWERDOWN_COUNT, LC012 ($0385)
  StartupLoops,     \* CAL_STARTUP_LOOPS (8)
  NoRefLimit,       \* CAL_NO_REF_WAIT_LOOPS (23)
  RuntimeMod,       \* values of the run-time word $001A (65536)
  AAWord            \* the factory fill pattern as a run time ($AAAA)

\* The parity argument of this module needs both periods of the minor count to
\* be even: a count that wraps still alternates odd and even.
ASSUME CountAssumption ==
  /\ ByteMod \in Nat /\ MinorPeriod \in Nat /\ MajorLoop \in Nat
  /\ ByteMod % 2 = 0 /\ MinorPeriod % 2 = 0 /\ MajorLoop % 2 = 0
  /\ 4 <= MajorLoop /\ MajorLoop <= MinorPeriod /\ MinorPeriod < ByteMod
  /\ AAByte \in 0 .. ByteMod - 1

ASSUME CalibrationAssumption ==
  /\ HousekeepingCount \in Nat /\ PowerdownCount \in Nat
  /\ HousekeepingCount < PowerdownCount
  /\ StartupLoops \in Nat \ {0} /\ NoRefLimit \in Nat
  /\ RuntimeMod \in Nat /\ 1 < RuntimeMod
  /\ AAWord \in 1 .. RuntimeMod - 1

VARIABLES
  latched,  \* sim_soft_powerdown_latched
  factory,  \* $0047 b7: the IRQ is routed to the factory test
  aa,       \* retained RAM holds the factory test's $AA pattern
  count,    \* $0000 MINOR_COUNT
  ignOff,   \* $0033 b4 ignition off
  running,  \* $0034 b7 ENGINE RUNNING
  timer,    \* $008B:$008C key-off timer
  runtime,  \* $001A:$001B engine run time, retained
  ram1,     \* $0001, retained: the bits kept here are NV (b3) and HOT (b6)
  refSeen,  \* $0035 REF_SEEN
  refSlow,  \* reference period at or above CAL_STARTUP_REF_PERIOD
  second,   \* $0033 b3 SECOND_REF_VALID
  startup,  \* $0093 STARTUP_COUNTER
  noRef     \* NO_REF_MINOR_COUNT

refVars  == <<refSeen, refSlow, second, startup, noRef>>
bootVars == <<latched, factory, aa>>
vars == <<latched, factory, aa, count, ignOff, running, timer, runtime, ram1,
          refSeen, refSlow, second, startup, noRef>>

Ram1Bits    == {"NV", "HOT"}
BatteryBand == {"off", "hold", "on"}   \* below 40, 40..89, at least 90 counts
MiscSlot    == 3                       \* major segment 3
BatterySlot == MajorLoop - 2           \* major segment E
StartCount  == MajorLoop - 2           \* MINOR_COUNT=0x0E at the hand-off

Live == ~latched /\ ~factory

\* The next minor count: one past the last restarts it, and a count beyond the
\* last (only $AA can be) wraps as a byte.
NextCount ==
  IF (count + 1) % ByteMod = MinorPeriod THEN 0 ELSE (count + 1) % ByteMod

OneSecond == (count + 1) % ByteMod = MinorPeriod
OddNext   == NextCount % 2 = 1

-----------------------------------------------------------------------------
\* bua_battery86_segment_e: the ignition decision has hysteresis.
IgnOffAfter(band, off) == band = "off" \/ (band = "hold" /\ off)

BatterySegment ==
  IF NextCount % MajorLoop = BatterySlot
  THEN \E band \in BatteryBand : ignOff' = IgnOffAfter(band, ignOff)
  ELSE ignOff' = ignOff

\* seg3_misc_100ms: a stopped engine with warm coolant sets HOT.
AfterMisc(bits, run) ==
  IF NextCount % MajorLoop = MiscSlot /\ ~run THEN {bits, bits \cup {"HOT"}}
  ELSE {bits}

\* one_second_event, before the minor loop of the same IRQ.
RuntimeAfterEvent ==
  IF OneSecond /\ running THEN (runtime + 1) % RuntimeMod ELSE runtime

-----------------------------------------------------------------------------
(* bua_ignition_shutdown_odd_step111: one action per way through it. *)

OddIrq ==
  /\ Live /\ OddNext
  /\ count' = NextCount
  /\ UNCHANGED <<factory, aa, ignOff, refSeen, refSlow, second, noRef>>

\* Ignition on: the key-off timer is held at zero.
OddIgnitionOn ==
  /\ OddIrq /\ ~ignOff
  /\ timer' = 0
  /\ ram1' \in AfterMisc(ram1, running)
  /\ UNCHANGED <<latched, running, runtime, startup>>

\* Mutant: the debounce loops forget to advance the timer.
OddDebounceMutant ==
  /\ OddIrq /\ ignOff /\ timer < HousekeepingCount
  /\ ram1' \in AfterMisc(ram1, running)
  /\ UNCHANGED <<timer, latched, running, runtime, startup>>

\* The first odd loops after key-off only count: a short dropout loses nothing.
OddDebounce ==
  /\ OddIrq /\ ignOff /\ timer < HousekeepingCount
  /\ timer' = timer + 1
  /\ ram1' \in AfterMisc(ram1, running)
  /\ UNCHANGED <<latched, running, runtime, startup>>

\* Mutant: housekeeping leaves ENGINE RUNNING set.
OddHousekeepingKeepsRunning ==
  /\ OddIrq /\ ignOff
  /\ HousekeepingCount <= timer /\ timer < PowerdownCount
  /\ timer' = timer + 1
  /\ ram1' \in AfterMisc({}, running)
  /\ runtime' = 0 /\ startup' = 0
  /\ UNCHANGED <<latched, running>>

\* Every later odd loop clears the run state and the qualification counter.
OddHousekeeping ==
  /\ OddIrq /\ ignOff
  /\ HousekeepingCount <= timer /\ timer < PowerdownCount
  /\ timer' = timer + 1
  /\ ram1' \in AfterMisc({}, FALSE)
  /\ runtime' = 0 /\ running' = FALSE /\ startup' = 0
  /\ UNCHANGED latched

\* The terminal loop clears $0001 but returns before it reaches ENGINE RUNNING
\* and the run time; irq_6p25ms then skips its major segment.
OddPowerdown ==
  /\ OddIrq /\ ignOff /\ PowerdownCount <= timer
  /\ ram1' = {}
  /\ latched' = TRUE
  /\ UNCHANGED <<timer, running, runtime, startup>>

-----------------------------------------------------------------------------
(* The even loop: one_second_event when the count wraps, then
   bua_reference_state_12p5ms, then segment E when it is due. *)

EvenIrq ==
  /\ Live /\ ~OddNext
  /\ count' = NextCount
  /\ runtime' = RuntimeAfterEvent
  /\ BatterySegment
  /\ UNCHANGED <<latched, factory, aa, timer, refSlow>>

RefQualifies == running \/ ~refSlow

\* A reference too slow for cranking restarts the qualification.
EvenTooSlow ==
  /\ EvenIrq /\ ~RefQualifies
  /\ refSeen' = FALSE /\ startup' = 0
  /\ UNCHANGED <<running, ram1, second, noRef>>

EvenRunningRef ==
  /\ EvenIrq /\ running /\ refSeen
  /\ refSeen' = FALSE /\ noRef' = 0
  /\ UNCHANGED <<running, ram1, second, startup>>

\* The first reference of a power cycle only marks the second one valid.
EvenFirstRef ==
  /\ EvenIrq /\ ~running /\ RefQualifies /\ refSeen /\ ~second
  /\ refSeen' = FALSE /\ noRef' = 0 /\ second' = TRUE
  /\ UNCHANGED <<running, ram1, startup>>

EvenStartupLoop ==
  /\ EvenIrq /\ ~running /\ RefQualifies /\ refSeen /\ second
  /\ startup < StartupLoops
  /\ refSeen' = FALSE /\ noRef' = 0 /\ startup' = startup + 1
  /\ UNCHANGED <<running, ram1, second>>

EvenEngineCaught ==
  /\ EvenIrq /\ ~running /\ RefQualifies /\ refSeen /\ second
  /\ StartupLoops <= startup
  /\ refSeen' = FALSE /\ noRef' = 0
  /\ running' = TRUE /\ ram1' = ram1 \cup {"NV"}
  /\ UNCHANGED <<second, startup>>

\* Mutant: a loop without a reference takes the qualification back.
EvenNoRefMutant ==
  /\ EvenIrq /\ RefQualifies /\ ~refSeen
  /\ noRef' = IF running /\ noRef < NoRefLimit THEN noRef + 1 ELSE noRef
  /\ startup' = 0
  /\ UNCHANGED <<running, ram1, refSeen, second>>

\* Missing references are counted up to the $CDCD wait boundary, which is only
\* noted: the IRQs go on and ENGINE RUNNING stays.
EvenNoRef ==
  /\ EvenIrq /\ RefQualifies /\ ~refSeen
  /\ noRef' = IF running /\ noRef < NoRefLimit THEN noRef + 1 ELSE noRef
  /\ UNCHANGED <<running, ram1, refSeen, second, startup>>

Irq ==
  \/ OddIgnitionOn \/ OddDebounce \/ OddHousekeeping \/ OddPowerdown
  \/ EvenTooSlow \/ EvenRunningRef \/ EvenFirstRef \/ EvenStartupLoop
  \/ EvenEngineCaught \/ EvenNoRef

-----------------------------------------------------------------------------
(* The environment: the reference generator, and the host cycling power. *)

ReferencePulse(slow) ==
  /\ Live
  /\ refSeen' = TRUE /\ refSlow' = slow
  /\ UNCHANGED <<bootVars, count, ignOff, running, timer, runtime, ram1,
                 second, startup, noRef>>

\* $002E..$01B2 are cleared by every power-on; the latch by the host.
ClearVolatile ==
  /\ latched' = FALSE
  /\ running' = FALSE /\ timer' = 0
  /\ refSeen' = FALSE /\ refSlow' = FALSE /\ second' = FALSE
  /\ startup' = 0 /\ noRef' = 0

\* Mutant: the recovery leaves the run time behind.
RetainedAfterCheckMutant(recover) ==
  /\ aa => recover
  /\ factory' = FALSE
  /\ aa' = (aa /\ ~recover)
  /\ UNCHANGED runtime

\* A retained checksum that fails clears the retained bytes; the $AA pattern
\* always fails it ($AAAA is not 1 + 5 * $AA), other contents may.
RetainedAfterCheck(recover) ==
  /\ aa => recover
  /\ factory' = FALSE
  /\ aa' = (aa /\ ~recover)
  /\ runtime' = IF recover THEN 0 ELSE runtime

\* bua_power_on_step120, normal outcome: startup runs segment E once.
PowerOnNormal(recover) ==
  /\ ClearVolatile /\ RetainedAfterCheck(recover)
  /\ count' = StartCount
  /\ \E band \in BatteryBand : ignOff' = IgnOffAfter(band, FALSE)
  /\ LET kept == IF recover THEN {} ELSE ram1
     IN  ram1' \in {kept, kept \cup {"HOT"}}

\* The $C938 outcome: noted and returned from before normal startup.
PowerOnSwi(recover) ==
  /\ ClearVolatile /\ RetainedAfterCheck(recover)
  /\ ignOff' = FALSE
  /\ ram1' = IF recover THEN {} ELSE ram1
  /\ UNCHANGED count

\* The factory outcome is decided before the retained check; fill says whether
\* the FMD byte asks for the $AA pattern in $0000..$002D.
PowerOnFactory(fill) ==
  /\ ClearVolatile
  /\ factory' = TRUE /\ ignOff' = FALSE
  /\ aa' = (aa \/ fill)
  /\ IF fill THEN /\ count' = AAByte
                  /\ runtime' = AAWord
                  /\ ram1' = {"NV"}
             ELSE UNCHANGED <<count, runtime, ram1>>

PowerCycle ==
  \/ \E recover \in BOOLEAN : PowerOnNormal(recover)
  \/ \E recover \in BOOLEAN : PowerOnSwi(recover)
  \/ \E fill \in BOOLEAN : PowerOnFactory(fill)

Init ==
  /\ latched = FALSE /\ factory = FALSE /\ aa = FALSE
  /\ count = StartCount
  /\ ignOff \in BOOLEAN
  /\ running = FALSE /\ timer = 0 /\ runtime = 0
  /\ ram1 \in {{}, {"HOT"}}
  /\ refSeen = FALSE /\ refSlow = FALSE /\ second = FALSE
  /\ startup = 0 /\ noRef = 0

Next ==
  \/ Irq
  \/ \E slow \in BOOLEAN : ReferencePulse(slow)
  \/ PowerCycle

\* The timer interrupt is periodic, so an IRQ that can run does; pulses and
\* power cycles are the environment's choice.
Fairness == WF_vars(Irq)

Spec == Init /\ [][Next]_vars /\ Fairness

-----------------------------------------------------------------------------
(* Type invariant. *)

FlagsOK ==
  /\ latched \in BOOLEAN /\ factory \in BOOLEAN /\ aa \in BOOLEAN
  /\ ignOff \in BOOLEAN /\ running \in BOOLEAN
  /\ refSeen \in BOOLEAN /\ refSlow \in BOOLEAN /\ second \in BOOLEAN
  /\ ram1 \subseteq Ram1Bits

CountersOK ==
  /\ count \in 0 .. ByteMod - 1
  /\ timer \in 0 .. PowerdownCount
  /\ runtime \in 0 .. RuntimeMod - 1
  /\ startup \in 0 .. StartupLoops
  /\ noRef \in 0 .. NoRefLimit

TypeOK == FlagsOK /\ CountersOK

(* Safety. *)

\* A windmilling engine whose references keep coming after key-off never
\* becomes ENGINE RUNNING again: every even loop may count one reference, but
\* the odd loop that follows it takes the count back.
NoRequalification == timer > HousekeepingCount => ~running

\* Hence the retained run time, once dropped, stays zero until ignition returns:
\* no one-second event of the key-off period finds the engine running.
RunTimeStaysZero == timer > HousekeepingCount => runtime = 0

\* A retained run time without the retained engine-was-running bit $0001 b3
\* would restart as a resumed run with fresh enrichment: no interrupted run,
\* recovery or fill leaves the two bytes apart.
RunTimeNeedsNV == runtime # 0 => "NV" \in ram1

\* Power is released only after the clean-up is complete: the terminal count is
\* reached, the engine is stopped, and no retained bit and no run time is left,
\* although the terminal loop itself clears only $0001.
LatchedIsClean ==
  latched => /\ timer = PowerdownCount /\ ~running
             /\ ram1 = {} /\ runtime = 0

\* The scheduler never runs on retained RAM the factory test has overwritten.
AANeverScheduled == aa => factory

(* Liveness. *)

\* No step after some point is, or looks like, a power cycle.
NoMorePowerCycles == <>[][~PowerCycle]_vars

\* With ignition off for good, the ECM powers itself down, whatever the
\* reference line does meanwhile (a factory test has its own way down).
PowersDown ==
  NoMorePowerCycles /\ <>[](ignOff /\ ~factory) => <>latched

\* With ignition on, references that keep arriving fast enough start the engine
\* even when they miss most even loops: a loop without one takes nothing back.
EngineCatches ==
  NoMorePowerCycles /\ <>[](Live /\ ~refSlow /\ ~ignOff) /\ []<>refSeen
    => <>running
=============================================================================
