---------------------------- MODULE KeyOff_proofs ---------------------------
(***************************************************************************)
(* Proofs about KeyOff for every value of its calibrations.                *)
(*                                                                         *)
(* TypeOK is inductive.  The safety properties are not: that the engine    *)
(* cannot qualify again during key-off rests on the alternation of odd and *)
(* even loops, and that the terminal loop may leave the run time alone     *)
(* rests on that in turn.  IInv adds what connects them.                   *)
(***************************************************************************)
EXTENDS KeyOffRefinement, TLAPS

\* After the first housekeeping loop the engine is stopped, the run time is
\* zero, and after an odd loop that did not release power no reference counts.
Stopped ==
  timer > HousekeepingCount =>
    /\ ~running
    /\ runtime = 0
    /\ ~latched /\ count % 2 = 1 => startup = 0

\* A running engine, and a run time left behind, carry the mark in $0001.
Marked == running \/ runtime # 0 => "NV" \in ram1

IInv == TypeOK /\ Stopped /\ Marked /\ LatchedIsClean /\ AANeverScheduled

-----------------------------------------------------------------------------
(* Counters that wrap. *)

LEMMA ModRange ==
  ASSUME NEW n \in Nat, NEW m \in Nat \ {0}
  PROVE  n % m \in 0 .. m - 1
  OBVIOUS

LEMMA SuccMod ==
  ASSUME NEW n \in Nat, NEW m \in Nat \ {0}, n < m
  PROVE  (n + 1) % m = IF n + 1 = m THEN 0 ELSE n + 1
  OBVIOUS

\* The minor count stays a byte, and every IRQ changes its parity although it
\* is reset at MinorPeriod and wraps at ByteMod: both are even.
LEMMA CountAlternates ==
  ASSUME count \in 0 .. ByteMod - 1
  PROVE  /\ NextCount \in 0 .. ByteMod - 1
         /\ NextCount % 2 = 1 - (count % 2)
<1>1. (count + 1) % ByteMod = IF count + 1 = ByteMod THEN 0 ELSE count + 1
  BY CountAssumption, SuccMod
<1>2. (count + 1) % 2 = 1 - (count % 2)
  OBVIOUS
<1>3. CASE count + 1 = ByteMod
  <2>1. NextCount = 0
    BY <1>1, <1>3, CountAssumption DEF NextCount
  <2>2. count % 2 = 1
    BY <1>2, <1>3, CountAssumption
  <2>3. QED
    BY <2>1, <2>2, CountAssumption
<1>4. CASE count + 1 = MinorPeriod
  <2>1. NextCount = 0
    BY <1>1, <1>4, CountAssumption DEF NextCount
  <2>2. count % 2 = 1
    BY <1>2, <1>4, CountAssumption
  <2>3. QED
    BY <2>1, <2>2, CountAssumption
<1>5. CASE count + 1 # ByteMod /\ count + 1 # MinorPeriod
  <2>1. NextCount = count + 1
    BY <1>1, <1>5, CountAssumption DEF NextCount
  <2>2. QED
    BY <1>2, <1>5, <2>1, CountAssumption
<1>6. QED
  BY <1>3, <1>4, <1>5

\* The one-second event leaves a run time of its width.
LEMMA RuntimeTyped ==
  ASSUME runtime \in 0 .. RuntimeMod - 1
  PROVE  RuntimeAfterEvent \in 0 .. RuntimeMod - 1
BY CalibrationAssumption, ModRange DEF RuntimeAfterEvent

LEMMA MiscTyped ==
  ASSUME NEW bits \in SUBSET Ram1Bits, NEW run \in BOOLEAN,
         NEW out \in AfterMisc(bits, run)
  PROVE  out \in SUBSET Ram1Bits /\ bits \subseteq out
BY DEF AfterMisc, Ram1Bits

-----------------------------------------------------------------------------
(* Type correctness: flags and counters never depend on each other's types. *)

LEMMA InitTyped == Init => TypeOK
<1> SUFFICES ASSUME Init PROVE TypeOK
  OBVIOUS
<1>1. FlagsOK
  BY DEF Init, FlagsOK, Ram1Bits
<1>2. CountersOK
  BY CountAssumption, CalibrationAssumption DEF Init, CountersOK, StartCount
<1>3. QED
  BY <1>1, <1>2 DEF TypeOK

LEMMA NextFlags == FlagsOK /\ [Next]_vars => FlagsOK'
<1> SUFFICES ASSUME FlagsOK, [Next]_vars PROVE FlagsOK'
  OBVIOUS
<1> USE DEF FlagsOK
<1>1. CASE OddIgnitionOn \/ OddDebounce
  BY <1>1 DEF OddIgnitionOn, OddDebounce, OddIrq, AfterMisc, Ram1Bits
<1>2. CASE OddHousekeeping
  BY <1>2 DEF OddHousekeeping, OddIrq, AfterMisc, Ram1Bits
<1>3. CASE OddPowerdown
  BY <1>3 DEF OddPowerdown, OddIrq
<1>4. ASSUME EvenIrq
      PROVE  ignOff' \in BOOLEAN /\ UNCHANGED <<latched, factory, aa, refSlow>>
  BY <1>4 DEF EvenIrq, BatterySegment, IgnOffAfter
<1>5. CASE EvenTooSlow
  BY <1>4, <1>5 DEF EvenTooSlow
<1>6. CASE EvenRunningRef
  BY <1>4, <1>6 DEF EvenRunningRef
<1>7. CASE EvenFirstRef
  BY <1>4, <1>7 DEF EvenFirstRef
<1>8. CASE EvenStartupLoop
  BY <1>4, <1>8 DEF EvenStartupLoop
<1>9. CASE EvenEngineCaught
  BY <1>4, <1>9 DEF EvenEngineCaught, Ram1Bits
<1>10. CASE EvenNoRef
  BY <1>4, <1>10 DEF EvenNoRef
<1>11. CASE \E slow \in BOOLEAN : ReferencePulse(slow)
  BY <1>11 DEF ReferencePulse, bootVars
<1>12. CASE PowerCycle
  <2>1. CASE \E recover \in BOOLEAN : PowerOnNormal(recover)
    BY <2>1 DEF PowerOnNormal, ClearVolatile, RetainedAfterCheck, IgnOffAfter,
                Ram1Bits
  <2>2. CASE \E recover \in BOOLEAN : PowerOnSwi(recover)
    BY <2>2 DEF PowerOnSwi, ClearVolatile, RetainedAfterCheck
  <2>3. CASE \E fill \in BOOLEAN : PowerOnFactory(fill)
    BY <2>3 DEF PowerOnFactory, ClearVolatile, Ram1Bits
  <2>4. QED
    BY <1>12, <2>1, <2>2, <2>3 DEF PowerCycle
<1>13. CASE UNCHANGED vars
  BY <1>13 DEF vars
<1>14. QED
  BY <1>1, <1>2, <1>3, <1>5, <1>6, <1>7, <1>8, <1>9, <1>10, <1>11, <1>12,
     <1>13 DEF Next, Irq

LEMMA NextCounters == CountersOK /\ [Next]_vars => CountersOK'
<1> SUFFICES ASSUME CountersOK, [Next]_vars PROVE CountersOK'
  OBVIOUS
<1> USE CountAssumption, CalibrationAssumption DEF CountersOK
<1>1. NextCount \in 0 .. ByteMod - 1
  BY CountAlternates
<1>2. CASE OddIgnitionOn
  BY <1>1, <1>2 DEF OddIgnitionOn, OddIrq
<1>3. CASE OddDebounce
  BY <1>1, <1>3 DEF OddDebounce, OddIrq
<1>4. CASE OddHousekeeping
  BY <1>1, <1>4 DEF OddHousekeeping, OddIrq
<1>5. CASE OddPowerdown
  BY <1>1, <1>5 DEF OddPowerdown, OddIrq
<1>6. ASSUME EvenIrq
      PROVE  /\ count' \in 0 .. ByteMod - 1
             /\ runtime' \in 0 .. RuntimeMod - 1
             /\ UNCHANGED timer
  BY <1>1, <1>6, RuntimeTyped DEF EvenIrq
<1>7. CASE EvenTooSlow
  BY <1>6, <1>7 DEF EvenTooSlow
<1>8. CASE EvenRunningRef
  BY <1>6, <1>8 DEF EvenRunningRef
<1>9. CASE EvenFirstRef
  BY <1>6, <1>9 DEF EvenFirstRef
<1>10. CASE EvenStartupLoop
  BY <1>6, <1>10 DEF EvenStartupLoop
<1>11. CASE EvenEngineCaught
  BY <1>6, <1>11 DEF EvenEngineCaught
<1>12. CASE EvenNoRef
  BY <1>6, <1>12 DEF EvenNoRef
<1>13. CASE \E slow \in BOOLEAN : ReferencePulse(slow)
  BY <1>13 DEF ReferencePulse
<1>14. CASE PowerCycle
  <2>1. CASE \E recover \in BOOLEAN : PowerOnNormal(recover)
    BY <2>1 DEF PowerOnNormal, ClearVolatile, RetainedAfterCheck, StartCount
  <2>2. CASE \E recover \in BOOLEAN : PowerOnSwi(recover)
    BY <2>2 DEF PowerOnSwi, ClearVolatile, RetainedAfterCheck
  <2>3. CASE \E fill \in BOOLEAN : PowerOnFactory(fill)
    BY <2>3 DEF PowerOnFactory, ClearVolatile
  <2>4. QED
    BY <1>14, <2>1, <2>2, <2>3 DEF PowerCycle
<1>15. CASE UNCHANGED vars
  BY <1>15 DEF vars
<1>16. QED
  BY <1>2, <1>3, <1>4, <1>5, <1>7, <1>8, <1>9, <1>10, <1>11, <1>12, <1>13,
     <1>14, <1>15 DEF Next, Irq

LEMMA NextTyped == TypeOK /\ [Next]_vars => TypeOK'
BY NextFlags, NextCounters DEF TypeOK

\* The variables keep their types for every calibration: the key-off timer
\* never passes the powerdown count, the run time never its two bytes.
THEOREM TypeCorrect == Spec => []TypeOK
BY InitTyped, NextTyped, PTL DEF Spec

-----------------------------------------------------------------------------
(* The inductive invariant. *)

LEMMA InitInv == Init => IInv
<1> SUFFICES ASSUME Init PROVE IInv
  OBVIOUS
<1>1. TypeOK
  BY InitTyped
<1>2. Stopped
  BY CalibrationAssumption DEF Init, Stopped
<1>3. Marked
  BY DEF Init, Marked
<1>4. LatchedIsClean /\ AANeverScheduled
  BY DEF Init, LatchedIsClean, AANeverScheduled
<1>5. QED
  BY <1>1, <1>2, <1>3, <1>4 DEF IInv

\* An even loop of the key-off period finds no reference counted, so it cannot
\* be the one that catches the engine.
LEMMA EvenStopped ==
  ASSUME TypeOK, Stopped, EvenIrq, timer > HousekeepingCount
  PROVE  /\ ~EvenEngineCaught
         /\ timer' = timer /\ runtime' = 0 /\ count' % 2 = 0
<1>1. NextCount % 2 = 1 - (count % 2) /\ NextCount \in Nat
  BY CountAlternates DEF TypeOK, CountersOK
<1>2. NextCount % 2 = 0 /\ count % 2 = 1
  BY <1>1 DEF EvenIrq, OddNext, TypeOK, CountersOK
<1>3. startup = 0
  BY <1>2 DEF Stopped, EvenIrq, Live
<1>4. ~EvenEngineCaught
  BY <1>3, CalibrationAssumption DEF EvenEngineCaught
<1>5. runtime' = 0
  BY DEF Stopped, EvenIrq, RuntimeAfterEvent
<1>6. QED
  BY <1>2, <1>4, <1>5 DEF EvenIrq

LEMMA NextStopped == TypeOK /\ Stopped /\ [Next]_vars => Stopped'
<1> SUFFICES ASSUME TypeOK, Stopped, [Next]_vars PROVE Stopped'
  OBVIOUS
<1>1. timer \in Nat
  BY DEF TypeOK, CountersOK
<1>2. CASE OddIgnitionOn
  BY <1>2, CalibrationAssumption DEF OddIgnitionOn, Stopped
<1>3. CASE OddDebounce
  BY <1>1, <1>3, CalibrationAssumption DEF OddDebounce, Stopped
<1>4. CASE OddHousekeeping
  BY <1>4 DEF OddHousekeeping, Stopped
<1>5. CASE OddPowerdown
  BY <1>1, <1>5, CalibrationAssumption DEF OddPowerdown, Stopped
<1>6. ASSUME EvenIrq, UNCHANGED running PROVE Stopped'
  <2>1. CASE timer > HousekeepingCount
    BY <1>6, <2>1, EvenStopped DEF Stopped
  <2>2. CASE ~(timer > HousekeepingCount)
    BY <1>6, <2>2 DEF Stopped, EvenIrq
  <2>3. QED
    BY <2>1, <2>2
<1>7. CASE EvenTooSlow \/ EvenRunningRef \/ EvenFirstRef \/ EvenStartupLoop
           \/ EvenNoRef
  BY <1>6, <1>7 DEF EvenTooSlow, EvenRunningRef, EvenFirstRef,
                    EvenStartupLoop, EvenNoRef
<1>8. CASE EvenEngineCaught
  <2>1. ~(timer > HousekeepingCount)
    BY <1>8, EvenStopped DEF EvenEngineCaught
  <2>2. QED
    BY <1>8, <2>1 DEF EvenEngineCaught, EvenIrq, Stopped
<1>9. CASE \E slow \in BOOLEAN : ReferencePulse(slow)
  BY <1>9 DEF ReferencePulse, bootVars, Stopped
<1>10. CASE PowerCycle
  <2>1. timer' = 0
    BY <1>10 DEF PowerCycle, PowerOnNormal, PowerOnSwi, PowerOnFactory,
                 ClearVolatile
  <2>2. QED
    BY <2>1, CalibrationAssumption DEF Stopped
<1>11. CASE UNCHANGED vars
  BY <1>11 DEF vars, Stopped
<1>12. QED
  BY <1>2, <1>3, <1>4, <1>5, <1>7, <1>8, <1>9, <1>10, <1>11 DEF Next, Irq

LEMMA NextMarked == TypeOK /\ Stopped /\ Marked /\ [Next]_vars => Marked'
<1> SUFFICES ASSUME TypeOK, Stopped, Marked, [Next]_vars PROVE Marked'
  OBVIOUS
<1> USE DEF Marked
<1>1. CASE OddIgnitionOn \/ OddDebounce
  BY <1>1 DEF OddIgnitionOn, OddDebounce, AfterMisc
<1>2. CASE OddHousekeeping
  BY <1>2 DEF OddHousekeeping
<1>3. CASE OddPowerdown
  <2>1. timer > HousekeepingCount
    BY <1>3, CalibrationAssumption DEF OddPowerdown, TypeOK, CountersOK
  <2>2. QED
    BY <1>3, <2>1 DEF OddPowerdown, Stopped
<1>4. ASSUME EvenIrq PROVE runtime' # 0 => running \/ runtime # 0
  BY <1>4 DEF EvenIrq, RuntimeAfterEvent
<1>5. CASE EvenTooSlow \/ EvenRunningRef \/ EvenFirstRef \/ EvenStartupLoop
           \/ EvenNoRef
  BY <1>4, <1>5 DEF EvenTooSlow, EvenRunningRef, EvenFirstRef,
                    EvenStartupLoop, EvenNoRef
<1>6. CASE EvenEngineCaught
  BY <1>6 DEF EvenEngineCaught
<1>7. CASE \E slow \in BOOLEAN : ReferencePulse(slow)
  BY <1>7 DEF ReferencePulse
<1>8. CASE PowerCycle
  <2>1. CASE \E recover \in BOOLEAN : PowerOnNormal(recover)
    BY <2>1 DEF PowerOnNormal, ClearVolatile, RetainedAfterCheck
  <2>2. CASE \E recover \in BOOLEAN : PowerOnSwi(recover)
    BY <2>2 DEF PowerOnSwi, ClearVolatile, RetainedAfterCheck
  <2>3. CASE \E fill \in BOOLEAN : PowerOnFactory(fill)
    BY <2>3 DEF PowerOnFactory, ClearVolatile
  <2>4. QED
    BY <1>8, <2>1, <2>2, <2>3 DEF PowerCycle
<1>9. CASE UNCHANGED vars
  BY <1>9 DEF vars
<1>10. QED
  BY <1>1, <1>2, <1>3, <1>5, <1>6, <1>7, <1>8, <1>9 DEF Next, Irq

\* Only the terminal loop sets the latch, and no live loop runs under it.
LEMMA NextLatched ==
  TypeOK /\ Stopped /\ LatchedIsClean /\ [Next]_vars => LatchedIsClean'
<1> SUFFICES ASSUME TypeOK, Stopped, LatchedIsClean, [Next]_vars
             PROVE  LatchedIsClean'
  OBVIOUS
<1>1. CASE OddPowerdown
  <2>1. timer = PowerdownCount /\ timer > HousekeepingCount
    BY <1>1, CalibrationAssumption DEF OddPowerdown, TypeOK, CountersOK
  <2>2. QED
    BY <1>1, <2>1 DEF OddPowerdown, Stopped, LatchedIsClean
<1>2. CASE Irq /\ ~OddPowerdown
  BY <1>2 DEF Irq, OddIgnitionOn, OddDebounce, OddHousekeeping, OddIrq,
              EvenTooSlow, EvenRunningRef, EvenFirstRef, EvenStartupLoop,
              EvenEngineCaught, EvenNoRef, EvenIrq, Live, LatchedIsClean
<1>3. CASE \E slow \in BOOLEAN : ReferencePulse(slow)
  BY <1>3 DEF ReferencePulse, Live, bootVars, LatchedIsClean
<1>4. CASE PowerCycle
  BY <1>4 DEF PowerCycle, PowerOnNormal, PowerOnSwi, PowerOnFactory,
              ClearVolatile, LatchedIsClean
<1>5. CASE UNCHANGED vars
  BY <1>5 DEF vars, LatchedIsClean
<1>6. QED
  BY <1>1, <1>2, <1>3, <1>4, <1>5 DEF Next

LEMMA NextScheduled == AANeverScheduled /\ [Next]_vars => AANeverScheduled'
<1> SUFFICES ASSUME AANeverScheduled, [Next]_vars PROVE AANeverScheduled'
  OBVIOUS
<1> USE DEF AANeverScheduled
<1>1. CASE Irq
  BY <1>1 DEF Irq, OddIgnitionOn, OddDebounce, OddHousekeeping, OddPowerdown,
              OddIrq, EvenTooSlow, EvenRunningRef, EvenFirstRef,
              EvenStartupLoop, EvenEngineCaught, EvenNoRef, EvenIrq
<1>2. CASE \E slow \in BOOLEAN : ReferencePulse(slow)
  BY <1>2 DEF ReferencePulse, bootVars
<1>3. CASE PowerCycle
  BY <1>3 DEF PowerCycle, PowerOnNormal, PowerOnSwi, PowerOnFactory,
              RetainedAfterCheck
<1>4. CASE UNCHANGED vars
  BY <1>4 DEF vars
<1>5. QED
  BY <1>1, <1>2, <1>3, <1>4 DEF Next

LEMMA Invariant == Spec => []IInv
<1>1. IInv /\ [Next]_vars => IInv'
  BY NextTyped, NextStopped, NextMarked, NextLatched, NextScheduled DEF IInv
<1>2. QED
  BY InitInv, <1>1, PTL DEF Spec

\* A windmilling engine never qualifies again once key-off housekeeping began.
THEOREM NeverRequalifies == Spec => []NoRequalification
<1>1. IInv => NoRequalification
  BY DEF IInv, Stopped, NoRequalification
<1>2. QED
  BY Invariant, <1>1, PTL

\* The dropped run time stays dropped for the rest of the key-off period.
THEOREM RunTimeDropped == Spec => []RunTimeStaysZero
<1>1. IInv => RunTimeStaysZero
  BY DEF IInv, Stopped, RunTimeStaysZero
<1>2. QED
  BY Invariant, <1>1, PTL

\* A retained run time never loses its mark in $0001, over power cycles too.
THEOREM RunTimeMarked == Spec => []RunTimeNeedsNV
<1>1. IInv => RunTimeNeedsNV
  BY DEF IInv, Marked, RunTimeNeedsNV
<1>2. QED
  BY Invariant, <1>1, PTL

\* Power is released only from a cleaned-up state.
THEOREM PowerdownIsClean == Spec => []LatchedIsClean
<1>1. IInv => LatchedIsClean
  BY DEF IInv
<1>2. QED
  BY Invariant, <1>1, PTL

\* The factory test's pattern never reaches the scheduler.
THEOREM PatternIsDiscarded == Spec => []AANeverScheduled
<1>1. IInv => AANeverScheduled
  BY DEF IInv
<1>2. QED
  BY Invariant, <1>1, PTL

-----------------------------------------------------------------------------
(* Progress: how many more interrupts a key-off, and a start, can take.  The
   fairness of PowersDown and EngineCatches only has to supply them. *)

\* Two interrupts for each count of the timer that is missing, and the way to the
\* odd loop that releases power.
IrqsLeft == 2 * (PowerdownCount - timer) + (IF count % 2 = 0 THEN 1 ELSE 2)

\* Even loops with a reference until the engine is caught.
RefsLeft ==
  IF running THEN 0
  ELSE (StartupLoops - startup) + (IF second THEN 1 ELSE 2)

LEMMA LeftBounded ==
  ASSUME TypeOK
  PROVE  /\ IrqsLeft \in 1 .. 2 * PowerdownCount + 2
         /\ RefsLeft \in 0 .. StartupLoops + 2
BY CalibrationAssumption DEF TypeOK, FlagsOK, CountersOK, IrqsLeft, RefsLeft

\* An interrupt with the ignition off is one fewer to go; the last one latches.
LEMMA IrqAdvances ==
  ASSUME TypeOK, Irq, ignOff
  PROVE  \/ IrqsLeft = 1 /\ latched'
         \/ IrqsLeft' = IrqsLeft - 1
<1>1. /\ timer \in 0 .. PowerdownCount /\ PowerdownCount \in Nat
      /\ count % 2 \in {0, 1}
      /\ NextCount % 2 = 1 - (count % 2)
  BY CountAlternates, CalibrationAssumption DEF TypeOK, CountersOK
<1>2. CASE OddIrq
  <2>1. count % 2 = 0 /\ count' % 2 = 1
    BY <1>1, <1>2 DEF OddIrq, OddNext
  <2>2. \/ OddDebounce \/ OddHousekeeping \/ OddPowerdown
    <3>1. ~EvenIrq /\ ~OddIgnitionOn
      BY <1>2 DEF OddIrq, EvenIrq, OddIgnitionOn
    <3>2. QED
      BY <3>1 DEF Irq, EvenTooSlow, EvenRunningRef, EvenFirstRef, EvenStartupLoop,
                  EvenEngineCaught, EvenNoRef
  <2>3. CASE timer < PowerdownCount
    <3>1. ~(PowerdownCount <= timer)
      BY <1>1, <2>3
    <3>2. timer' = timer + 1
      BY <2>2, <3>1 DEF OddDebounce, OddHousekeeping, OddPowerdown
    <3>3. QED
      BY <1>1, <2>1, <3>2 DEF IrqsLeft
  <2>4. CASE timer = PowerdownCount
    <3>1. ~(timer < PowerdownCount) /\ ~(timer < HousekeepingCount)
      BY <1>1, <2>4, CalibrationAssumption
    <3>2. latched' = TRUE
      BY <2>2, <3>1 DEF OddDebounce, OddHousekeeping, OddPowerdown
    <3>3. QED
      BY <1>1, <2>1, <2>4, <3>2 DEF IrqsLeft
  <2>5. QED
    BY <1>1, <2>3, <2>4
<1>3. CASE EvenIrq
  <2>1. count % 2 = 1 /\ count' % 2 = 0 /\ timer' = timer
    BY <1>1, <1>3 DEF EvenIrq, OddNext
  <2>2. QED
    BY <1>1, <2>1 DEF IrqsLeft
<1>4. OddIrq \/ EvenIrq
  BY DEF Irq, OddIgnitionOn, OddDebounce, OddHousekeeping, OddPowerdown,
         EvenTooSlow, EvenRunningRef, EvenFirstRef, EvenStartupLoop,
         EvenEngineCaught, EvenNoRef
<1>5. QED
  BY <1>2, <1>3, <1>4

\* An even loop that finds a fast enough reference brings the start nearer.
LEMMA ReferenceAdvances ==
  ASSUME TypeOK, EvenIrq, Irq, refSeen, ~refSlow, ~running
  PROVE  RefsLeft' < RefsLeft
<1>1. /\ startup \in 0 .. StartupLoops /\ StartupLoops \in Nat
      /\ ~(OddIgnitionOn \/ OddDebounce \/ OddHousekeeping \/ OddPowerdown)
  BY CalibrationAssumption
  DEF TypeOK, CountersOK, EvenIrq, OddIgnitionOn, OddDebounce, OddHousekeeping,
      OddPowerdown, OddIrq
<1>2. CASE EvenFirstRef
  BY <1>1, <1>2 DEF EvenFirstRef, RefsLeft
<1>3. CASE EvenStartupLoop
  BY <1>1, <1>3 DEF EvenStartupLoop, RefsLeft
<1>4. CASE EvenEngineCaught
  BY <1>1, <1>4 DEF EvenEngineCaught, RefsLeft
<1>5. ~EvenTooSlow /\ ~EvenRunningRef /\ ~EvenNoRef
  BY DEF EvenTooSlow, RefQualifies, EvenRunningRef, EvenNoRef
<1>6. QED
  BY <1>1, <1>2, <1>3, <1>4, <1>5 DEF Irq

\* What can set the start back is a reference too slow, and key-off once it has
\* left its debounce loops; a missing reference and a short dropout cannot.
LEMMA NothingElseSetsBack ==
  ASSUME TypeOK, [Next]_vars, ~PowerCycle
  PROVE  /\ ~Irq => IrqsLeft' = IrqsLeft
         /\ ~EvenTooSlow /\ ~OddHousekeeping => RefsLeft' <= RefsLeft
<1>1. /\ startup \in 0 .. StartupLoops /\ StartupLoops \in Nat
      /\ running \in BOOLEAN /\ second \in BOOLEAN
      /\ RefsLeft \in Nat
  BY LeftBounded, CalibrationAssumption DEF TypeOK, FlagsOK, CountersOK
<1>2. ASSUME ~Irq PROVE IrqsLeft' = IrqsLeft /\ RefsLeft' = RefsLeft
  <2>1. UNCHANGED <<timer, count, running, startup, second>>
    BY <1>2 DEF Next, ReferencePulse, bootVars, vars
  <2>2. QED
    BY <2>1 DEF IrqsLeft, RefsLeft
<1>3. ASSUME Irq, ~EvenTooSlow, ~OddHousekeeping PROVE RefsLeft' <= RefsLeft
  <2>1. CASE OddIgnitionOn \/ OddDebounce \/ OddPowerdown \/ EvenRunningRef
             \/ EvenNoRef
    <3>1. UNCHANGED <<running, startup, second>>
      BY <2>1 DEF OddIgnitionOn, OddDebounce, OddPowerdown, OddIrq, EvenRunningRef,
                  EvenNoRef
    <3>2. RefsLeft' = RefsLeft
      BY <3>1 DEF RefsLeft
    <3>3. QED
      BY <1>1, <3>2
  <2>2. CASE EvenFirstRef
    BY <1>1, <2>2 DEF EvenFirstRef, RefsLeft
  <2>3. CASE EvenStartupLoop
    BY <1>1, <2>3 DEF EvenStartupLoop, RefsLeft
  <2>4. CASE EvenEngineCaught
    BY <1>1, <2>4 DEF EvenEngineCaught, RefsLeft
  <2>5. QED
    BY <1>3, <2>1, <2>2, <2>3, <2>4 DEF Irq
<1>4. QED
  BY <1>1, <1>2, <1>3

\* The safety half of PowersDown: every interrupt that finds the ignition off is
\* one fewer before the ECM powers itself down, and the last of them does it; while
\* it stays off nothing but a power cycle sets that back, no pattern of references,
\* no one-second event and no wrap of the minor count.  From any state it takes at
\* most 2 * PowerdownCount + 2 interrupts (1804 as calibrated, 11.3 s).
THEOREM KeyOffCountsDown ==
  Spec => [][/\ IrqsLeft \in 1 .. 2 * PowerdownCount + 2
             /\ Irq /\ ignOff => \/ IrqsLeft = 1 /\ latched'
                                 \/ IrqsLeft' = IrqsLeft - 1
             /\ ~Irq /\ ~PowerCycle => IrqsLeft' = IrqsLeft]_vars
<1>1. TypeOK /\ [Next]_vars =>
        [/\ IrqsLeft \in 1 .. 2 * PowerdownCount + 2
         /\ Irq /\ ignOff => \/ IrqsLeft = 1 /\ latched'
                             \/ IrqsLeft' = IrqsLeft - 1
         /\ ~Irq /\ ~PowerCycle => IrqsLeft' = IrqsLeft]_vars
  BY LeftBounded, IrqAdvances, NothingElseSetsBack
<1>2. QED
  BY <1>1, TypeCorrect, PTL DEF Spec

\* The safety half of EngineCatches: every even loop with a fast enough reference
\* brings the start nearer by at least one of StartupLoops + 2, and only a slow
\* reference, housekeeping or a power cycle sets it back: loops in between without
\* a reference, however many, and ignition dropouts within the debounce do not.
THEOREM StartCountsDown ==
  Spec => [][/\ RefsLeft \in 0 .. StartupLoops + 2
             /\ EvenIrq /\ Irq /\ refSeen /\ ~refSlow /\ ~running
                  => RefsLeft' < RefsLeft
             /\ ~EvenTooSlow /\ ~OddHousekeeping /\ ~PowerCycle
                  => RefsLeft' <= RefsLeft]_vars
<1>1. TypeOK /\ [Next]_vars =>
        [/\ RefsLeft \in 0 .. StartupLoops + 2
         /\ EvenIrq /\ Irq /\ refSeen /\ ~refSlow /\ ~running
              => RefsLeft' < RefsLeft
         /\ ~EvenTooSlow /\ ~OddHousekeeping /\ ~PowerCycle
              => RefsLeft' <= RefsLeft]_vars
  BY LeftBounded, ReferenceAdvances, NothingElseSetsBack
<1>2. QED
  BY <1>1, TypeCorrect, PTL DEF Spec

-----------------------------------------------------------------------------
(* Refinement: every step of the code is a step of the abstract protocol. *)

LEMMA InitAbs == Init => Abs!Init
BY CalibrationAssumption DEF Init, Abs!Init, absPhase

LEMMA NextAbs == IInv /\ [Next]_vars => [Abs!Next]_(Abs!absVars)
<1> SUFFICES ASSUME IInv, [Next]_vars
             PROVE  Abs!Next \/ UNCHANGED Abs!absVars
  OBVIOUS
<1> USE DEF Abs!absVars
<1>1. timer \in Nat /\ TypeOK /\ Stopped
  BY DEF IInv, TypeOK, CountersOK
<1>2. CASE OddIgnitionOn
  <2>1. ~latched /\ ~latched' /\ absPhase' = "armed" /\ runtime' = runtime
    BY <1>2, CalibrationAssumption DEF OddIgnitionOn, OddIrq, Live, absPhase
  <2>2. absPhase \in {"armed", "saved"}
    BY <2>1 DEF absPhase
  <2>3. QED
    BY <2>1, <2>2 DEF Abs!Next, Abs!Resume
<1>3. CASE OddDebounce
  <2>1. absPhase = "armed" /\ absPhase' = "armed" /\ runtime' = runtime
    BY <1>1, <1>3, CalibrationAssumption
       DEF OddDebounce, OddIrq, Live, absPhase
  <2>2. QED
    BY <2>1
<1>4. CASE OddHousekeeping
  <2>1. ~latched /\ ~latched' /\ runtime' = 0
    BY <1>4 DEF OddHousekeeping, OddIrq, Live
  <2>2. absPhase' = "saved"
    BY <1>1, <1>4, <2>1, CalibrationAssumption DEF OddHousekeeping, absPhase
  <2>3. CASE timer > HousekeepingCount
    BY <1>1, <2>1, <2>2, <2>3 DEF absPhase, Stopped
  <2>4. CASE ~(timer > HousekeepingCount)
    BY <2>1, <2>2, <2>4 DEF absPhase, Abs!Next, Abs!Save
  <2>5. QED
    BY <2>3, <2>4
<1>5. CASE OddPowerdown
  <2>1. absPhase = "saved"
    BY <1>1, <1>5, CalibrationAssumption
       DEF OddPowerdown, OddIrq, Live, absPhase
  <2>2. absPhase' = "down" /\ runtime' = runtime
    BY <1>5 DEF OddPowerdown, absPhase
  <2>3. QED
    BY <2>1, <2>2 DEF Abs!Next, Abs!Release
<1>6. CASE EvenIrq
  <2>1. ~latched /\ absPhase' = absPhase
    BY <1>6 DEF EvenIrq, Live, absPhase
  <2>2. CASE timer > HousekeepingCount
    BY <1>1, <1>6, <2>1, <2>2, EvenStopped DEF Stopped
  <2>3. CASE ~(timer > HousekeepingCount)
    BY <2>1, <2>3 DEF absPhase, Abs!Next, Abs!Record
  <2>4. QED
    BY <2>2, <2>3
<1>7. CASE \E slow \in BOOLEAN : ReferencePulse(slow)
  BY <1>7 DEF ReferencePulse, bootVars, absPhase
<1>8. CASE PowerCycle
  <2>1. ~latched' /\ timer' = 0
    BY <1>8 DEF PowerCycle, PowerOnNormal, PowerOnSwi, PowerOnFactory,
                ClearVolatile
  <2>2. absPhase' = "armed"
    BY <2>1, CalibrationAssumption DEF absPhase
  <2>3. QED
    BY <2>2 DEF Abs!Next, Abs!Restart
<1>9. CASE UNCHANGED vars
  BY <1>9 DEF vars, absPhase
<1>10. Irq => \/ OddIgnitionOn \/ OddDebounce \/ OddHousekeeping \/ OddPowerdown
              \/ EvenIrq
  BY DEF Irq, EvenTooSlow, EvenRunningRef, EvenFirstRef, EvenStartupLoop,
         EvenEngineCaught, EvenNoRef
<1>11. QED
  BY <1>2, <1>3, <1>4, <1>5, <1>6, <1>7, <1>8, <1>9, <1>10 DEF Next

\* The key-off code implements the abstract key-off protocol.
THEOREM KeyOffImplementsAbs == Spec => ImplementsAbs
BY InitAbs, NextAbs, Invariant, PTL DEF Spec, ImplementsAbs, Abs!Spec
=============================================================================
