--------------------------- MODULE BlmStore_proofs --------------------------
(***************************************************************************)
(* Proofs about BlmStore for every value of its calibrations.              *)
(*                                                                         *)
(* TrimUsable is inductive with the types.  LearnsSettledCell needs to     *)
(* know in which slots a new selection can still be waiting for its tail.  *)
(* CommitStands needs a bound on the learning that the lapsed permission   *)
(* still allows: the loops counted so far and the slots left until segment *)
(* 5 withdraws it never add up to another update.                          *)
(***************************************************************************)
EXTENDS BlmStore, TLAPS

-----------------------------------------------------------------------------
(* Types, and the range of the trim. *)

LEMMA NextFlags == FlagsOK /\ [Next]_vars => FlagsOK'
<1> SUFFICES ASSUME FlagsOK, [Next]_vars PROVE FlagsOK'
  OBVIOUS
<1> USE DEF FlagsOK
<1>1. CASE IgnitionOn \/ Debounce \/ Housekeeping
  BY <1>1 DEF IgnitionOn, Debounce, Housekeeping, Front, learning
<1>2. CASE Commit
  BY <1>2 DEF Commit, Front, learning
<1>3. CASE Powerdown
  BY <1>3 DEF Powerdown, Front, learning
<1>4. CASE CrankFuel
  BY <1>4 DEF CrankFuel, Fuel, AfterFuel, keyVars
<1>5. CASE \E selected \in Cells : NormalFuel(selected)
  BY <1>5 DEF NormalFuel, Fuel, AfterFuel, keyVars
<1>6. CASE TailClears \/ TailCounts \/ TailLearns
  BY <1>6 DEF TailClears, TailCounts, TailLearns, Tail, keyVars
<1>7. CASE SegmentMisc \/ SegmentAverage \/ SegmentQualify \/ SegmentOther
  BY <1>7 DEF SegmentMisc, SegmentAverage, SegmentQualify, SegmentOther,
              Segment, keyVars
<1>8. CASE EvenIrq
  BY <1>8 DEF EvenIrq, retained, learning
<1>9. CASE Mode4BlmReset
  BY <1>9 DEF Mode4BlmReset, keyVars, learning
<1>10. CASE \E recover \in BOOLEAN : PowerOnNormal(recover)
  BY <1>10 DEF PowerOnNormal, ClearVolatile, RetainedAfterCheck, Requests
<1>11. CASE \E recover \in BOOLEAN : PowerOnSwi(recover)
  BY <1>11 DEF PowerOnSwi, ClearVolatile, RetainedAfterCheck, Requests
<1>12. CASE PowerOnFactory
  BY <1>12 DEF PowerOnFactory, ClearVolatile, Requests
<1>13. CASE UNCHANGED vars
  BY <1>13 DEF vars
<1>14. QED
  BY <1>1, <1>2, <1>3, <1>4, <1>5, <1>6, <1>7, <1>8, <1>9, <1>10, <1>11,
     <1>12, <1>13 DEF Next, Irq

LEMMA NextNumbers == NumbersOK /\ [Next]_vars => NumbersOK'
<1> SUFFICES ASSUME NumbersOK, [Next]_vars PROVE NumbersOK'
  OBVIOUS
<1> USE PeriodAssumption, TrimAssumption DEF NumbersOK, Slots
<1>1. CASE IgnitionOn \/ Debounce \/ Housekeeping \/ Commit \/ Powerdown
  BY <1>1 DEF IgnitionOn, Debounce, Housekeeping, Commit, Powerdown, Front,
              learning
<1>2. CASE CrankFuel \/ \E selected \in Cells : NormalFuel(selected)
  BY <1>2 DEF CrankFuel, NormalFuel, Fuel, keyVars
<1>3. CASE TailClears \/ TailCounts \/ TailLearns
  BY <1>3 DEF TailClears, TailCounts, TailLearns, Tail, NextLearn, keyVars
<1>4. CASE SegmentMisc \/ SegmentAverage \/ SegmentQualify \/ SegmentOther
  <2>1. Segment
    BY <1>4 DEF SegmentMisc, SegmentAverage, SegmentQualify, SegmentOther
  <2>2. UNCHANGED <<timer, learn>>
    BY <2>1 DEF Segment, keyVars
  <2>3. slot' = IF slot = 2 * HalfPeriod - 1 THEN 0 ELSE slot + 1
    BY <2>1 DEF Segment
  <2>4. slot' \in 0 .. 2 * HalfPeriod - 1
    BY <2>3
  <2>5. QED
    BY <2>2, <2>4
<1>5. CASE EvenIrq
  BY <1>5 DEF EvenIrq, retained, learning
<1>6. CASE Mode4BlmReset
  BY <1>6 DEF Mode4BlmReset, keyVars, learning
<1>7. CASE \E recover \in BOOLEAN : PowerOnNormal(recover) \/ PowerOnSwi(recover)
  BY <1>7 DEF PowerOnNormal, PowerOnSwi, ClearVolatile
<1>8. CASE PowerOnFactory
  BY <1>8 DEF PowerOnFactory, ClearVolatile
<1>9. CASE UNCHANGED vars
  BY <1>9 DEF vars
<1>10. QED
  BY <1>1, <1>2, <1>3, <1>4, <1>5, <1>6, <1>7, <1>8, <1>9 DEF Next, Irq

\* Learning stays within its limits and moves by one update at most.
LEMMA LearnedUsable ==
  ASSUME NEW value \in Usable
  PROVE  Learned(value) \in Usable /\ Near(Learned(value), value)
BY TrimAssumption DEF Learned, Usable, Near

\* What a commit stores is in the range the selection accepts.
LEMMA LimitUsable ==
  ASSUME NEW value \in Usable
  PROVE  Limit(value) \in Usable
BY TrimAssumption DEF Limit, Usable

LEMMA UsableByte == Usable \subseteq 0 .. ByteMax /\ Neutral \in Usable
BY TrimAssumption DEF Usable

\* An average never leaves the interval between its cell and itself.
LEMMA BetweenUsable ==
  ASSUME NEW a \in Usable, NEW b \in Usable, NEW v \in Between(a, b)
  PROVE  v \in Usable
BY TrimAssumption DEF Between, Usable

Trim == CellsOK /\ TrimUsable

\* Trim, without its implication: what a step from ~aa may use.
InRange ==
  /\ cells \in [Cells -> Usable] /\ cell \in Cells
  /\ samA \in Usable /\ samB \in Usable

LEMMA TrimInRange == Trim /\ ~aa => InRange
BY DEF Trim, CellsOK, TrimUsable, InRange

LEMMA InRangeTrim == InRange => Trim
BY UsableByte DEF Trim, CellsOK, TrimUsable, InRange

LEMMA InRangeTrimPrime == InRange' => Trim'
BY UsableByte DEF Trim, CellsOK, TrimUsable, InRange

\* No step of the running program takes the trim out of range.
LEMMA RunningInRange ==
  InRange /\ (Irq \/ EvenIrq \/ Mode4BlmReset) => InRange'
<1> SUFFICES ASSUME InRange, Irq \/ EvenIrq \/ Mode4BlmReset PROVE InRange'
  OBVIOUS
<1>1. CASE IgnitionOn \/ Debounce \/ Housekeeping \/ Powerdown
  BY <1>1 DEF InRange, IgnitionOn, Debounce, Housekeeping, Powerdown, Front,
              learning
<1>2. CASE Commit
  <2>1. samA' \in Usable /\ samB' \in Usable
    BY <1>2, LimitUsable DEF InRange, Commit
  <2>2. QED
    BY <1>2, <2>1 DEF InRange, Commit, Front, learning
<1>3. CASE CrankFuel
  BY <1>3 DEF InRange, CrankFuel, Fuel
<1>4. ASSUME NEW selected \in Cells, NormalFuel(selected) PROVE InRange'
  BY <1>4, CellAssumption, UsableByte DEF InRange, NormalFuel, Fuel
<1>5. CASE TailClears \/ TailCounts
  BY <1>5 DEF InRange, TailClears, TailCounts, Tail
<1>6. CASE TailLearns
  BY <1>6, LearnedUsable DEF InRange, TailLearns, Tail
<1>7. CASE SegmentMisc \/ SegmentQualify \/ SegmentOther
  BY <1>7 DEF InRange, SegmentMisc, SegmentQualify, SegmentOther, Segment
<1>8. CASE SegmentAverage
  <2>1. cells[Idle] \in Usable /\ cells[NonIdle] \in Usable
    BY CellAssumption DEF InRange
  <2>2. samA' \in Usable
    BY <1>8, <2>1, BetweenUsable DEF InRange, SegmentAverage
  <2>3. samB' \in Usable
    BY <1>8, <2>1, BetweenUsable DEF InRange, SegmentAverage
  <2>4. QED
    BY <1>8, <2>2, <2>3 DEF InRange, SegmentAverage, Segment
<1>9. CASE EvenIrq
  BY <1>9 DEF InRange, EvenIrq, retained, learning
<1>10. CASE Mode4BlmReset
  BY <1>10, UsableByte DEF InRange, Mode4BlmReset, learning
<1>11. QED
  BY <1>1, <1>2, <1>3, <1>4, <1>5, <1>6, <1>7, <1>8, <1>9, <1>10 DEF Irq

LEMMA NextTrim == Trim /\ [Next]_vars => Trim'
<1> SUFFICES ASSUME Trim, [Next]_vars PROVE Trim'
  OBVIOUS
<1>1. CASE ~aa /\ (Irq \/ EvenIrq \/ Mode4BlmReset)
  BY <1>1, TrimInRange, RunningInRange, InRangeTrimPrime
<1>2. ASSUME NEW recover \in BOOLEAN,
             PowerOnNormal(recover) \/ PowerOnSwi(recover)
      PROVE  Trim'
  <2>1. cell' \in Cells
    BY <1>2, CellAssumption DEF PowerOnNormal, PowerOnSwi, ClearVolatile
  <2>2. RetainedAfterCheck(recover)
    BY <1>2 DEF PowerOnNormal, PowerOnSwi
  <2>3. CASE recover
    BY <2>1, <2>2, <2>3, UsableByte, InRangeTrimPrime
       DEF RetainedAfterCheck, InRange
  <2>4. CASE ~recover
    <3>1. InRange
      BY <2>2, <2>4, TrimInRange DEF RetainedAfterCheck
    <3>2. QED
      BY <2>1, <2>2, <2>4, <3>1, InRangeTrimPrime
         DEF RetainedAfterCheck, InRange
  <2>5. QED
    BY <2>3, <2>4
<1>3. CASE PowerOnFactory
  BY <1>3, CellAssumption, TrimAssumption
     DEF PowerOnFactory, ClearVolatile, Trim, CellsOK, TrimUsable
<1>4. CASE UNCHANGED vars
  BY <1>4 DEF vars, Trim, CellsOK, TrimUsable
<1>5. QED
  BY <1>1, <1>2, <1>3, <1>4 DEF Next

LEMMA InitTrim == Init => FlagsOK /\ NumbersOK /\ Trim
<1> SUFFICES ASSUME Init PROVE FlagsOK /\ NumbersOK /\ Trim
  OBVIOUS
<1>1. FlagsOK
  BY DEF Init, FlagsOK, Requests
<1>2. NumbersOK
  BY PeriodAssumption, TrimAssumption DEF Init, NumbersOK, Slots
<1>3. Trim
  BY InRangeTrim, UsableByte, CellAssumption DEF Init, InRange
<1>4. QED
  BY <1>1, <1>2, <1>3

\* Every variable keeps its type, for every calibration.
THEOREM TypeCorrect == Spec => []TypeOK
<1>1. Init => FlagsOK /\ NumbersOK /\ Trim
  BY InitTrim
<1>2. FlagsOK /\ NumbersOK /\ Trim /\ [Next]_vars => (FlagsOK /\ NumbersOK /\ Trim)'
  BY NextFlags, NextNumbers, NextTrim
<1>3. FlagsOK /\ NumbersOK /\ Trim => TypeOK
  BY DEF TypeOK, Trim
<1>4. QED
  BY <1>1, <1>2, <1>3, PTL DEF Spec

\* The selection of a cell never meets a trim it would throw away.
THEOREM TrimStaysUsable == Spec => []TrimUsable
<1>1. Init => Trim
  BY InitTrim
<1>2. Trim => TrimUsable
  BY DEF Trim
<1>3. QED
  BY <1>1, <1>2, NextTrim, PTL DEF Spec
-----------------------------------------------------------------------------
(* A new selection keeps the delay until its tail. *)

\* Where a selection still waiting for its tail can be.  It is made in the fuel
\* path, so it passes segment 3 in a running engine, or meets a tail first.
Settled ==
  fresh => /\ delay
           /\ step \in {"front", "fuel"} => ~MiscSlot
           /\ step = "segment" => ~TailSlot /\ (MiscSlot => running)

LEMMA NextSettled ==
  NumbersOK /\ FlagsOK /\ Settled /\ [Next]_vars => Settled'
<1> SUFFICES ASSUME NumbersOK, FlagsOK, Settled, [Next]_vars PROVE Settled'
  OBVIOUS
<1>1. CASE IgnitionOn \/ Debounce \/ Housekeeping \/ Commit \/ Powerdown
  BY <1>1 DEF IgnitionOn, Debounce, Housekeeping, Commit, Powerdown, Front,
              learning, Settled, MiscSlot
<1>2. CASE CrankFuel
  BY <1>2 DEF CrankFuel, Fuel, AfterFuel, keyVars, Settled, MiscSlot, TailSlot
<1>3. ASSUME NEW selected \in Cells, NormalFuel(selected) PROVE Settled'
  BY <1>3 DEF NormalFuel, Fuel, AfterFuel, keyVars, Settled, MiscSlot,
              TailSlot, FlagsOK
<1>4. CASE TailClears \/ TailLearns
  BY <1>4 DEF TailClears, TailLearns, Settled
<1>5. CASE TailCounts
  BY <1>5 DEF TailCounts, Tail, MayLearn, Settled
<1>6. CASE SegmentMisc \/ SegmentAverage \/ SegmentQualify \/ SegmentOther
  <2> SUFFICES ASSUME fresh' PROVE Settled'
    BY DEF Settled
  <2>1. Segment
    BY <1>6 DEF SegmentMisc, SegmentAverage, SegmentQualify, SegmentOther
  <2>2. fresh /\ step = "segment" /\ step' = "front"
    BY <2>1 DEF Segment
  <2>3. delay /\ ~TailSlot /\ (MiscSlot => running)
    BY <2>2 DEF Settled
  <2>4. delay'
    BY <1>6, <2>3 DEF SegmentMisc, SegmentAverage, SegmentQualify, SegmentOther
  <2>5. slot # 0 /\ slot # HalfPeriod
    BY <2>3, TailAssumption DEF TailSlot
  <2>6. slot' = IF slot = 2 * HalfPeriod - 1 THEN 0 ELSE slot + 1
    BY <2>1 DEF Segment
  <2>7. slot' # 1 /\ slot' # HalfPeriod + 1
    BY <2>5, <2>6, PeriodAssumption DEF NumbersOK, Slots
  <2>8. QED
    BY <2>2, <2>4, <2>7 DEF Settled, MiscSlot
<1>7. CASE EvenIrq
  BY <1>7 DEF EvenIrq, learning, Settled, MiscSlot
<1>8. CASE Mode4BlmReset
  BY <1>8 DEF Mode4BlmReset, learning, keyVars, Settled, MiscSlot
<1>9. CASE \E recover \in BOOLEAN : PowerOnNormal(recover) \/ PowerOnSwi(recover)
  BY <1>9 DEF PowerOnNormal, PowerOnSwi, ClearVolatile, Settled
<1>10. CASE PowerOnFactory
  BY <1>10 DEF PowerOnFactory, ClearVolatile, Settled
<1>11. CASE UNCHANGED vars
  BY <1>11 DEF vars, Settled, MiscSlot, TailSlot
<1>12. QED
  BY <1>1, <1>2, <1>3, <1>4, <1>5, <1>6, <1>7, <1>8, <1>9, <1>10, <1>11
     DEF Next, Irq

\* Only a settled selection is learnt into, for every calibration.
THEOREM SelectionSettles == Spec => LearnsSettledCell
<1> DEFINE Inv == NumbersOK /\ FlagsOK /\ Settled
<1>1. Init => Inv
  BY InitTrim DEF Init, Settled
<1>2. Inv /\ [Next]_vars => Inv'
  BY NextFlags, NextNumbers, NextSettled
<1>3. Inv /\ [Next]_vars => [step = "tail" /\ cells' # cells => ~fresh]_vars
  <2> SUFFICES ASSUME Settled, Next, step = "tail", cells' # cells, fresh
               PROVE  FALSE
    BY DEF vars
  <2>1. \/ CrankFuel \/ (\E selected \in Cells : NormalFuel(selected))
        \/ TailClears \/ TailCounts \/ TailLearns
        \/ SegmentMisc \/ SegmentAverage \/ SegmentQualify \/ SegmentOther
    BY DEF Next, Irq, IgnitionOn, Debounce, Commit, Housekeeping, Powerdown,
           Front, EvenIrq, Mode4BlmReset, PowerOnNormal, PowerOnSwi,
           PowerOnFactory, ClearVolatile
  <2>2. TailLearns
    BY <2>1 DEF CrankFuel, NormalFuel, Fuel, TailClears, TailCounts,
                SegmentMisc, SegmentAverage, SegmentQualify, SegmentOther,
                Segment
  <2>3. QED
    BY <2>2 DEF TailLearns, MayLearn, Settled
<1>4. QED
  BY <1>1, <1>2, <1>3, PTL DEF Spec, LearnsSettledCell
-----------------------------------------------------------------------------
(* The committed trim is what is retained. *)

Exact == \A c \in Cells : cells[c] = CommittedFrom(c)

\* What one late update of the selected cell, and the averaging of it, leave.
Drift ==
  /\ \A c \in Cells :
       /\ Near(cells[c], CommittedFrom(c))
       /\ c # cell /\ AverageStands(c) => cells[c] = CommittedFrom(c)
  /\ cell = NonIdle =>
       \A c \in Cells \ {Idle, NonIdle} :
         /\ Near(cells[NonIdle], cells[c])
         /\ samB \in Between(cells[c], cells[NonIdle])

\* The odd IRQs until segment 5 withdraws the permission.
Gap == IF slot <= HalfPeriod + 2 THEN HalfPeriod + 2 - slot
                                 ELSE 3 * HalfPeriod + 2 - slot

\* The loops counted and the tails that may still count never reach an update.
Budget ==
  store => learn + Gap + (IF step = "segment" THEN 0 ELSE 1) < 2 * HalfPeriod

KeyedOff == ~running /\ HousekeepingCount < timer
Held     == Drift /\ (Exact \/ Budget)
CommitInv == committed => KeyedOff /\ Held

LEMMA NearItself ==
  ASSUME NEW a \in Usable PROVE Near(a, a) /\ a \in Between(a, a)
BY TrimAssumption DEF Usable, Near, Between

\* An average on its way from one cell to another stays between them.
LEMMA BetweenNarrows ==
  ASSUME NEW a \in Usable, NEW b \in Usable,
         NEW v \in Between(a, b), NEW w \in Between(v, b)
  PROVE  w \in Between(a, b)
BY TrimAssumption DEF Usable, Between

LEMMA BetweenNear ==
  ASSUME NEW a \in Usable, NEW b \in Usable, Near(b, a),
         NEW v \in Between(a, b)
  PROVE  Near(a, v) /\ Near(b, v)
BY TrimAssumption DEF Usable, Between, Near

\* Nothing moves: what held goes on holding.
LEMMA StillHeld ==
  ASSUME Held, UNCHANGED <<cells, cell, samA, samB>>, Budget => Budget'
  PROVE  Held'
<1>1. Drift'
  BY DEF Held, Drift, Near, CommittedFrom, AverageStands, Between
<1>2. Exact => Exact'
  BY DEF Exact, CommittedFrom
<1>3. QED
  BY <1>1, <1>2 DEF Held

\* Every cell has just been made equal to its average.
LEMMA ExactHeldPrime == InRange' /\ Exact' => Held'
<1> SUFFICES ASSUME InRange', Exact' PROVE Held'
  OBVIOUS
<1>1. ASSUME NEW c \in Cells PROVE Near(cells'[c], CommittedFrom(c)')
  BY NearItself DEF Exact, InRange
<1>2. ASSUME cell' = NonIdle, NEW c \in Cells \ {Idle, NonIdle}
      PROVE  /\ Near(cells'[NonIdle], cells'[c])
             /\ samB' \in Between(cells'[c], cells'[NonIdle])
  <2>1. cells'[c] = samB' /\ cells'[NonIdle] = samB'
    BY CellAssumption DEF Exact, CommittedFrom
  <2>2. QED
    BY <2>1, NearItself DEF InRange
<1>3. QED
  BY <1>1, <1>2 DEF Held, Drift, Exact

\* The one late update.
LEMMA LateUpdate ==
  ASSUME NumbersOK, InRange, Exact, TailLearns PROVE Held'
<1> USE DEF InRange
<1>1. /\ cells' = [cells EXCEPT ![cell] = Learned(cells[cell])]
      /\ UNCHANGED <<samA, samB, cell, slot>>
      /\ learn' = 0 /\ step' = "segment"
  BY DEF TailLearns, Tail
<1>2. /\ Learned(cells[cell]) \in Usable
      /\ Near(Learned(cells[cell]), cells[cell])
  BY LearnedUsable
<1>3. ASSUME NEW c \in Cells
      PROVE  /\ Near(cells'[c], CommittedFrom(c)')
             /\ (c # cell' => cells'[c] = CommittedFrom(c)')
  <2>1. CommittedFrom(c)' = cells[c]
    BY <1>1 DEF Exact, CommittedFrom
  <2>2. CASE c = cell
    BY <1>1, <1>2, <2>1, <2>2
  <2>3. CASE c # cell
    BY <1>1, <2>1, <2>3, NearItself
  <2>4. QED
    BY <1>1, <2>2, <2>3
<1>4. ASSUME cell' = NonIdle, NEW c \in Cells \ {Idle, NonIdle}
      PROVE  /\ Near(cells'[NonIdle], cells'[c])
             /\ samB' \in Between(cells'[c], cells'[NonIdle])
  <2>1. cells[c] = samB /\ cells[NonIdle] = samB /\ cell = NonIdle
    BY <1>1, <1>4, CellAssumption DEF Exact, CommittedFrom
  <2>2. cells'[NonIdle] \in Usable /\ Near(cells'[NonIdle], samB)
    BY <1>1, <1>2, <2>1, CellAssumption
  <2>3. cells'[c] = samB
    BY <1>1, <2>1
  <2>4. samB \in Between(samB, cells'[NonIdle])
    BY <2>2, TrimAssumption DEF Between, Usable
  <2>5. QED
    BY <1>1, <2>2, <2>3, <2>4
<1>5. Budget'
  BY <1>1, PeriodAssumption DEF Budget, Gap, NumbersOK, Slots
<1>6. QED
  BY <1>3, <1>4, <1>5 DEF Held, Drift

\* The averaging of the selected cell only follows the late update.
LEMMA AverageFollows ==
  ASSUME InRange, NumbersOK, Held, SegmentAverage PROVE Held'
<1> USE DEF InRange
<1>1. /\ UNCHANGED <<cells, cell, learn, store>>
      /\ step = "segment" /\ step' = "front"
      /\ slot = HalfPeriod - 1 /\ slot' = HalfPeriod
  BY PeriodAssumption DEF SegmentAverage, Segment, AverageSlot
<1>2. Budget => Budget'
  BY <1>1, PeriodAssumption DEF Budget, Gap, NumbersOK, Slots
<1>3. CASE UNCHANGED <<samA, samB>>
  BY <1>1, <1>2, <1>3, StillHeld
<1>4. CASE cell = Idle /\ samB' = samB /\ samA' \in Between(samA, cells[Idle])
  <2>1. Near(cells[Idle], samA)
    BY CellAssumption DEF Held, Drift, CommittedFrom
  <2>2. Near(cells[Idle], samA')
    BY <1>4, <2>1, BetweenNear, CellAssumption
  <2>3. ASSUME NEW c \in Cells
        PROVE  /\ Near(cells'[c], CommittedFrom(c)')
               /\ c # cell' /\ AverageStands(c)' =>
                     cells'[c] = CommittedFrom(c)'
    <3>1. CASE c = Idle
      BY <1>1, <1>4, <2>2, <3>1 DEF CommittedFrom
    <3>2. CASE c # Idle
      <4>1. CommittedFrom(c)' = CommittedFrom(c)
        BY <1>4, <3>2 DEF CommittedFrom
      <4>2. AverageStands(c)' = AverageStands(c)
        BY <1>1 DEF AverageStands
      <4>3. QED
        BY <1>1, <4>1, <4>2 DEF Held, Drift
    <3>3. QED
      BY <3>1, <3>2
  <2>4. Drift'
    BY <1>1, <1>4, <2>3, CellAssumption DEF Drift
  <2>5. Exact => Exact'
    <3>1. Exact => samA = cells[Idle]
      BY CellAssumption DEF Exact, CommittedFrom
    <3>2. samA = cells[Idle] => samA' = samA
      BY <1>4, CellAssumption DEF Between, Usable
    <3>3. QED
      BY <1>1, <1>4, <3>1, <3>2 DEF Exact, CommittedFrom
  <2>6. QED
    BY <1>2, <2>4, <2>5 DEF Held
<1>5. CASE /\ cell = NonIdle /\ samA' = samA
           /\ samB' \in Between(samB, cells[NonIdle])
  <2>1. cells[NonIdle] \in Usable /\ samB' \in Usable
    BY <1>5, BetweenUsable, CellAssumption
  <2>2. Near(cells[NonIdle], samB)
    BY <1>5, CellAssumption DEF Held, Drift, CommittedFrom
  <2>3. Near(cells[NonIdle], samB')
    BY <1>5, <2>1, <2>2, BetweenNear
  <2>4. ASSUME NEW c \in Cells \ {Idle, NonIdle}
        PROVE  /\ Near(cells[NonIdle], cells[c])
               /\ samB' \in Between(cells[c], cells[NonIdle])
               /\ Near(cells[c], samB')
    <3>1. /\ Near(cells[NonIdle], cells[c])
          /\ samB \in Between(cells[c], cells[NonIdle])
      BY <1>5 DEF Held, Drift
    <3>2. samB' \in Between(cells[c], cells[NonIdle])
      BY <1>5, <2>1, <3>1, BetweenNarrows
    <3>3. Near(cells[c], samB')
      BY <2>1, <3>1, <3>2, BetweenNear
    <3>4. QED
      BY <3>1, <3>2, <3>3
  <2>5. ASSUME NEW c \in Cells
        PROVE  /\ Near(cells'[c], CommittedFrom(c)')
               /\ c # cell' /\ AverageStands(c)' =>
                     cells'[c] = CommittedFrom(c)'
    <3>1. CASE c = Idle
      BY <1>1, <1>5, <3>1, CellAssumption
         DEF CommittedFrom, AverageStands, Held, Drift
    <3>2. CASE c = NonIdle
      BY <1>1, <1>5, <2>3, <3>2, CellAssumption DEF CommittedFrom
    <3>3. CASE c \in Cells \ {Idle, NonIdle}
      BY <1>1, <1>5, <2>4, <3>3 DEF CommittedFrom, AverageStands
    <3>4. QED
      BY <3>1, <3>2, <3>3
  <2>6. Drift'
    BY <1>1, <2>4, <2>5 DEF Drift
  <2>7. Exact => Exact'
    <3>1. Exact => samB = cells[NonIdle]
      BY CellAssumption DEF Exact, CommittedFrom
    <3>2. samB = cells[NonIdle] => samB' = samB
      BY <1>5, <2>1 DEF Between, Usable
    <3>3. QED
      BY <1>1, <1>5, <3>1, <3>2 DEF Exact, CommittedFrom
  <2>8. QED
    BY <1>2, <2>6, <2>7 DEF Held
<1>6. QED
  BY <1>3, <1>4, <1>5, CellAssumption DEF SegmentAverage

\* With the period no longer than the learning loops (16 against 28), one
\* update is all there is time for.
LEMMA KeyOffHeld ==
  ASSUME 2 * HalfPeriod <= UpdateCount,
         FlagsOK, NumbersOK, InRange, KeyedOff, Held,
         Irq \/ EvenIrq \/ Mode4BlmReset,
         committed'
  PROVE  KeyedOff' /\ Held'
<1> USE PeriodAssumption DEF NumbersOK, Slots
<1>1. CASE IgnitionOn \/ Debounce
  BY <1>1 DEF IgnitionOn, Debounce, KeyedOff
<1>2. CASE Commit
  BY <1>2 DEF Commit, KeyedOff
<1>3. CASE Housekeeping \/ Powerdown
  <2>1. UNCHANGED <<cells, cell, samA, samB, store, learn, slot, running>>
        /\ step = "front" /\ step' \in {"front", "fuel"}
        /\ timer' \in {timer, timer + 1}
    BY <1>3 DEF Housekeeping, Powerdown, Front, learning
  <2>2. Budget => Budget'
    BY <2>1 DEF Budget, Gap
  <2>3. QED
    BY <2>1, <2>2, StillHeld DEF KeyedOff
<1>4. CASE CrankFuel
  <2>1. UNCHANGED <<cells, cell, samA, samB, store, learn, slot, running, timer>>
        /\ step = "fuel" /\ step' \in {"tail", "segment"}
    BY <1>4 DEF CrankFuel, Fuel, AfterFuel, keyVars
  <2>2. Budget => Budget'
    BY <2>1 DEF Budget, Gap
  <2>3. QED
    BY <2>1, <2>2, StillHeld DEF KeyedOff
<1>5. CASE \E selected \in Cells : NormalFuel(selected)
  BY <1>5 DEF NormalFuel, KeyedOff
<1>6. CASE TailClears
  <2>1. UNCHANGED <<cells, cell, samA, samB, store, slot, running, timer>>
        /\ step = "tail" /\ step' = "segment" /\ learn' = 0
    BY <1>6 DEF TailClears, Tail, keyVars
  <2>2. Budget => Budget'
    BY <2>1 DEF Budget, Gap
  <2>3. QED
    BY <2>1, <2>2, StillHeld DEF KeyedOff
<1>7. CASE TailCounts
  <2>1. UNCHANGED <<cells, cell, samA, samB, store, slot, running, timer>>
        /\ step = "tail" /\ step' = "segment" /\ learn' \in {learn, learn + 1}
    BY <1>7 DEF TailCounts, Tail, keyVars, NextLearn
  <2>2. Gap' = Gap /\ Gap \in Nat
    BY <2>1 DEF Gap
  <2>3. Budget => Budget'
    <3> SUFFICES ASSUME Budget, store PROVE Budget'
      BY <2>1 DEF Budget
    <3>1. learn + Gap + 1 < 2 * HalfPeriod
      <4>1. (IF step = "segment" THEN 0 ELSE 1) = 1
        BY <2>1
      <4>2. QED
        BY <4>1 DEF Budget
    <3>2. learn' + Gap + 0 < 2 * HalfPeriod
      <4>1. learn \in Nat
        BY TrimAssumption
      <4>2. learn' = learn \/ learn' = learn + 1
        BY <2>1
      <4>3. QED
        BY <2>2, <3>1, <4>1, <4>2
    <3>3. QED
      BY <2>1, <2>2, <3>2 DEF Budget
  <2>4. QED
    BY <2>1, <2>3, StillHeld DEF KeyedOff
<1>8. CASE TailLearns
  <2>1. KeyedOff'
    BY <1>8 DEF TailLearns, Tail, keyVars, KeyedOff
  <2>2. store /\ step = "tail" /\ UpdateCount <= learn + 1
    BY <1>8, TrimAssumption DEF TailLearns, Tail, MayLearn, NextLearn
  <2>3. Gap \in Nat
    BY DEF Gap
  <2>4. ~Budget
    BY <2>2, <2>3, TrimAssumption DEF Budget
  <2>5. QED
    BY <1>8, <2>1, <2>4, LateUpdate DEF Held
<1>9. CASE SegmentAverage
  BY <1>9, AverageFollows DEF SegmentAverage, Segment, keyVars, KeyedOff
<1>10. CASE SegmentQualify
  <2>1. UNCHANGED <<cells, cell, samA, samB, running, timer>>
    BY <1>10 DEF SegmentQualify, Segment, keyVars
  <2>2. ~ClosedLoopPossible
    BY DEF ClosedLoopPossible, KeyedOff
  <2>3. ~store'
    BY <1>10, <2>2 DEF SegmentQualify
  <2>4. Budget'
    BY <2>3 DEF Budget
  <2>5. QED
    BY <2>1, <2>4, StillHeld DEF KeyedOff
<1>11. CASE SegmentMisc \/ SegmentOther
  <2>1. UNCHANGED <<cells, cell, samA, samB, store, learn, running, timer>>
        /\ step = "segment" /\ step' = "front"
    BY <1>11 DEF SegmentMisc, SegmentOther, Segment, keyVars
  <2>2. slot # HalfPeriod + 2
    BY <1>11 DEF SegmentMisc, SegmentOther, MiscSlot, QualifySlot
  <2>3. slot' = IF slot = 2 * HalfPeriod - 1 THEN 0 ELSE slot + 1
    BY <1>11 DEF SegmentMisc, SegmentOther, Segment
  <2>4. Gap' = Gap - 1 /\ Gap \in Int
    BY <2>2, <2>3 DEF Gap
  <2>5. Budget => Budget'
    BY <2>1, <2>4 DEF Budget
  <2>6. QED
    BY <2>1, <2>5, StillHeld DEF KeyedOff
<1>12. CASE EvenIrq
  <2>1. UNCHANGED <<cells, cell, samA, samB, store, learn, slot, step, timer>>
    BY <1>12 DEF EvenIrq, retained, learning
  <2>2. ~(timer <= HousekeepingCount) /\ ~running
    BY DEF KeyedOff
  <2>3. ~running'
    BY <1>12, <2>2, Zenon DEF EvenIrq
  <2>4. Budget => Budget'
    BY <2>1 DEF Budget, Gap
  <2>5. QED
    BY <2>1, <2>2, <2>3, <2>4, StillHeld DEF KeyedOff
<1>13. CASE Mode4BlmReset
  <2>1. KeyedOff'
    BY <1>13 DEF Mode4BlmReset, keyVars, KeyedOff
  <2>2. InRange'
    BY <1>13, RunningInRange
  <2>3. Exact'
    BY <1>13 DEF Mode4BlmReset, Exact, CommittedFrom
  <2>4. Held'
    BY <2>2, <2>3, ExactHeldPrime
  <2>5. QED
    BY <2>1, <2>4
<1>14. QED
  BY <1>1, <1>2, <1>3, <1>4, <1>5, <1>6, <1>7, <1>8, <1>9, <1>10, <1>11,
     <1>12, <1>13 DEF Irq

LEMMA NextCommit ==
  ASSUME 2 * HalfPeriod <= UpdateCount,
         FlagsOK, NumbersOK, Trim, CommitInv, [Next]_vars
  PROVE  CommitInv'
<1> SUFFICES ASSUME committed' PROVE KeyedOff' /\ Held'
  BY DEF CommitInv
<1>1. CASE ~aa /\ (Irq \/ EvenIrq \/ Mode4BlmReset)
  <2>1. InRange
    BY <1>1, TrimInRange
  <2>2. CASE committed
    BY <1>1, <2>1, <2>2, KeyOffHeld DEF CommitInv
  <2>3. CASE ~committed
    <3>1. Commit
      BY <1>1, <2>3 DEF Irq, EvenIrq, Mode4BlmReset, IgnitionOn, Debounce,
         Housekeeping, Powerdown, CrankFuel, NormalFuel, Fuel, TailClears,
         TailCounts, TailLearns, Tail, SegmentMisc, SegmentAverage,
         SegmentQualify, SegmentOther, Segment
    <3>2. InRange'
      BY <1>1, <2>1, RunningInRange
    <3>3. Exact'
      BY <3>1, CellAssumption DEF Commit, Exact, CommittedFrom
    <3>4. Held'
      BY <3>2, <3>3, ExactHeldPrime
    <3>5. KeyedOff'
      BY <3>1, PeriodAssumption DEF Commit, KeyedOff, NumbersOK
    <3>6. QED
      BY <3>4, <3>5
  <2>4. QED
    BY <2>2, <2>3
<1>2. CASE \E recover \in BOOLEAN : PowerOnNormal(recover) \/ PowerOnSwi(recover)
  BY <1>2 DEF PowerOnNormal, PowerOnSwi, ClearVolatile
<1>3. CASE PowerOnFactory
  BY <1>3 DEF PowerOnFactory, ClearVolatile
<1>4. CASE UNCHANGED vars
  <2>1. KeyedOff /\ Held
    BY <1>4 DEF CommitInv, vars
  <2>2. Budget => Budget'
    BY <1>4 DEF vars, Budget, Gap
  <2>3. Held'
    BY <1>4, <2>1, <2>2, StillHeld DEF vars
  <2>4. QED
    BY <1>4, <2>1, <2>3 DEF vars, KeyedOff
<1>5. QED
  BY <1>1, <1>2, <1>3, <1>4 DEF Next

\* For every calibration whose learning loops outlast two major loops, as 28
\* does 16, the key-off commit stands: at most one late update of one cell.
THEOREM CommitIsRetained ==
  ASSUME 2 * HalfPeriod <= UpdateCount
  PROVE  Spec => []CommitStands
<1> DEFINE Inv == FlagsOK /\ NumbersOK /\ Trim /\ CommitInv
<1>1. Init => Inv
  BY InitTrim DEF Init, CommitInv
<1>2. Inv /\ [Next]_vars => Inv'
  BY NextFlags, NextNumbers, NextTrim, NextCommit
<1>3. Inv => CommitStands
  BY DEF CommitInv, Held, Drift, CommitStands
<1>4. QED
  BY <1>1, <1>2, <1>3, PTL DEF Spec
=============================================================================
