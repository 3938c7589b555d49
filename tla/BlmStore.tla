------------------------------ MODULE BlmStore ------------------------------
(***************************************************************************)
(* The retained fuel trim: the sixteen block-learn cells $001C..$002B and  *)
(* the two slow averages (SAM) $000A and $000C.                            *)
(*                                                                         *)
(* Only the odd IRQs matter.  One of them is four steps in the order of    *)
(* irq_6p25ms: the ignition-shutdown front, which commits the averages to  *)
(* the cells at key-off; the fuel path of a running engine, which selects  *)
(* a cell; the 50-ms tail, which learns into it; and the major segment     *)
(* (3, 5 or F).  The two of them that alternate with $0000 b4 make the     *)
(* period 32 counts, 16 odd IRQs.  Between IRQs a Mode-4 frame may reset   *)
(* the trim and the host may cycle power.                                  *)
(***************************************************************************)
EXTENDS Integers

CONSTANTS
  Cells,             \* block-learn cells (0..15)
  Idle,              \* the idle cell, committed from SAM A (0)
  NonIdle,           \* the cell SAM B averages (9)
  BlmMin, BlmMax,    \* CAL_BLM_MIN, CAL_BLM_MAX (108, 160)
  SamLow, SamHigh,   \* STEP111_SAM_LOW, STEP111_SAM_HIGH (118, 150)
  Neutral,           \* 128
  UpdateAmount,      \* CAL_BLM_UPDATE_AMOUNT (2)
  UpdateCount,       \* CAL_BLM_UPDATE_COUNT (28)
  ByteMax,           \* 255
  FillByte,          \* the factory fill pattern ($AA)
  HousekeepingCount, \* STEP111_HOUSEKEEPING_COUNT (8)
  PowerdownCount,    \* STEP111_POWERDOWN_COUNT ($0385)
  HalfPeriod,        \* odd IRQs in a major loop (8)
  TailSlots          \* the odd IRQs of two major loops that run the 50-ms
                     \* tail: (MINOR_COUNT & 6) = 0, counts 1, 9, 17 and 25

ASSUME CellAssumption == Idle \in Cells /\ NonIdle \in Cells \ {Idle}

ASSUME TrimAssumption ==
  /\ BlmMin \in Nat /\ BlmMax \in Nat /\ SamLow \in Nat /\ SamHigh \in Nat
  /\ Neutral \in Nat /\ FillByte \in Nat /\ ByteMax \in Nat
  /\ BlmMin <= SamLow /\ SamLow <= Neutral
  /\ Neutral <= SamHigh /\ SamHigh <= BlmMax
  /\ BlmMax < FillByte /\ FillByte <= ByteMax
  /\ UpdateAmount \in Nat /\ BlmMax + UpdateAmount <= ByteMax
  /\ UpdateCount \in Nat \ {0} /\ UpdateCount <= ByteMax

ASSUME PeriodAssumption ==
  /\ HousekeepingCount \in Nat /\ PowerdownCount \in Nat
  /\ HousekeepingCount < PowerdownCount
  /\ HalfPeriod \in Nat /\ 2 < HalfPeriod
  /\ TailSlots \subseteq 0 .. 2 * HalfPeriod - 1

\* A tail comes right before each segment 3 and not with it.
ASSUME TailAssumption ==
  /\ {0, HalfPeriod} \subseteq TailSlots
  /\ {1, HalfPeriod + 1} \cap TailSlots = {}

VARIABLES
  step,     \* what the odd IRQ does next: "front", "fuel", "tail", "segment"
  slot,     \* the odd IRQs within 32 counts
  latched,  \* sim_soft_powerdown_latched
  aa,       \* the factory test has filled the retained RAM
  ignOff,   \* $0033 b4
  running,  \* $0034 b7
  timer,    \* $008B:$008C
  cells,    \* $001C..$002B, retained
  samA,     \* high byte of $000A, retained
  samB,     \* high byte of $000C, retained
  cell,     \* $00BF, the selected cell
  store,    \* $0044 b1, learning permitted
  delay,    \* $0043 b3, the selected cell has just changed
  learn,    \* $00CA, learning loops
  trim,     \* what the integrator and the O2 sensor ask of the selected cell
  fresh,    \* history: the cell has changed since the learning loops began
  committed \* history: LF447 has run in this key-off

retained == <<cells, samA, samB, aa>>
learning == <<cell, store, delay, learn, trim, fresh>>
keyVars  == <<latched, ignOff, running, timer>>
vars == <<step, slot, latched, aa, ignOff, running, timer, cells, samA, samB,
          cell, store, delay, learn, trim, fresh, committed>>

Usable   == BlmMin .. BlmMax
Requests == {"neutral", "hold", "up", "down"}
Slots    == 0 .. 2 * HalfPeriod - 1

TailSlot    == slot \in TailSlots
MiscSlot    == slot \in {1, HalfPeriod + 1}     \* segment 3
AverageSlot == slot = HalfPeriod - 1            \* segment F, $0000 b4 clear
QualifySlot == slot = HalfPeriod + 2            \* segment 5, $0000 b4 set

-----------------------------------------------------------------------------
(* bua_ignition_shutdown_odd_step111, as far as it reaches the trim. *)

\* bua_limit_step111.
Limit(value) ==
  IF value <= SamLow THEN SamLow ELSE IF value > SamHigh THEN SamHigh ELSE value

Front(next) ==
  /\ step = "front" /\ ~latched /\ step' = next
  /\ UNCHANGED <<slot, aa, ignOff, learning>>

IgnitionOn ==
  /\ Front("fuel") /\ ~ignOff
  /\ timer' = 0 /\ committed' = FALSE
  /\ UNCHANGED <<latched, running, cells, samA, samB>>

Debounce ==
  /\ Front("fuel") /\ ignOff /\ timer < HousekeepingCount
  /\ timer' = timer + 1
  /\ UNCHANGED <<latched, running, cells, samA, samB, committed>>

\* The first housekeeping loop after the engine ran commits the averages
\* (bua_ignition_commit_blm_lf447_step111) and stops the engine.
Commit ==
  /\ Front("fuel") /\ ignOff /\ running
  /\ HousekeepingCount <= timer /\ timer < PowerdownCount
  /\ timer' = timer + 1 /\ running' = FALSE
  /\ samA' = Limit(samA) /\ samB' = Limit(samB)
  /\ cells' = [c \in Cells |-> IF c = Idle THEN samA' ELSE samB']
  /\ committed' = TRUE
  /\ UNCHANGED latched

Housekeeping ==
  /\ Front("fuel") /\ ignOff /\ ~running
  /\ HousekeepingCount <= timer /\ timer < PowerdownCount
  /\ timer' = timer + 1
  /\ UNCHANGED <<latched, running, cells, samA, samB, committed>>

Powerdown ==
  /\ Front("front") /\ ignOff /\ PowerdownCount <= timer
  /\ latched' = TRUE
  /\ UNCHANGED <<timer, running, cells, samA, samB, committed>>

-----------------------------------------------------------------------------
(* The fuel path and its 50-ms tail. *)

AfterFuel == step' = IF TailSlot THEN "tail" ELSE "segment"

Fuel ==
  /\ step = "fuel" /\ AfterFuel
  /\ UNCHANGED <<slot, keyVars, samA, samB, aa, store, learn, committed>>

\* A stopped engine takes the cranking path, which leaves the trim alone.
CrankFuel ==
  /\ Fuel /\ ~running
  /\ UNCHANGED <<cells, cell, delay, trim, fresh>>

\* Mutant: a change of cell does not ask for the learning delay.
NormalFuelMutant(selected) ==
  /\ Fuel /\ running
  /\ cell' = IF cells[selected] \in Usable THEN selected ELSE Idle
  /\ cells' = IF cells[selected] \in Usable THEN cells
              ELSE [c \in Cells |-> Neutral]
  /\ fresh' = (fresh \/ selected # cell)
  /\ trim' \in Requests
  /\ UNCHANGED delay

\* bua_blm_select_step103 and the O2 control of a running engine: a change of
\* cell delays learning, and a cell out of range would reset all of them.
NormalFuel(selected) ==
  /\ Fuel /\ running
  /\ cell' = IF cells[selected] \in Usable THEN selected ELSE Idle
  /\ cells' = IF cells[selected] \in Usable THEN cells
              ELSE [c \in Cells |-> Neutral]
  /\ delay' = (delay \/ selected # cell)
  /\ fresh' = (fresh \/ selected # cell)
  /\ trim' \in Requests

\* bua_blm_learn_step35: one step towards the correction, within its limits.
Learned(value) ==
  IF trim = "up"
  THEN IF value + UpdateAmount > BlmMax THEN BlmMax ELSE value + UpdateAmount
  ELSE IF value < BlmMin + UpdateAmount THEN BlmMin ELSE value - UpdateAmount

NextLearn == IF learn = ByteMax THEN ByteMax ELSE learn + 1

\* bua_odd_50ms_tail_lddc2 ends every pass by clearing the delay.
Tail ==
  /\ step = "tail" /\ step' = "segment"
  /\ delay' = FALSE
  /\ UNCHANGED <<slot, keyVars, samA, samB, aa, cell, store, trim, committed>>

MayLearn == store /\ ~delay /\ trim # "neutral"

TailClears ==
  /\ Tail /\ ~MayLearn
  /\ learn' = 0 /\ fresh' = FALSE
  /\ UNCHANGED cells

TailCounts ==
  /\ Tail /\ MayLearn /\ (NextLearn < UpdateCount \/ trim = "hold")
  /\ learn' = NextLearn
  /\ UNCHANGED <<cells, fresh>>

TailLearns ==
  /\ Tail /\ MayLearn /\ UpdateCount <= NextLearn /\ trim # "hold"
  /\ cells' = [cells EXCEPT ![cell] = Learned(@)]
  /\ learn' = 0 /\ fresh' = FALSE

-----------------------------------------------------------------------------
(* The major segments of an odd IRQ that reach the trim. *)

Segment ==
  /\ step = "segment" /\ step' = "front"
  /\ slot' = IF slot = 2 * HalfPeriod - 1 THEN 0 ELSE slot + 1
  /\ UNCHANGED <<keyVars, aa, cells, cell, learn, trim, fresh, committed>>

\* seg3_misc_100ms: a stopped engine drops the delay.
SegmentMisc ==
  /\ Segment /\ MiscSlot
  /\ delay' = (delay /\ running)
  /\ UNCHANGED <<samA, samB, store>>

Between(a, b) == (a .. b) \cup (b .. a)

\* bua_segf87: the lag filter moves an average towards its cell and never past
\* it.  Whether it runs also depends on the coolant and on the idle timer.
SegmentAverage ==
  /\ Segment /\ AverageSlot
  /\ samA' \in IF store /\ cell = Idle THEN Between(samA, cells[Idle]) ELSE {samA}
  /\ samB' \in IF store /\ cell = NonIdle THEN Between(samB, cells[NonIdle])
                                          ELSE {samB}
  /\ UNCHANGED <<store, delay>>

\* Closed loop, and so learning, needs a running engine or the retained bit
\* $0001 b3, which the front of this same IRQ has cleared in housekeeping.
ClosedLoopPossible == running \/ timer <= HousekeepingCount

\* Mutant: the permission survives the loss of closed loop.
SegmentQualifyMutant ==
  /\ Segment /\ QualifySlot
  /\ store' \in IF ClosedLoopPossible THEN BOOLEAN ELSE {store}
  /\ UNCHANGED <<samA, samB, delay>>

\* seg5_ac_closed_loop_fan: bua_closed_loop_entry_step34, then
\* bua_blm_store_qualify_step35.
SegmentQualify ==
  /\ Segment /\ QualifySlot
  /\ store' \in IF ClosedLoopPossible THEN BOOLEAN ELSE {FALSE}
  /\ UNCHANGED <<samA, samB, delay>>

SegmentOther ==
  /\ Segment /\ ~MiscSlot /\ ~AverageSlot /\ ~QualifySlot
  /\ UNCHANGED <<samA, samB, store, delay>>

Irq ==
  \/ IgnitionOn \/ Debounce \/ Commit \/ Housekeeping \/ Powerdown
  \/ CrankFuel
  \/ \E selected \in Cells : NormalFuel(selected)
  \/ TailClears \/ TailCounts \/ TailLearns
  \/ SegmentMisc \/ SegmentAverage \/ SegmentQualify \/ SegmentOther

-----------------------------------------------------------------------------
(* Between two odd IRQs. *)

\* The even IRQ: segment E decides on ignition, and the reference state starts
\* the engine, not once housekeeping has begun (NoRequalification of KeyOff).
EvenIrq ==
  /\ step = "front" /\ ~latched
  /\ ignOff' \in BOOLEAN
  /\ running' \in IF timer <= HousekeepingCount THEN {running, TRUE} ELSE {running}
  /\ UNCHANGED <<step, slot, latched, timer, retained, learning, committed>>

\* bua_mode4_scheduler_step116 with the BLM reset requested: LF434.
Mode4BlmReset ==
  /\ step = "front" /\ ~latched
  /\ cells' = [c \in Cells |-> Neutral]
  /\ samA' = Neutral /\ samB' = Neutral
  /\ UNCHANGED <<step, slot, keyVars, aa, learning, committed>>

\* $002E..$01B2 are cleared; the retained bytes are not.
ClearVolatile ==
  /\ step = "front" /\ step' = "front"
  /\ latched' = FALSE /\ running' = FALSE /\ timer' = 0
  /\ cell' = Idle /\ store' = FALSE /\ delay' = FALSE
  /\ learn' = 0 /\ fresh' = FALSE /\ committed' = FALSE

\* Mutant: the recovery forgets LF434, the filled cells stay.
RetainedAfterCheckMutant(recover) ==
  /\ aa => recover
  /\ aa' = FALSE
  /\ UNCHANGED <<cells, samA, samB>>

\* A retained check that fails, as the fill pattern's always does, initialises
\* the trim (bua_retained_recovery_step113, LF434).
RetainedAfterCheck(recover) ==
  /\ aa => recover
  /\ aa' = FALSE
  /\ IF recover THEN /\ cells' = [c \in Cells |-> Neutral]
                     /\ samA' = Neutral /\ samB' = Neutral
                ELSE UNCHANGED <<cells, samA, samB>>

\* Normal startup arms count $0E and the integrator at 128.
PowerOnNormal(recover) ==
  /\ ClearVolatile /\ RetainedAfterCheck(recover)
  /\ slot' = HalfPeriod - 1
  /\ ignOff' \in BOOLEAN /\ trim' = "neutral"

\* The $C938 outcome returns before normal startup: the count stays, and the
\* integrator is zero, which a sensor that reads lean never lets it learn from.
PowerOnSwi(recover) ==
  /\ ClearVolatile /\ RetainedAfterCheck(recover)
  /\ ignOff' = FALSE /\ trim' = "hold"
  /\ UNCHANGED slot

\* A factory boot fills the retained RAM and the count; its IRQs never reach
\* the trim, so what follows is the next power-on.
PowerOnFactory ==
  /\ ClearVolatile /\ aa' = TRUE
  /\ cells' = [c \in Cells |-> FillByte]
  /\ samA' = FillByte /\ samB' = FillByte
  /\ slot' \in Slots
  /\ ignOff' = FALSE /\ trim' = "hold"

Init ==
  /\ step = "front" /\ slot = HalfPeriod - 1
  /\ latched = FALSE /\ aa = FALSE /\ ignOff \in BOOLEAN
  /\ running = FALSE /\ timer = 0
  /\ cells = [c \in Cells |-> Neutral] /\ samA = Neutral /\ samB = Neutral
  /\ cell = Idle /\ store = FALSE /\ delay = FALSE /\ learn = 0
  /\ trim = "neutral" /\ fresh = FALSE /\ committed = FALSE

Next ==
  \/ ~aa /\ (Irq \/ EvenIrq \/ Mode4BlmReset)
  \/ \E recover \in BOOLEAN : PowerOnNormal(recover) \/ PowerOnSwi(recover)
  \/ PowerOnFactory

Spec == Init /\ [][Next]_vars

-----------------------------------------------------------------------------
(* Type invariant. *)

FlagsOK ==
  /\ step \in {"front", "fuel", "tail", "segment"}
  /\ latched \in BOOLEAN /\ aa \in BOOLEAN /\ ignOff \in BOOLEAN
  /\ running \in BOOLEAN /\ store \in BOOLEAN /\ delay \in BOOLEAN
  /\ fresh \in BOOLEAN /\ committed \in BOOLEAN /\ trim \in Requests

NumbersOK ==
  /\ slot \in Slots /\ timer \in 0 .. PowerdownCount /\ learn \in 0 .. ByteMax

CellsOK ==
  /\ cells \in [Cells -> 0 .. ByteMax] /\ cell \in Cells
  /\ samA \in 0 .. ByteMax /\ samB \in 0 .. ByteMax

TypeOK == FlagsOK /\ NumbersOK /\ CellsOK

(* Safety. *)

\* Whatever the learning, the averaging, the key-off commit, a Mode-4 reset and
\* the power-ons do in whichever order, the scheduler never meets a trim out of
\* range: selecting a cell never throws the other fifteen away.
TrimUsable ==
  ~aa => /\ \A c \in Cells : cells[c] \in Usable
         /\ samA \in Usable /\ samB \in Usable

\* Within one update of each other.
Near(a, b) == a <= b + UpdateAmount /\ b <= a + UpdateAmount

CommittedFrom(c) == IF c = Idle THEN samA ELSE samB

\* The average of a cell moves only with the selected cell.
AverageStands(c) == c = Idle \/ cell # NonIdle

\* The permission to learn outlives the engine by up to one period, and the
\* 50-ms tail goes on in key-off; still the committed trim is what is retained:
\* one late update of the selected cell at most, every other cell untouched.
CommitStands ==
  committed => \A c \in Cells :
    /\ Near(cells[c], CommittedFrom(c))
    /\ c # cell /\ AverageStands(c) => cells[c] = CommittedFrom(c)

\* A cell learns only from loops counted since it was selected, never on the
\* count its predecessor had run up: neither seg3's clearing of the delay in a
\* stopped engine nor key-off gets between the selection and the tail.
LearnsSettledCell == [][step = "tail" /\ cells' # cells => ~fresh]_vars
=============================================================================
