---------------------------- MODULE FactoryStream ----------------------------
(***************************************************************************)
(* The 160-baud ALDL stream and the factory test that shares it.           *)
(*                                                                         *)
(* The stream sends one bit per cell and loads a byte when the bits of the *)
(* last one are out: from the ordinary or the diagnostic table after a     *)
(* normal power-on, as the jumper then says, from the table of the test    *)
(* mode after a factory power-on.  Between any two cells the factory       *)
(* interrupt rewrites what the factory tables read, drives the outputs of  *)
(* the test, and may change the test mode; segment 3 may change the        *)
(* jumper's answer.                                                        *)
(***************************************************************************)
EXTENDS Integers

CONSTANTS
  Bits,          \* data bits of a byte, ALCL_BIT_COUNT after a load (8)
  NormalLast,    \* DISPLAY_TABLE_LENGTH, last index of the ordinary table (4)
  DiagEnd,       \* index past the diagnostic table (25)
  StartIndex,    \* index normal startup leaves (25)
  FactoryEnd,    \* index past a factory table (16): two bytes per word
  Restart,       \* index a change of mode leaves (255)
  CounterLimit,  \* FACTORY117_MINOR_LIMIT (96)
  ExerciseEvery, \* counts between two exercises of the outputs (16)
  OffLimit,      \* FACTORY117_IGN_OFF_LIMIT (160)
  BootTimer,     \* the timer $0032 a factory boot leaves (204)
  MaxResets      \* bound: power-ons and stream initialisations followed

\* The index a normal startup leaves is past the end of either table: whatever the
\* jumper says by then, the first load sends the synchronising byte.
ASSUME StreamAssumption ==
  /\ Bits \in Nat \ {0} /\ NormalLast \in Nat
  /\ DiagEnd \in Nat /\ NormalLast < DiagEnd
  /\ StartIndex = DiagEnd
  /\ FactoryEnd \in Nat /\ FactoryEnd <= DiagEnd
  /\ Restart \in Nat /\ Restart > DiagEnd

ASSUME TestAssumption ==
  /\ CounterLimit \in Nat \ {0} /\ ExerciseEvery \in Nat \ {0}
  /\ OffLimit \in Nat /\ BootTimer \in Nat /\ BootTimer >= OffLimit
  /\ MaxResets \in Nat

VARIABLES
  factory,   \* $0047 b7: the factory route was taken at power-on
  diag,      \* $0035 b4 or b5: the jumper asks for the diagnostic table
  swi,       \* sim_factory_swi_reason117 # FACTORY117_SWI_NONE
  testMode,  \* $0048
  timer,     \* $0032, the factory ignition-off count
  counter,   \* $0172, the factory minor count
  exercised, \* the test drives lamp, fan and PWM outputs
  written,   \* for each factory table, which writing of its data memory holds
  index,     \* $018A ALCL_TABLE_INDEX
  bits,      \* $0189 ALCL_BIT_COUNT
  held,      \* $017A: the writing the buffered low byte was read from
  sending,   \* the byte in $018B: kind, table, index, writing
  cut,       \* history: jumper or test mode changed since a frame's first byte
  resets     \* bound: see MaxResets

test   == <<swi, testMode, timer, counter, exercised, written>>
stream == <<index, bits, held, sending>>
streamVars == <<factory, diag, swi, testMode, timer, counter, exercised, written,
                index, bits, held, sending, cut, resets>>

TestModes == 0 .. 3

\* The factory tables, one for each test mode but 0, and the two of the normal
\* route.
Tables     == 1 .. 3
Ordinary   == 0
Diagnostic == 4

\* The last index of a table.
LastOf(t) ==
  IF t = Ordinary THEN NormalLast ELSE IF t = Diagnostic THEN DiagEnd - 1 ELSE FactoryEnd - 1

Silence         == [kind |-> "none", table |-> 0, at |-> 0, read |-> FALSE]
Sync            == [kind |-> "sync", table |-> 0, at |-> 0, read |-> FALSE]
ByteOf(t, i, r) == [kind |-> "byte", table |-> t, at |-> i, read |-> r]

-----------------------------------------------------------------------------
(* The stream: bua_lf880_manager. *)

\* A bit goes out.
Shift ==
  /\ bits > 0
  /\ bits' = bits - 1
  /\ UNCHANGED <<index, held, sending>>

SendsSync    == index' = 0 /\ sending' = Sync
Sends(t, r)  == index' = index + 1 /\ sending' = ByteOf(t, index, r)

\* bua_160_load_next_normal_byte.
LoadNormal ==
  /\ ~factory /\ ~diag
  /\ IF index > NormalLast THEN SendsSync ELSE Sends(Ordinary, FALSE)
  /\ UNCHANGED held

\* Mutant: the terminal index is one late: an entry past the table is read.
LoadDiagnosticMutant ==
  /\ ~factory /\ diag
  /\ IF index = DiagEnd + 1 THEN SendsSync ELSE Sends(Diagnostic, FALSE)
  /\ UNCHANGED held

\* bua_160_load_next_diagnostic_byte.
LoadDiagnostic ==
  /\ ~factory /\ diag
  /\ IF index = DiagEnd THEN SendsSync ELSE Sends(Diagnostic, FALSE)
  /\ UNCHANGED held

\* Mutant: the low byte is read when its turn comes, not with the high one.
FactoryByteMutant ==
  IF index % 2 = 1
  THEN Sends(testMode, written[testMode]) /\ UNCHANGED held
  ELSE Sends(testMode, written[testMode]) /\ held' = written[testMode]

\* A byte of the mode's table: the even index reads a whole word and buffers
\* its low half, the odd index sends the buffered half.
FactoryByte ==
  IF index % 2 = 1
  THEN Sends(testMode, held) /\ UNCHANGED held
  ELSE Sends(testMode, written[testMode]) /\ held' = written[testMode]

\* bua_160_load_next_factory_byte; mode 0 has no table, and then nothing is
\* loaded and the register is shifted out empty.
LoadFactory ==
  /\ factory
  /\ \/ testMode = 0 /\ UNCHANGED <<index, held, sending>>
     \/ testMode \in Tables /\ index >= FactoryEnd /\ SendsSync /\ UNCHANGED held
     \/ testMode \in Tables /\ index < FactoryEnd /\ FactoryByte

\* The table is chosen for every byte, and the index is common to all tables.
Load ==
  /\ bits = 0
  /\ bits' = Bits
  /\ LoadFactory \/ LoadDiagnostic \/ LoadNormal

\* The history variable begins anew with the first byte of a frame.
Cell ==
  /\ Shift \/ Load
  /\ cut' = (cut /\ (bits > 0 \/ index' \notin {0, 1}))
  /\ UNCHANGED <<factory, diag, test, resets>>

-----------------------------------------------------------------------------
(* The factory interrupt: bua_factory_irq_step117. *)

\* What each path of bua_factory_execute_step118 writes that a table reads.
Sweep       == [written EXCEPT ![1] = ~@]
NvChecksum  == [written EXCEPT ![2] = ~@]
FuelSpark   == [written EXCEPT ![3] = ~@]

AllOff      == exercised' = FALSE
Outputs     == exercised' = TRUE

ExecuteIdle(m) == m = 0 /\ AllOff /\ UNCHANGED written

ExecuteEven(m) == m # 0 /\ m % 2 = 0 /\ AllOff /\ written' = NvChecksum

ExecuteOdd(m, c) ==
  /\ m % 2 = 1
  /\ IF c % ExerciseEvery = 0 THEN Outputs ELSE UNCHANGED exercised
  /\ written' = [Sweep EXCEPT ![3] = FuelSpark[3]]

\* bua_factory_execute_step118 in mode m at count c.
Execute(m, c) == ExecuteIdle(m) \/ ExecuteEven(m) \/ ExecuteOdd(m, c)

Counted == IF counter + 1 >= CounterLimit THEN 0 ELSE counter + 1

\* The diagnostic input is outside [40, 100): the test waits for a reset.
DiagnosticSwi ==
  /\ swi' = TRUE
  /\ UNCHANGED <<testMode, timer, counter, exercised, written, stream>>

\* Low battery, and the ignition has been off for long enough.
PowersDown ==
  /\ timer >= OffLimit
  /\ swi' = TRUE /\ counter' = Counted
  /\ UNCHANGED <<testMode, timer, exercised, written, stream>>

\* Low battery.
CountsOff ==
  /\ timer < OffLimit
  /\ timer' = timer + 1 /\ counter' = Counted
  /\ Execute(testMode, Counted)
  /\ UNCHANGED <<swi, testMode, stream>>

\* The battery says neither on nor off, or the ignition was on before.
Holds ==
  /\ counter' = Counted
  /\ Execute(testMode, Counted)
  /\ UNCHANGED <<swi, testMode, timer, stream>>

\* Mutant: the stream of the new mode begins at its first word, with no sync.
NewModeMutant(m) ==
  /\ testMode' = m /\ counter' = 0
  /\ bits' = 0 /\ index' = 0
  /\ UNCHANGED <<held, sending>>

\* A new mode drops the byte that is going out and restarts the stream.
NewMode(m) ==
  /\ testMode' = m /\ counter' = 0
  /\ bits' = 0 /\ index' = Restart
  /\ UNCHANGED <<held, sending>>

\* The ignition is on again: the FMD's bits m select the test mode.
Returns(m) ==
  /\ timer # 0 /\ timer' = 0
  /\ \/ m # testMode /\ NewMode(m) /\ Execute(m, 0)
     \/ /\ m = testMode /\ counter' = Counted
        /\ Execute(m, Counted)
        /\ UNCHANGED <<testMode, stream>>
  /\ UNCHANGED swi

FactoryIrq ==
  /\ factory /\ ~swi
  /\ DiagnosticSwi \/ PowersDown \/ CountsOff \/ Holds \/ \E m \in TestModes : Returns(m)
  /\ cut' = (cut \/ testMode' # testMode)
  /\ UNCHANGED <<factory, diag, resets>>

-----------------------------------------------------------------------------
(* Segment 3 and the resets. *)

\* seg3_misc_100ms, of the normal route only.
Segment3(d) ==
  /\ ~factory
  /\ diag' = d
  /\ cut' = (cut \/ d # diag)
  /\ UNCHANGED <<factory, test, stream, resets>>

\* The volatile clear; the host's record of a factory SWI is not in RAM and
\* outlives it.
StreamPowerOn(toFactory, toNormal) ==
  /\ resets < MaxResets /\ resets' = resets + 1
  /\ factory' = toFactory /\ diag' = FALSE
  /\ testMode' = 0 /\ counter' = 0
  /\ timer' = IF toFactory THEN BootTimer ELSE 0
  /\ index' = IF toNormal THEN StartIndex ELSE 0
  /\ bits' = 0 /\ held' = FALSE /\ sending' = Silence /\ cut' = FALSE
  /\ exercised' = FALSE
  /\ UNCHANGED <<swi, written>>

\* Normal operation, the factory test, or the wait of $C938.
PowerCycle ==
  \/ StreamPowerOn(FALSE, TRUE)
  \/ StreamPowerOn(TRUE, FALSE)
  \/ StreamPowerOn(FALSE, FALSE)

\* bua_hal_aldl160_init: the host restarts the stream.
HalInit ==
  /\ resets < MaxResets /\ resets' = resets + 1
  /\ index' = 0 /\ bits' = 0 /\ sending' = Silence /\ cut' = FALSE
  /\ UNCHANGED <<factory, diag, test, held>>

StreamInit ==
  /\ factory = FALSE /\ diag = FALSE /\ swi = FALSE
  /\ testMode = 0 /\ timer = 0 /\ counter = 0
  /\ exercised = FALSE /\ written = [t \in Tables |-> FALSE]
  /\ index = StartIndex /\ bits = 0 /\ held = FALSE /\ sending = Silence
  /\ cut = FALSE /\ resets = 0

StreamNext ==
  \/ Cell
  \/ FactoryIrq
  \/ \E d \in BOOLEAN : Segment3(d)
  \/ PowerCycle
  \/ HalInit

StreamSpec     == StreamInit /\ [][StreamNext]_streamVars
StreamFairSpec == StreamSpec /\ WF_streamVars(Cell)

-----------------------------------------------------------------------------
(* Properties. *)

\* Every variable in its range: in particular no byte is ever taken from past
\* the end of the table it comes from, and outputs are driven in the odd test
\* modes only, because a SWI may be the next thing.
StreamTypeOK ==
  /\ factory \in BOOLEAN /\ diag \in BOOLEAN /\ swi \in BOOLEAN
  /\ testMode \in TestModes /\ (testMode # 0 => factory)
  /\ timer \in 0 .. (IF BootTimer > OffLimit THEN BootTimer ELSE OffLimit)
  /\ counter \in 0 .. CounterLimit - 1
  /\ exercised \in BOOLEAN /\ (exercised => testMode % 2 = 1)
  /\ written \in [Tables -> BOOLEAN]
  /\ index \in 0 .. DiagEnd \cup {Restart} /\ bits \in 0 .. Bits
  /\ held \in BOOLEAN /\ cut \in BOOLEAN
  /\ sending \in {Silence, Sync} \cup
       {ByteOf(t, i, r) : t \in 0 .. 4, i \in 0 .. DiagEnd - 1, r \in BOOLEAN}
  /\ sending.kind = "byte" => sending.at <= LastOf(sending.table)
  /\ resets \in 0 .. MaxResets

Loads == bits = 0 /\ bits' = Bits

\* A byte follows a sync, or a reset of the stream, when it is the first of its
\* table, else the byte with the index before its own.  In a factory test that is
\* a byte of the same table, and the halves of a word are of one reading.
Follows(b) ==
  /\ b.at = 0 => sending.kind \in {"sync", "none"}
  /\ b.at # 0 => sending.kind = "byte" /\ b.at = sending.at + 1
  /\ b.at # 0 /\ b.table \in Tables =>
       /\ b.table = sending.table
       /\ b.at % 2 = 1 => b.read = sending.read

\* What a listener hears between two synchronising bytes has neither gap nor
\* repetition: the indices run from 0, a factory frame never mixes two tables or
\* two readings of a word, and a frame during which neither the jumper's answer
\* nor the test mode changed is one table from its first entry to its last.  Of a
\* frame that was cut the code promises no more: the table is chosen for every
\* byte with an index common to all, so a jumper put in or drawn in mid-frame
\* joins the head of one normal table to the tail of the other (or ends a
\* diagnostic frame early), and a change of test mode ends a factory frame where
\* it stands.
FrameInOrder ==
  [][Loads /\ sending' # sending =>
       /\ sending'.kind = "byte" => Follows(sending')
       /\ ~cut /\ sending.kind = "byte" =>
            IF sending' = Sync
            THEN sending.at = LastOf(sending.table)
            ELSE sending'.table = sending.table]_streamVars

\* A listener can always find the frame again, whatever the jumper and the
\* test modes do, unless the test stays without a table.
SyncRecurs == <>[](factory => testMode # 0) => []<>(sending = Sync)
=============================================================================
