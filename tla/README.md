# A verification project for the GM P4 1227165 ECM simulator

The repository is a C90 port of the firmware of a GM P4 engine control module
(part 1227165, code BUA): a 6.25-ms timer interrupt that schedules an odd and an
even "minor loop" and sixteen "major segments", over a few hundred bytes of RAM
of which the lowest 46 (`$0000..$002D`) are kept alive when the key is off. The
arithmetic of fuel and spark is table lookups and fixed point. What makes the
program hard is control that outlives a loop: what key-off leaves behind, what a
power-on trusts, who may write the retained bytes meanwhile, and state machines
that advance one small step per interrupt while something else changes under
them. Those are what the modules here model, check with TLC and prove with TLAPS.

Everything is in this directory. `PROJECT.json` lists components, runs, mutants,
theorems, hazards, and for every definition the lines of code it models.

    tlc -workers 2 -config MCKeyOff.cfg MCKeyOff      # a model-checking run
    tlapm KeyOff_proofs.tla                           # the proofs of a component

## 1. The system

One thread: `irq_6p25ms` (`src/src/scheduler_serial.inc.h:792`) is called every
6.25 ms and runs to the end. In order it takes the Mode-4 request, the IAC motor
step and the injector, increments `MINOR_COUNT` (0..159, one second), runs the
one-second event on a wrap, then the odd loop (ignition shutdown, fuel path,
every fourth one the 50-ms tail) or the even loop (reference state, homing,
spark, vehicle speed), then the major segment `count mod 16`. "Concurrency" is
therefore between *activities that share RAM at different rates*, and between
them and an environment that acts between interrupts: reference pulses, vehicle
speed edges, serial frames, the ignition switch, the battery, and a host that
cycles power at any interrupt.

| Component (source under `src/src/`) | State it keeps | Operations | Module |
| --- | --- | --- | --- |
| Timer IRQ and loops (`scheduler_serial`) | `MINOR_COUNT`, latch and factory gates | odd, even, segments, one-second event | in each module |
| Ignition shutdown (`ignition_shutdown`) | key-off timer `$8B`, `$0001`, `$001A` | debounce, housekeeping, commit, power release | `KeyOff` |
| Engine qualification (`scheduler_serial`) | `REF_SEEN`, `SECOND_REF_VALID`, startup and no-reference counters | reference pulse, the six ways through the reference state | `KeyOff` |
| Power-on and recovery (`power_on_dispatch`, `startup_*`, `lifecycle_integration`) | retained RAM, `$0018` | normal, `$C938` and factory outcome; retained check | `KeyOff`, `IacHoming`, `BlmStore`, `Diagnostics` |
| IAC homing and motor (`ignition_shutdown`, `ecm_core`) | `$002C`, `$0101`, `$00F3`, `$0002 b4` | start, close, turn, open, complete; motor step | `IacHoming` |
| Block-learn trim (`fuel_air`, `segment_f`, `major_loop`, learning in `src/tests/closed_loop_iac_regression.inc.h`) | `$001C..$002B`, `$0A`, `$0C`, `$44 b1`, `$43 b3`, `$CA` | select, learn, average, commit, reset | `BlmStore` |
| Diagnostic front and logger (`diagnostics`) | `$05..$09`, `$17`, `$18`, `$51..$55`, `$B1`, `$41 b0` | start count, sample, drop, count, store | `Diagnostics` |
| Code flasher (`diagnostic_flash`) | `$42`, `$B9..$BD` | code 12, scan, digit blinks, cadence | `DiagFlash` |
| Mode 4 and SCI core (`mode4_lifecycle`, `sci_8192`) | `$0151..$015A`, `$0171`, `$35 b3`, `$46 b3`, message buffers | receive, enter, timeout, exit | `Mode4` |
| Qualification (`diagnostic_qualification`, samples in `fuel_air`) | `$A7..$B5`, `$4C..$4E`, `$3F`, `$41 b6` | six tests of a pass, the front's clear, samples | `Qualification` |
| ALDL 160-baud stream (`scheduler_serial`) | `$0189..$018B`, `$017A` | cell, load | `FactoryStream` |
| Factory test (`factory_test_*`) | `$0047 b7`, `$0048`, `$0032`, `$0172`, `$017x` | boot, interrupt, mode change, exercises, power-down | `FactoryStream`; the fill in `KeyOff`, `BlmStore` |
| Injector service and start (`ecm_core`, `injector_service`, `segment_f`) | pending services, `$0E..$15`, `$CC`, `$3B b7` | queue, serve, decay, arm, resume | `StartupFuel` |
| DFCO, transient fuel, limits (`dfco_transient`, `fuel_air`, acceleration in `src/tests/fuel_spark_regression.inc.h`) | `$43 b1`, `$D3`, `$88`, `$3D b4`, `$8A`, `$38 b6-7`, `$DF`, `$3E`, `$E0` | decel hold, cutoff, acceleration, output, async pulse, event | `TransientFuel` |
| Injection air (`air_control`) | segment 9's counters | one chain of tests | `AirControl` |
| EGR and purge (`egr_control`, `purge_control`) | `$0112..$0114`, `$01 b4` | segments B and C | `PurgeEgr` |
| Battery, ignition sense, MAF burn-off (`major_loop`) | `$33 b4`, `$3E b4, b6`, `$B7`, `$B8` | segments 1, 7, E | `BatteryOutputs` |
| Vehicle speed (`scheduler_serial`) | capture times, no-edge count, `$34 b4` | edge, check, average | `RoadSpeed` |
| Temperatures and fan (`coolant_control`, `mat_control`) | `$5B`, `$A4`, fault flags and timers, fan | segments 5, 6, A | `Sensors` |
| SWI boundaries (`vector_boundaries`) | trace counters | note | its effect is in `KeyOff`, `FactoryStream` |
| A/C, TCC, HAL setters, host stimulus, dash, evidence, tools | - | - | not modelled (section 7) |

The last five control components are `AirControl` to `Sensors`; `Outputs` composes
them with `Qualification`, since segments run them one after another in the same
major loop. They share no variable, and what one reads of another is an input. Only
segment D writes what several of them keep: it clears the reported codes and, with
the engine stopped and no jumper, their fault timers
(`src/src/diagnostics.inc.h:65-72,170-178`). Each of the two modules it concerns has
that pass as an action of its own, `SegmentD` of `Sensors` and `StoppedPass` (or
`Log`) of `Qualification`, with the same inputs left free.

### What is hard

* **Alternation.** A windmilling engine keeps pulsing after key-off. Even loops
  count its references towards ENGINE RUNNING; only the odd loops in between take
  the count back. One loop order wrong and a run is resumed with power going off.
* **Termination by early return.** The terminal key-off loop returns before the
  statements that clear the run state; its cleanliness is the work of the loops before.
* **Retained bytes with partial protection.** The retained check sums five of the
  46 bytes. The others must be right by construction over every power cycle.
* **A count that must equal a position.** The homing never measures the valve. Its
  count is forced to 255 and stepped with the motor, which a low battery gates and
  a serial tool can reset in mid-phase.
* **Permissions that outlive their reason.** Learning permission is renewed every
  200 ms; key-off commits the trim in between.
* **Actions at four rates.** Fuel is decided in odd loops, served by interrupts,
  counted by injector events and re-armed by segments. A cutoff, a burst or a
  limiting window is opened at one rate and closed at another, and key-off stops
  some of the rates and not the others.
* **A run that is resumed.** Power lost with the engine running leaves its startup
  enrichment in retained RAM. Startup and segment F must tell it from a fresh start
  by one retained bit, and a fresh start must be armed before the engine is caught.
* **A frame under rewriting.** The factory test rewrites every word of the serial
  stream, and may change the table, between the two bytes of a word. The normal
  route chooses its table anew for every byte from what segment 3 last saw of the
  jumper, with one index for both.
* **A shared, leaky timer.** One byte times every error candidate, in two modes
  with different limits, and is the lamp's hold time as well.

### What makes each component correct

Key-off: power is released, only after the run record is gone, and nothing revives
it (`KeyOff`). Homing: the parked mark implies a parked valve, the close phase
meets the real stop, release never interrupts a homing (`IacHoming`). Trim: always
in range, learns only from a settled cell, commit is what is retained
(`BlmStore`). Logger: stores only persistent errors and all of them, the checksum
never goes stale, the lamp outlasts a store (`Diagnostics`). Flasher: every code
still stored three times, readably, and no other (`DiagFlash`). Mode 4: overrides
only from an attended session, commands once (`Mode4`). Transient fuel: the cutoff
keeps its lockout, what it arms is spent once, fuel comes back, limiting ends
(`TransientFuel`). Start: armed before it runs, resumed without a second
enrichment, decayed to nothing, no service lost (`StartupFuel`). Stream: a frame has no
gap, a factory frame mixes neither tables nor readings of a word, a frame that
neither jumper nor test mode cut is one whole table, and a listener can always find
the next one (`FactoryStream`).
Outputs: each latch, hold and fault test keeps its time whatever comes between its
passes (`Outputs`).

## 2. Plan

1. `KeyOff`, with `KeyOffAbs` as its abstract specification and `KeyOffRefinement`
   relating them; `IacHoming`; `BlmStore`; `Diagnostics`; `DiagFlash`;
   `Mode4`. **Done**, with proofs.
2. `TransientFuel` and `StartupFuel`. **Done**, with proofs of their safety.
3. `FactoryStream`; `AirControl`, `PurgeEgr`, `BatteryOutputs`, `RoadSpeed`,
   `Sensors` and `Qualification`, composed by `Outputs`. **Done**, with proofs: every
   safety property that a passing run checks is a theorem.
4. Left: the remaining codes of the qualification, the clutch.

Runs stay small enough for a minute or two each. A property that is proved for
every value of the constants and says little more than a type is not run again:
the types of the eight modules with proofs, and the lesser invariants named in
section 5, are theorems only.

## 3. Modules, and how they correspond to the code

A module's actions are the ways through a handler: each conjunct of a guard is a
condition or early return of the code, and an action includes every write the
handler makes to the module's state. Operators with `Mutant` in their comment are
plausible wrong versions of the definition below them; each property of a run is
known to fail for one of them.

**`KeyOff`** keeps `MINOR_COUNT` as a number, because both its wraps matter: 159 to
0, and 255 to 0 for a count that the factory fill left at `$AA`. One action is one
IRQ: four ways through `bua_ignition_shutdown_odd_step111`, six through
`bua_reference_state_12p5ms`, the battery segment with its hysteresis, the
one-second event before the minor loop, and segment 3's `HOT` bit. `ReferencePulse`
and the three `PowerOn...` outcomes interleave freely. Coolant, RPM and dwell are
left out; `OddPowerdown` stops the segment of its own IRQ, as the code does.

**`KeyOffAbs`** says the same in three phases (armed, saved, down) and one bit
(a run record exists). The refinement reads the phase off the latch and
`timer > HousekeepingCount`.

**`IacHoming`** splits an IRQ into Mode-4, motor and minor steps and adds `pintle`,
where the valve really is, as a history of the motor's steps. Signed step commands
are bytes whose top bit closes. Which odd IRQ is segment 3 and which even one is
segment E is left open (more behaviours than the code has). `EngineStarts` is
disabled in housekeeping, which is the theorem `NeverRequalifies` of `KeyOff`.

**`BlmStore`** takes only the odd IRQs, four steps each (front, fuel, tail,
segment), with the 32-count pattern of tails and segments as constants. The
integrator and O2 filter become a request for the selected cell: neutral, hold, up
or down. The lag filter of segment F moves an average to any value between the old
one and its cell, which covers every coefficient.

**`Diagnostics`** is segment D with the reports of `$4C..$50` as a parameter of a
pass, since every way through the segment clears them. A pass is the front, then
one of six ways through the logger. `seen` and `since` are histories: how many
logging passes in a row reported a code, and how long ago one was stored. `sumOK`
says that `$0018` is the checksum of the stored words. `ecm_reset` leaves `$0018`
at zero, which is not the checksum of no errors (that is 1): `Init` has it wrong
and the first power cycle recovers, as the code does.

**`DiagFlash`** takes up where a pass of segment D ends in `FLASH_PENDING`. A code
is its flash index 2..36 (`$00BB`), which counts through the bits of `$05..$09`.
The word at hand, `$00BC`, is the set of the indexes at which its set bits would
come out on top; a rotation leaves that set alone, drops what has come out, and
adds `b + 8` for a carry shifted in at index `b`. That gives the scan loop a closed
form (`AtHand`, `Following`) that can be proved about. `listed`, `played` and
`blinks` are histories: what was stored when the sequence began, how often each
code has been displayed, how often the lamp has come on for either digit. What
happens to the stored words elsewhere (`OtherPass`, `Mode4ErrorReset`, `PowerOn`)
is `Diagnostics` seen from outside.

**`Mode4`** lets a frame of any mode arrive between two interrupts. A frame refused
for device, length or checksum changes nothing of the module's state and has no
action; one with a bad address is answered with an error but has by then written
everything, and is an accepted frame like the others. `AcceptOther(3)` may leave
anything in `$0154`, as its address bytes do. An IRQ is the pass (`Enters`,
`Exits`, `Stays`), the one-second event in some of them, segment 3's sample of the
line in some, and the consumers, which see the session as the pass has left it.
`last`, `spent`, `normal` and `silent` are histories of the last accepted frame.

**`TransientFuel`** is the odd fuel pass in five steps (crank or normal front,
enleanment, cutoff, acceleration, output and asynchronous pulse), because injector
events and segment 3 read and write the same flags between passes and key-off may
overtake any of them. Bands of a sensor (throttle, load, speed) are chosen anew for
every pass (`Bands`). `Disqualified` is shared by every refused pass and by the
lockout, as in the code: it counts the lockout down and arms the stall saver. The
output writes a cut only in the passes it reaches, and only then does anyone see
it. `calm`, `primed`, `since`, `tipped` and `owed` are histories.

**`StartupFuel`** is one IRQ in two or three steps: references, count and service;
odd or even loop; the second half of segment F when its turn comes. Enrichment and
startup spark are records of level, delay and repeat; a table lookup is any value
of a set. The engine is caught by the six ways of `KeyOff`, without its counters of
missing references. `start` is a history: whether this power-on owes a fresh start,
segment F has armed it, or there is nothing to arm.

**`FactoryStream`** sends one bit in each `Cell` and loads a byte when the bits are
out. A byte on the line is its table, its index and, for a factory word, the
writing of its data memory that it was read from; `held` is the buffered low half.
`FactoryIrq` is the whole factory interrupt in the order of the code: the mode's
tests at this count, the counter, an invalid diagnostic's SWI, power-down or
ignition-off count, the change of mode, the exercise of the outputs. The tables are
1 to 3 of the test modes, `Ordinary` and `Diagnostic`; the last two differ in length
and content and share the index, so `Segment3` can join the head of the ordinary
frame to the tail of the diagnostic one, or end a diagnostic frame early
(`scheduler_serial.inc.h:480-481`, `major_loop.inc.h:16-22`). The code promises no
more of such a frame than indices without a gap. The history `cut` says that jumper
or test mode changed since a frame's first byte: a frame that was not cut is one
table from its first entry to its last.

**`AirControl`**, **`PurgeEgr`**, **`RoadSpeed`** and **`Sensors`** have one action
for each way through a segment's pass, with the bytes of other units as inputs.
**`BatteryOutputs`** is the IRQ with its two loops as far as segments 1, 7 and E and
the odd loop's housekeeping share flags. **`RoadSpeed`** keeps two histories: `since`,
the true time since the last edge, and `gaps`, the last two times between captured
edges, with a mark for one too long for the timer. **`Qualification`** runs the tests of a
pass in the order of the listing, as one test's flag stops a later one in the same
pass. **`Outputs`** instantiates the six. They share no variable, so a behaviour of
all is one behaviour of each, and the model explores the units one at a time
(`unit`).

## 4. Runs

| Run | What it checks | Bounds |
| --- | --- | --- |
| `key_off` | `RunTimeNeedsNV`, refinement of `KeyOffAbs`, `PowersDown`, `EngineCatches` | minor period 8, byte 12, major loop 4 (all even, as 160, 256 and 16), fill count beyond the period, thresholds 2 and 7, two startup loops, run-time word of three values |
| `iac_homing` | `BelievedIsReal`, `ReleasedUntouched`, `MarkedOnlyParked`, `HomingEnds` | byte 10, park 5, valve anywhere in 0..6, tool present, key-off long enough for a homing (14) |
| `iac_reset` | `OpenPhaseEnds`, violated (section 6) | byte 10, park 5, tool present |
| `blm_store` | `TrimUsable`, `CommitStands`, `LearnsSettledCell` | two cells (idle and averaged), trim 1..4, limits 2..3, period 6 |
| `diagnostics` | `LampHolds`, `StoredSoundly`, `PersistentIsStored` | two codes, one masked, code 51; limits 1, 2, 3, 4; start limit 1 |
| `diag_flash` | `FlashedTrue`, `EveryCodeThreeTimes`, `KeepsFlashing` | the masks of the code; reports of 16 (masked), 23, 36 and 51; cadences 2, 1 and 2 |
| `mode4` | `OverridesAttended`, `CommandsOnce`, `AttendedStays`, `AbandonedEnds` | two entry commands, timeout 3, byte 7 |
| `transient_fuel` | `ReentryWaits`, `EntryTimed`, `OneStallShot`, `CrankIsFuelled`, `LimitingEnds` | entry count 2, lockout 3, two pulses, two events |
| `startup_fuel` | `ServedAtOnce`, `FreshStart`, `ResumedNotRaised`, `EnrichmentEnds` | period 8, hand-off 2, one startup loop (margin 5 against 6, as 17 against 20), two references for a service, levels 2 and 4, delay, repeat and decay 1 |
| `factory_stream` | types, `FrameInOrder`, `SyncRecurs` | bytes of 2 bits, tables of 3, 6 and 4 bytes, a factory cycle of 4 counts, two resets |
| `outputs` | the units' types, `OpenLoopAirEnds`, `ReleasedQuiet`, `SpeedIsBounded`, `FaultsEarned`, `HeatsWhenEarned`, `FanStaysOn` | delays and tests of one or two passes; a round of 6 IRQs, power-down at 13; a capture timer of 8 ticks with periods 1 and 6; limits 0, and 1 for code 34 |
| `maf_code` | `Err34NeedsLowMaf`, violated (section 6) | the real limit of code 34 |

**Why the bounds suffice.** They scale numbers and keep what the code tells apart.
Parities of the periods are kept, and a count beyond the period exists, so both
wraps happen. Park keeps its top bit, so the command written at the turn is a
closing one, and the distance from the stop exceeds the largest opening command,
so the clamp is taken. Trim limits leave room for a step that overshoots. Error
limits keep their order and allow a candidate to be lost on either side of every
limit; two codes are enough for one to disturb the timer of the other. The
flashed codes lie at the end of the first word and at both ends of the third, one
with the digit six, and the groups and masks are those of the code; the three
cadences only repeat `FlashWaits`. In `mode4` the
byte wraps within a few seconds of the timeout, so the count passes below the
timeout again. In
`transient_fuel` the lockout is longer than the entry count, as 511 is than 20, so a
cutoff can qualify while locked out; two events are the code's number. In
`startup_fuel` the margin between segment F and the quickest start is as narrow as
an integer allows, and `FreshStart` fails with one startup loop fewer. In
`factory_stream` a mode change can hit every byte and bit of a frame, a factory
index falls inside and outside each other table, and the index that a change leaves
(255) lies beyond all. In `outputs` the burn-off, with the round that lets the
wire cool, takes all the loops between housekeeping and power-down, the capture timer wraps within one gap of edges, the two edge
periods lie on either side of an interrupt, and every test time lets a pass without
a test fall inside it. The
proofs of the safety properties cover every value; for those the bounds only served
to find mistakes, and they carry the liveness properties and the two violations.

**Fairness.** Only `WF(Irq)` (and, where a module is
segment D alone, weak fairness of its passes; in `Mode4`
of `IrqSecond`, since the minor count reaches 160 again and again): the hardware timer is periodic
and `irq_6p25ms` cannot be pre-empted or disabled, except by the power-down latch
and the factory routing, which are guards. Nothing of the environment is fair:
pulses, frames, the switch and power cycles appear in liveness properties as
hypotheses ("references keep arriving", "no further power cycle"). In
`Diagnostics` the reports are a parameter of the fair action. A pass that reports
an enabled code always changes the state, so fairness never forces a report to
stop. In `DiagFlash` a flash pass always moves the
cadence or begins something. `NoMorePowerCycles` excludes every step that looks like a power cycle, which
is harmless: such a step changes nothing but what a power cycle may.
`TransientFuel` takes the odd steps weakly fair and segment 3 strongly (it comes
every sixteenth interrupt, whatever the pass is doing); injector events are the
environment's and appear in `LimitingEnds` as a hypothesis. `StartupFuel` needs only
`WF(Irq)`: that services recur is the hypothesis that references do.
`FactoryStream` takes the cell timer weakly fair and the factory interrupt not at
all.

**Deadlock** is checked everywhere; a powered-down ECM can be power-cycled.

## 5. Proofs

All proofs hold for every value of the constants under the named assumptions of
the module, which TLC evaluates on each run and the calibration of the code
meets.

**`KeyOff_proofs`.** Assumptions: all three periods even, thresholds ordered. The
invariant `NoRequalification` is not inductive: an even loop could find the
startup counter at its limit. The strengthening says that past the housekeeping
threshold the engine is stopped and the counter is zero, or one and the IRQ that
follows is an odd one. It uses that every wrap keeps the parity alternating
(`ModRange` and the lemmas after it), including the wrap of a byte count left at
`$AA`. With it come the run time, its mark in `$0001`, the clean release and the
fill pattern, and the step-by-step refinement of `KeyOffAbs`.

**`IacHoming_proofs`.** `Phases` bounds what the step commands can have done since
the even loop that issued them: at most two services, so while closing the valve
is no further out than the count, and while opening count and valve agree unless a
reset put the count out of range. That proves the three invariants and
`MarkedOnlyParked` with a tool present. `ReleaseFindsParked` needs time: `Tight`
says which phases are possible without a tool, and `Timely` that the work left in
a homing (close, turn, open, with two motor services per pair of loops) fits the
odd loops left. Its hypotheses are `~ToolPresent` and
`InTime == Byte + Park + 6 <= 2 * (PowerdownCount - HousekeepingCount - 1)`: 406
against 1784 with 256, 144, 901 and 8. `UntouchedFindsParked` drops the first
hypothesis. `IacUntouched` adds the history `untouched` (no tool or jumper has asked
for anything since this key-on), and the invariant becomes `IInv` with `Tight` and
`Timely` only while it holds; the step lemmas need no more than that *this* step is
not a tool's (`Untouching`).

**`BlmStore_proofs`.** `Trim` (cells and averages in range unless the fill pattern
is in place) is inductive by itself. `LearnsSettledCell` needs `Settled`: a fresh
selection keeps the delay set, until the tail that comes right before each
segment 3. `CommitStands` needs a budget: after the commit the permission lasts at
most to the next segment 5, so there are fewer tails left than a second update
needs. The theorem's hypothesis is `2 * HalfPeriod <= UpdateCount`, 16 against 28;
TLC shows the property also holds in an instance that does not meet it, as only
every fourth odd loop is a tail.

**`Diagnostics_proofs`.** `Sampled` relates the timer to the history: what the
timer has run up beyond its idle limit, every candidate has been reported for. It
holds because candidates are sampled only with the timer within the limit and are
intersected in every pass that advances it. `Lit` says the timer cannot have run
down before `LongNo` passes. `ChecksumIsKept` needs no invariant.

The same module proves about `DiagFlash`. Assumptions: masks and codes are indexes, the cadences are
positive bytes, the blank the longest. `Digits` says that what is left of a digit
and what has been blinked of it make the digit. `Words` relates the word at hand to
the codes: up to the next reload it holds every code stored above the index and
none that was not listed, and a carry always lies beyond that reload
(`AtHandSound`, `AtHandComplete`). `Displays` says that the codes below the index
have been displayed three times and those above it never; the smallest of
`Following` keeps it, since no stored code is passed over.

**`Serial_proofs`.** For `Mode4`, assumption: the timeout is shorter than a byte.
`Held` says that while `$0151` is 4 the bytes behind it are the last frame's and the
count is the real time of silence; `Released` that a Mode-4 frame loses `$0151` only
to silence. 

For `FactoryStream`, assumptions: the tables end in the order 4, 16, 25, the index of
a normal startup is the end of the diagnostic table and that of a mode change lies
beyond all. `Position` says that the byte before the index is the one in the register,
in a factory test of the mode's table and in a frame that was not cut of the table in
use (`InUse`), unless a reset or a change of mode has moved the index out; `Halves` that while a low half waits it is of the reading that the high half on the
line came from. `FrameInOrder` is a statement about two loads; they are what makes it
follow from one, since the factory interrupt rewrites the words and moves the index
in any of the cells between.

**`TransientFuel_proofs`.** Assumption: counts are naturals, lockout and window not
zero. `Waits` says that what the lockout still lacks, the disqualified passes since
the cutoff have counted, or the throttle was opened: it holds in all five steps
because only `Disqualified` counts and only a cutoff reloads. `Counts` says the same
of the entry count and the calm passes. `Owes` follows the stall saver from a cutoff
through disqualification to the pulse: a lockout with the saver disarmed and an
armed pulse both stand for a cutoff without a pulse yet. `Bursting` says pulses are
only counted in a burst. With `HeldWindowStays` they are inductive, and the three
action properties of the run follow, as well as `FreshBurst`.

**`StartupFuel_proofs`.** `FreshStart` is a race between segment F and the even
loops. `Owed` is its account: as long as a start is owed, every even loop since the
hand-off has counted at most once towards the start (twice `Done` is at most the
count gained, with one to spare before an odd loop), and segment F has not had its
turn. `MarginAssumption`, `FPeriod - 1 - StartCount < 2 * (StartupLoops + 2)`, closes
it: 17 against 20. `ServedAtOnce` needs `MaxPulses <= PulsesPerService` only, and
`ResumedNotRaised` that decays never raise (`EnrichedFalls`, `AdvancedFalls`) and
that segment F looks at the retained bit.

**`Outputs_proofs`.** Each unit has an invariant of its own, proved for its own
specification; the last section shows that a step of one unit is a stutter of the
others (`AirRuns` to `CodesRun`) and carries the results over to `Outputs`.

* *Air*: `AirSpent`, the air already supplied and the open delay that is left add up
  to no more than the delay. The chain of tests keeps it because every way that counts
  the delay comes before the ways that leave without.
* *Fan and MAT*: the quiet passes and the minimum time left add up to the minimum time
  (`FanOK`); a MAT timer counts passes of one side only (`LowOK`, `HighOK`).
* *Codes*: `CountsOK`, a timer is at most the tests in a row that missed the range;
  `Earned`, a code that waits for the logger has its whole streak, and the low-MAF
  flag, which freezes its own timer, keeps it. No two codes of a pass undo each other
  (`OneSide`).
* *Speed*: `SignalOK` relates the capture register to the true time of the last edge,
  `TimesCovered` says that the captures are at least as far apart as the edges, as
  far as a time is shorter than a turn of the timer. A longer one may leave no capture
  at all; then the time before it is one of the two that the captures hold, but not
  known which, and only the sum is claimed. A power-on starts with both times as a
  standstill leaves them, and is covered: the phantom edge of the kept register is a
  first edge like any other, and the time it stands for a long one. The lemmas about remainders (`Division` to `RemainderRight`)
  are what a 16-bit difference needs.
* *Battery*: `HeatsWhenEarned` needs `BurnOK` (passes done and passes left add up) and
  `AskedOK` (a burn-off is asked for with the ignition off and no high battery).
  `ReleasedQuiet` needs a schedule, `WireOK`: the rounds a burn-off still needs times
  the loops of a round, plus the loops since housekeeping began, never exceed the
  whole, give or take where in its round segment 7 stands (`Since`, which counts odd
  interrupts whatever the segments' places in the round). `BurnAssumption`, 8 + 61 * 8
  <= 901, then leaves no round at the release of power (`QuietByThen`). It
  does not use where in the round a key-off begins, which would save a part of a round.

**Proved, and not run any more:** the types of the eight modules;
`NoRequalification`, `RunTimeStaysZero`, `LatchedIsClean`, `AANeverScheduled` of
`KeyOff`; `ReleasedIsParked` (run as `ReleasedUntouched`, which allows a tool until
it interferes); `CountCoversValve` and `OpenPhaseExact` (together
`BelievedIsReal`); `StoredWasPersistent` and `ChecksumStays` (together
`StoredSoundly`); `DisplayReadsAsCode` and `NoFalseCode` (together `FlashedTrue`);
`FreshBurst` and `HeldWindowStays`.

**Progress.** Of five of the liveness properties the half that is safety is proved: a
measure that the fair steps lower and no other step raises. `KeyOffCountsDown`
(`IrqsLeft`: every interrupt with the ignition off is one fewer before the release,
at most 1804) is the half of `PowersDown`; `StartCountsDown` (`RefsLeft`: every even
loop with a fast reference brings the start nearer, loops without one take nothing
back) of `EngineCatches`; `EveryReportCounts` (`PassesLeft`: every pass that reports
an enabled code stores it or leaves fewer passes, at most 162, whatever other codes
do) of `PersistentIsStored`; `SyncComesNearer` (`CellsLeft`: at most 234 cells to the
synchronising byte through all changes of table and mode) of `SyncRecurs`; and
`EveryRevolutionCounts` (a lexicographic order on level, delay and repeat) of
`EnrichmentEnds`. They give bounds where the runs say "eventually"; that the fair
steps are taken at all needs `ENABLED` and is left to the runs.

**Only model-checked:** liveness as such (`PowersDown`, `EngineCatches`, `HomingEnds`,
`PersistentIsStored`, `KeepsFlashing`, `AbandonedEnds`, `CrankIsFuelled`,
`LimitingEnds`, `EnrichmentEnds`, `SyncRecurs`), since TLAPS does not support
`ENABLED`; and the two violated properties.

## 6. Findings

`iac_reset`: a Mode-4 frame that asks for the IAC reset while homing is in its
*open* phase forces `$002C` to 255 and sets the close bit, but leaves the open bit
set (`src/src/mode4_lifecycle.inc.h:33-37`). The homing state machine goes on
opening, opening steps are counted only below 145
(`src/src/ecm_core.inc.h:3342`), and the position never comes back to park: the
phase, and with it the drain of step commands, lasts until a power cycle. The
documentation (`src/docs/reference/IDLE_AIR_CONTROL_THEORY.md:174-178`) has the
open phase end at the park position. `HomingEnds` therefore assumes that no reset
hits the open phase, and `BelievedIsReal` names the state it leaves.

`maf_code`: ERR34 compares the word at `$00EF` with 55
(`src/src/diagnostic_qualification.inc.h:198-211`). The documentation
(`src/docs/reference/SENSOR_ACQUISITION_FILTERING_THEORY.md:90`) has the common MAF
path store seven times the raw sample there; the code stores only the raw sample, at
`$00ED` (`src/src/fuel_air.inc.h:230-239`), and nothing writes `$00EF`. It reads as
zero, so three passes in the test's window of speed, throttle and load report a low
MAF whatever the sensor says, and the flag stops ERR21, ERR44 and ERR45 until the
next power-on. `CodesEarned` holds all the same: the count is kept as it should be.

## 7. Limits

* The environment's preconditions: a power cycle is one of the four `$C800`
  vectors (`lifecycle_power_cycle` with another one releases the latch without a
  boot), and the `sim_legacy_*` switches that freeze parts of the program for
  regression are off.
* A Mode-4 reset that arrives in the close phase's last loop is covered; a reset
  right after the turn leaves 253 or 254 instead of 255, which the same finding
  covers.
* The branch of the trim selection that resets all sixteen cells is, by `TrimUsable`,
  never taken: nothing in the program leaves a trim out of range with the checksum of
  the error words intact. Decay of the retained RAM is outside the program and outside
  the model, so the repair is not exercised. The legacy default 120 and the forced value of
  power enrichment are not modelled.
* The lamp's driver bits are functions of `long` and the inputs and are left out.
* Nothing sets `$004E b0`, so the front's code-51 branch
  (`src/src/diagnostics.inc.h:161-168`) is never taken and has no action.
* The cutoff's entry count is 20 after the first disqualified pass, but zero after a
  power-on: a first pass that qualifies enters at once. `EntryTimed` excludes it
  (`primed`).
* `FreshStart` begins with normal startup. A key flicked for fewer than 32
  interrupts restarts an engine without re-arming, as the code does. Factory boots
  are not in `StartupFuel`: their fill is always followed by a recovery.
* `FactoryStream` bounds the resets followed by `MaxResets`; the SWI reason of a
  factory test survives power cycles and is dropped only by `ecm_reset`, as in the
  port.
* A signal that stops for longer than a turn of the capture timer and resumes before
  the no-edge count has run out, or any stop in which power comes back and the kept
  register passes for an edge, leaves a difference that says nothing. `RoadSpeed`
  has both, and `SpeedIsBounded` counts such a time as nothing (`Sure`): the speed may
  then read up to twice what the other of the two times says, until two shorter ones
  have followed. With two such stops in a row nothing is promised, by the code either.
  `fresh` restricts it to the pass of segment 2 that has just used the captures. Above about 144 mph several
  edges share an interrupt and are captured as one, which halves the speed;
  `SpeedIsBounded` bounds it from one side only.
* A burn-off asked for late (`tardy`: a vehicle that comes to rest well into
  housekeeping) may be cut off by the release of power with the wire hot.
* The purge command comes to rest up to 7 below its request, by the rounding of its
  filter; the minimum latch then stays. EGR's and purge's tables are data.
* Dead in the integrated program, and without an action: `$00B6` is never written,
  so ERR33 never counts and ERR21's airflow test always lets it count; `$41 b5`,
  `$40 b0` and `$3B b3` are never set; the A/C request bit is never set,
  which leaves one constant path of the A/C control; the RPM limiter `lf95e`, the
  helpers of step 46 and the blending of spark are called by tests only.
* **Not modelled:** spark, dwell and fuel arithmetic (no control beyond a loop); the
  torque converter clutch and the gear inputs; segment A's knock recovery; the A/C
  control; ERR41 to 43; the check of the MAF wire after a burn-off; host stimulus
  and dash (floating-point signal generators), HAL accessors, evidence and tools.
