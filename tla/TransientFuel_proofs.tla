------------------------- MODULE TransientFuel_proofs -------------------------
(* The safety of the fuel cutoff, the stall saver and the acceleration pulses
   for every entry count, lockout, number of pulses and of events. *)
EXTENDS TransientFuel, TLAPS

-----------------------------------------------------------------------------
(* The inductive invariant. *)

\* What the lockout still lacks, the passes since the last cutoff have counted.
Waits == tipped \/ lockout + since >= Lockout

\* What the entry count still lacks, the calm passes have counted.
Counts == primed => calm + qualify >= EntryCount

\* A lockout with the stall saver disarmed, and an armed pulse, both stand for a
\* cutoff without a pulse yet.
Owes ==
  /\ lockout > 0 /\ ~stallSave => owed
  /\ stallSave /\ shots > 0 => owed

\* Pulses are counted only in a burst.
Bursting == async > 0 => active

IInv == TypeOK /\ Waits /\ Counts /\ Owes /\ Bursting /\ HeldWindowStays

USE FuelAssumption

LEMMA ZeroFacts ==
  /\ 0 \in 0 .. EntryCount /\ 0 \in 0 .. Lockout /\ 0 \in 0 .. 1
  /\ 0 \in 0 .. Pulses /\ 0 \in 0 .. Injects - 1 /\ EntryCount \in 0 .. EntryCount
  /\ ~(0 > 0) /\ 0 + EntryCount >= EntryCount
  OBVIOUS

-----------------------------------------------------------------------------
(* The step of the cutoff. *)

LEMMA DisqualifiedKeeps ==
  ASSUME TypeOK, Waits, Owes, NEW d \in Drives, Disqualified(d), NotesDisqualified(d)
  PROVE  /\ dfco' = FALSE /\ qualify' = EntryCount /\ lockout' \in 0 .. Lockout
         /\ stallSave' \in BOOLEAN /\ shots' \in 0 .. 1
         /\ calm' = 0 /\ primed' = TRUE /\ since' \in 0 .. Lockout
         /\ tipped' \in BOOLEAN /\ owed' = owed
         /\ Waits' /\ Owes'
  <1> DEFINE left == IF TipsIn(d) THEN 0 ELSE lockout
  <1>1. /\ lockout \in 0 .. Lockout /\ since \in 0 .. Lockout /\ tipped \in BOOLEAN
        /\ stallSave \in BOOLEAN /\ shots \in 0 .. 1 /\ owed \in BOOLEAN
    BY DEF TypeOK
  <1>2. /\ dfco' = FALSE /\ qualify' = EntryCount
        /\ lockout' = IF left = 0 THEN 0 ELSE left - 1
        /\ stallSave' = (left > 0 /\ (stallSave \/ Arms(d, left)))
        /\ shots' = IF Arms(d, left) THEN 1 ELSE shots
    BY DEF Disqualified
  <1>3. /\ calm' = 0 /\ primed' = TRUE /\ owed' = owed
        /\ since' = IF since < Lockout THEN since + 1 ELSE Lockout
        /\ tipped' = (tipped \/ TipsIn(d))
    BY DEF NotesDisqualified
  <1>4. left \in 0 .. Lockout /\ left <= lockout
    BY <1>1
  <1>5. lockout' \in 0 .. Lockout /\ since' \in 0 .. Lockout /\ shots' \in 0 .. 1
    BY <1>1, <1>2, <1>3, <1>4
  <1>6. stallSave' \in BOOLEAN /\ tipped' \in BOOLEAN
    BY <1>2, <1>3
  <1>7. Waits'
    <2>1. CASE tipped \/ TipsIn(d)
      BY <2>1, <1>3 DEF Waits
    <2>2. CASE ~tipped /\ ~TipsIn(d)
      <3>1. lockout + since >= Lockout /\ left = lockout
        BY <2>2 DEF Waits
      <3> QED
        BY <3>1, <1>1, <1>2, <1>3 DEF Waits
    <2> QED
      BY <2>1, <2>2
  <1>8. Owes'
    <2>1. Arms(d, left) => left > 0 /\ ~stallSave
      BY DEF Arms
    <2>2. lockout' > 0 => left > 0
      BY <1>2, <1>4
    <2>3. left > 0 => lockout > 0
      BY <1>4, <1>1
    <2>4. lockout' > 0 /\ ~stallSave' => owed'
      <3>1. SUFFICES ASSUME lockout' > 0, ~stallSave' PROVE owed'
        OBVIOUS
      <3>2. ~stallSave /\ lockout > 0
        BY <3>1, <2>2, <2>3, <1>2
      <3> QED
        BY <3>2, <1>3 DEF Owes
    <2>5. stallSave' /\ shots' > 0 => owed'
      <3>1. SUFFICES ASSUME stallSave', shots' > 0 PROVE owed'
        OBVIOUS
      <3>2. CASE Arms(d, left)
        BY <3>2, <2>1, <2>3, <1>3 DEF Owes
      <3>3. CASE ~Arms(d, left)
        <4>1. stallSave /\ shots' = shots
          BY <3>1, <3>3, <1>2
        <4> QED
          BY <4>1, <3>1, <1>3 DEF Owes
      <3> QED
        BY <3>2, <3>3
    <2> QED
      BY <2>4, <2>5 DEF Owes
  <1> QED
    BY <1>2, <1>3, <1>5, <1>6, <1>7, <1>8

LEMMA TickKeeps ==
  ASSUME IInv, NEW d \in Drives, Tick(d)
  PROVE  IInv'
  <1>1. /\ pc' = "accel"
        /\ UNCHANGED <<key, running, vats, highCut, cut, active, limit, async, hold,
                       window, injects>>
    BY DEF Tick, engine, output, accel, decel
  <1>2. /\ lockout \in 0 .. Lockout /\ qualify \in 0 .. EntryCount /\ shots \in 0 .. 1
        /\ calm \in 0 .. EntryCount /\ since \in 0 .. Lockout
        /\ primed \in BOOLEAN /\ tipped \in BOOLEAN /\ owed \in BOOLEAN
        /\ dfco \in BOOLEAN /\ stallSave \in BOOLEAN
        /\ TypeOK /\ Waits /\ Counts /\ Owes
    BY DEF IInv, TypeOK
  <1>3. /\ dfco' \in BOOLEAN /\ qualify' \in 0 .. EntryCount /\ lockout' \in 0 .. Lockout
        /\ stallSave' \in BOOLEAN /\ shots' \in 0 .. 1
        /\ calm' \in 0 .. EntryCount /\ primed' \in BOOLEAN /\ since' \in 0 .. Lockout
        /\ tipped' \in BOOLEAN /\ owed' \in BOOLEAN
        /\ Waits' /\ Counts' /\ Owes'
    <2>1. CASE TickRefused(d) \/ TickLocked(d)
      <3>1. Disqualified(d) /\ NotesDisqualified(d)
        BY <2>1 DEF TickRefused, TickLocked
      <3> QED
        <4>1. /\ dfco' = FALSE /\ qualify' = EntryCount /\ lockout' \in 0 .. Lockout
              /\ stallSave' \in BOOLEAN /\ shots' \in 0 .. 1
              /\ calm' = 0 /\ primed' = TRUE /\ since' \in 0 .. Lockout
              /\ tipped' \in BOOLEAN /\ owed' = owed
              /\ Waits' /\ Owes'
          BY <3>1, <1>2, DisqualifiedKeeps
        <4>2. Counts'
          BY <4>1, ZeroFacts, Zenon DEF Counts
        <4> QED
          BY <4>1, <4>2, <1>2, ZeroFacts, Zenon
    <2>2. CASE TickCounts(d)
      <3>1. /\ qualify > 0 /\ qualify' = qualify - 1
            /\ calm' = IF calm < EntryCount THEN calm + 1 ELSE EntryCount
            /\ UNCHANGED <<dfco, lockout, stallSave, shots, primed, tipped, since, owed>>
        BY <2>2 DEF TickCounts, NotesCalm
      <3>2. Counts'
        BY <3>1, <1>2 DEF Counts
      <3>3. Waits' /\ Owes'
        BY <3>1, <1>2 DEF Waits, Owes
      <3>4. qualify' \in 0 .. EntryCount /\ calm' \in 0 .. EntryCount
        BY <3>1, <1>2
      <3> QED
        BY <3>1, <3>2, <3>3, <3>4, <1>2
    <2>3. CASE TickCuts(d)
      <3>1. /\ dfco' = TRUE /\ lockout' = Lockout /\ stallSave' = FALSE
            /\ calm' = IF calm < EntryCount THEN calm + 1 ELSE EntryCount
            /\ since' = 0 /\ tipped' = FALSE /\ owed' = TRUE
            /\ UNCHANGED <<qualify, shots, primed>>
        BY <2>3 DEF TickCuts
      <3>2. Counts'
        BY <3>1, <1>2 DEF Counts
      <3>3. Waits' /\ Owes'
        BY <3>1 DEF Waits, Owes
      <3>4. calm' \in 0 .. EntryCount /\ lockout' \in 0 .. Lockout /\ since' \in 0 .. Lockout
        BY <3>1, <1>2
      <3> QED
        BY <3>1, <3>2, <3>3, <3>4, <1>2
    <2> QED
      BY <2>1, <2>2, <2>3 DEF Tick
  <1>4. TypeOK'
    BY <1>1, <1>3 DEF IInv, TypeOK
  <1>5. Bursting' /\ HeldWindowStays'
    BY <1>1 DEF IInv, Bursting, HeldWindowStays
  <1> QED
    BY <1>3, <1>4, <1>5 DEF IInv

-----------------------------------------------------------------------------
(* The steps that touch none of the counts of the cutoff. *)

LEMMA FrontKeeps ==
  ASSUME IInv, OddFront
  PROVE  IInv'
  <1>1. UNCHANGED <<dfco, qualify, lockout, stallSave, shots, highCut, cut, active,
                    limit, async, hold, window, injects, calm, primed, since, tipped,
                    owed>>
    BY DEF OddFront, cutoff, output, accel, decel, record
  <1>2. /\ pc \in {"idle", "crank", "enlean", "dfco", "accel", "output", "async"}
        /\ key \in {"on", "off", "kept", "down"} /\ running \in BOOLEAN
        /\ vats \in BOOLEAN
    BY DEF IInv, TypeOK
  <1>3. /\ pc' \in {"idle", "crank", "enlean"}
        /\ key' \in {"on", "off", "kept", "down"} /\ running' \in BOOLEAN
        /\ vats' \in BOOLEAN
    <2>1. CASE OddRuns
      BY <2>1, <1>2 DEF OddRuns, Chain, engine
    <2>2. CASE OddHousekeeping
      BY <2>2 DEF OddHousekeeping, Chain
    <2>3. CASE OddPowerdown
      BY <2>3, <1>2 DEF OddPowerdown, Idle
    <2> QED
      BY <2>1, <2>2, <2>3 DEF OddFront
  <1> QED
    BY <1>1, <1>3 DEF IInv, TypeOK, Waits, Counts, Owes, Bursting, HeldWindowStays

LEMMA EnleanKeeps ==
  ASSUME IInv, NEW f \in BOOLEAN, Enlean(f)
  PROVE  IInv'
  <1>1. /\ pc' = "dfco" /\ hold' = f /\ window' = (window \/ f)
        /\ UNCHANGED <<key, running, vats, dfco, qualify, lockout, stallSave, shots,
                       highCut, cut, active, limit, async, injects, calm, primed, since,
                       tipped, owed>>
    BY DEF Enlean, engine, cutoff, output, accel, record
  <1>2. hold' \in BOOLEAN /\ window' \in BOOLEAN /\ HeldWindowStays'
    BY <1>1 DEF HeldWindowStays
  <1> QED
    BY <1>1, <1>2 DEF IInv, TypeOK, Waits, Counts, Owes, Bursting

LEMMA AccelKeepsInv ==
  ASSUME IInv, Accel
  PROVE  IInv'
  <1>1. /\ pc' = "output"
        /\ UNCHANGED <<key, running, vats, dfco, qualify, lockout, stallSave, shots,
                       highCut, cut, hold, window, injects, calm, primed, since, tipped,
                       owed>>
    BY DEF Accel, engine, cutoff, output, decel, record
  <1>2. /\ active \in BOOLEAN /\ limit \in BOOLEAN /\ async \in 0 .. Pulses
        /\ Bursting
    BY DEF IInv, TypeOK
  <1>3. /\ active' \in BOOLEAN /\ limit' \in BOOLEAN /\ async' \in 0 .. Pulses
        /\ Bursting'
    <2>1. CASE AccelCancels
      BY <2>1, <1>2, ZeroFacts, Zenon DEF AccelCancels, Bursting
    <2>2. CASE AccelKeeps
      BY <2>2, <1>2 DEF AccelKeeps, accel, Bursting
    <2>3. CASE AccelTriggers
      BY <2>3, <1>2 DEF AccelTriggers, Bursting
    <2> QED
      BY <2>1, <2>2, <2>3 DEF Accel
  <1> QED
    BY <1>1, <1>3 DEF IInv, TypeOK, Waits, Counts, Owes, HeldWindowStays

LEMMA WriteKeeps ==
  ASSUME IInv, NEW f \in Bands, Crank \/ Output(f)
  PROVE  IInv'
  <1>1. /\ pc' \in {"idle", "async"}
        /\ UNCHANGED <<key, running, vats, dfco, qualify, lockout, stallSave, shots,
                       active, limit, async, hold, window, injects, calm, primed, since,
                       tipped, owed>>
    BY DEF Crank, Output, engine, cutoff, accel, decel, record
  <1>2. \E g \in Bands : Written(g)
    BY DEF Crank, Output, Bands
  <1>3. highCut \in BOOLEAN
    BY DEF IInv, TypeOK
  <1>4. cut' \in BOOLEAN /\ highCut' \in BOOLEAN
    BY <1>2, <1>3, Zenon DEF Written, Overspeed
  <1> QED
    BY <1>1, <1>4 DEF IInv, TypeOK, Waits, Counts, Owes, Bursting, HeldWindowStays

LEMMA AsyncKeeps ==
  ASSUME IInv, Async
  PROVE  IInv'
  <1>1. /\ pc' = "idle"
        /\ UNCHANGED <<key, running, vats, dfco, qualify, lockout, stallSave, highCut,
                       cut, hold, window, injects, calm, primed, since, tipped>>
        /\ shots' = IF Shoots THEN shots - 1 ELSE shots
        /\ owed' = (owed /\ ~Shoots)
    BY DEF Async, engine, output, decel
  <1>2. /\ active \in BOOLEAN /\ limit \in BOOLEAN /\ async \in 0 .. Pulses
        /\ Bursting /\ shots \in 0 .. 1 /\ Owes
    BY DEF IInv, TypeOK
  <1>3. /\ active' \in BOOLEAN /\ limit' \in BOOLEAN /\ async' \in 0 .. Pulses
        /\ Bursting'
    <2>1. CASE UNCHANGED accel
      BY <2>1, <1>2 DEF accel, Bursting
    <2>2. CASE active /\ async < Pulses /\ async' = async + 1 /\ UNCHANGED <<active, limit>>
      <3>1. async' \in 0 .. Pulses
        BY <2>2, <1>2
      <3> QED
        BY <3>1, <2>2, <1>2, Zenon DEF Bursting
    <2>3. CASE active' = FALSE /\ async' = 0 /\ UNCHANGED limit
      BY <2>3, <1>2, ZeroFacts, Zenon DEF Bursting
    <2> QED
      BY <2>1, <2>2, <2>3, Zenon DEF Async, Bursts
  <1>4. shots' \in 0 .. 1 /\ owed' \in BOOLEAN
    BY <1>1, <1>2 DEF Shoots
  <1>5. Owes'
    <2>1. lockout' > 0 /\ ~stallSave' => owed'
      BY <1>1, <1>2, Zenon DEF Owes, Shoots
    <2>2. CASE Shoots
      <3>1. shots' = 0
        BY <2>2, <1>1, <1>2 DEF Shoots
      <3> QED
        BY <3>1, <2>1, ZeroFacts, Zenon DEF Owes
    <2>3. CASE ~Shoots
      <3>1. shots' = shots /\ UNCHANGED stallSave /\ (owed => owed')
        BY <2>3, <1>1, Zenon
      <3> QED
        BY <3>1, <2>1, <1>2, Zenon DEF Owes
    <2> QED
      BY <2>2, <2>3
  <1> QED
    BY <1>1, <1>3, <1>4, <1>5 DEF IInv, TypeOK, Waits, Counts, HeldWindowStays

LEMMA EventKeeps ==
  ASSUME IInv, InjectorEvent
  PROVE  IInv'
  <1>1. UNCHANGED <<pc, key, running, vats, dfco, qualify, lockout, stallSave, shots,
                    highCut, cut, active, hold, calm, primed, since, tipped, owed>>
    BY DEF InjectorEvent, engine, cutoff, output, record
  <1>2. /\ limit \in BOOLEAN /\ async \in 0 .. Pulses /\ window \in BOOLEAN
        /\ injects \in 0 .. Injects - 1 /\ Bursting /\ HeldWindowStays
    BY DEF IInv, TypeOK
  <1>3. /\ limit' \in BOOLEAN /\ async' \in 0 .. Pulses /\ window' \in BOOLEAN
        /\ injects' \in 0 .. Injects - 1 /\ Bursting' /\ HeldWindowStays'
    <2>1. CASE EventCounts
      BY <2>1, <1>1, <1>2 DEF EventCounts, Bursting, HeldWindowStays
    <2>2. CASE EventHeld
      BY <2>2, <1>1, <1>2 DEF EventHeld, Bursting, HeldWindowStays
    <2>3. CASE EventCloses
      BY <2>3, <1>1, <1>2, ZeroFacts, Zenon DEF EventCloses, Bursting, HeldWindowStays
    <2> QED
      BY <2>1, <2>2, <2>3 DEF InjectorEvent
  <1> QED
    BY <1>1, <1>3 DEF IInv, TypeOK, Waits, Counts, Owes

LEMMA RestKeeps ==
  ASSUME IInv, Segment3 \/ EngineStarts \/ KeyTurns \/ VatsPasses
  PROVE  IInv'
  <1>1. /\ UNCHANGED <<pc, qualify, lockout, stallSave, shots, highCut, cut, active,
                       limit, async, hold, window, injects, calm, primed, since, tipped,
                       owed>>
    BY DEF Segment3, EngineStarts, KeyTurns, VatsPasses, cutoff, output, accel, decel, record
  <1>2. /\ key \in {"on", "off", "kept", "down"} /\ running \in BOOLEAN
        /\ vats \in BOOLEAN /\ dfco \in BOOLEAN
    BY DEF IInv, TypeOK
  <1>3. /\ key' \in {"on", "off", "kept", "down"} /\ running' \in BOOLEAN
        /\ vats' \in BOOLEAN /\ dfco' \in BOOLEAN
    BY <1>2 DEF Segment3, EngineStarts, KeyTurns, VatsPasses, engine, cutoff
  <1> QED
    BY <1>1, <1>3 DEF IInv, TypeOK, Waits, Counts, Owes, Bursting, HeldWindowStays

LEMMA PowerOnKeeps ==
  ASSUME IInv, PowerOn
  PROVE  IInv'
  <1>1. TypeOK'
    BY ZeroFacts, Zenon DEF TypeOK, PowerOn, Idle
  <1>2. Waits' /\ Counts' /\ Owes' /\ Bursting' /\ HeldWindowStays'
    BY ZeroFacts, Zenon DEF PowerOn, Waits, Counts, Owes, Bursting, HeldWindowStays
  <1> QED
    BY <1>1, <1>2 DEF IInv

-----------------------------------------------------------------------------
(* The theorems. *)

LEMMA Initially ==
  ASSUME Init
  PROVE  IInv
  <1>1. TypeOK
    BY ZeroFacts, Zenon DEF TypeOK, Init
  <1>2. Waits /\ Counts /\ Owes /\ Bursting /\ HeldWindowStays
    BY ZeroFacts, Zenon DEF Init, Waits, Counts, Owes, Bursting, HeldWindowStays
  <1> QED
    BY <1>1, <1>2 DEF IInv

LEMMA Inductive == IInv /\ [Next]_vars => IInv'
  <1> SUFFICES ASSUME IInv, [Next]_vars PROVE IInv'
    OBVIOUS
  <1>1. CASE Next
    <2>1. CASE OddStep
      <3>1. CASE OddFront
        BY <3>1, FrontKeeps
      <3>2. CASE \E f \in BOOLEAN : Enlean(f)
        BY <3>2, EnleanKeeps
      <3>3. CASE \E d \in Drives : Tick(d)
        BY <3>3, TickKeeps
      <3>4. CASE Accel
        BY <3>4, AccelKeepsInv
      <3>5. CASE Crank
        <4>1. "low" \in Bands
          BY DEF Bands
        <4> QED
          BY <4>1, <3>5, WriteKeeps
      <3>6. CASE \E f \in Bands : Output(f)
        BY <3>6, WriteKeeps
      <3>7. CASE Async
        BY <3>7, AsyncKeeps
      <3> QED
        BY <2>1, <3>1, <3>2, <3>3, <3>4, <3>5, <3>6, <3>7 DEF OddStep
    <2>2. CASE InjectorEvent
      BY <2>2, EventKeeps
    <2>3. CASE Segment3 \/ EngineStarts \/ KeyTurns \/ VatsPasses
      BY <2>3, RestKeeps
    <2>4. CASE PowerOn
      BY <2>4, PowerOnKeeps
    <2> QED
      BY <1>1, <2>1, <2>2, <2>3, <2>4 DEF Next
  <1>2. CASE UNCHANGED vars
    BY <1>2 DEF vars, IInv, TypeOK, Waits, Counts, Owes, Bursting, HeldWindowStays
  <1> QED
    BY <1>1, <1>2

\* The invariant of the fuel pass, which passes, events, the key and power-ons keep.
THEOREM Invariance == Spec => []IInv
  BY Initially, Inductive, PTL DEF Spec

\* The types of TransientFuel hold: no count of a pass goes below zero or past its
\* load, whatever the key and the events do in between.
THEOREM TypeCorrect == Spec => []TypeOK
  <1>1. IInv => TypeOK
    BY DEF IInv
  <1> QED
    BY <1>1, Invariance, PTL

\* The window of an enleanment that still holds is open.
THEOREM WindowIsHeld == Spec => []HeldWindowStays
  <1>1. IInv => HeldWindowStays
    BY DEF IInv
  <1> QED
    BY <1>1, Invariance, PTL

\* Only the step of the cutoff that takes it starts it.
LEMMA OnlyTickCuts ==
  ASSUME IInv, Next, ~dfco, dfco'
  PROVE  \E d \in Drives : TickCuts(d)
  <1>1. dfco \in BOOLEAN
    BY DEF IInv, TypeOK
  <1>2. OddFront => FALSE
    BY DEF OddFront, cutoff
  <1>3. \A f \in BOOLEAN : ~Enlean(f)
    BY DEF Enlean, cutoff
  <1>4. ~Accel /\ ~Crank /\ ~Async /\ ~InjectorEvent
    BY DEF Accel, Crank, Async, InjectorEvent, cutoff
  <1>5. \A f \in Bands : ~Output(f)
    BY DEF Output, cutoff
  <1>6. ~Segment3 /\ ~EngineStarts /\ ~KeyTurns /\ ~VatsPasses /\ ~PowerOn
    BY DEF Segment3, EngineStarts, KeyTurns, VatsPasses, PowerOn, cutoff
  <1>7. \E d \in Drives : Tick(d)
    BY <1>2, <1>3, <1>4, <1>5, <1>6 DEF Next, OddStep
  <1>8. PICK d \in Drives : Tick(d)
    BY <1>7
  <1>9. ~TickRefused(d) /\ ~TickCounts(d) /\ ~TickLocked(d)
    BY DEF TickRefused, TickCounts, TickLocked, Disqualified
  <1> QED
    BY <1>8, <1>9 DEF Tick

\* DFCO is not entered again before its lockout has counted out, for every lockout.
THEOREM ReentryIsLocked == Spec => ReentryWaits
  <1>1. IInv /\ [Next]_vars => [~dfco /\ dfco' => tipped \/ since >= Lockout]_vars
    <2> SUFFICES ASSUME IInv, Next, ~dfco, dfco' PROVE tipped \/ since >= Lockout
      BY DEF vars
    <2>1. PICK d \in Drives : TickCuts(d)
      BY OnlyTickCuts
    <2>2. lockout = 0
      BY <2>1 DEF TickCuts
    <2> QED
      BY <2>2 DEF IInv, TypeOK, Waits
  <1> QED
    BY <1>1, Invariance, PTL DEF Spec, ReentryWaits

\* DFCO is entered only after the whole entry count, but for the first after power-on.
THEOREM EntryIsTimed == Spec => EntryTimed
  <1>1. IInv /\ [Next]_vars => [~dfco /\ dfco' /\ primed => calm >= EntryCount]_vars
    <2> SUFFICES ASSUME IInv, Next, ~dfco, dfco', primed PROVE calm >= EntryCount
      BY DEF vars
    <2>1. PICK d \in Drives : TickCuts(d)
      BY OnlyTickCuts
    <2>2. qualify = 0
      BY <2>1 DEF TickCuts
    <2> QED
      BY <2>2 DEF IInv, TypeOK, Counts
  <1> QED
    BY <1>1, Invariance, PTL DEF Spec, EntryTimed

\* The stall saver shoots at most once for each cutoff, and never without one.
THEOREM OneShotEach == Spec => OneStallShot
  <1>1. IInv /\ [Next]_vars => [Async /\ Shoots => owed]_vars
    BY DEF IInv, Owes, Shoots
  <1> QED
    BY <1>1, Invariance, PTL DEF Spec, OneStallShot

\* A new acceleration begins with its first pulse.
THEOREM BurstIsFresh == Spec => FreshBurst
  <1>1. IInv /\ [Next]_vars => [~active /\ active' => async = 0]_vars
    BY DEF IInv, TypeOK, Bursting
  <1> QED
    BY <1>1, Invariance, PTL DEF Spec, FreshBurst
=============================================================================
