---------------------------- MODULE TransientFuel ----------------------------
(***************************************************************************)
(* What the odd fuel pass remembers from one pass to the next: the         *)
(* deceleration fuel cutoff (DFCO) with its entry count and its lockout,   *)
(* the stall saver that a DFCO leaves armed, and the acceleration          *)
(* enrichment with its asynchronous pulses and the limiting window that    *)
(* injector events close.                                                  *)
(*                                                                         *)
(* An odd pass takes five steps; between two passes come injector events,  *)
(* segment 3, references and the key.  Amounts of fuel are left out.       *)
(***************************************************************************)
EXTENDS Integers

CONSTANTS
  EntryCount,   \* qualifying passes before DFCO is entered (20)
  Lockout,      \* disqualified passes before it may be entered again (511)
  Pulses,       \* $D7: asynchronous pulses of one acceleration
  Injects       \* events that close a limiting window (2)

ASSUME FuelAssumption ==
  /\ EntryCount \in Nat /\ Lockout \in Nat \ {0}
  /\ Pulses \in Nat /\ Injects \in Nat \ {0}

VARIABLES
  pc,        \* the step of the odd pass
  key,       \* ignition and what key-off has done so far
  running,   \* $0034 b7
  vats,      \* $0003 b5: the theft deterrent has passed
  dfco,      \* $0043 b1
  qualify,   \* $D3
  lockout,   \* $88
  stallSave, \* $003D b4
  shots,     \* $8A: stall-saver pulses to do
  highCut,   \* $0043 b6: cut for speed
  cut,       \* the last pulse width written was zero
  active,    \* $0038 b7: acceleration pulses are due
  limit,     \* $0038 b6: they are limited
  async,     \* $DF: pulses done
  hold,      \* $003E b7: deceleration enleanment
  window,    \* $003E b5: its limiting window
  injects,   \* $E0: events counted in the window
  calm,      \* history: DFCO passes since a disqualifying one, up to EntryCount
  primed,    \* history: a pass has disqualified since power-on
  since,     \* history: disqualified passes since the last DFCO, up to Lockout
  tipped,    \* history: the throttle has been opened since, or no DFCO was
  owed       \* history: a DFCO has ended and no stall-saver pulse followed it

engine == <<key, running, vats>>
cutoff == <<dfco, qualify, lockout, stallSave, shots>>
output == <<highCut, cut>>
accel  == <<active, limit, async>>
decel  == <<hold, window>>
record == <<calm, primed, since, tipped, owed>>
vars == <<pc, key, running, vats, dfco, qualify, lockout, stallSave, shots, highCut, cut,
          active, limit, async, hold, window, injects, calm, primed, since, tipped, owed>>

Idle == pc = "idle"

-----------------------------------------------------------------------------
(* Front of the odd pass: ignition shutdown, then the crank or normal path. *)

Chain == pc' = IF running' THEN "enlean" ELSE "crank"

OddRuns ==
  /\ Idle /\ key \in {"on", "off"}
  /\ UNCHANGED engine
  /\ Chain

\* Past the debounce: the engine is stopped, the theft deterrent must pass
\* again, and the crank path is taken.
OddHousekeeping ==
  /\ Idle /\ key \in {"off", "kept"}
  /\ key' = "kept" /\ running' = FALSE /\ vats' = FALSE
  /\ Chain

\* The terminal pass returns before the fuel chain.
OddPowerdown ==
  /\ Idle /\ key = "kept"
  /\ key' = "down" /\ vats' = FALSE
  /\ UNCHANGED <<pc, running>>

OddFront ==
  /\ OddRuns \/ OddHousekeeping \/ OddPowerdown
  /\ UNCHANGED <<cutoff, output, accel, decel, injects, record>>

-----------------------------------------------------------------------------
(* bua_decel_enlean_step45, with its hold count of zero: the hold lasts as *)
(* long as load and throttle are both far below their filtered values.     *)

Enlean(falling) ==
  /\ pc = "enlean" /\ pc' = "dfco"
  /\ hold' = falling
  /\ window' = (window \/ falling)
  /\ UNCHANGED <<engine, cutoff, output, accel, injects, record>>

-----------------------------------------------------------------------------
(* bua_dfco_tick_step45.  The inputs of a pass: parked (park or neutral, or *)
(* too slow with the speed sensor trusted), open (throttle above its limit  *)
(* and its sensor trusted), plunge (rpm fell by seven since the last loop), *)
(* and rpm and load against their two limits.                              *)

Bands == {"low", "mid", "high"}
Drives == [parked : BOOLEAN, open : BOOLEAN, plunge : BOOLEAN, load : Bands, rpm : Bands]

TipsIn(d) == ~d.parked /\ d.open

Refuses(d) ==
  \/ d.parked \/ d.open \/ d.plunge
  \/ d.load = "high" \/ (d.load = "mid" /\ ~dfco)
  \/ d.rpm = "low" \/ (d.rpm = "mid" /\ ~dfco)

\* LD946: near a stall while the lockout counts, once until it is disarmed.
Arms(d, left) == left > 0 /\ (d.rpm = "low" \/ d.plunge) /\ ~stallSave

\* bua_dfco_disqualify_step45, after an opened throttle has ended the lockout.
Disqualified(d) ==
  LET left == IF TipsIn(d) THEN 0 ELSE lockout IN
  /\ qualify' = EntryCount
  /\ dfco' = FALSE
  /\ lockout' = IF left = 0 THEN 0 ELSE left - 1
  /\ stallSave' = (left > 0 /\ (stallSave \/ Arms(d, left)))
  /\ shots' = IF Arms(d, left) THEN 1 ELSE shots

\* The histories of a disqualified pass.
NotesDisqualified(d) ==
  /\ calm' = 0 /\ primed' = TRUE
  /\ since' = IF since < Lockout THEN since + 1 ELSE Lockout
  /\ tipped' = (tipped \/ TipsIn(d))
  /\ UNCHANGED owed

NotesCalm ==
  /\ calm' = IF calm < EntryCount THEN calm + 1 ELSE EntryCount
  /\ UNCHANGED <<primed, tipped, since, owed>>

TickRefused(d) ==
  /\ Refuses(d)
  /\ Disqualified(d) /\ NotesDisqualified(d)

TickCounts(d) ==
  /\ ~Refuses(d) /\ ~dfco /\ qualify > 0
  /\ qualify' = qualify - 1
  /\ NotesCalm
  /\ UNCHANGED <<dfco, lockout, stallSave, shots>>

\* Mutant: the lockout is not looked at.
TickLockedMutant(d) ==
  /\ ~Refuses(d) /\ ~dfco /\ qualify = 0 /\ lockout > 0
  /\ dfco' = TRUE /\ lockout' = Lockout /\ stallSave' = FALSE
  /\ NotesCalm
  /\ UNCHANGED <<qualify, shots>>

TickLocked(d) ==
  /\ ~Refuses(d) /\ ~dfco /\ qualify = 0 /\ lockout > 0
  /\ Disqualified(d) /\ NotesDisqualified(d)

\* Mutant: the count of qualifying passes is not looked at.
TickCutsMutant(d) ==
  /\ ~Refuses(d) /\ (dfco \/ lockout = 0)
  /\ dfco' = TRUE /\ lockout' = Lockout /\ stallSave' = FALSE
  /\ calm' = IF calm < EntryCount THEN calm + 1 ELSE EntryCount
  /\ since' = 0 /\ tipped' = FALSE /\ owed' = TRUE
  /\ UNCHANGED <<qualify, shots, primed>>

\* DFCO is active; the wrapper disarms the stall saver.
TickCuts(d) ==
  /\ ~Refuses(d) /\ (dfco \/ (qualify = 0 /\ lockout = 0))
  /\ dfco' = TRUE /\ lockout' = Lockout /\ stallSave' = FALSE
  /\ calm' = IF calm < EntryCount THEN calm + 1 ELSE EntryCount
  /\ since' = 0 /\ tipped' = FALSE /\ owed' = TRUE
  /\ UNCHANGED <<qualify, shots, primed>>

Tick(d) ==
  /\ pc = "dfco" /\ pc' = "accel"
  /\ TickRefused(d) \/ TickCounts(d) \/ TickLocked(d) \/ TickCuts(d)
  /\ UNCHANGED <<engine, output, accel, decel, injects>>

-----------------------------------------------------------------------------
(* bua_tps_ae_lfa1e: the throttle against its filtered value. *)

\* Far below it, not above it enough, or a failed sensor.
AccelCancels ==
  /\ active' = FALSE /\ async' = 0
  /\ UNCHANGED limit

\* A little below it.
AccelKeeps == UNCHANGED accel

AccelTriggers ==
  /\ active' = TRUE /\ limit' = TRUE
  /\ UNCHANGED async

Accel ==
  /\ pc = "accel" /\ pc' = "output"
  /\ AccelCancels \/ AccelKeeps \/ AccelTriggers
  /\ UNCHANGED <<engine, cutoff, output, decel, injects, record>>

-----------------------------------------------------------------------------
(* bua_fuel_output_lf92a: a pulse width or none.  fast is the speed against *)
(* the limit and the lower limit at which fuel returns.                     *)

Overspeed(fast) == fast = "high" \/ (fast = "mid" /\ highCut)
Withheld == ~vats \/ key # "on" \/ dfco

Written(fast) ==
  /\ cut' = (Withheld \/ (running /\ Overspeed(fast)))
  /\ highCut' = IF Withheld \/ ~running THEN highCut ELSE Overspeed(fast)

\* bua_odd_crank_fuel_12p5ms.
Crank ==
  /\ pc = "crank" /\ pc' = "idle"
  /\ Written("low")
  /\ UNCHANGED <<engine, cutoff, accel, decel, injects, record>>

Output(fast) ==
  /\ pc = "output" /\ pc' = "async"
  /\ Written(fast)
  /\ UNCHANGED <<engine, cutoff, accel, decel, injects, record>>

-----------------------------------------------------------------------------
(* LE436: the asynchronous pulses of the acceleration, then those of the   *)
(* stall saver.                                                            *)

Bursts ==
  \/ ~active /\ UNCHANGED accel
  \/ active /\ async < Pulses /\ async' = async + 1 /\ UNCHANGED <<active, limit>>
  \/ active /\ async >= Pulses /\ limit /\ UNCHANGED accel
  \/ active /\ async >= Pulses /\ ~limit /\ active' = FALSE /\ async' = 0 /\ UNCHANGED limit

Shoots == stallSave /\ shots > 0

\* Mutant: the pulse is not counted off.
AsyncMutant ==
  /\ pc = "async" /\ pc' = "idle"
  /\ Bursts
  /\ owed' = (owed /\ ~Shoots)
  /\ UNCHANGED <<shots, engine, dfco, qualify, lockout, stallSave, output, decel, injects,
                 calm, primed, since, tipped>>

Async ==
  /\ pc = "async" /\ pc' = "idle"
  /\ Bursts
  /\ shots' = IF Shoots THEN shots - 1 ELSE shots
  /\ owed' = (owed /\ ~Shoots)
  /\ UNCHANGED <<engine, dfco, qualify, lockout, stallSave, output, decel, injects,
                 calm, primed, since, tipped>>

OddStep ==
  \/ OddFront
  \/ \E f \in BOOLEAN : Enlean(f)
  \/ \E d \in Drives : Tick(d)
  \/ Accel
  \/ Crank
  \/ \E f \in Bands : Output(f)
  \/ Async

-----------------------------------------------------------------------------
(* bua_injector_event_lf71c, once for each revolution served. *)

Limited == window \/ limit

\* Mutant: the count returns before it is stored.
EventCountsMutant ==
  /\ Limited /\ injects + 1 < Injects
  /\ UNCHANGED <<limit, async, window, injects>>

EventCounts ==
  /\ Limited /\ injects + 1 < Injects
  /\ injects' = injects + 1
  /\ UNCHANGED <<limit, async, window>>

EventHeld ==
  /\ hold /\ ~(Limited /\ injects + 1 < Injects)
  /\ UNCHANGED <<limit, async, window, injects>>

EventCloses ==
  /\ ~hold /\ ~(Limited /\ injects + 1 < Injects)
  /\ limit' = FALSE /\ window' = FALSE /\ async' = 0 /\ injects' = 0

InjectorEvent ==
  /\ Idle /\ key # "down"
  /\ EventCounts \/ EventHeld \/ EventCloses
  /\ UNCHANGED <<pc, engine, cutoff, output, active, hold, record>>

-----------------------------------------------------------------------------
(* The rest of the program. *)

\* Mutant: $0043 is masked with $D7.
Segment3Mutant ==
  /\ Idle /\ key # "down"
  /\ UNCHANGED vars

\* Segment 3 drops the DFCO bit of an engine that is not running.
Segment3 ==
  /\ Idle /\ key # "down"
  /\ dfco' = (dfco /\ running)
  /\ UNCHANGED <<pc, engine, qualify, lockout, stallSave, shots, output, accel, decel,
                 injects, record>>

\* bua_reference_state_12p5ms; key-off housekeeping lets no engine start.
EngineStarts ==
  /\ Idle /\ key \in {"on", "off"} /\ ~running
  /\ running' = TRUE
  /\ UNCHANGED <<pc, key, vats, cutoff, output, accel, decel, injects, record>>

\* Segment E reads the ignition line.
KeyTurns ==
  /\ Idle /\ key # "down"
  /\ key' = IF key = "on" THEN "off" ELSE "on"
  /\ UNCHANGED <<pc, running, vats, cutoff, output, accel, decel, injects, record>>

\* The theft deterrent is no part of the program: its bit is written from outside.
VatsPasses ==
  /\ Idle /\ key = "on"
  /\ vats' = TRUE
  /\ UNCHANGED <<pc, key, running, cutoff, output, accel, decel, injects, record>>

\* $002E..$01B2 are cleared: the counts stand at zero, not at their loads.  The
\* retained $0003 may hold the bit of the theft deterrent.
PowerOn ==
  /\ Idle
  /\ key' \in {"on", "off"} /\ running' = FALSE /\ vats' \in BOOLEAN
  /\ dfco' = FALSE /\ qualify' = 0 /\ lockout' = 0 /\ stallSave' = FALSE /\ shots' = 0
  /\ highCut' = FALSE /\ cut' = TRUE
  /\ active' = FALSE /\ limit' = FALSE /\ async' = 0
  /\ hold' = FALSE /\ window' = FALSE /\ injects' = 0
  /\ calm' = 0 /\ primed' = FALSE /\ since' = 0 /\ tipped' = TRUE /\ owed' = FALSE
  /\ UNCHANGED pc

Init ==
  /\ pc = "idle" /\ key = "on" /\ running = FALSE /\ vats = FALSE
  /\ dfco = FALSE /\ qualify = 0 /\ lockout = 0 /\ stallSave = FALSE /\ shots = 0
  /\ highCut = FALSE /\ cut = TRUE
  /\ active = FALSE /\ limit = FALSE /\ async = 0
  /\ hold = FALSE /\ window = FALSE /\ injects = 0
  /\ calm = 0 /\ primed = FALSE /\ since = 0 /\ tipped = TRUE /\ owed = FALSE

Next ==
  \/ OddStep \/ InjectorEvent \/ Segment3
  \/ EngineStarts \/ KeyTurns \/ VatsPasses \/ PowerOn

\* Odd passes and segment 3 come round with the timer interrupt.
Fairness == WF_vars(OddStep) /\ SF_vars(Segment3)

Spec == Init /\ [][Next]_vars /\ Fairness

-----------------------------------------------------------------------------
TypeOK ==
  /\ pc \in {"idle", "crank", "enlean", "dfco", "accel", "output", "async"}
  /\ key \in {"on", "off", "kept", "down"} /\ running \in BOOLEAN /\ vats \in BOOLEAN
  /\ dfco \in BOOLEAN /\ qualify \in 0 .. EntryCount /\ lockout \in 0 .. Lockout
  /\ stallSave \in BOOLEAN /\ shots \in 0 .. 1
  /\ highCut \in BOOLEAN /\ cut \in BOOLEAN
  /\ active \in BOOLEAN /\ limit \in BOOLEAN /\ async \in 0 .. Pulses
  /\ hold \in BOOLEAN /\ window \in BOOLEAN /\ injects \in 0 .. Injects - 1
  /\ calm \in 0 .. EntryCount /\ primed \in BOOLEAN
  /\ since \in 0 .. Lockout /\ tipped \in BOOLEAN /\ owed \in BOOLEAN

(* Safety. *)

\* Once DFCO has ended, fuel is not cut by it again before the lockout has
\* counted its disqualified passes, unless the throttle was opened meanwhile;
\* a stopped engine and key-off do not shorten it.
ReentryWaits ==
  [][~dfco /\ dfco' => tipped \/ since >= Lockout]_vars

\* DFCO is entered only after EntryCount passes in a row in which every
\* condition held.  Not so the first DFCO after a power-on, which finds the
\* count at zero, unless some pass has disqualified before.
EntryTimed ==
  [][~dfco /\ dfco' /\ primed => calm >= EntryCount]_vars

\* The stall saver shoots at most once for each DFCO, and never without one.
OneStallShot ==
  [][Async /\ Shoots => owed]_vars

\* A new acceleration begins its burst with the first pulse, whatever events,
\* cancellations and stops have cut the burst before short.
FreshBurst ==
  [][~active /\ active' => async = 0]_vars

\* Injector events do not close the window that an enleanment still holds.
HeldWindowStays == hold => window

(* Liveness. *)

\* A DFCO that key-off has overtaken does not keep a later crank without fuel,
\* once the key is on and the theft deterrent has passed.
CrankIsFuelled ==
  <>[](key = "on" /\ vats /\ ~running) /\ <>[][~PowerOn]_vars => <>[]~cut

\* Limiting ends if it is not opened anew for ever: events that keep coming to a
\* running engine close every window, also those that an enleanment held.
LimitingEnds ==
  /\ SF_vars(InjectorEvent) /\ <>[]running
  /\ <>[][~(~limit /\ limit') /\ ~Enlean(TRUE)]_vars
  => <>[]~Limited
=============================================================================
