----------------------------- MODULE AirControl ------------------------------
(***************************************************************************)
(* Major-loop segment 9: injection air.  One action per pass; the sensor   *)
(* bytes a pass reads are chosen anew for every pass, and a power-on may   *)
(* come between any two.                                                   *)
(*                                                                         *)
(* The air pass is a chain of early exits: each test that sends the air    *)
(* away leaves the counters of the tests after it as they are.             *)
(***************************************************************************)
EXTENDS Integers

CONSTANTS
  OpenDelay,    \* STEP81_AIR_OPEN_DELAY (254)
  DropHold,     \* STEP81_AIR_DROP_HOLD (10)
  LoadDrop,     \* STEP81_AIR_LOAD_DROP (64)
  HighRpmCount, \* STEP81_AIR_HIGH_RPM_COUNT (10)
  OxygenTime,   \* STEP81_AIR_O2_TIME (200)
  LowLoad,      \* STEP81_AIR_LOW_LOAD (25)
  HighLoad,     \* STEP81_AIR_HIGH_LOAD (100)
  Loads         \* load bytes that occur

VARIABLES
  history, \* $003D b7: closed loop has been reached
  divert,  \* $0043 b0: AIR DIVERT
  valves,  \* $003E b1 and b2: "off", "one" (b1) or "both"
  open,    \* $00FD passes of air left after closed loop
  drop,    \* $00FC passes left of the load-drop hold
  rpm,     \* $00F6 passes at high engine speed
  rich,    \* $00F7 rich passes
  lean,    \* $00F9 lean passes
  load,    \* $00FB load of the last pass
  aired    \* history: passes that left air on since closed loop was last seen

counts == <<rpm, rich, lean, divert>>
vars   == <<history, divert, valves, open, drop, rpm, rich, lean, load, aired>>

Inputs ==
  [cold : BOOLEAN, closed : BOOLEAN, running : BOOLEAN, fast : BOOLEAN,
   pe : BOOLEAN, quick : BOOLEAN, o2 : {"rich", "mid", "lean"}, load : Loads]

-----------------------------------------------------------------------------
(* Segment 9: bua_air81. *)

Divert == valves' = "off"
One    == valves' = "one"
Both   == valves' = "both"

Reached(i) == history \/ i.closed

\* No air without a warm engine.
Cold(i) ==
  /\ i.cold
  /\ Divert
  /\ UNCHANGED <<open, drop, counts>>

\* The delay after closed loop has run out.
Shut(i) ==
  /\ ~i.cold /\ ~i.closed /\ history /\ open = 0
  /\ Divert
  /\ UNCHANGED <<open, drop, counts>>

Supplied(i) == ~i.cold /\ (i.closed \/ ~history \/ open > 0)

\* Closed loop refills the delay; an open loop after it uses it up.
OpenAfter(i) ==
  IF i.closed THEN OpenDelay ELSE IF history THEN open - 1 ELSE open

Hold(i) == IF load > i.load + LoadDrop THEN DropHold ELSE drop

Dropped(i) == ~i.closed /\ i.running /\ Hold(i) > 0

\* Mutant: the passes of the load-drop hold do not count against the delay.
DroppingMutant(i) ==
  /\ Supplied(i) /\ Dropped(i)
  /\ drop' = Hold(i) - 1
  /\ One
  /\ UNCHANGED <<open, counts>>

\* The load fell sharply: one valve for a while, whatever the other tests say.
Dropping(i) ==
  /\ Supplied(i) /\ Dropped(i)
  /\ open' = OpenAfter(i) /\ drop' = Hold(i) - 1
  /\ One
  /\ UNCHANGED counts

\* Engine load and speed decide last.
ByLoad(i) ==
  IF i.load < LowLoad \/ (i.load > HighLoad /\ i.quick) THEN Divert
  ELSE IF Reached(i) THEN One ELSE Both

LeanNow(i) == i.o2 = "lean" /\ i.closed

ByLean(i) ==
  \/ LeanNow(i) /\ lean > OxygenTime /\ Divert /\ UNCHANGED lean
  \/ LeanNow(i) /\ lean <= OxygenTime /\ lean' = lean + 1 /\ ByLoad(i)
  \/ ~LeanNow(i) /\ lean' = 0 /\ ByLoad(i)

\* Rich for long enough sets the divert bit; it clears when as many passes have
\* not been rich.
RichNow(i) == i.o2 = "rich"

ByOxygen(i) ==
  \/ /\ RichNow(i) /\ rich >= OxygenTime
     /\ divert' = TRUE /\ Divert
     /\ UNCHANGED <<rich, lean>>
  \/ /\ ~(RichNow(i) /\ rich >= OxygenTime)
     /\ rich' = IF RichNow(i) THEN rich + 1 ELSE IF rich = 0 THEN 0 ELSE rich - 1
     /\ divert' = (divert /\ (RichNow(i) \/ rich > 0))
     /\ \/ divert' /\ Divert /\ UNCHANGED lean
        \/ ~divert' /\ ByLean(i)

BySpeed(i) ==
  \/ i.fast /\ rpm > HighRpmCount /\ Divert /\ UNCHANGED counts
  \/ /\ ~(i.fast /\ rpm > HighRpmCount)
     /\ rpm' = IF i.fast THEN rpm + 1 ELSE 0
     \* Power enrichment diverts at once: STEP81_AIR_PE_COUNT is 0.
     /\ \/ i.pe /\ Divert /\ UNCHANGED <<rich, lean, divert>>
        \/ ~i.pe /\ ByOxygen(i)

Regular(i) ==
  /\ Supplied(i) /\ ~Dropped(i)
  /\ open' = OpenAfter(i) /\ drop' = IF i.closed THEN 0 ELSE drop
  /\ BySpeed(i)

Aired(i) ==
  IF i.closed THEN 0 ELSE IF history /\ valves' # "off" THEN aired + 1 ELSE aired

Segment9(i) ==
  /\ Cold(i) \/ Shut(i) \/ Dropping(i) \/ Regular(i)
  /\ history' = Reached(i) /\ load' = i.load
  /\ aired' = Aired(i)

-----------------------------------------------------------------------------

Init ==
  /\ history = FALSE /\ divert = FALSE /\ valves = "off"
  /\ open = 0 /\ drop = 0 /\ rpm = 0 /\ rich = 0 /\ lean = 0
  /\ load = 0
  /\ aired = 0

PowerOn ==
  /\ history' = FALSE /\ divert' = FALSE /\ valves' = "off"
  /\ open' = 0 /\ drop' = 0 /\ rpm' = 0 /\ rich' = 0 /\ lean' = 0
  /\ load' = 0
  /\ aired' = 0

Next ==
  \/ \E i \in Inputs : Segment9(i)
  \/ PowerOn

Spec == Init /\ [][Next]_vars

-----------------------------------------------------------------------------
(* Properties. *)

TypeOK ==
  /\ history \in BOOLEAN /\ divert \in BOOLEAN
  /\ valves \in {"off", "one", "both"}
  /\ open \in 0 .. OpenDelay /\ drop \in 0 .. DropHold - 1
  /\ rpm \in 0 .. HighRpmCount + 1
  /\ rich \in 0 .. OxygenTime /\ lean \in 0 .. OxygenTime + 1
  /\ load \in Loads \cup {0}

\* Once the engine has run in closed loop and lost it, air is supplied for at
\* most the open delay, load-drop holds included, and never by both valves.
OpenLoopAirEnds ==
  /\ aired <= OpenDelay
  /\ history => valves # "both"
=============================================================================
