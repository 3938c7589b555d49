----------------------------- MODULE StartupFuel -----------------------------
(***************************************************************************)
(* The start of the engine as fuel and spark see it: references make it    *)
(* ENGINE RUNNING and, four at a time, ask for an injector service; each   *)
(* service of a running engine takes the startup enrichment and the        *)
(* startup spark down; segment F and normal startup put them up while the  *)
(* engine stands and its retained run bit (NV, $0001 b3) is clear.         *)
(*                                                                         *)
(* One timer interrupt takes two or three steps: references, count and     *)
(* injector service; then the odd or the even loop; then the second half   *)
(* of segment F when its turn has come.                                    *)
(***************************************************************************)
EXTENDS Integers

CONSTANTS
  FPeriod,          \* interrupts between two second halves of segment F (32)
  StartCount,       \* MINOR_COUNT at the hand-off (14)
  StartupLoops,     \* CAL_STARTUP_LOOPS (8)
  PulsesPerService, \* references of one revolution (4)
  MaxPulses,        \* references in one interrupt (4 at 9600 rpm)
  Unit,             \* values of the low byte of a level (256)
  Levels,           \* high bytes of cal_startup_enrich_step48, cal_startup_spark
  Delays,           \* services before the first decay
  Repeats,          \* services between two decays
  Decays            \* what one decay takes off

ASSUME CountAssumption ==
  /\ FPeriod \in Nat \ {0} /\ StartCount \in 0 .. FPeriod - 1
  /\ FPeriod % 2 = 0 /\ StartCount % 2 = 0

\* Normal startup reaches a second half of segment F before the first even loop
\* that can find the engine running: 17 interrupts against 20.
ASSUME MarginAssumption ==
  /\ StartupLoops \in Nat
  /\ FPeriod - 1 - StartCount < 2 * (StartupLoops + 2)

ASSUME ServiceAssumption ==
  /\ PulsesPerService \in Nat \ {0} /\ MaxPulses \in Nat
  /\ MaxPulses <= PulsesPerService

ASSUME TableAssumption ==
  /\ Unit \in Nat \ {0}
  /\ Levels \subseteq Nat \ {0} /\ Levels # {}
  /\ Delays \subseteq Nat /\ Repeats \subseteq Nat /\ Decays \subseteq Nat \ {0}

VARIABLES
  pc,       \* the step of the interrupt
  count,    \* $0000 MINOR_COUNT, as far as segment F tells its values apart
  key,      \* ignition and what key-off has done so far
  running,  \* $0034 b7
  nv,       \* $0001 b3, retained
  refSeen,  \* $0035 REF_SEEN
  slow,     \* reference period at or above CAL_STARTUP_REF_PERIOD
  second,   \* $0033 b3
  startup,  \* $0093 STARTUP_COUNTER
  phase,    \* injector_ref_phase
  pending,  \* injector_services_pending
  fuel,     \* $000E level, $0010 delay (both retained), $00CC repeat
  spark,    \* $0013 level, $0015 delay, $0012 repeat (all retained), $003B b7 phase
  start     \* history: what this power-on owes the engine's start

starting == <<refSeen, slow, second, startup>>
injector == <<phase, pending>>
vars == <<pc, count, key, running, nv, refSeen, slow, second, startup, phase, pending,
          fuel, spark, start>>

Idle == pc = "idle"
Odd  == count % 2 = 1

-----------------------------------------------------------------------------
(* References, count and injector service. *)

\* sim_advance_ecm_reference_6p25ms: every PulsesPerService-th reference asks
\* for a service.
References(n, s) ==
  /\ phase' = (phase + n) % PulsesPerService
  /\ refSeen' = (refSeen \/ n > 0)
  /\ slow' = IF n > 0 THEN s ELSE slow

Asked(n) == pending + (phase + n) \div PulsesPerService

\* Mutant: the repeat count is reloaded where it should be counted.
EnrichedMutant(f, d, r) ==
  IF f.level < Unit THEN f
  ELSE IF f.delay > 0 THEN [f EXCEPT !.delay = @ - 1]
  ELSE IF f.repeat > 0 THEN [f EXCEPT !.repeat = r]
  ELSE [f EXCEPT !.repeat = r, !.level = IF @ < d THEN 0 ELSE @ - d]

\* bua_startup_afr_inject_step48.
Enriched(f, d, r) ==
  IF f.level < Unit THEN f
  ELSE IF f.delay > 0 THEN [f EXCEPT !.delay = @ - 1]
  ELSE IF f.repeat > 0 THEN [f EXCEPT !.repeat = @ - 1]
  ELSE [f EXCEPT !.repeat = r, !.level = IF @ < d THEN 0 ELSE @ - d]

\* bua_startup_spark_on_inject: a repeat left from before counts for nothing
\* until the first decay.
Advanced(s, d, r) ==
  IF s.delay > 0 THEN [s EXCEPT !.delay = @ - 1]
  ELSE IF s.phase /\ s.repeat > 0 THEN [s EXCEPT !.repeat = @ - 1]
  ELSE [s EXCEPT !.phase = TRUE, !.repeat = r, !.level = IF @ < d THEN 0 ELSE @ - d]

\* Mutant: the engine is tested before the request is taken.
ServeMutant(asked) ==
  IF asked = 0 \/ ~running THEN pending' = asked /\ UNCHANGED <<fuel, spark>>
  ELSE /\ pending' = asked - 1
       /\ \E d \in Decays, r \in Repeats :
            /\ fuel' = Enriched(fuel, d, r)
            /\ spark' = Advanced(spark, d, r)

\* bua_common_injector_service_6p25ms, in the same interrupt: one service.
Serve(asked) ==
  IF asked = 0 THEN pending' = 0 /\ UNCHANGED <<fuel, spark>>
  ELSE /\ pending' = asked - 1
       /\ IF running
          THEN \E d \in Decays, r \in Repeats :
                 /\ fuel' = Enriched(fuel, d, r)
                 /\ spark' = Advanced(spark, d, r)
          ELSE UNCHANGED <<fuel, spark>>

Begin(n, s) ==
  /\ Idle /\ key # "down" /\ pc' = "loop"
  /\ References(n, s)
  /\ count' = (count + 1) % FPeriod
  /\ Serve(Asked(n))
  /\ UNCHANGED <<key, running, nv, second, startup, start>>

-----------------------------------------------------------------------------
(* The odd loop as far as it stops the engine, and the even loop's           *)
(* bua_reference_state_12p5ms.  How long key-off debounces is left open.     *)

SegmentDue == count = FPeriod - 1

Loop(odd) ==
  /\ pc = "loop" /\ Odd = odd
  /\ pc' = IF SegmentDue THEN "segment" ELSE "idle"
  /\ UNCHANGED <<count, phase, pending, fuel, spark, slow>>

OddRuns ==
  /\ Loop(TRUE) /\ key \in {"on", "off"}
  /\ UNCHANGED <<key, running, nv, refSeen, second, startup, start>>

OddHousekeeping ==
  /\ Loop(TRUE) /\ key \in {"off", "kept"}
  /\ key' = "kept" /\ running' = FALSE /\ nv' = FALSE /\ startup' = 0
  /\ start' = "free"
  /\ UNCHANGED <<refSeen, second>>

\* The terminal pass latches the power-down, and the interrupt returns.
OddPowerdown ==
  /\ pc = "loop" /\ Odd /\ key = "kept"
  /\ pc' = "idle" /\ key' = "down" /\ nv' = FALSE
  /\ UNCHANGED <<count, running, starting, injector, fuel, spark, start>>

EvenTooSlow ==
  /\ Loop(FALSE) /\ ~running /\ slow
  /\ refSeen' = FALSE /\ startup' = 0
  /\ UNCHANGED <<key, running, nv, second, start>>

Qualifies == Loop(FALSE) /\ refSeen /\ (running \/ ~slow)

EvenRunningRef ==
  /\ Qualifies /\ running
  /\ refSeen' = FALSE
  /\ UNCHANGED <<key, running, nv, second, startup, start>>

EvenFirstRef ==
  /\ Qualifies /\ ~running /\ ~second
  /\ refSeen' = FALSE /\ second' = TRUE
  /\ UNCHANGED <<key, running, nv, startup, start>>

EvenStartupLoop ==
  /\ Qualifies /\ ~running /\ second /\ startup < StartupLoops
  /\ refSeen' = FALSE /\ startup' = startup + 1
  /\ UNCHANGED <<key, running, nv, second, start>>

\* Mutant: the engine is caught one startup loop early.
EvenEngineCaughtMutant ==
  /\ Qualifies /\ ~running /\ second /\ StartupLoops <= startup + 1
  /\ refSeen' = FALSE /\ running' = TRUE /\ nv' = TRUE
  /\ UNCHANGED <<key, second, startup, start>>

EvenEngineCaught ==
  /\ Qualifies /\ ~running /\ second /\ StartupLoops <= startup
  /\ refSeen' = FALSE /\ running' = TRUE /\ nv' = TRUE
  /\ UNCHANGED <<key, second, startup, start>>

EvenNoRef ==
  /\ Loop(FALSE) /\ ~refSeen /\ (running \/ ~slow)
  /\ UNCHANGED <<key, running, nv, refSeen, second, startup, start>>

-----------------------------------------------------------------------------
(* bua_segf88_startup_and_iac: initialised while the engine stands and no   *)
(* run is being resumed; repeats and the spark's phase survive.             *)

FreshFuel(f, d) == [fuel EXCEPT !.level = f * Unit, !.delay = d]

FreshSpark(s, e) == [spark EXCEPT !.level = s * Unit, !.delay = e]

\* Mutant: the NV bit is not looked at.
SegmentFMutant ==
  /\ pc = "segment" /\ pc' = "idle"
  /\ IF running
     THEN UNCHANGED <<fuel, spark, start>>
     ELSE \E f, s \in Levels, d, e \in Delays :
            /\ fuel' = FreshFuel(f, d) /\ spark' = FreshSpark(s, e)
            /\ start' = IF start = "owed" THEN "armed" ELSE start
  /\ UNCHANGED <<count, key, running, nv, starting, injector>>

SegmentF ==
  /\ pc = "segment" /\ pc' = "idle"
  /\ IF running \/ nv
     THEN UNCHANGED <<fuel, spark, start>>
     ELSE \E f, s \in Levels, d, e \in Delays :
            /\ fuel' = FreshFuel(f, d) /\ spark' = FreshSpark(s, e)
            /\ start' = IF start = "owed" THEN "armed" ELSE start
  /\ UNCHANGED <<count, key, running, nv, starting, injector>>

Irq ==
  \/ \E n \in 0 .. MaxPulses, s \in BOOLEAN : Begin(n, s)
  \/ OddRuns \/ OddHousekeeping \/ OddPowerdown
  \/ EvenTooSlow \/ EvenRunningRef \/ EvenFirstRef \/ EvenStartupLoop
  \/ EvenEngineCaught \/ EvenNoRef
  \/ SegmentF

-----------------------------------------------------------------------------
(* Key and power. *)

\* Segment E reads the ignition line.
KeyTurns ==
  /\ Idle /\ key # "down"
  /\ key' = IF key = "on" THEN "off" ELSE "on"
  /\ UNCHANGED <<pc, count, running, nv, starting, injector, fuel, spark, start>>

\* $002E..$01B2 are cleared, and $0001..$002D too when the retained check fails.
ClearVolatile(recover) ==
  /\ Idle /\ UNCHANGED <<pc, injector>>
  /\ key' \in {"on", "off"} /\ running' = FALSE
  /\ refSeen' = FALSE /\ slow' = FALSE /\ second' = FALSE /\ startup' = 0
  /\ nv' = (nv /\ ~recover)

KeptFuel(recover) ==
  [level |-> IF recover THEN 0 ELSE fuel.level,
   delay |-> IF recover THEN 0 ELSE fuel.delay, repeat |-> 0]

KeptSpark(recover) ==
  [level |-> IF recover THEN 0 ELSE spark.level,
   delay |-> IF recover THEN 0 ELSE spark.delay,
   repeat |-> IF recover THEN 0 ELSE spark.repeat, phase |-> FALSE]

\* bua_startup_normal_step114 sets the levels of a fresh start, of the spark
\* only the high byte, and no delay.
PowerOnNormal(recover) ==
  /\ ClearVolatile(recover)
  /\ count' = StartCount
  /\ IF nv'
     THEN /\ fuel' = KeptFuel(recover) /\ spark' = KeptSpark(recover)
          /\ start' = "free"
     ELSE /\ \E f, s \in Levels :
               /\ fuel' = [KeptFuel(recover) EXCEPT !.level = f * Unit]
               /\ spark' = [KeptSpark(recover) EXCEPT !.level = s * Unit + (@ % Unit)]
          /\ start' = "owed"

\* The $C938 outcome returns before normal startup.
PowerOnSwi(recover) ==
  /\ ClearVolatile(recover)
  /\ fuel' = KeptFuel(recover) /\ spark' = KeptSpark(recover)
  /\ start' = "free"
  /\ UNCHANGED count

PowerOn == \E recover \in BOOLEAN : PowerOnNormal(recover) \/ PowerOnSwi(recover)

Init ==
  /\ pc = "idle" /\ count = StartCount /\ key = "on"
  /\ running = FALSE /\ nv = FALSE
  /\ refSeen = FALSE /\ slow = FALSE /\ second = FALSE /\ startup = 0
  /\ phase = 0 /\ pending = 0
  /\ fuel \in [level : {f * Unit : f \in Levels}, delay : {0}, repeat : {0}]
  /\ spark \in [level : {s * Unit : s \in Levels}, delay : {0}, repeat : {0},
                phase : {FALSE}]
  /\ start = "owed"

Next == Irq \/ KeyTurns \/ PowerOn

\* The timer interrupt is periodic.
Fairness == WF_vars(Irq)

Spec == Init /\ [][Next]_vars /\ Fairness

-----------------------------------------------------------------------------
TypeOK ==
  /\ pc \in {"idle", "loop", "segment"} /\ count \in 0 .. FPeriod - 1
  /\ key \in {"on", "off", "kept", "down"} /\ running \in BOOLEAN /\ nv \in BOOLEAN
  /\ refSeen \in BOOLEAN /\ slow \in BOOLEAN /\ second \in BOOLEAN
  /\ startup \in 0 .. StartupLoops
  /\ phase \in 0 .. PulsesPerService - 1 /\ pending \in Nat
  /\ fuel \in [level : Nat, delay : Nat, repeat : Nat]
  /\ spark \in [level : Nat, delay : Nat, repeat : Nat, phase : BOOLEAN]
  /\ start \in {"owed", "armed", "free"}

(* Safety. *)

\* The counter of services asked for never builds up: at no more references in
\* an interrupt than one service takes, each is served in the interrupt that
\* asks for it, so the counter's limit of 255 is out of reach.
ServedAtOnce == pending = 0

\* No engine that normal startup begins afresh is found running before segment F
\* has armed its enrichment, its startup spark and both their delays: the first
\* second half of segment F comes before the quickest start.
FreshStart == running => start # "owed"

\* As long as the retained run bit stays, neither startup level rises, not by a
\* power loss while running, not by the startup and the segment F after it: an
\* interrupted run resumes its decay and is not enriched twice.
ResumedNotRaised ==
  [][nv /\ nv' => fuel'.level <= fuel.level /\ spark'.level <= spark.level]_vars

(* Liveness. *)

\* The startup enrichment of an engine that goes on turning ends: its high byte,
\* all that fuel reads of it, is counted down to zero.
EnrichmentEnds ==
  (<>[]running /\ []<>(phase = 0) /\ []<>(phase # 0)) => <>(fuel.level < Unit)
=============================================================================
