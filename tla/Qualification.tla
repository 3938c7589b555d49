----------------------------- MODULE Qualification ----------------------------
(***************************************************************************)
(* The diagnostic qualification of segment D (step 108): timers that turn  *)
(* readings out of range into trouble codes for the logger.                *)
(*                                                                         *)
(* A pass runs the tests in the order of the listing, one action each;     *)
(* nothing comes between them.  A comparison is abstracted to its outcome: *)
(* the reading is back in range, or it is not and the other conditions are *)
(* met, wrong, or of the kind that holds the count or takes it back.       *)
(* $00B6, which ERR21 and ERR33 read as airflow, is never written: it is   *)
(* below both limits, so ERR33 finds nothing and is left out.  Left out    *)
(* too: ERR41 to 43, which have no timer, and what codes 13, 24, 44 and 45 *)
(* tell the fuel path.                                                     *)
(***************************************************************************)
EXTENDS Integers

CONSTANTS
  Limit,    \* the count each timed code must pass (30, 20, 2, 2560, 1, 20, 50)
  Watchable \* codes the history may follow

Timed == {13, 21, 24, 32, 34, 44, 45}

VARIABLES
  test,    \* test of the pass that runs next
  counts,   \* $00AA, $00A7, $00AB, $00AE, $00B5, $00A8, $00A9
  reported,   \* $004C..$004E: codes for the logger
  warm,    \* $0041 b6: the engine has run for two minutes
  tpsLow,  \* $003F b5: ERR22 holds now
  tpsHigh, \* $003F b2
  mafLow,  \* $003F b6
  product, \* $00EF: "low" up to 55
  watch,   \* history: the code watched
  streak,  \* history: tests of it in a row that did not find it in range
  lowMaf   \* history: a MAF sample so low that seven times it is at most 55

flags == <<warm, tpsLow, tpsHigh, mafLow>>
still == <<product, watch, lowMaf>>
vars  == <<test, counts, reported, flags, still, streak>>

Least(a, b) == IF a < b THEN a ELSE b

TpsFault == tpsLow \/ tpsHigh
Fault    == TpsFault \/ mafLow

-----------------------------------------------------------------------------
(* What a test does to its timer. *)

Follows(C, c) ==
  streak' = IF watch \in C THEN 0
            ELSE IF watch = c THEN Least(streak + 1, Limit[c] + 2) ELSE streak

\* Timers of C back to zero.
ClearedTimers(C) == [c \in Timed |-> IF c \in C THEN 0 ELSE counts[c]]

Cleared(C) ==
  /\ counts' = ClearedTimers(C)
  /\ Follows(C, 0)
  /\ UNCHANGED reported

Caught(c, C) ==
  /\ counts[c] > Limit[c]
  /\ reported' = reported \cup {c}
  /\ counts' = ClearedTimers(C)
  /\ Follows(C, c)

Counted(c, condition) ==
  CASE condition = "met"   -> counts[c] + 1
    [] condition = "wrong" -> 0
    [] condition = "hold"  -> counts[c]
    [] condition = "back"  -> LET back == IF c = 32 THEN 2 ELSE 1 IN
                              IF counts[c] > back THEN counts[c] - back ELSE 0

\* Mutant: the test of the mixture forgets to clear the other side.
PendingMutant(c, C, condition) ==
  /\ counts[c] <= Limit[c]
  /\ counts' = [counts EXCEPT ![c] = Counted(c, condition)]
  /\ Follows(C, c)
  /\ UNCHANGED reported

Pending(c, C, condition) ==
  /\ counts[c] <= Limit[c]
  /\ counts' = [ClearedTimers(C) EXCEPT ![c] = Counted(c, condition)]
  /\ Follows(C, c)
  /\ UNCHANGED reported

NotTested == UNCHANGED <<counts, reported, streak>>

Then(next) == test' = next /\ UNCHANGED still

-----------------------------------------------------------------------------
(* The tests of a pass. *)

\* ERR13, an O2 reading stuck in the middle: a throttle fault or a run too short
\* clears it like a reading away from the middle.
Oxygen ==
  /\ test = "oxygen"
  /\ \/ Cleared({13}) /\ warm' \in {warm, warm \/ ~TpsFault}
     \/ /\ ~TpsFault
        /\ warm' = TRUE
        /\ \/ Caught(13, {})
           \/ \E condition \in {"met", "hold", "back"} : Pending(13, {}, condition)
  /\ Then("throttle")
  /\ UNCHANGED <<tpsLow, tpsHigh, mafLow>>

\* ERR21, throttle high: a MAF fault freezes timer and flag.
Throttle ==
  /\ test = "throttle"
  /\ \/ mafLow /\ NotTested /\ UNCHANGED tpsHigh
     \/ /\ ~mafLow
        /\ \/ Cleared({21}) /\ tpsHigh' = FALSE
           \/ Caught(21, {}) /\ tpsHigh' = TRUE
           \/ Pending(21, {}, "met") /\ UNCHANGED tpsHigh
  /\ Then("speed")
  /\ UNCHANGED <<warm, tpsLow, mafLow>>

\* ERR24, no vehicle speed under conditions of a coasting vehicle.
Speed ==
  /\ test = "speed"
  /\ \/ Cleared({24})
     \/ ~Fault /\ Caught(24, {})
     \/ \E condition \in {"met", "hold", "wrong"} : ~Fault /\ Pending(24, {}, condition)
  /\ Then("egr")
  /\ UNCHANGED flags

\* ERR32, EGR: with the diagnostic switch open or a fault the timer clears.
Egr ==
  /\ test = "egr"
  /\ \/ Cleared({32})
     \/ ~Fault /\ Caught(32, {})
     \/ \E condition \in {"met", "back", "wrong"} : ~Fault /\ Pending(32, {}, condition)
  /\ Then("airflow")
  /\ UNCHANGED flags

\* ERR34, MAF low: once found it is reported by every pass until power-on.
Airflow ==
  /\ test = "airflow"
  /\ \/ mafLow /\ reported' = reported \cup {34} /\ UNCHANGED <<counts, streak, mafLow>>
     \/ /\ ~mafLow
        /\ IF product = "high" THEN Cleared({34}) /\ UNCHANGED mafLow
           ELSE \/ Caught(34, {}) /\ mafLow' = TRUE
                \/ \E condition \in IF TpsFault THEN {"hold"} ELSE {"met", "hold"} :
                     Pending(34, {}, condition) /\ UNCHANGED mafLow
  /\ Then("mixture")
  /\ UNCHANGED <<warm, tpsLow, tpsHigh>>

\* ERR44 lean and ERR45 rich: the O2 reading clears at least one of the two.
Mixture ==
  /\ test = "mixture"
  /\ \/ mafLow /\ NotTested
     \/ /\ ~mafLow
        /\ \/ Cleared({44, 45})
           \/ \E side \in {44, 45} :
                LET other == {44, 45} \ {side} IN
                \/ Caught(side, other)
                \/ \E condition \in {"met", "hold", "wrong"} :
                     Pending(side, other, condition)
  /\ Then("log")
  /\ UNCHANGED flags

\* The logger takes the codes and its exit clears them.
Log ==
  /\ test = "log"
  /\ reported' = {}
  /\ Then("none")
  /\ UNCHANGED <<counts, flags, streak>>

-----------------------------------------------------------------------------
(* Between the passes. *)

Pass ==
  /\ test = "none"
  /\ Then("oxygen")
  /\ UNCHANGED <<counts, reported, flags, streak>>

\* With the engine stopped the front clears the timers, unless the diagnostic jumper
\* is in; the logger, or the flash that is due with the jumper, clears the codes.
StoppedPass(jumper) ==
  /\ test = "none"
  /\ counts' = IF jumper THEN counts ELSE ClearedTimers(Timed)
  /\ reported' = {}
  /\ UNCHANGED <<test, flags, still, streak>>

\* Every interrupt: a raw throttle above 246 is a fault at once.
CommonTps(top) ==
  /\ test = "none"
  /\ tpsHigh' = (tpsHigh \/ top)
  /\ reported' = IF top THEN reported \cup {21} ELSE reported
  /\ UNCHANGED <<test, counts, warm, tpsLow, mafLow, still, streak>>

\* Every interrupt: $00ED takes the sample, and nothing writes $00EF.
CommonMaf(low) ==
  /\ test = "none"
  /\ lowMaf' = (lowMaf \/ low)
  /\ UNCHANGED <<test, counts, reported, flags, product, watch, streak>>

\* Every odd interrupt with the ignition on: ERR22 holds while the raw throttle of
\* a running engine is low.
OddTail(low) ==
  /\ test = "none"
  /\ tpsLow' = low
  /\ reported' = IF low THEN reported \cup {22} ELSE reported
  /\ UNCHANGED <<test, counts, warm, tpsHigh, mafLow, still, streak>>

Init ==
  /\ test = "none"
  /\ counts = [c \in Timed |-> 0] /\ reported = {}
  /\ warm = FALSE /\ tpsLow = FALSE /\ tpsHigh = FALSE /\ mafLow = FALSE
  /\ product = "low"
  /\ watch \in Watchable /\ streak = 0 /\ lowMaf = FALSE

PowerOn ==
  /\ test = "none"
  /\ counts' = [c \in Timed |-> 0] /\ reported' = {}
  /\ warm' = FALSE /\ tpsLow' = FALSE /\ tpsHigh' = FALSE /\ mafLow' = FALSE
  /\ product' = "low"
  /\ streak' = 0 /\ lowMaf' = FALSE
  /\ UNCHANGED <<test, watch>>

Next ==
  \/ Pass
  \/ Oxygen \/ Throttle \/ Speed \/ Egr \/ Airflow \/ Mixture \/ Log
  \/ \E jumper \in BOOLEAN : StoppedPass(jumper)
  \/ \E top \in BOOLEAN : CommonTps(top)
  \/ \E low \in BOOLEAN : CommonMaf(low) \/ OddTail(low)
  \/ PowerOn

Spec == Init /\ [][Next]_vars

-----------------------------------------------------------------------------
(* Properties. *)

TypeOK ==
  /\ test \in {"none", "oxygen", "throttle", "speed", "egr", "airflow", "mixture", "log"}
  /\ counts \in [Timed -> Nat] /\ \A c \in Timed : counts[c] <= Limit[c] + 1
  /\ reported \subseteq Timed \cup {22}
  /\ {warm, tpsLow, tpsHigh, mafLow, lowMaf} \subseteq BOOLEAN
  /\ product \in {"low", "high"}
  /\ watch \in Watchable /\ streak \in 0 .. Limit[watch] + 2

\* A timed code is reported only when more tests in a row than its limit, whatever
\* stalls and passes without a test came between, failed to find it in range; and
\* one mixture is never on its way to both lean and rich.
CodesEarned ==
  /\ watch \in reported => streak >= Limit[watch] + 2
  /\ counts[44] = 0 \/ counts[45] = 0

\* The low-MAF code is reported only when a MAF sample was that low.  SENSOR_
\* ACQUISITION_FILTERING_THEORY.md has $00EF hold seven times the raw sample, and
\* ERR34 compares $00EF with 55.
Err34NeedsLowMaf == 34 \in reported => lowMaf
=============================================================================
