------------------------------ MODULE Diagnostics -----------------------------
(***************************************************************************)
(* Segment D: the diagnostic front, the error logger and the retained      *)
(* error words with their checksum.                                        *)
(*                                                                         *)
(* segD_diagnostics runs once per major loop, 100 ms.  Between two passes  *)
(* the other segments and the qualification report errors in $004C..$0050, *)
(* which every way through the segment clears; a pass takes them as its    *)
(* parameter.  A powered-down ECM makes no passes until power is cycled.   *)
(***************************************************************************)
EXTENDS Integers, FiniteSets

CONSTANTS
  Codes,         \* bits of the five error words
  Enabled,       \* those the masks DIAG107_MASK_ERR1..5 let through
  Err51,         \* $0007 b0, set by power-on for a bad socket checksum
  NoErrorLimit,  \* DIAG107_NO_ERROR_LIMIT (50)
  ShortNo,       \* DIAG107_SHORT_NO_ERR (10)
  ShortHas,      \* DIAG107_SHORT_HAS_ERR (50)
  LongNo,        \* DIAG107_LONG_NO_ERR (100)
  LongHas,       \* DIAG107_LONG_HAS_ERR (120)
  SeenMax        \* where the history of reports stops counting

ASSUME CodeAssumption == Enabled \subseteq Codes /\ Err51 \in Enabled

ASSUME ThresholdAssumption ==
  /\ NoErrorLimit \in Nat
  /\ ShortNo \in Nat \ {0} /\ ShortHas \in Nat
  /\ LongNo \in Nat \ {0} /\ LongHas \in Nat
  /\ ShortNo < ShortHas /\ ShortHas < LongNo /\ LongNo < LongHas
  /\ SeenMax \in Nat /\ LongHas + 1 < SeenMax + LongNo /\ ShortHas < SeenMax

VARIABLES
  factory,    \* $0047 b7: the IRQ is routed to the factory test
  ignOff,     \* $0033 b4
  running,    \* $0034 b7
  jumper,     \* $0035 b4, sampled by segment 3: the diagnostic line is grounded
  candidates, \* $0051..$0055
  stored,     \* $0005..$0009, retained
  sumOK,      \* $0018, retained, is the checksum of the stored words
  keyOns,     \* $0017, retained: starts since an error was last stored
  counted,    \* $003F b1: this power cycle's start has been counted
  timer,      \* $00B1
  long,       \* $0041 b0: long thresholds, and the lamp's reason to be lit
  seen,       \* history: logging passes in a row that reported each code
  since       \* history: logging passes since a code was last stored

inputs   == <<factory, ignOff, running, jumper>>
retained == <<stored, sumOK, keyOns>>
vars == <<factory, ignOff, running, jumper, candidates, stored, sumOK, keyOns,
          counted, timer, long, seen, since>>

\* Nothing in the program reports $004E b0: only power-on stores code 51.
Reports   == SUBSET (Codes \ {Err51})
LongAgo   == LongNo + 1
NoLimit(l)  == IF l THEN LongNo ELSE ShortNo
HasLimit(l) == IF l THEN LongHas ELSE ShortHas
Least(a, b) == IF a <= b THEN a ELSE b

-----------------------------------------------------------------------------
(* bua_diag_front_step107. *)

\* The first pass of a power cycle that finds the engine running counts a
\* start; one too many without a new error clears the stored words.
CountsStart == running /\ ~counted
Expires     == CountsStart /\ NoErrorLimit < keyOns + 1

StoredAfterFront == IF Expires THEN {} ELSE stored
KeyOnsAfterFront ==
  IF Expires THEN 0 ELSE IF CountsStart THEN keyOns + 1 ELSE keyOns

Front == ~factory /\ counted' = (counted \/ running) /\ UNCHANGED inputs

\* The front is all a pass does.
FrontOnly ==
  /\ Front
  /\ stored' = StoredAfterFront /\ keyOns' = KeyOnsAfterFront
  /\ sumOK' = (sumOK \/ Expires)
  /\ UNCHANGED <<candidates, long, seen>>

\* Diagnostic line grounded: the timer is cleared, a stopped engine flashes the
\* stored codes, a running one drives the field-service lamp; nothing is logged.
ServicePass ==
  /\ FrontOnly /\ jumper
  /\ timer' = 0 /\ since' = LongAgo

\* Ignition off: the logger leaves before it looks at the reports.
IgnitionOffPass ==
  /\ FrontOnly /\ ~jumper /\ ignOff
  /\ UNCHANGED <<timer, since>>

-----------------------------------------------------------------------------
(* bua_diag_logger_step107. *)

Logs(new) ==
  /\ Front /\ ~jumper /\ ~ignOff
  /\ seen' = [c \in Codes |->
                IF c \in new THEN Least(seen[c] + 1, SeenMax) ELSE 0]

StoresNothing ==
  /\ stored' = StoredAfterFront /\ keyOns' = KeyOnsAfterFront
  /\ sumOK' = (sumOK \/ Expires)
  /\ since' = Least(since + 1, LongAgo)

\* Without candidates the reports of this pass become them, and the timer runs
\* down; at zero the long thresholds and the lamp are given up.
SamplePass(new) ==
  /\ Logs(new) /\ StoresNothing /\ candidates = {}
  /\ candidates' = new \cap Enabled
  /\ IF timer # 0 THEN timer' = timer - 1 /\ UNCHANGED long
                  ELSE long' = FALSE /\ UNCHANGED timer

\* A candidate must be reported by every pass.
Remaining(new) == candidates \cap new \cap Enabled

\* The last candidate is gone: the timer is taken back below its limit.
DropPass(new) ==
  /\ Logs(new) /\ StoresNothing /\ candidates # {} /\ Remaining(new) = {}
  /\ candidates' = {}
  /\ timer' = Least(timer + 1, NoLimit(long))
  /\ UNCHANGED long

\* Mutant: a candidate that is no longer reported is kept with the others.
CountPassMutant(new) ==
  /\ Logs(new) /\ StoresNothing /\ Remaining(new) # {}
  /\ timer + 1 < HasLimit(long)
  /\ timer' = timer + 1
  /\ UNCHANGED <<candidates, long>>

\* Some candidate is still reported, for less than the limit.
CountPass(new) ==
  /\ Logs(new) /\ StoresNothing /\ Remaining(new) # {}
  /\ timer + 1 < HasLimit(long)
  /\ candidates' = Remaining(new) /\ timer' = timer + 1
  /\ UNCHANGED long

\* Mutant: the timer restarts from zero, with the long thresholds.
StorePassMutant(new) ==
  /\ Logs(new) /\ Remaining(new) # {} /\ HasLimit(long) <= timer + 1
  /\ stored' = StoredAfterFront \cup Remaining(new)
  /\ candidates' = {} /\ timer' = 0 /\ long' = TRUE
  /\ keyOns' = 0 /\ sumOK' = TRUE /\ since' = 0

\* Mutant: the candidates are cleared before they are stored.
StorePassClearsFirst(new) ==
  /\ Logs(new) /\ Remaining(new) # {} /\ HasLimit(long) <= timer + 1
  /\ stored' = StoredAfterFront
  /\ candidates' = {} /\ timer' = LongNo /\ long' = TRUE
  /\ keyOns' = 0 /\ sumOK' = TRUE /\ since' = 0

\* The candidates that lasted are stored and summed.
StorePass(new) ==
  /\ Logs(new) /\ Remaining(new) # {} /\ HasLimit(long) <= timer + 1
  /\ stored' = StoredAfterFront \cup Remaining(new)
  /\ candidates' = {} /\ timer' = LongNo /\ long' = TRUE
  /\ keyOns' = 0 /\ sumOK' = TRUE /\ since' = 0

SegmentD ==
  \/ ServicePass \/ IgnitionOffPass
  \/ \E new \in Reports :
        SamplePass(new) \/ DropPass(new) \/ CountPass(new) \/ StorePass(new)

-----------------------------------------------------------------------------
(* Between two passes. *)

\* The front of key-off, the reference state and segments 3 and E.
Inputs ==
  /\ ~factory
  /\ ignOff' \in BOOLEAN /\ running' \in BOOLEAN /\ jumper' \in BOOLEAN
  /\ UNCHANGED <<factory, candidates, retained, counted, timer, long, seen, since>>

\* bua_mode4_scheduler_step116 with the error reset requested.
Mode4ErrorReset ==
  /\ ~factory
  /\ stored' = {} /\ sumOK' = TRUE
  /\ UNCHANGED <<inputs, candidates, keyOns, counted, timer, long, seen, since>>

\* $002E..$01B2 are cleared.
ClearVolatile ==
  /\ running' = FALSE /\ jumper' = FALSE
  /\ candidates' = {} /\ counted' = FALSE /\ timer' = 0 /\ long' = FALSE
  /\ seen' = [c \in Codes |-> 0] /\ since' = LongAgo

\* bua_power_on_step120, normal or $C938 outcome: words whose checksum fails
\* (or that a lost keep-alive supply scrambled) are cleared with the start
\* count, then code 51 is added for a bad socket checksum, and summed.
PowerOn(lost, badSocket) ==
  /\ ClearVolatile
  /\ factory' = FALSE /\ ignOff' \in BOOLEAN
  /\ LET recover == lost \/ ~sumOK
     IN  /\ stored' = (IF recover THEN {} ELSE stored)
                      \cup (IF badSocket THEN {Err51} ELSE {})
         /\ keyOns' = IF recover THEN 0 ELSE keyOns
  /\ sumOK' = TRUE

\* The factory outcome comes before the check; the fill pattern's checksum is
\* never right.  What the count byte holds then is never read: the next
\* power-on that leaves the factory test recovers.
PowerOnFactory(fill) ==
  /\ ClearVolatile
  /\ factory' = TRUE /\ ignOff' = FALSE
  /\ IF fill THEN stored' = Codes /\ sumOK' = FALSE
             ELSE UNCHANGED <<stored, sumOK>>
  /\ UNCHANGED keyOns

\* ecm_reset clears all memory, $0018 included, which for no errors is 1.
Init ==
  /\ factory = FALSE /\ ignOff \in BOOLEAN /\ running = FALSE /\ jumper = FALSE
  /\ candidates = {} /\ stored = {} /\ sumOK = FALSE
  /\ keyOns = 0 /\ counted = FALSE /\ timer = 0 /\ long = FALSE
  /\ seen = [c \in Codes |-> 0] /\ since = LongAgo

Next ==
  \/ SegmentD
  \/ Inputs
  \/ Mode4ErrorReset
  \/ \E lost, badSocket \in BOOLEAN : PowerOn(lost, badSocket)
  \/ \E fill \in BOOLEAN : PowerOnFactory(fill)

\* Segment D is due in every major loop of a periodic interrupt.  A pass with
\* an enabled report always changes the state, so fairness forces no report.
Fairness == WF_vars(SegmentD)

Spec == Init /\ [][Next]_vars /\ Fairness

-----------------------------------------------------------------------------
(* Type invariant. *)

FlagsOK ==
  /\ factory \in BOOLEAN /\ ignOff \in BOOLEAN /\ running \in BOOLEAN
  /\ jumper \in BOOLEAN /\ sumOK \in BOOLEAN /\ counted \in BOOLEAN
  /\ long \in BOOLEAN
  /\ candidates \subseteq Enabled \ {Err51} /\ stored \subseteq Codes

NumbersOK ==
  /\ keyOns \in 0 .. NoErrorLimit
  /\ timer \in 0 .. LongHas - 1
  /\ seen \in [Codes -> 0 .. SeenMax] /\ since \in 0 .. LongAgo

TypeOK == FlagsOK /\ NumbersOK

(* Safety. *)

Persistent == HasLimit(long) - NoLimit(long) + 2

\* No intermittent error is stored: one timer serves all candidates, is never
\* reset when they change and leaks only one count per quiet pass, and still a
\* code enters the retained words from the logger only after 42 logging passes
\* in a row have reported it, 22 while the long thresholds are in force.
StoredWasPersistent ==
  [][\A c \in (stored' \ stored) \ {Err51} :
        factory' \/ seen'[c] >= Persistent]_vars

\* A checksum that has covered the retained words once always does when the
\* scheduler runs: no power-on mistakes its own state for a lost supply, and
\* throws the trim, the valve position and the codes away.
ChecksumStays == [][sumOK /\ ~factory' => sumOK']_vars

\* What the next power-on finds stored has lasted, and has its checksum.
StoredSoundly == StoredWasPersistent /\ ChecksumStays

\* A stored code lights the lamp for the next ten seconds of logging at least,
\* whatever else is sampled, dropped or stored meanwhile; only a grounded
\* diagnostic line or a power cycle ends it sooner.
LampHolds == since <= LongNo => long

(* Liveness. *)

\* An error reported by every pass gets stored, and again after each reset,
\* whatever other errors come and go, and whenever it joined them.
PersistentIsStored ==
  \A c \in Enabled \ {Err51} :
    <>[](seen[c] > 0 /\ ~jumper /\ ~ignOff) => []<>(c \in stored)
=============================================================================
