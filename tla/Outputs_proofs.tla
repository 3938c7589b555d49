--------------------------- MODULE Outputs_proofs ---------------------------
(***************************************************************************)
(* Proofs about the six units of Outputs, for every calibration.           *)
(*                                                                         *)
(* Each unit has an inductive invariant of its own, proved for its own     *)
(* specification; the last section carries the results over to Outputs.    *)
(***************************************************************************)
EXTENDS Outputs, TLAPS

-----------------------------------------------------------------------------
(* Injection air. *)

\* What the air already supplied and the delay that is left add up to.
AirSpent ==
  /\ aired \in Nat
  /\ IF history THEN aired + open <= OpenDelay /\ valves # "both" ELSE aired = 0

AirIInv == Air!TypeOK /\ AirSpent

LEMMA AirInit == Air!Init => AirIInv
<1> SUFFICES ASSUME Air!Init PROVE AirIInv
  OBVIOUS
<1>1. AirSpent
  BY AirAssumption DEF Air!Init, AirSpent
<1>2. /\ open \in 0 .. OpenDelay /\ drop \in 0 .. DropHold - 1
      /\ rpm \in 0 .. HighRpmCount + 1
      /\ rich \in 0 .. OxygenTime /\ lean \in 0 .. OxygenTime + 1
  BY AirAssumption DEF Air!Init
<1>3. Air!TypeOK
  BY <1>2, Zenon DEF Air!Init, Air!TypeOK
<1>4. QED
  BY <1>1, <1>3 DEF AirIInv

\* A pass that supplies no air leaves the delay alone.
LEMMA AirAway ==
  ASSUME NEW i \in Air!Inputs, AirIInv, Air!Segment9(i),
         Air!Cold(i) \/ Air!Shut(i)
  PROVE  AirIInv'
<1>1. /\ valves' = "off" /\ UNCHANGED <<open, drop, rpm, rich, lean, divert>>
      /\ history' = (history \/ i.closed) /\ load' = i.load
      /\ aired' = IF i.closed THEN 0 ELSE aired
  BY DEF Air!Segment9, Air!Cold, Air!Shut, Air!Divert, Air!counts, Air!Reached,
         Air!Aired
<1>2. i.load \in Loads /\ i.closed \in BOOLEAN
  BY DEF Air!Inputs
<1>3. Air!TypeOK'
  BY <1>1, <1>2 DEF AirIInv, Air!TypeOK
<1>4. AirSpent'
  BY <1>1, <1>2 DEF AirIInv, AirSpent, Air!TypeOK
<1>5. QED
  BY <1>3, <1>4 DEF AirIInv

\* A pass that may supply air has used one pass of the delay, out of closed loop.
LEMMA AirDelay ==
  ASSUME NEW i \in Air!Inputs, AirIInv, Air!Segment9(i), Air!Supplied(i),
         open' = Air!OpenAfter(i), (history \/ i.closed) => valves' # "both"
  PROVE  AirSpent' /\ open' \in 0 .. OpenDelay
<1>1. /\ history' = (history \/ i.closed)
      /\ aired' = IF i.closed THEN 0
                  ELSE IF history /\ valves' # "off" THEN aired + 1 ELSE aired
      /\ open' = IF i.closed THEN OpenDelay ELSE IF history THEN open - 1 ELSE open
      /\ i.closed \/ ~history \/ open > 0
  BY DEF Air!Segment9, Air!Supplied, Air!Reached, Air!Aired, Air!OpenAfter
<1>2. open \in 0 .. OpenDelay /\ aired \in Nat /\ OpenDelay \in Nat
  BY AirAssumption DEF AirIInv, AirSpent, Air!TypeOK
<1>3. CASE i.closed
  BY <1>1, <1>2, <1>3 DEF AirSpent
<1>4. CASE ~i.closed /\ ~history
  BY <1>1, <1>2, <1>4 DEF AirIInv, AirSpent
<1>5. CASE ~i.closed /\ history
  <2>1. open > 0 /\ open' = open - 1 /\ aired + open <= OpenDelay
    BY <1>1, <1>5 DEF AirIInv, AirSpent
  <2>2. aired' = aired \/ aired' = aired + 1
    BY <1>1, <1>5
  <2>3. aired' \in Nat /\ aired' + open' <= OpenDelay
    BY <1>2, <2>1, <2>2
  <2>4. history' /\ valves' # "both"
    BY <1>1, <1>5
  <2>5. AirSpent'
    BY <2>3, <2>4 DEF AirSpent
  <2>6. open' \in 0 .. OpenDelay
    BY <1>2, <2>1
  <2>7. QED
    BY <2>5, <2>6
<1>6. QED
  BY <1>3, <1>4, <1>5, Zenon

\* What the load-drop hold leaves for the next pass.
LEMMA AirDropped ==
  ASSUME NEW i \in Air!Inputs, AirIInv, Air!Dropped(i)
  PROVE  Air!Hold(i) - 1 \in 0 .. DropHold - 1
<1>1. drop \in 0 .. DropHold - 1 /\ DropHold \in Nat
  BY AirAssumption DEF AirIInv, Air!TypeOK
<1>2. Air!Hold(i) = DropHold \/ Air!Hold(i) = drop
  BY DEF Air!Hold
<1>3. Air!Hold(i) > 0
  BY DEF Air!Dropped
<1>4. QED
  BY <1>1, <1>2, <1>3

\* Load decides for both valves only before closed loop.
LEMMA AirByLoad ==
  ASSUME NEW i, Air!ByLoad(i)
  PROVE  /\ valves' \in {"off", "one", "both"}
         /\ history \/ i.closed => valves' # "both"
  BY DEF Air!ByLoad, Air!Divert, Air!One, Air!Both, Air!Reached

LEMMA AirByLean ==
  ASSUME NEW i, AirIInv, Air!ByLean(i)
  PROVE  /\ valves' \in {"off", "one", "both"}
         /\ history \/ i.closed => valves' # "both"
         /\ lean' \in 0 .. OxygenTime + 1
<1>1. lean \in 0 .. OxygenTime + 1 /\ OxygenTime \in Nat
  BY AirAssumption DEF AirIInv, Air!TypeOK
<1>2. Air!ByLoad(i) \/ valves' = "off"
  BY DEF Air!ByLean, Air!Divert
<1>3. lean' = lean \/ lean' = 0 \/ (lean <= OxygenTime /\ lean' = lean + 1)
  BY DEF Air!ByLean
<1>4. lean' \in 0 .. OxygenTime + 1
  BY <1>1, <1>3
<1>5. QED
  BY <1>2, <1>4, AirByLoad

LEMMA AirBySpeed ==
  ASSUME NEW i, AirIInv, Air!BySpeed(i)
  PROVE  /\ valves' \in {"off", "one", "both"}
         /\ history \/ i.closed => valves' # "both"
         /\ rpm' \in 0 .. HighRpmCount + 1
         /\ rich' \in 0 .. OxygenTime /\ lean' \in 0 .. OxygenTime + 1
         /\ divert' \in BOOLEAN
<1>1. /\ rpm \in 0 .. HighRpmCount + 1 /\ HighRpmCount \in Nat
      /\ rich \in 0 .. OxygenTime /\ lean \in 0 .. OxygenTime + 1
      /\ OxygenTime \in Nat
  BY AirAssumption DEF AirIInv, Air!TypeOK
<1>2. divert \in BOOLEAN
  BY DEF AirIInv, Air!TypeOK
<1>3. rpm' \in 0 .. HighRpmCount + 1
  <2>1. rpm' = rpm \/ rpm' = 0 \/ (rpm <= HighRpmCount /\ rpm' = rpm + 1)
    BY <1>1 DEF Air!BySpeed, Air!counts
  <2>2. QED
    BY <1>1, <2>1
<1>4. CASE Air!Divert /\ UNCHANGED <<rich, lean, divert>>
  BY <1>1, <1>2, <1>3, <1>4 DEF Air!Divert
<1>5. CASE Air!ByOxygen(i)
  <2>1. CASE Air!RichNow(i) /\ rich >= OxygenTime
    BY <1>1, <1>3, <1>5, <2>1 DEF Air!ByOxygen, Air!Divert
  <2>2. CASE ~(Air!RichNow(i) /\ rich >= OxygenTime)
    <3>1. rich' = IF Air!RichNow(i) THEN rich + 1 ELSE IF rich = 0 THEN 0 ELSE rich - 1
      BY <1>5, <2>2 DEF Air!ByOxygen
    <3>2. rich' \in 0 .. OxygenTime
      BY <1>1, <2>2, <3>1
    <3>3. divert' = (divert /\ (Air!RichNow(i) \/ rich > 0))
      BY <1>5, <2>2 DEF Air!ByOxygen
    <3>4. divert' \in BOOLEAN
      BY <3>3
    <3>5. (Air!Divert /\ UNCHANGED lean) \/ Air!ByLean(i)
      BY <1>5, <2>2 DEF Air!ByOxygen
    <3>6. QED
      BY <1>1, <1>3, <3>2, <3>4, <3>5, AirByLean DEF Air!Divert
  <2>3. QED
    BY <2>1, <2>2
<1>6. QED
  BY <1>4, <1>5 DEF Air!BySpeed, Air!counts

LEMMA AirSupply ==
  ASSUME NEW i \in Air!Inputs, AirIInv, Air!Segment9(i),
         Air!Dropping(i) \/ Air!Regular(i)
  PROVE  AirIInv'
<1>1. Air!Supplied(i) /\ open' = Air!OpenAfter(i)
  BY DEF Air!Dropping, Air!Regular
<1>2. history' \in BOOLEAN /\ load' \in Loads \cup {0}
  BY DEF Air!Segment9, Air!Inputs, Air!Reached, AirIInv, Air!TypeOK
<1>3. CASE Air!Dropping(i)
  <2>1. /\ valves' = "one" /\ drop' = Air!Hold(i) - 1
        /\ UNCHANGED <<rpm, rich, lean, divert>> /\ Air!Dropped(i)
    BY <1>3 DEF Air!Dropping, Air!One, Air!counts
  <2>2. AirSpent' /\ open' \in 0 .. OpenDelay
    BY <1>1, <2>1, AirDelay
  <2>3. drop' \in 0 .. DropHold - 1
    BY <2>1, AirDropped
  <2>4. Air!TypeOK'
    BY <1>2, <2>1, <2>2, <2>3, Zenon DEF AirIInv, Air!TypeOK
  <2>5. QED
    BY <2>2, <2>4 DEF AirIInv
<1>4. CASE Air!Regular(i)
  <2>1. Air!BySpeed(i) /\ (drop' = drop \/ drop' = 0)
    BY <1>4 DEF Air!Regular
  <2>2. AirSpent' /\ open' \in 0 .. OpenDelay
    BY <1>1, <2>1, AirBySpeed, AirDelay
  <2>3. drop' \in 0 .. DropHold - 1
    BY <2>1, AirAssumption DEF AirIInv, Air!TypeOK
  <2>4. Air!TypeOK'
    BY <1>2, <2>1, <2>2, <2>3, AirBySpeed, Zenon DEF Air!TypeOK
  <2>5. QED
    BY <2>2, <2>4 DEF AirIInv
<1>5. QED
  BY <1>3, <1>4

LEMMA AirStepInv == AirIInv /\ [Air!Next]_(Air!vars) => AirIInv'
<1> SUFFICES ASSUME AirIInv, [Air!Next]_(Air!vars) PROVE AirIInv'
  OBVIOUS
<1>1. ASSUME NEW i \in Air!Inputs, Air!Segment9(i) PROVE AirIInv'
  <2>1. Air!Cold(i) \/ Air!Shut(i) \/ Air!Dropping(i) \/ Air!Regular(i)
    BY <1>1 DEF Air!Segment9
  <2>2. QED
    BY <1>1, <2>1, AirAway, AirSupply
<1>2. CASE Air!PowerOn
  <2>1. Air!Init'
    BY <1>2 DEF Air!PowerOn, Air!Init
  <2>2. QED
    BY <2>1, AirInit, PTL
<1>3. CASE UNCHANGED Air!vars
  BY <1>3 DEF Air!vars, AirIInv, AirSpent, Air!TypeOK
<1>4. QED
  BY <1>1, <1>2, <1>3 DEF Air!Next

\* For every calibration the air supplied since closed loop was last seen is
\* bounded by the delay, whatever resets and holds the other counters of segment 9.
THEOREM AirEnds == Air!Spec => [](Air!TypeOK /\ Air!OpenLoopAirEnds)
<1>1. AirIInv => Air!TypeOK /\ Air!OpenLoopAirEnds
  BY AirAssumption DEF AirIInv, AirSpent, Air!OpenLoopAirEnds, Air!TypeOK
<1>2. QED
  BY <1>1, AirInit, AirStepInv, PTL DEF Air!Spec
-----------------------------------------------------------------------------
(* EGR and canister purge. *)

\* The lag filter stays between the command and the request.
LEMMA FilteredRange ==
  ASSUME NEW req \in 1 .. 255, command \in 0 .. 255
  PROVE  Purge!Filtered(req) \in 0 .. 255
<1>1. ASSUME NEW c \in Nat, c <= 255 PROVE (32 * req + 224 * c) \div 256 \in 0 .. 255
  BY <1>1
<1>2. QED
  BY <1>1 DEF Purge!Filtered

LEMMA PurgeInit == Purge!Init => Purge!TypeOK
<1> SUFFICES ASSUME Purge!Init PROVE Purge!TypeOK
  OBVIOUS
<1>1. command \in 0 .. 255 /\ least \in Requests \cup {0} /\ ~(least > 0)
  BY DEF Purge!Init
<1>2. QED
  BY <1>1, Zenon DEF Purge!Init, Purge!TypeOK

LEMMA PurgeStepInv == Purge!TypeOK /\ [Purge!Next]_(Purge!vars) => Purge!TypeOK'
<1> SUFFICES ASSUME Purge!TypeOK, [Purge!Next]_(Purge!vars) PROVE Purge!TypeOK'
  OBVIOUS
<1>1. ASSUME NEW qualified \in BOOLEAN, NEW throttle \in 0 .. 2,
             Purge!SegmentB(qualified, throttle)
      PROVE  Purge!TypeOK'
  BY <1>1 DEF Purge!SegmentB, Purge!TypeOK
<1>2. ASSUME NEW ranLong \in BOOLEAN, NEW allowed \in BOOLEAN, NEW inputs \in 0 .. 2,
             NEW req \in Requests, Purge!SegmentC(ranLong, allowed, inputs, req)
      PROVE  Purge!TypeOK'
  <2>1. egr' \in BOOLEAN /\ late' \in BOOLEAN
    BY <1>2 DEF Purge!SegmentC, Purge!TypeOK
  <2>2. CASE Purge!Shuts
    <3>1. command' = 0 /\ least' = least
      BY <2>2 DEF Purge!Shuts
    <3>2. command' \in 0 .. 255 /\ least' \in Requests \cup {0}
      BY <3>1 DEF Purge!TypeOK
    <3>3. least' > 0 => command' < least'
      BY <3>1
    <3>4. QED
      BY <2>1, <3>2, <3>3 DEF Purge!TypeOK
  <2>3. CASE Purge!Purges(req)
    <3>1. req \in 1 .. 255
      BY AirAssumption
    <3>2. command' \in 0 .. 255
      BY <2>3, <3>1, FilteredRange DEF Purge!Purges, Purge!TypeOK
    <3>3. Purge!LeastOf(req) \in Requests
      BY DEF Purge!LeastOf, Purge!TypeOK
    <3>4. least' = IF command' >= Purge!LeastOf(req) THEN 0 ELSE Purge!LeastOf(req)
      BY <2>3 DEF Purge!Purges
    <3>5. Purge!LeastOf(req) \in 1 .. 255
      BY <3>3, AirAssumption
    <3>6. (least' > 0 => command' < least') /\ least' \in Requests \cup {0}
      BY <3>2, <3>3, <3>4, <3>5
    <3>7. QED
      BY <2>1, <3>2, <3>6 DEF Purge!TypeOK
  <2>4. QED
    BY <1>2, <2>2, <2>3 DEF Purge!SegmentC
<1>3. CASE Purge!KeyOffShuts
  BY <1>3 DEF Purge!KeyOffShuts, Purge!TypeOK
<1>4. CASE Purge!PowerOn
  <2>1. late' \in BOOLEAN
    BY <1>4 DEF Purge!PowerOn, Purge!TypeOK
  <2>2. command' \in 0 .. 255 /\ least' \in Requests \cup {0} /\ ~(least' > 0)
    BY <1>4 DEF Purge!PowerOn
  <2>3. QED
    BY <1>4, <2>1, <2>2, Zenon DEF Purge!PowerOn, Purge!TypeOK
<1>5. CASE UNCHANGED Purge!vars
  BY <1>5 DEF Purge!vars, Purge!TypeOK
<1>6. QED
  BY <1>1, <1>2, <1>3, <1>4, <1>5 DEF Purge!Next

\* The purge command is a byte, and one that has reached the least request since it
\* last did has released it (bua_purge83).
THEOREM PurgeReleases == Purge!Spec => []Purge!TypeOK
  BY PurgeInit, PurgeStepInv, PTL DEF Purge!Spec

-----------------------------------------------------------------------------
(* Temperatures and the cooling fan. *)

CoolantOK ==
  /\ range \in BOOLEAN /\ filtered \in BOOLEAN /\ failed \in BOOLEAN
  /\ coolant \in 0 .. 255

\* The passes without a demand and the minimum time that is left add up.
FanOK ==
  /\ fan \in BOOLEAN /\ minOn \in 0 .. MinOn /\ quiet \in 0 .. MinOn
  /\ IF fan THEN quiet + minOn = MinOn ELSE quiet = 0 /\ minOn = 0

\* A timer counts passes of one side only, and a flag outlasts its timer's time.
LowOK ==
  /\ lowMat \in BOOLEAN
  /\ lowTimer \in 0 .. LowTime + 1 /\ lowSeen \in 0 .. LowTime + 2
  /\ lowTimer <= lowSeen
  /\ lowMat => lowSeen = LowTime + 2

HighOK ==
  /\ highMat \in BOOLEAN
  /\ highTimer \in 0 .. HighTime + 1 /\ highSeen \in 0 .. HighTime + 2
  /\ highTimer <= highSeen
  /\ highMat => highSeen = HighTime + 2

MatOK == LowOK /\ HighOK /\ mat \in {"read", "default"} /\ codes \subseteq {23, 25}

TempsIInv == CoolantOK /\ FanOK /\ MatOK

LEMMA TempsTypes == TempsIInv => Temps!TypeOK
<1> SUFFICES ASSUME TempsIInv PROVE Temps!TypeOK
  OBVIOUS
<1>1. {range, filtered, failed, fan, lowMat, highMat} \subseteq BOOLEAN
  BY Zenon DEF TempsIInv, CoolantOK, FanOK, MatOK, LowOK, HighOK
<1>2. QED
  BY <1>1, Zenon
     DEF TempsIInv, CoolantOK, FanOK, MatOK, LowOK, HighOK, Temps!TypeOK

LEMMA FanAndMatReset ==
  ASSUME fan' = FALSE, minOn' = 0, quiet' = 0,
         lowTimer' = 0, highTimer' = 0, lowMat' = FALSE, highMat' = FALSE,
         mat' = "read", codes' = {}, lowSeen' = 0, highSeen' = 0
  PROVE  FanOK' /\ MatOK'
<1>1. /\ minOn' \in 0 .. MinOn /\ quiet' \in 0 .. MinOn
      /\ lowTimer' \in 0 .. LowTime + 1 /\ lowSeen' \in 0 .. LowTime + 2
      /\ highTimer' \in 0 .. HighTime + 1 /\ highSeen' \in 0 .. HighTime + 2
  BY SensorsAssumption
<1>2. FanOK'
  BY <1>1 DEF FanOK
<1>3. lowTimer' <= lowSeen' /\ highTimer' <= highSeen'
  OBVIOUS
<1>4. LowOK' /\ HighOK'
  BY <1>1, <1>3, Zenon DEF LowOK, HighOK
<1>5. QED
  BY <1>2, <1>4 DEF MatOK

LEMMA TempsInit == Temps!Init => TempsIInv
<1> SUFFICES ASSUME Temps!Init PROVE TempsIInv
  OBVIOUS
<1>1. CoolantOK
  <2>1. coolant \in 0 .. 255
    BY DEF Temps!Init
  <2>2. QED
    BY <2>1, Zenon DEF Temps!Init, CoolantOK
<1>2. /\ minOn \in 0 .. MinOn /\ quiet \in 0 .. MinOn
      /\ lowTimer \in 0 .. LowTime + 1 /\ lowSeen \in 0 .. LowTime + 2
      /\ highTimer \in 0 .. HighTime + 1 /\ highSeen \in 0 .. HighTime + 2
  BY SensorsAssumption DEF Temps!Init
<1>3. FanOK
  BY <1>2 DEF FanOK, Temps!Init
<1>4. LowOK /\ HighOK
  <2>1. lowTimer <= lowSeen /\ highTimer <= highSeen
    BY DEF Temps!Init
  <2>2. QED
    BY <1>2, <2>1, Zenon DEF LowOK, HighOK, Temps!Init
<1>5. QED
  BY <1>1, <1>3, <1>4 DEF MatOK, TempsIInv, Temps!Init

LEMMA CoolantStep ==
  ASSUME TempsIInv, NEW s \in Temps!Samples(range), NEW runTime \in {0, 1},
         Temps!Segment6(s, runTime)
  PROVE  CoolantOK'
<1>1. s.byte \in Converted /\ s.raised \in BOOLEAN
  BY DEF Temps!Samples
<1>2. range' \in BOOLEAN
  BY DEF Temps!Segment6, Temps!SegmentRange
<1>3. CASE Temps!CoolantFails(s, runTime)
  BY <1>2, <1>3 DEF Temps!CoolantFails, Temps!CoolDefault, TempsIInv, CoolantOK
<1>4. CASE Temps!CoolantReads(s)
  <2>1. coolant' \in Converted \cup {coolant, s.byte}
    BY <1>4 DEF Temps!CoolantReads
  <2>2. coolant' \in 0 .. 255
    BY <1>1, <2>1, SensorsAssumption DEF TempsIInv, CoolantOK
  <2>3. filtered' = TRUE /\ failed' = failed
    BY <1>4 DEF Temps!CoolantReads
  <2>4. QED
    BY <1>2, <2>2, <2>3 DEF TempsIInv, CoolantOK
<1>5. QED
  BY <1>3, <1>4 DEF Temps!Segment6

LEMMA FanStep ==
  ASSUME TempsIInv, NEW acSlow \in BOOLEAN, NEW fast \in BOOLEAN,
         Temps!Segment5(acSlow, fast)
  PROVE  /\ FanOK'
         /\ fan /\ ~fan' => quiet = MinOn /\ ~failed
<1>1. /\ minOn \in 0 .. MinOn /\ quiet \in 0 .. MinOn /\ MinOn \in Nat
      /\ IF fan THEN quiet + minOn = MinOn ELSE quiet = 0 /\ minOn = 0
  BY SensorsAssumption DEF TempsIInv, FanOK
<1>2. CASE Temps!FanDemanded
  BY <1>1, <1>2 DEF Temps!FanDemanded, FanOK
<1>3. CASE Temps!FanHeld
  <2>1. /\ minOn > 0 /\ minOn' = minOn - 1 /\ quiet' = quiet + 1 /\ fan' = fan
        /\ fan
    BY <1>1, <1>3 DEF Temps!FanHeld
  <2>2. minOn' \in 0 .. MinOn /\ quiet' \in 0 .. MinOn /\ quiet' + minOn' = MinOn
    BY <1>1, <2>1
  <2>3. fan' \in BOOLEAN
    BY <2>1 DEF TempsIInv, FanOK
  <2>4. QED
    BY <2>1, <2>2, <2>3 DEF FanOK
<1>4. CASE Temps!FanReleased /\ ~Temps!Demand(acSlow, fast)
  <2>1. minOn = 0 /\ fan' = FALSE /\ quiet' = 0 /\ minOn' = minOn /\ ~failed
    BY <1>4 DEF Temps!FanReleased, Temps!Demand
  <2>2. minOn' \in 0 .. MinOn /\ quiet' \in 0 .. MinOn /\ minOn' = 0
    BY <1>1, <2>1
  <2>3. FanOK'
    BY <2>1, <2>2, Zenon DEF FanOK
  <2>4. fan => quiet = MinOn
    BY <1>1, <2>1
  <2>5. QED
    BY <2>1, <2>3, <2>4
<1>5. QED
  BY <1>2, <1>3, <1>4 DEF Temps!Segment5

LEMMA LowStep ==
  ASSUME TempsIInv, NEW level \in {"low", "good", "high"}, NEW travels \in BOOLEAN,
         Temps!MatTested(level, travels)
  PROVE  LowOK'
<1>1. /\ lowTimer \in 0 .. LowTime + 1 /\ lowSeen \in 0 .. LowTime + 2
      /\ lowTimer <= lowSeen /\ LowTime \in Nat
      /\ lowMat => lowSeen = LowTime + 2
  BY SensorsAssumption DEF TempsIInv, MatOK, LowOK
<1>2. /\ lowTimer' = IF level # "low" THEN 0
                     ELSE IF lowTimer > LowTime THEN lowTimer
                     ELSE IF travels THEN 0 ELSE lowTimer + 1
      /\ lowMat' = (level = "low" /\ (lowMat \/ lowTimer > LowTime))
      /\ lowSeen' = IF level = "low" THEN Temps!Least(lowSeen + 1, LowTime + 2) ELSE 0
  BY DEF Temps!MatTested, Temps!LowTest
<1>3. CASE level # "low"
  <2>1. lowTimer' = 0 /\ lowSeen' = 0 /\ lowMat' = FALSE
    BY <1>2, <1>3
  <2>2. /\ lowTimer' \in 0 .. LowTime + 1 /\ lowSeen' \in 0 .. LowTime + 2
        /\ lowTimer' <= lowSeen'
    BY <1>1, <2>1
  <2>3. QED
    BY <2>1, <2>2, Zenon DEF LowOK
<1>4. CASE level = "low"
  <2>1. lowSeen' = IF lowSeen + 1 < LowTime + 2 THEN lowSeen + 1 ELSE LowTime + 2
    BY <1>2, <1>4 DEF Temps!Least
  <2>2. lowTimer' = lowTimer \/ lowTimer' = 0
          \/ (lowTimer <= LowTime /\ lowTimer' = lowTimer + 1)
    BY <1>1, <1>2, <1>4
  <2>3. /\ lowTimer' \in 0 .. LowTime + 1 /\ lowSeen' \in 0 .. LowTime + 2
        /\ lowTimer' <= lowSeen'
    BY <1>1, <2>1, <2>2
  <2>4. lowMat' \in BOOLEAN
    BY <1>2
  <2>5. ASSUME lowMat' PROVE lowSeen' = LowTime + 2
    <3>1. lowMat \/ lowTimer > LowTime
      BY <1>2, <2>5
    <3>2. QED
      BY <1>1, <2>1, <3>1
  <2>6. QED
    BY <2>3, <2>4, <2>5 DEF LowOK
<1>5. QED
  BY <1>3, <1>4

LEMMA HighStep ==
  ASSUME TempsIInv, NEW level \in {"low", "good", "high"}, NEW travels \in BOOLEAN,
         Temps!MatTested(level, travels)
  PROVE  HighOK'
<1>1. /\ highTimer \in 0 .. HighTime + 1 /\ highSeen \in 0 .. HighTime + 2
      /\ highTimer <= highSeen /\ HighTime \in Nat
      /\ highMat => highSeen = HighTime + 2
  BY SensorsAssumption DEF TempsIInv, MatOK, HighOK
<1>2. /\ highTimer' = IF level # "high" THEN 0
                      ELSE IF highTimer > HighTime THEN highTimer
                      ELSE IF ~travels THEN 0 ELSE highTimer + 1
      /\ highMat' = (level = "high" /\ (highMat \/ highTimer > HighTime))
      /\ highSeen' = IF level = "high"
                     THEN Temps!Least(highSeen + 1, HighTime + 2) ELSE 0
  BY DEF Temps!MatTested, Temps!HighTest
<1>3. CASE level # "high"
  <2>1. highTimer' = 0 /\ highSeen' = 0 /\ highMat' = FALSE
    BY <1>2, <1>3
  <2>2. /\ highTimer' \in 0 .. HighTime + 1 /\ highSeen' \in 0 .. HighTime + 2
        /\ highTimer' <= highSeen'
    BY <1>1, <2>1
  <2>3. QED
    BY <2>1, <2>2, Zenon DEF HighOK
<1>4. CASE level = "high"
  <2>1. highSeen' = IF highSeen + 1 < HighTime + 2 THEN highSeen + 1 ELSE HighTime + 2
    BY <1>2, <1>4 DEF Temps!Least
  <2>2. highTimer' = highTimer \/ highTimer' = 0
          \/ (highTimer <= HighTime /\ highTimer' = highTimer + 1)
    BY <1>1, <1>2, <1>4
  <2>3. /\ highTimer' \in 0 .. HighTime + 1 /\ highSeen' \in 0 .. HighTime + 2
        /\ highTimer' <= highSeen'
    BY <1>1, <2>1, <2>2
  <2>4. highMat' \in BOOLEAN
    BY <1>2
  <2>5. ASSUME highMat' PROVE highSeen' = HighTime + 2
    <3>1. highMat \/ highTimer > HighTime
      BY <1>2, <2>5
    <3>2. QED
      BY <1>1, <2>1, <3>1
  <2>6. QED
    BY <2>3, <2>4, <2>5 DEF HighOK
<1>5. QED
  BY <1>3, <1>4

\* A step keeps the invariant, and one that turns the fan off has earned it.
LEMMA TempsStepInv ==
  TempsIInv /\ [Temps!Next]_(Temps!vars) =>
    /\ TempsIInv'
    /\ fan /\ ~fan' => Temps!PowerOn \/ (quiet = MinOn /\ ~failed)
<1> SUFFICES ASSUME TempsIInv, [Temps!Next]_(Temps!vars)
             PROVE  /\ TempsIInv'
                    /\ fan /\ ~fan' => Temps!PowerOn \/ (quiet = MinOn /\ ~failed)
  OBVIOUS
<1>1. CASE \E s \in Temps!Samples(range), runTime \in {0, 1} : Temps!Segment6(s, runTime)
  <2>1. UNCHANGED <<fan, minOn, quiet>> /\ UNCHANGED Temps!matVars
    BY <1>1 DEF Temps!Segment6, Temps!fanVars
  <2>2. FanOK' /\ MatOK'
    BY <2>1 DEF TempsIInv, FanOK, MatOK, LowOK, HighOK, Temps!matVars
  <2>3. QED
    BY <1>1, <2>1, <2>2, CoolantStep DEF TempsIInv
<1>2. CASE \E acSlow, fast \in BOOLEAN : Temps!Segment5(acSlow, fast)
  <2>1. UNCHANGED Temps!coolantVars /\ UNCHANGED Temps!matVars
    BY <1>2 DEF Temps!Segment5
  <2>2. CoolantOK' /\ MatOK'
    BY <2>1 DEF TempsIInv, CoolantOK, MatOK, LowOK, HighOK, Temps!matVars,
                Temps!coolantVars
  <2>3. QED
    BY <1>2, <2>2, FanStep DEF TempsIInv
<1>3. ASSUME NEW level \in {"low", "good", "high"}, NEW travels \in BOOLEAN,
             NEW delayed \in BOOLEAN, Temps!SegmentA(level, travels, delayed)
      PROVE  TempsIInv' /\ fan' = fan
  <2>1. UNCHANGED Temps!coolantVars /\ UNCHANGED <<fan, minOn, quiet>>
    BY <1>3 DEF Temps!SegmentA, Temps!fanVars
  <2>2. CoolantOK' /\ FanOK'
    BY <2>1 DEF TempsIInv, CoolantOK, FanOK, Temps!coolantVars
  <2>3. CASE delayed
    <3>1. /\ mat' = "read"
          /\ UNCHANGED <<lowTimer, highTimer, lowMat, highMat, codes, lowSeen, highSeen>>
      BY <1>3, <2>3 DEF Temps!SegmentA, Temps!MatUntested
    <3>2. MatOK'
      BY <3>1 DEF TempsIInv, MatOK, LowOK, HighOK
    <3>3. QED
      BY <2>1, <2>2, <3>2 DEF TempsIInv
  <2>4. CASE ~delayed
    <3>1. Temps!MatTested(level, travels)
      BY <1>3, <2>4 DEF Temps!SegmentA
    <3>2. mat' \in {"read", "default"} /\ codes' \subseteq {23, 25}
      BY <3>1 DEF Temps!MatTested, TempsIInv, MatOK
    <3>3. MatOK'
      BY <3>1, <3>2, LowStep, HighStep DEF MatOK
    <3>4. QED
      BY <2>1, <2>2, <3>3 DEF TempsIInv
  <2>5. QED
    BY <2>3, <2>4
<1>4. ASSUME NEW stopped \in BOOLEAN, NEW jumper \in BOOLEAN,
             Temps!SegmentD(stopped, jumper)
      PROVE  TempsIInv' /\ fan' = fan
  <2>1. /\ UNCHANGED Temps!coolantVars /\ UNCHANGED <<fan, minOn, quiet>>
        /\ UNCHANGED <<lowMat, highMat, mat, lowSeen, highSeen>> /\ codes' = {}
        /\ lowTimer' = 0 \/ lowTimer' = lowTimer
        /\ highTimer' = 0 \/ highTimer' = highTimer
    BY <1>4 DEF Temps!SegmentD, Temps!fanVars
  <2>2. CoolantOK' /\ FanOK'
    BY <2>1 DEF TempsIInv, CoolantOK, FanOK, Temps!coolantVars
  <2>3. LowOK'
    BY <2>1, SensorsAssumption DEF TempsIInv, MatOK, LowOK
  <2>4. HighOK'
    BY <2>1, SensorsAssumption DEF TempsIInv, MatOK, HighOK
  <2>5. mat' \in {"read", "default"} /\ codes' \subseteq {23, 25}
    BY <2>1 DEF TempsIInv, MatOK
  <2>6. QED
    BY <2>1, <2>2, <2>3, <2>4, <2>5 DEF TempsIInv, MatOK
<1>5. CASE Temps!PowerOn
  <2>1. FanOK' /\ MatOK'
    BY <1>5, FanAndMatReset DEF Temps!PowerOn
  <2>2. ASSUME NEW s \in Temps!Samples(FALSE) PROVE s.byte \in 0 .. 255
    BY <2>2, SensorsAssumption DEF Temps!Samples
  <2>3. ASSUME NEW s \in Temps!Samples(FALSE),
               range' = (s.byte > Temps!RangeUp),
               coolant' = IF Temps!Faulty(s) THEN Temps!CoolDefault ELSE s.byte
        PROVE  range' \in BOOLEAN /\ coolant' \in 0 .. 255
    <3>1. coolant' = 135 \/ coolant' = s.byte
      BY <2>3 DEF Temps!CoolDefault
    <3>2. coolant' \in 0 .. 255
      <4>1. s.byte \in 0 .. 255
        BY <2>2
      <4>2. CASE coolant' = 135
        BY <4>2
      <4>3. CASE coolant' = s.byte
        BY <4>1, <4>3
      <4>4. QED
        BY <3>1, <4>2, <4>3
    <3>3. range' \in BOOLEAN
      BY <2>3
    <3>4. QED
      BY <3>2, <3>3
  <2>4. failed' \in BOOLEAN /\ filtered' \in BOOLEAN
    BY <1>5 DEF Temps!PowerOn, Temps!PowerOnReads
  <2>5. range' \in BOOLEAN /\ coolant' \in 0 .. 255
    <3>1. CASE range' = FALSE /\ coolant' = 0
      <4>1. coolant' \in 0 .. 255
        BY <3>1
      <4>2. range' \in BOOLEAN
        BY <3>1
      <4>3. QED
        BY <4>1, <4>2
    <3>2. QED
      BY <1>5, <2>3, <3>1 DEF Temps!PowerOn, Temps!PowerOnReads
  <2>6. CoolantOK'
    BY <2>5, <2>4 DEF CoolantOK
  <2>7. QED
    BY <1>5, <2>1, <2>6 DEF TempsIInv
<1>6. CASE UNCHANGED Temps!vars
  <2>1. /\ UNCHANGED Temps!coolantVars /\ UNCHANGED <<fan, minOn, quiet>>
        /\ UNCHANGED Temps!matVars
    BY <1>6 DEF Temps!vars, Temps!fanVars
  <2>2. QED
    BY <2>1 DEF TempsIInv, CoolantOK, FanOK, MatOK, LowOK, HighOK,
                Temps!coolantVars, Temps!matVars
<1>7. QED
  BY <1>1, <1>2, <1>3, <1>4, <1>5, <1>6 DEF Temps!Next

\* For every minimum time the fan stays on through it, and with a kept coolant
\* fault for good (bua_fan79).
THEOREM FanIsHeld == Temps!Spec => Temps!FanStaysOn
<1>1. TempsIInv /\ [Temps!Next]_(Temps!vars) =>
        TempsIInv' /\ [fan /\ ~fan' => Temps!PowerOn \/ (quiet = MinOn /\ ~failed)]_(Temps!vars)
  BY TempsStepInv
<1>2. QED
  BY <1>1, TempsInit, PTL DEF Temps!Spec, Temps!FanStaysOn

\* For every test time a MAT fault has been read by that many tested passes in a
\* row (bua_mat84_step).
THEOREM MatFaultsEarned == Temps!Spec => [](Temps!TypeOK /\ Temps!MatFaultEarned)
<1>1. TempsIInv /\ [Temps!Next]_(Temps!vars) => TempsIInv'
  BY TempsStepInv
<1>2. TempsIInv => Temps!MatFaultEarned
  BY SensorsAssumption DEF TempsIInv, MatOK, LowOK, HighOK, Temps!MatFaultEarned
<1>3. QED
  BY <1>1, <1>2, TempsInit, TempsTypes, PTL DEF Temps!Spec

-----------------------------------------------------------------------------
(* Trouble codes. *)

Watched == {13, 24, 32, 34, 44, 45}

\* The tests of a pass in their order, and the one that finds a code.
Turn(t) ==
  CASE t = "none" -> 0
    [] t = "oxygen" -> 1
    [] t = "throttle" -> 2
    [] t = "speed" -> 3
    [] t = "egr" -> 4
    [] t = "airflow" -> 5
    [] t = "mixture" -> 6
    [] t = "log" -> 7

TurnOf(c) ==
  CASE c = 13 -> 1 [] c = 21 -> 2 [] c = 24 -> 3 [] c = 32 -> 4 [] c = 34 -> 5
    [] c \in {44, 45} -> 6

CodeFlagsOK ==
  /\ test \in {"none", "oxygen", "throttle", "speed", "egr", "airflow", "mixture", "log"}
  /\ reported \subseteq Codes!Timed \cup {22}
  /\ warm \in BOOLEAN /\ tpsLow \in BOOLEAN /\ tpsHigh \in BOOLEAN
  /\ mafLow \in BOOLEAN /\ lowMaf \in BOOLEAN
  /\ product \in {"low", "high"}
  /\ watch \in Watchable

\* A timer never counts more than the tests in a row that missed the range.
CountsOK ==
  /\ counts \in [Codes!Timed -> Nat]
  /\ \A c \in Codes!Timed : counts[c] <= Limit[c] + 1
  /\ streak \in 0 .. Limit[watch] + 2
  /\ counts[watch] <= streak

OneSide == counts[44] = 0 \/ counts[45] = 0

\* What waits for the logger was found in this pass, after a whole streak; the
\* low-MAF fault holds its timer, so its streak lasts as long as the fault.
Earned ==
  /\ watch \in reported => streak = Limit[watch] + 2 /\ Turn(test) > TurnOf(watch)
  /\ watch = 34 /\ mafLow => streak = Limit[34] + 2

CodesIInv == CodeFlagsOK /\ CountsOK /\ OneSide /\ Earned

\* What a test of the codes C may do to timers, streak and report.
Tested(C) ==
  /\ CountsOK' /\ OneSide'
  /\ watch' = watch
  /\ watch \notin C => streak' = streak
  /\ reported' \subseteq reported \cup C
  /\ watch \in C /\ watch \in reported' => watch \in reported \/ streak' = Limit[watch] + 2

LEMMA WatchFacts ==
  ASSUME CodesIInv
  PROVE  watch \in Watched /\ watch \in Codes!Timed /\ Limit[watch] \in Nat
<1>1. watch \in Watched
  BY CodesAssumption DEF CodesIInv, CodeFlagsOK, Watched
<1>2. QED
  BY <1>1, CodesAssumption DEF Watched, Codes!Timed

LEMMA ClearedTest ==
  ASSUME CodesIInv, NEW C \in SUBSET Codes!Timed, Codes!Cleared(C), watch' = watch
  PROVE  Tested(C)
<1>1. /\ counts' = [c \in Codes!Timed |-> IF c \in C THEN 0 ELSE counts[c]]
      /\ reported' = reported
      /\ streak' = IF watch \in C THEN 0 ELSE streak
  BY WatchFacts DEF Codes!Cleared, Codes!ClearedTimers, Codes!Follows, Watched
<1>2. CountsOK'
  BY <1>1, WatchFacts, CodesAssumption DEF CodesIInv, CountsOK, Codes!Timed
<1>3. OneSide'
  BY <1>1 DEF CodesIInv, OneSide, Codes!Timed
<1>4. QED
  BY <1>1, <1>2, <1>3 DEF Tested

LEMMA CaughtTest ==
  ASSUME CodesIInv, NEW C \in SUBSET Codes!Timed, NEW c \in Codes!Timed, c \notin C,
         Codes!Caught(c, C), watch' = watch
  PROVE  Tested(C \cup {c})
<1>1. /\ counts' = [d \in Codes!Timed |-> IF d \in C THEN 0 ELSE counts[d]]
      /\ reported' = reported \cup {c} /\ counts[c] > Limit[c]
      /\ streak' = IF watch \in C THEN 0
                   ELSE IF watch = c THEN Codes!Least(streak + 1, Limit[c] + 2) ELSE streak
  BY DEF Codes!Caught, Codes!ClearedTimers, Codes!Follows
<1>2. watch = c => streak' = Limit[c] + 2
  BY <1>1, WatchFacts DEF CodesIInv, CountsOK, Codes!Least
<1>3. CountsOK'
  BY <1>1, <1>2, WatchFacts, CodesAssumption DEF CodesIInv, CountsOK, Codes!Timed
<1>4. OneSide'
  BY <1>1 DEF CodesIInv, OneSide, Codes!Timed
<1>5. QED
  BY <1>1, <1>2, <1>3, <1>4 DEF Tested

LEMMA CountedRange ==
  ASSUME CodesIInv, NEW c \in Codes!Timed, counts[c] <= Limit[c],
         NEW condition \in {"met", "wrong", "hold", "back"}
  PROVE  /\ Codes!Counted(c, condition) \in Nat
         /\ Codes!Counted(c, condition) <= counts[c] + 1
<1>1. counts[c] \in Nat
  BY DEF CodesIInv, CountsOK
<1>2. QED
  BY <1>1 DEF Codes!Counted

LEMMA PendingTest ==
  ASSUME CodesIInv, NEW C \in SUBSET Codes!Timed, NEW c \in Codes!Timed, c \notin C,
         c \in {44, 45} => {44, 45} \subseteq C \cup {c},
         NEW condition \in {"met", "wrong", "hold", "back"},
         Codes!Pending(c, C, condition), watch' = watch
  PROVE  Tested(C \cup {c})
<1> DEFINE n == Codes!Counted(c, condition)
<1>1. /\ counts' = [d \in Codes!Timed |->
                      IF d = c THEN n ELSE IF d \in C THEN 0 ELSE counts[d]]
      /\ reported' = reported /\ counts[c] <= Limit[c]
      /\ streak' = IF watch \in C THEN 0
                   ELSE IF watch = c THEN Codes!Least(streak + 1, Limit[c] + 2) ELSE streak
  BY DEF Codes!Pending, Codes!ClearedTimers, Codes!Follows
<1>2. n \in Nat /\ n <= counts[c] + 1
  BY <1>1, CountedRange
<1> HIDE DEF n
<1>3. counts[c] \in Nat /\ Limit[c] \in Nat
  BY CodesAssumption DEF CodesIInv, CountsOK, Codes!Timed
<1>4. counts' \in [Codes!Timed -> Nat]
  BY <1>1, <1>2 DEF CodesIInv, CountsOK
<1>5. \A d \in Codes!Timed : counts'[d] <= Limit[d] + 1
  BY <1>1, <1>2, <1>3, CodesAssumption DEF CodesIInv, CountsOK, Codes!Timed
<1>6. streak' \in 0 .. Limit[watch] + 2 /\ counts'[watch] <= streak'
  BY <1>1, <1>2, <1>3, WatchFacts DEF CodesIInv, CountsOK, Codes!Least
<1>7. CountsOK'
  BY <1>4, <1>5, <1>6 DEF CountsOK
<1>8. OneSide'
  <2>1. CASE c \in {44, 45}
    BY <1>1, <2>1 DEF OneSide, Codes!Timed
  <2>2. CASE c \notin {44, 45}
    BY <1>1, <2>2 DEF CodesIInv, OneSide, Codes!Timed
  <2>3. QED
    BY <2>1, <2>2
<1>9. QED
  BY <1>1, <1>7, <1>8 DEF Tested

\* A test that leaves everything alone, or only repeats what it has found.
LEMMA Untested ==
  ASSUME CodesIInv, UNCHANGED <<counts, streak>>, watch' = watch,
         NEW C \in SUBSET Codes!Timed, reported' \subseteq reported \cup C,
         watch \in C /\ watch \in reported' => streak = Limit[watch] + 2
  PROVE  Tested(C)
  BY DEF CodesIInv, CountsOK, OneSide, Tested

LEMMA TestOf ==
  ASSUME CodesIInv, NEW c \in Codes!Timed, c \notin {44, 45}, watch' = watch,
         \/ Codes!Cleared({c}) \/ Codes!Caught(c, {})
         \/ \E condition \in {"met", "wrong", "hold", "back"} :
              Codes!Pending(c, {}, condition)
  PROVE  Tested({c})
<1>1. {} \cup {c} = {c} /\ {c} \in SUBSET Codes!Timed /\ {} \in SUBSET Codes!Timed
  OBVIOUS
<1>2. CASE Codes!Cleared({c})
  BY <1>1, <1>2, ClearedTest
<1>3. CASE Codes!Caught(c, {})
  <2>1. Tested({} \cup {c})
    BY <1>1, <1>3, CaughtTest
  <2>2. QED
    BY <1>1, <2>1
<1>4. CASE \E condition \in {"met", "wrong", "hold", "back"} : Codes!Pending(c, {}, condition)
  <2>1. Tested({} \cup {c})
    BY <1>1, <1>4, PendingTest
  <2>2. QED
    BY <1>1, <2>1
<1>5. QED
  BY <1>2, <1>3, <1>4

LEMMA TurnRange ==
  ASSUME CodesIInv
  PROVE  Turn(test) \in 0 .. 7 /\ TurnOf(watch) \in 1 .. 6
<1>1. Turn(test) \in 0 .. 7
  BY DEF CodesIInv, CodeFlagsOK, Turn
<1>2. TurnOf(watch) \in 1 .. 6
  BY WatchFacts DEF Watched, TurnOf
<1>3. QED
  BY <1>1, <1>2

\* A test in its turn keeps the invariant: what it finds was not found before.
LEMMA TestKeeps ==
  ASSUME CodesIInv, NEW C \in SUBSET Codes!Timed, Tested(C), CodeFlagsOK',
         \A c \in C : TurnOf(c) = Turn(test),
         Turn(test') = Turn(test) + 1,
         watch = 34 /\ mafLow' =>
           \/ 34 \notin C /\ mafLow
           \/ streak' = Limit[34] + 2
           \/ 34 \in C /\ 34 \in reported'
  PROVE  CodesIInv'
<1>1. Turn(test) \in 0 .. 7 /\ TurnOf(watch) \in 1 .. 6
  BY TurnRange
<1>2. watch \in C => watch \notin reported /\ TurnOf(watch) = Turn(test)
  BY <1>1 DEF CodesIInv, Earned
<1>3. ASSUME watch \in reported'
      PROVE  streak' = Limit[watch] + 2 /\ Turn(test') > TurnOf(watch)
  <2>1. CASE watch \in C
    BY <1>1, <1>2, <1>3, <2>1 DEF Tested
  <2>2. CASE watch \notin C
    <3>1. watch \in reported /\ streak' = streak
      BY <1>3, <2>2 DEF Tested
    <3>2. QED
      BY <1>1, <3>1 DEF CodesIInv, Earned
  <2>3. QED
    BY <2>1, <2>2
<1>4. watch = 34 /\ mafLow' => streak' = Limit[34] + 2
  BY <1>3 DEF Tested, CodesIInv, Earned
<1>5. Earned'
  <2>1. watch' = watch
    BY DEF Tested
  <2>2. QED
    BY <1>3, <1>4, <2>1 DEF Earned
<1>6. QED
  BY <1>5 DEF Tested, CodesIInv

LEMMA OneTestKeeps ==
  ASSUME CodesIInv, NEW c \in Codes!Timed, c # 34, Tested({c}), CodeFlagsOK',
         TurnOf(c) = Turn(test), Turn(test') = Turn(test) + 1, mafLow' = mafLow
  PROVE  CodesIInv'
<1>1. {c} \in SUBSET Codes!Timed /\ 34 \notin {c}
  OBVIOUS
<1>2. \A d \in {c} : TurnOf(d) = Turn(test)
  OBVIOUS
<1>3. watch = 34 /\ mafLow' =>
        \/ 34 \notin {c} /\ mafLow
        \/ streak' = Limit[34] + 2
        \/ 34 \in {c} /\ 34 \in reported'
  BY <1>1
<1>4. QED
  BY <1>1, <1>2, <1>3, TestKeeps

LEMMA CodesInit == Codes!Init => CodesIInv
<1> SUFFICES ASSUME Codes!Init PROVE CodesIInv
  OBVIOUS
<1>1. watch \in Watched /\ watch \in Codes!Timed /\ Limit[watch] \in Nat
  BY CodesAssumption DEF Codes!Init, Watched, Codes!Timed
<1>2. CodeFlagsOK
  BY DEF Codes!Init, CodeFlagsOK
<1>3. counts = [c \in Codes!Timed |-> 0] /\ streak = 0
  BY DEF Codes!Init
<1>4. \A c \in Codes!Timed : Limit[c] \in Nat
  BY CodesAssumption DEF Codes!Timed
<1>5. CountsOK
  BY <1>1, <1>3, <1>4 DEF CountsOK
<1>6. OneSide
  BY <1>3 DEF OneSide, Codes!Timed
<1>7. Earned
  BY DEF Codes!Init, Earned
<1>8. QED
  BY <1>2, <1>5, <1>6, <1>7 DEF CodesIInv

LEMMA PassTests ==
  ASSUME CodesIInv,
         Codes!Oxygen \/ Codes!Throttle \/ Codes!Speed \/ Codes!Egr
  PROVE  CodesIInv'
<1>0. UNCHANGED <<mafLow, product, watch, lowMaf>> /\ watch \in Watched
  BY WatchFacts DEF Codes!Oxygen, Codes!Throttle, Codes!Speed, Codes!Egr, Codes!Then,
                    Codes!still, Codes!flags
<1>1. CASE Codes!Oxygen
  <2>1. test = "oxygen" /\ test' = "throttle" /\ UNCHANGED <<tpsLow, tpsHigh>>
    BY <1>1 DEF Codes!Oxygen, Codes!Then
  <2>2. Tested({13})
    BY <1>0, <1>1, TestOf DEF Codes!Oxygen, Codes!Timed
  <2>3. warm' \in BOOLEAN
    BY <1>1 DEF Codes!Oxygen, CodesIInv, CodeFlagsOK
  <2>4. reported' \subseteq Codes!Timed \cup {22}
    BY <2>2 DEF Tested, CodesIInv, CodeFlagsOK, Codes!Timed
  <2>5. CodeFlagsOK'
    BY <1>0, <2>1, <2>3, <2>4 DEF CodesIInv, CodeFlagsOK
  <2>6. TurnOf(13) = 1 /\ Turn(test) = 1 /\ Turn(test') = 2
    BY <2>1 DEF Turn, TurnOf
  <2>7. QED
    BY <1>0, <2>2, <2>5, <2>6, OneTestKeeps DEF Codes!Timed
<1>2. CASE Codes!Throttle
  <2>1. test = "throttle" /\ test' = "speed" /\ UNCHANGED <<warm, tpsLow>>
    BY <1>2 DEF Codes!Throttle, Codes!Then
  <2>2. Tested({21})
    <3>1. CASE Codes!NotTested
      BY <1>0, <3>1, Untested DEF Codes!NotTested, Codes!Timed, Watched
    <3>2. CASE Codes!Cleared({21}) \/ Codes!Caught(21, {}) \/ Codes!Pending(21, {}, "met")
      BY <1>0, <3>2, TestOf DEF Codes!Timed
    <3>3. QED
      BY <1>2, <3>1, <3>2 DEF Codes!Throttle
  <2>3. tpsHigh' \in BOOLEAN
    BY <1>2 DEF Codes!Throttle, CodesIInv, CodeFlagsOK
  <2>4. reported' \subseteq Codes!Timed \cup {22}
    BY <2>2 DEF Tested, CodesIInv, CodeFlagsOK, Codes!Timed
  <2>5. CodeFlagsOK'
    BY <1>0, <2>1, <2>3, <2>4 DEF CodesIInv, CodeFlagsOK
  <2>6. TurnOf(21) = 2 /\ Turn(test) = 2 /\ Turn(test') = 3
    BY <2>1 DEF Turn, TurnOf
  <2>7. QED
    BY <1>0, <2>2, <2>5, <2>6, OneTestKeeps DEF Codes!Timed
<1>3. CASE Codes!Speed
  <2>1. test = "speed" /\ test' = "egr" /\ UNCHANGED <<warm, tpsLow, tpsHigh>>
    BY <1>3 DEF Codes!Speed, Codes!Then, Codes!flags
  <2>2. Tested({24})
    BY <1>0, <1>3, TestOf DEF Codes!Speed, Codes!Timed
  <2>3. reported' \subseteq Codes!Timed \cup {22}
    BY <2>2 DEF Tested, CodesIInv, CodeFlagsOK, Codes!Timed
  <2>4. CodeFlagsOK'
    BY <1>0, <2>1, <2>3 DEF CodesIInv, CodeFlagsOK
  <2>5. TurnOf(24) = 3 /\ Turn(test) = 3 /\ Turn(test') = 4
    BY <2>1 DEF Turn, TurnOf
  <2>6. QED
    BY <1>0, <2>2, <2>4, <2>5, OneTestKeeps DEF Codes!Timed
<1>4. CASE Codes!Egr
  <2>1. test = "egr" /\ test' = "airflow" /\ UNCHANGED <<warm, tpsLow, tpsHigh>>
    BY <1>4 DEF Codes!Egr, Codes!Then, Codes!flags
  <2>2. Tested({32})
    BY <1>0, <1>4, TestOf DEF Codes!Egr, Codes!Timed
  <2>3. reported' \subseteq Codes!Timed \cup {22}
    BY <2>2 DEF Tested, CodesIInv, CodeFlagsOK, Codes!Timed
  <2>4. CodeFlagsOK'
    BY <1>0, <2>1, <2>3 DEF CodesIInv, CodeFlagsOK
  <2>5. TurnOf(32) = 4 /\ Turn(test) = 4 /\ Turn(test') = 5
    BY <2>1 DEF Turn, TurnOf
  <2>6. QED
    BY <1>0, <2>2, <2>4, <2>5, OneTestKeeps DEF Codes!Timed
<1>5. QED
  BY <1>1, <1>2, <1>3, <1>4

LEMMA AirflowKeeps == ASSUME CodesIInv, Codes!Airflow PROVE CodesIInv'
<1>1. /\ test = "airflow" /\ test' = "mixture"
      /\ UNCHANGED <<warm, tpsLow, tpsHigh, product, watch, lowMaf>>
  BY DEF Codes!Airflow, Codes!Then, Codes!still
<1>2. TurnOf(34) = 5 /\ Turn(test) = 5 /\ Turn(test') = 6
  BY <1>1 DEF Turn, TurnOf
<1>3. CASE mafLow
  <2>1. reported' = reported \cup {34} /\ UNCHANGED <<counts, streak, mafLow>>
    BY <1>3 DEF Codes!Airflow
  <2>2. Tested({34})
    BY <1>1, <1>3, <2>1, Untested DEF Codes!Timed, CodesIInv, Earned
  <2>3. CodeFlagsOK'
    BY <1>1, <2>1 DEF CodesIInv, CodeFlagsOK, Codes!Timed
  <2>4. QED
    BY <1>2, <1>3, <2>1, <2>2, <2>3, TestKeeps DEF Codes!Timed, CodesIInv, Earned
<1>4. CASE ~mafLow
  <2>1. \/ Codes!Cleared({34}) /\ mafLow' = mafLow
        \/ Codes!Caught(34, {}) /\ mafLow' = TRUE
        \/ /\ \E condition \in {"met", "wrong", "hold", "back"} :
                Codes!Pending(34, {}, condition)
           /\ mafLow' = mafLow
    BY <1>4 DEF Codes!Airflow
  <2>2. Tested({34})
    BY <1>1, <2>1, TestOf DEF Codes!Timed
  <2>3. mafLow' \in BOOLEAN
    BY <2>1 DEF CodesIInv, CodeFlagsOK
  <2>4. CodeFlagsOK'
    <3>1. reported' \subseteq Codes!Timed \cup {22}
      BY <2>2 DEF Tested, CodesIInv, CodeFlagsOK, Codes!Timed
    <3>2. QED
      BY <1>1, <2>3, <3>1 DEF CodesIInv, CodeFlagsOK
  <2>5. mafLow' => 34 \in reported'
    BY <1>4, <2>1 DEF Codes!Caught
  <2>6. QED
    BY <1>2, <2>2, <2>4, <2>5, TestKeeps DEF Codes!Timed
<1>5. QED
  BY <1>3, <1>4

LEMMA MixtureKeeps == ASSUME CodesIInv, Codes!Mixture PROVE CodesIInv'
<1>1. /\ test = "mixture" /\ test' = "log"
      /\ UNCHANGED <<warm, tpsLow, tpsHigh, mafLow, product, watch, lowMaf>>
  BY DEF Codes!Mixture, Codes!Then, Codes!still, Codes!flags
<1>2. \A c \in {44, 45} : TurnOf(c) = Turn(test)
  BY <1>1 DEF Turn, TurnOf
<1>3. Turn(test') = Turn(test) + 1
  BY <1>1 DEF Turn
<1>4. {44, 45} \in SUBSET Codes!Timed
  BY DEF Codes!Timed
<1>5. Tested({44, 45})
  <2>1. CASE Codes!NotTested
    <3>1. watch \in {44, 45} => watch \notin reported'
      <4>1. UNCHANGED <<counts, reported, streak>>
        BY <2>1 DEF Codes!NotTested
      <4>2. QED
        BY <1>2, <4>1, TurnRange DEF CodesIInv, Earned
    <3>2. QED
      BY <1>1, <1>4, <2>1, <3>1, Untested DEF Codes!NotTested
  <2>2. CASE Codes!Cleared({44, 45})
    BY <1>1, <1>4, <2>2, ClearedTest
  <2>3. ASSUME NEW side \in {44, 45},
               \/ Codes!Caught(side, {44, 45} \ {side})
               \/ \E condition \in {"met", "wrong", "hold", "back"} :
                    Codes!Pending(side, {44, 45} \ {side}, condition)
        PROVE  Tested({44, 45})
    <3>1. ({44, 45} \ {side}) \cup {side} = {44, 45}
      OBVIOUS
    <3>2. /\ {44, 45} \ {side} \in SUBSET Codes!Timed /\ side \in Codes!Timed
          /\ side \notin {44, 45} \ {side}
      BY DEF Codes!Timed
    <3>3. Tested(({44, 45} \ {side}) \cup {side})
      BY <1>1, <2>3, <3>1, <3>2, CaughtTest, PendingTest
    <3>4. QED
      BY <3>1, <3>3
  <2>4. QED
    BY <2>1, <2>2, <2>3 DEF Codes!Mixture
<1>6. CodeFlagsOK'
  <2>1. reported' \subseteq Codes!Timed \cup {22}
    BY <1>5 DEF Tested, CodesIInv, CodeFlagsOK, Codes!Timed
  <2>2. QED
    BY <1>1, <2>1 DEF CodesIInv, CodeFlagsOK
<1>7. watch = 34 /\ mafLow' =>
        \/ 34 \notin {44, 45} /\ mafLow
        \/ streak' = Limit[34] + 2
        \/ 34 \in {44, 45} /\ 34 \in reported'
  BY <1>1
<1>8. QED
  BY <1>2, <1>3, <1>4, <1>5, <1>6, <1>7, TestKeeps

\* Between the passes nothing waits for the logger but throttle codes.
LEMMA BetweenKeeps ==
  ASSUME CodesIInv, test = "none", CodeFlagsOK', CountsOK', OneSide', watch' = watch,
         reported' \subseteq reported \cup {21, 22},
         mafLow' /\ watch = 34 => mafLow /\ streak' = streak
  PROVE  CodesIInv'
<1>1. Turn(test) = 0
  BY DEF Turn
<1>2. watch \notin reported'
  BY <1>1, TurnRange, WatchFacts DEF CodesIInv, Earned, Watched
<1>3. Earned'
  BY <1>2 DEF CodesIInv, Earned
<1>4. QED
  BY <1>3 DEF CodesIInv

LEMMA CodesStepInv == CodesIInv /\ [Codes!Next]_(Codes!vars) => CodesIInv'
<1> SUFFICES ASSUME CodesIInv, [Codes!Next]_(Codes!vars) PROVE CodesIInv'
  OBVIOUS
<1>1. ASSUME UNCHANGED <<counts, streak, watch>> PROVE CountsOK' /\ OneSide'
  BY <1>1 DEF CodesIInv, CountsOK, OneSide
<1>2. CASE Codes!Log \/ Codes!Pass
  <2>1. /\ UNCHANGED <<counts, streak, warm, tpsLow, tpsHigh, mafLow, product, watch, lowMaf>>
        /\ test' \in {"none", "oxygen"}
    BY <1>2 DEF Codes!Log, Codes!Pass, Codes!Then, Codes!still, Codes!flags
  <2>2. watch \notin reported' /\ reported' \subseteq reported
    <3>1. CASE Codes!Log
      BY <3>1 DEF Codes!Log
    <3>2. CASE Codes!Pass
      <4>1. Turn(test) = 0 /\ reported' = reported
        BY <3>2 DEF Turn, Codes!Pass
      <4>2. QED
        BY <4>1, TurnRange DEF CodesIInv, Earned
    <3>3. QED
      BY <1>2, <3>1, <3>2
  <2>3. CodeFlagsOK'
    BY <2>1, <2>2 DEF CodesIInv, CodeFlagsOK
  <2>4. Earned'
    BY <2>1, <2>2 DEF CodesIInv, Earned
  <2>5. QED
    BY <1>1, <2>1, <2>3, <2>4 DEF CodesIInv
<1>3. ASSUME NEW jumper \in BOOLEAN, Codes!StoppedPass(jumper) PROVE CodesIInv'
  <2>1. /\ test = "none"
        /\ UNCHANGED <<test, warm, tpsLow, tpsHigh, mafLow, product, watch, lowMaf, streak>>
        /\ reported' \subseteq reported
        /\ \/ counts' = counts
           \/ counts' = [c \in Codes!Timed |-> 0]
    BY <1>3 DEF Codes!StoppedPass, Codes!still, Codes!flags, Codes!ClearedTimers
  <2>2. CodeFlagsOK'
    BY <2>1 DEF CodesIInv, CodeFlagsOK
  <2>3. CountsOK' /\ OneSide'
    <3>1. CASE counts' = [c \in Codes!Timed |-> 0]
      <4>1. \A c \in Codes!Timed : Limit[c] \in Nat
        BY CodesAssumption DEF Codes!Timed
      <4>2. CountsOK'
        BY <2>1, <3>1, <4>1, WatchFacts DEF CodesIInv, CountsOK
      <4>3. OneSide'
        BY <3>1 DEF OneSide, Codes!Timed
      <4>4. QED
        BY <4>2, <4>3
    <3>2. QED
      BY <1>1, <2>1, <3>1
  <2>4. QED
    BY <2>1, <2>2, <2>3, BetweenKeeps
<1>4. ASSUME NEW top \in BOOLEAN, Codes!CommonTps(top) PROVE CodesIInv'
  <2>1. /\ test = "none" /\ tpsHigh' \in BOOLEAN
        /\ UNCHANGED <<test, counts, warm, tpsLow, mafLow, product, watch, lowMaf, streak>>
        /\ reported' \subseteq reported \cup {21, 22}
    BY <1>4 DEF Codes!CommonTps, Codes!still
  <2>2. CodeFlagsOK'
    BY <2>1 DEF CodesIInv, CodeFlagsOK, Codes!Timed
  <2>3. QED
    BY <1>1, <2>1, <2>2, BetweenKeeps
<1>5. ASSUME NEW low \in BOOLEAN, Codes!CommonMaf(low) PROVE CodesIInv'
  <2>1. /\ test = "none" /\ lowMaf' \in BOOLEAN
        /\ UNCHANGED <<test, counts, reported, warm, tpsLow, tpsHigh, mafLow, product,
                       watch, streak>>
    BY <1>5 DEF Codes!CommonMaf, Codes!flags
  <2>2. CodeFlagsOK'
    BY <2>1 DEF CodesIInv, CodeFlagsOK
  <2>3. QED
    BY <1>1, <2>1, <2>2, BetweenKeeps
<1>6. ASSUME NEW low \in BOOLEAN, Codes!OddTail(low) PROVE CodesIInv'
  <2>1. /\ test = "none" /\ tpsLow' \in BOOLEAN
        /\ UNCHANGED <<test, counts, warm, tpsHigh, mafLow, product, watch, lowMaf, streak>>
        /\ reported' \subseteq reported \cup {21, 22}
    BY <1>6 DEF Codes!OddTail, Codes!still
  <2>2. CodeFlagsOK'
    BY <2>1 DEF CodesIInv, CodeFlagsOK, Codes!Timed
  <2>3. QED
    BY <1>1, <2>1, <2>2, BetweenKeeps
<1>7. CASE Codes!PowerOn
  <2>1. watch' = watch /\ watch \in Watchable
    BY <1>7 DEF Codes!PowerOn, CodesIInv, CodeFlagsOK
  <2>2. Codes!Init'
    BY <1>7, <2>1 DEF Codes!PowerOn, Codes!Init
  <2>3. QED
    BY <2>2, CodesInit, PTL
<1>8. CASE UNCHANGED Codes!vars
  BY <1>8 DEF Codes!vars, Codes!flags, Codes!still, CodesIInv, CodeFlagsOK, CountsOK,
              OneSide, Earned
<1>9. QED
  BY <1>2, <1>3, <1>4, <1>5, <1>6, <1>7, <1>8, PassTests, AirflowKeeps, MixtureKeeps
     DEF Codes!Next

LEMMA CodesTypes == CodesIInv => Codes!TypeOK
<1> SUFFICES ASSUME CodesIInv PROVE Codes!TypeOK
  OBVIOUS
<1>1. {warm, tpsLow, tpsHigh, mafLow, lowMaf} \subseteq BOOLEAN
  BY Zenon DEF CodesIInv, CodeFlagsOK
<1>2. QED
  BY <1>1, Zenon DEF CodesIInv, CodeFlagsOK, CountsOK, Codes!TypeOK

\* For every limit of every code: what the logger is given was missed by that many
\* tests in a row, and no mixture counts toward both lean and rich (step 108).
THEOREM CodesAreEarned == Codes!Spec => [](Codes!TypeOK /\ Codes!CodesEarned)
<1>1. CodesIInv => Codes!CodesEarned
  BY WatchFacts DEF CodesIInv, CountsOK, Earned, OneSide, Codes!CodesEarned
<1>2. QED
  BY <1>1, CodesInit, CodesStepInv, CodesTypes, PTL DEF Codes!Spec

-----------------------------------------------------------------------------
(* Division and remainder by a positive number that is no literal. *)

LEMMA Division ==
  ASSUME NEW x \in Int, NEW d \in Nat \ {0}
  PROVE  /\ x \div d \in Int /\ x % d \in 0 .. d - 1
         /\ x = d * (x \div d) + (x % d)
  OBVIOUS

LEMMA OneQuotient ==
  ASSUME NEW d \in Nat \ {0}, NEW q \in Int, NEW r \in 0 .. d - 1,
         NEW p \in Int, NEW s \in 0 .. d - 1, d * q + r = d * p + s
  PROVE  r = s
<1>1. d * (q - p) = s - r
  OBVIOUS
<1>2. CASE q - p >= 1
  <2>1. d * (q - p) >= d
    BY <1>2
  <2>2. QED
    BY <1>1, <2>1
<1>3. CASE q - p <= -1
  <2>1. d * (q - p) <= -d
    BY <1>3
  <2>2. QED
    BY <1>1, <2>1
<1>4. CASE q - p = 0
  BY <1>1, <1>4
<1>5. QED
  BY <1>2, <1>3, <1>4

LEMMA Remainder ==
  ASSUME NEW d \in Nat \ {0}, NEW x \in Int, NEW q \in Int, NEW r \in 0 .. d - 1,
         x = d * q + r
  PROVE  x % d = r
<1>1. x \div d \in Int /\ x % d \in 0 .. d - 1 /\ x = d * (x \div d) + (x % d)
  BY Division
<1>2. d * (x \div d) + (x % d) = d * q + r
  BY <1>1
<1>3. QED
  BY <1>1, <1>2, OneQuotient

\* Remainders taken along the way do not change the remainder of a difference.
LEMMA RemainderLeft ==
  ASSUME NEW d \in Nat \ {0}, NEW x \in Int, NEW y \in Int
  PROVE  ((x % d) - y) % d = (x - y) % d
<1>1. PICK a \in Int, r \in 0 .. d - 1 : x = d * a + r /\ x % d = r
  BY Division
<1>2. PICK c \in Int, t \in 0 .. d - 1 : x - y = d * c + t /\ (x - y) % d = t
  <2>1. x - y \in Int
    OBVIOUS
  <2>2. QED
    BY <2>1, Division
<1>3. r - y = d * (c - a) + t
  BY <1>1, <1>2
<1>4. r - y \in Int /\ c - a \in Int
  OBVIOUS
<1>5. (r - y) % d = t
  BY <1>3, <1>4, Remainder
<1>6. QED
  BY <1>1, <1>2, <1>5

LEMMA RemainderRight ==
  ASSUME NEW d \in Nat \ {0}, NEW x \in Int, NEW y \in Int
  PROVE  (x - (y % d)) % d = (x - y) % d
<1>1. PICK a \in Int, r \in 0 .. d - 1 : y = d * a + r /\ y % d = r
  BY Division
<1>2. PICK c \in Int, t \in 0 .. d - 1 : x - y = d * c + t /\ (x - y) % d = t
  <2>1. x - y \in Int
    OBVIOUS
  <2>2. QED
    BY <2>1, Division
<1>3. x - r = d * (c + a) + t
  BY <1>1, <1>2
<1>4. x - r \in Int /\ c + a \in Int
  OBVIOUS
<1>5. (x - r) % d = t
  BY <1>3, <1>4, Remainder
<1>6. QED
  BY <1>1, <1>2, <1>5

-----------------------------------------------------------------------------
(* The vehicle speed. *)

\* The edge that is due lies within one period, and the register holds the time of
\* the last edge while the timer can tell.
SignalOK ==
  /\ now \in 0 .. W - 1 /\ reg \in 0 .. W - 1 /\ since \in 0 .. W
  /\ period \in Periods \cup {0}
  /\ IF period = 0 THEN due = 0 ELSE due \in 1 .. period
  /\ since < W => reg = (now - since) % W

CaptureOK ==
  /\ old \in 0 .. W - 1 /\ mid \in 0 .. W - 1 /\ new \in 0 .. W - 1
  /\ gaps \in (0 .. W) \X (0 .. W)
  /\ moving \in BOOLEAN /\ noEdge \in 0 .. NoEdgeLimit
  /\ moving <=> noEdge < NoEdgeLimit

\* While the vehicle moves the captures are no closer than the edges were.  A time
\* too long for the timer may leave no capture, and with it the time before it is
\* one of the two that the captures hold, but not known which.
TimesCovered ==
  /\ gaps[2] < W => gaps[2] <= Speed!Between(mid, new)
  /\ gaps[1] < W /\ gaps[2] < W => gaps[1] <= Speed!Between(old, mid)
  /\ gaps[1] < W /\ ~(gaps[2] < W) =>
       gaps[1] <= Speed!Between(old, mid) + Speed!Between(mid, new)

ReportOK ==
  /\ fresh \in BOOLEAN /\ report \in 0 .. W - 1
  /\ fresh => report = IF noEdge >= NoEdgeLimit THEN 0 ELSE Speed!Average

SpeedIInv ==
  /\ SignalOK /\ CaptureOK /\ ReportOK
  /\ moving => new = reg /\ TimesCovered

LEMMA TimerFacts ==
  /\ W \in Nat \ {0} /\ Ticks \in Nat \ {0} /\ NoEdgeLimit \in Nat \ {0}
  /\ 0 \in 0 .. W - 1 /\ W - 1 \in 0 .. W - 1 /\ W \in 0 .. W
  /\ Speed!Standstill \in (0 .. W) \X (0 .. W)
  BY SpeedAssumption DEF Speed!Standstill

LEMMA BetweenRange ==
  ASSUME NEW a \in Int, NEW b \in Int
  PROVE  Speed!Between(a, b) \in 0 .. W - 1
<1>1. b - a \in Int
  OBVIOUS
<1>2. QED
  BY <1>1, Division, TimerFacts DEF Speed!Between

\* What the first edge after a standstill pretends is the longest time there is.
LEMMA PretendedTimes ==
  ASSUME NEW r \in 0 .. W - 1
  PROVE  /\ (r + 1) % W \in 0 .. W - 1 /\ (r + 2) % W \in 0 .. W - 1
         /\ Speed!Between((r + 1) % W, r) = W - 1
         /\ Speed!Between((r + 2) % W, (r + 1) % W) = W - 1
<1>1. r + 1 \in Int /\ r + 2 \in Int /\ r \in Int /\ W \in Nat \ {0}
  BY TimerFacts
<1>2. (r + 1) % W \in 0 .. W - 1 /\ (r + 2) % W \in 0 .. W - 1
  BY <1>1, Division
<1>3. (-1) % W = W - 1
  <2>1. -1 = W * (-1) + (W - 1) /\ -1 \in Int
    BY <1>1
  <2>2. QED
    BY <1>1, <2>1, Remainder, TimerFacts
<1>4. (r - ((r + 1) % W)) % W = (r - (r + 1)) % W
  BY <1>1, RemainderRight
<1>5. (((r + 1) % W) - ((r + 2) % W)) % W = (((r + 1) % W) - (r + 2)) % W
  <2>1. (r + 1) % W \in Int
    BY <1>2
  <2>2. QED
    BY <1>1, <2>1, RemainderRight
<1>6. (((r + 1) % W) - (r + 2)) % W = ((r + 1) - (r + 2)) % W
  BY <1>1, RemainderLeft
<1>7. r - (r + 1) = -1 /\ (r + 1) - (r + 2) = -1
  BY <1>1
<1>8. QED
  BY <1>2, <1>3, <1>4, <1>5, <1>6, <1>7 DEF Speed!Between

\* The rounded rescaling keeps the due edge within the new period.
LEMMA RescaledRange ==
  ASSUME SignalOK, period # 0, NEW p \in Periods
  PROVE  Speed!Rescaled(p) \in 1 .. p
<1> DEFINE n == 2 * due * p + period
           d == 2 * period
<1>1. p \in Nat /\ p >= 1 /\ period \in Nat /\ period >= 1 /\ due \in 1 .. period
  BY SpeedAssumption DEF SignalOK
<1>2. due * p \in Nat /\ due * p <= period * p
  BY <1>1
<1>3. n \in Nat /\ d \in Nat \ {0} /\ n < d * (p + 1)
  <2>1. 2 * due * p = 2 * (due * p) /\ d * (p + 1) = 2 * (period * p) + 2 * period
    BY <1>1
  <2>2. period * p \in Nat
    BY <1>1
  <2>3. QED
    BY <1>1, <1>2, <2>1, <2>2
<1> HIDE DEF n, d
<1>4. n \div d \in Int /\ n % d \in 0 .. d - 1 /\ n = d * (n \div d) + (n % d)
  <2>1. n \in Int /\ d \in Nat \ {0}
    BY <1>3
  <2>2. QED
    BY <2>1, Division
<1>5. n \div d <= p
  <2> SUFFICES ASSUME n \div d >= p + 1 PROVE FALSE
    BY <1>1, <1>4
  <2>1. d * (n \div d) >= d * (p + 1)
    BY <1>1, <1>3, <1>4
  <2>2. d * (p + 1) \in Int /\ d * (n \div d) \in Int
    BY <1>1, <1>3, <1>4
  <2>3. QED
    BY <1>3, <1>4, <2>1, <2>2
<1>6. n \div d >= 0
  <2> SUFFICES ASSUME n \div d <= -1 PROVE FALSE
    BY <1>4
  <2>1. d * (n \div d) <= -d
    BY <1>3, <1>4
  <2>2. QED
    BY <1>3, <1>4, <2>1
<1>7. Speed!Rescaled(p) = IF n \div d = 0 THEN 1 ELSE n \div d
  BY DEF Speed!Rescaled, n, d
<1>8. QED
  BY <1>1, <1>4, <1>5, <1>6, <1>7

\* The last edge of an interrupt is less than a period before its end.
LEMMA LastEdgeRange ==
  ASSUME SignalOK, Speed!Edges # 0
  PROVE  /\ period \in 1 .. W - 1
         /\ Speed!LastEdge \in 1 .. Ticks
         /\ Ticks - Speed!LastEdge < period
<1> DEFINE q == (Ticks - due) \div period
<1>1. period # 0 /\ due <= Ticks
  BY SpeedAssumption DEF Speed!Edges, SignalOK
<1>2. period \in 1 .. W - 1 /\ due \in 1 .. period /\ period \in Nat \ {0}
  BY <1>1, SpeedAssumption DEF SignalOK
<1>3. Ticks - due \in Nat /\ Ticks \in Nat
  BY <1>1, <1>2, SpeedAssumption
<1>4. Speed!Edges = q + 1
  BY <1>1, <1>2, <1>3 DEF Speed!Edges
<1>5. /\ q \in Int /\ (Ticks - due) % period \in 0 .. period - 1
      /\ Ticks - due = period * q + ((Ticks - due) % period)
  <2>1. Ticks - due \in Int /\ period \in Nat \ {0}
    BY <1>2, <1>3
  <2>2. QED
    BY <2>1, Division
<1> HIDE DEF q
<1>6. Speed!LastEdge = due + period * q
  BY <1>2, <1>4, <1>5 DEF Speed!LastEdge
<1>7. q >= 0
  <2> SUFFICES ASSUME q <= -1 PROVE FALSE
    BY <1>5
  <2>1. period * q <= -period
    BY <1>2, <1>5
  <2>2. QED
    BY <1>2, <1>3, <1>5, <2>1
<1>8. period * q \in Nat
  BY <1>2, <1>5, <1>7
<1>9. QED
  BY <1>2, <1>3, <1>5, <1>6, <1>8

\* An interrupt keeps the register the time of the last edge, and the time between
\* two captured edges is the one between their captures if the timer can hold it.
LEMMA AdvanceKeeps ==
  ASSUME SignalOK, CaptureOK, Speed!Advance
  PROVE  /\ SignalOK' /\ gaps' \in (0 .. W) \X (0 .. W)
         /\ Speed!Edges = 0 => reg' = reg /\ gaps' = gaps
         /\ Speed!Edges # 0 =>
              /\ gaps' = <<gaps[2], Speed!Gap>> /\ Speed!Gap \in 0 .. W
              /\ moving /\ Speed!Gap < W =>
                   Speed!Gap = Speed!Between(reg, reg') /\ Speed!Gap >= 1
<1> DEFINE L == Speed!LastEdge
<1>1. /\ now \in 0 .. W - 1 /\ reg \in 0 .. W - 1 /\ since \in 0 .. W
      /\ W \in Nat \ {0} /\ Ticks \in Nat \ {0}
  BY TimerFacts DEF SignalOK
<1>2. now' = (now + Ticks) % W /\ period' = period
  BY DEF Speed!Advance
<1>3. now' \in 0 .. W - 1
  <2>1. now + Ticks \in Int
    BY <1>1
  <2>2. QED
    BY <1>1, <1>2, <2>1, Division
<1>4. CASE Speed!Edges = 0
  <2>1. /\ due' = (IF period = 0 THEN 0 ELSE due - Ticks)
        /\ since' = Speed!Least(since + Ticks, W)
        /\ reg' = reg /\ gaps' = gaps
    BY <1>4 DEF Speed!Advance
  <2>2. IF period = 0 THEN due' = 0 ELSE due' \in 1 .. period
    <3>1. CASE period = 0
      BY <2>1, <3>1
    <3>2. CASE period # 0
      <4>1. due \in 1 .. period /\ period \in Nat \ {0}
        BY <3>2, SpeedAssumption DEF SignalOK
      <4>2. due > Ticks
        <5> SUFFICES ASSUME due <= Ticks PROVE FALSE
          BY <1>1, <4>1
        <5>1. Ticks - due \in Nat
          BY <1>1, <4>1
        <5>2. (Ticks - due) \div period \in Int
          BY <4>1, <5>1, Division
        <5>3. (Ticks - due) \div period = -1
          BY <1>1, <1>4, <3>2, <4>1, <5>2 DEF Speed!Edges
        <5>4. Ticks - due = period * (-1) + ((Ticks - due) % period)
          <6>1. Ticks - due \in Int
            BY <5>1
          <6>2. QED
            BY <4>1, <5>3, <6>1, Division
        <5>5. (Ticks - due) % period \in 0 .. period - 1
          <6>1. Ticks - due \in Int
            BY <5>1
          <6>2. QED
            BY <4>1, <6>1, Division
        <5>6. QED
          BY <4>1, <5>1, <5>4, <5>5
      <4>3. QED
        BY <1>1, <2>1, <3>2, <4>1, <4>2
    <3>3. QED
      BY <3>1, <3>2
  <2>3. since' = IF since + Ticks < W THEN since + Ticks ELSE W
    BY <2>1 DEF Speed!Least
  <2>4. since' \in 0 .. W
    BY <1>1, <2>3
  <2>5. ASSUME since' < W PROVE reg' = (now' - since') % W
    <3>1. since < W /\ since' = since + Ticks
      BY <1>1, <2>3, <2>5
    <3>2. reg' = (now - since) % W
      BY <2>1, <3>1 DEF SignalOK
    <3>3. now + Ticks \in Int /\ since + Ticks \in Int
      BY <1>1
    <3>4. (((now + Ticks) % W) - (since + Ticks)) % W = ((now + Ticks) - (since + Ticks)) % W
      BY <1>1, <3>3, RemainderLeft
    <3>5. (now + Ticks) - (since + Ticks) = now - since
      BY <1>1
    <3>6. QED
      BY <1>2, <3>1, <3>2, <3>4, <3>5
  <2>6. SignalOK'
    BY <1>1, <1>2, <1>3, <2>1, <2>2, <2>4, <2>5 DEF SignalOK
  <2>7. QED
    BY <1>4, <2>1, <2>6 DEF CaptureOK
<1>5. CASE Speed!Edges # 0
  <2>1. /\ reg' = (now + L) % W /\ due' = L + period - Ticks
        /\ since' = Ticks - L /\ gaps' = <<gaps[2], Speed!Gap>>
    BY <1>5 DEF Speed!Advance
  <2>2. period \in 1 .. W - 1 /\ L \in 1 .. Ticks /\ Ticks - L < period
    BY <1>5, LastEdgeRange
  <2> HIDE DEF L
  <2>3. due' \in 1 .. period /\ since' \in 0 .. W /\ since' < W
    BY <1>1, <2>1, <2>2
  <2>4. reg' \in 0 .. W - 1
    <3>1. now + L \in Int
      BY <1>1, <2>2
    <3>2. QED
      BY <1>1, <2>1, <3>1, Division
  <2>5. reg' = (now' - since') % W
    <3>1. now + Ticks \in Int /\ Ticks - L \in Int
      BY <1>1, <2>2
    <3>2. (((now + Ticks) % W) - (Ticks - L)) % W = ((now + Ticks) - (Ticks - L)) % W
      BY <1>1, <3>1, RemainderLeft
    <3>3. (now + Ticks) - (Ticks - L) = now + L
      BY <1>1, <2>2
    <3>4. QED
      BY <1>2, <2>1, <3>2, <3>3
  <2>6. SignalOK'
    BY <1>2, <1>3, <2>2, <2>3, <2>4, <2>5 DEF SignalOK
  <2>7. Speed!Gap = IF ~moving THEN W - 1 ELSE IF since + L < W THEN since + L ELSE W
    BY DEF Speed!Gap, Speed!Least, L
  <2>8. Speed!Gap \in 0 .. W
    BY <1>1, <2>2, <2>7
  <2>9. gaps' \in (0 .. W) \X (0 .. W)
    BY <2>1, <2>8 DEF CaptureOK
  <2>10. ASSUME moving, Speed!Gap < W
         PROVE  Speed!Gap = Speed!Between(reg, reg') /\ Speed!Gap >= 1
    <3>1. Speed!Gap = since + L /\ since + L < W /\ since < W
      BY <1>1, <2>2, <2>7, <2>10
    <3>2. reg = (now - since) % W
      BY <3>1 DEF SignalOK
    <3>3. /\ now + L \in Int /\ now - since \in Int /\ since + L \in 0 .. W - 1
          /\ (now + L) % W \in Int
      BY <1>1, <2>1, <2>2, <2>4, <3>1
    <3>4. (((now + L) % W) - ((now - since) % W)) % W = (((now + L) % W) - (now - since)) % W
      BY <1>1, <3>3, RemainderRight
    <3>5. (((now + L) % W) - (now - since)) % W = ((now + L) - (now - since)) % W
      BY <1>1, <3>3, RemainderLeft
    <3>6. (now + L) - (now - since) = since + L
      BY <1>1, <2>2
    <3>7. (since + L) % W = since + L
      <4>1. since + L = W * 0 + (since + L) /\ 0 \in Int /\ since + L \in Int
        BY <1>1, <3>3
      <4>2. QED
        BY <1>1, <3>3, <4>1, Remainder
    <3>8. Speed!Between(reg, reg') = since + L
      BY <2>1, <3>2, <3>4, <3>5, <3>6, <3>7 DEF Speed!Between
    <3>9. QED
      BY <1>1, <2>2, <3>1, <3>8
  <2>11. QED
    BY <1>5, <2>1, <2>6, <2>8, <2>9, <2>10
<1>6. QED
  BY <1>4, <1>5

LEMMA AverageRange ==
  ASSUME CaptureOK
  PROVE  /\ Speed!Average \in 0 .. W - 1
         /\ Speed!Between(old, mid) \in 0 .. W - 1
         /\ Speed!Between(mid, new) \in 0 .. W - 1
<1>1. /\ Speed!Between(old, mid) \in 0 .. W - 1 /\ Speed!Between(mid, new) \in 0 .. W - 1
  <2>1. old \in Int /\ mid \in Int /\ new \in Int
    BY TimerFacts DEF CaptureOK
  <2>2. QED
    BY <2>1, BetweenRange
<1>2. Speed!Average \in 0 .. W - 1
  BY <1>1, TimerFacts DEF Speed!Average
<1>3. QED
  BY <1>1, <1>2

LEMMA NoEdgeKeeps ==
  ASSUME SpeedIInv, Speed!Advance, Speed!NoEdge
  PROVE  SignalOK' /\ CaptureOK' /\ (moving' => new' = reg' /\ TimesCovered')
<1>1. /\ reg' = new /\ UNCHANGED <<old, mid, new>>
      /\ noEdge' = IF noEdge + 1 < NoEdgeLimit THEN noEdge + 1 ELSE NoEdgeLimit
      /\ moving' = (moving /\ noEdge + 1 < NoEdgeLimit)
  BY DEF Speed!NoEdge, Speed!times, Speed!Least
<1>2. /\ old \in 0 .. W - 1 /\ mid \in 0 .. W - 1 /\ new \in 0 .. W - 1
      /\ noEdge \in 0 .. NoEdgeLimit
      /\ moving <=> noEdge < NoEdgeLimit
  BY DEF SpeedIInv, CaptureOK
<1>3. SignalOK' /\ gaps' \in (0 .. W) \X (0 .. W)
  BY AdvanceKeeps DEF SpeedIInv
<1>4. noEdge' \in 0 .. NoEdgeLimit
  BY <1>1, <1>2, TimerFacts
<1>5. moving' \in BOOLEAN /\ (moving' <=> noEdge' < NoEdgeLimit)
  <2>1. moving' <=> noEdge + 1 < NoEdgeLimit
    <3>1. noEdge + 1 < NoEdgeLimit => noEdge < NoEdgeLimit
      BY <1>2, TimerFacts
    <3>2. QED
      BY <1>1, <1>2, <3>1, Zenon
  <2>2. noEdge' < NoEdgeLimit <=> noEdge + 1 < NoEdgeLimit
    BY <1>1, <1>2, TimerFacts
  <2>3. moving' \in BOOLEAN
    BY <1>1
  <2>4. QED
    BY <2>1, <2>2, <2>3
<1>6. CaptureOK'
  BY <1>1, <1>2, <1>3, <1>4, <1>5 DEF CaptureOK
<1>7. ASSUME moving' PROVE new' = reg' /\ TimesCovered'
  <2>1. moving /\ new = reg /\ TimesCovered
    BY <1>1, <1>7 DEF SpeedIInv
  <2>2. CASE Speed!Edges = 0
    <3>1. gaps' = gaps
      BY <2>2, AdvanceKeeps DEF SpeedIInv
    <3>2. QED
      BY <1>1, <2>1, <3>1 DEF TimesCovered
  <2>3. CASE Speed!Edges # 0
    <3>1. gaps' = <<gaps[2], Speed!Gap>> /\ Speed!Gap \in 0 .. W
      BY <2>3, AdvanceKeeps DEF SpeedIInv
    <3>2. Speed!Between(reg, reg') = 0
      <4>1. reg' - reg = W * 0 + 0 /\ reg' - reg \in Int /\ 0 \in Int
        BY <1>1, <1>2, <2>1, TimerFacts
      <4>2. QED
        BY <4>1, Remainder, TimerFacts DEF Speed!Between
    <3>3. ~(Speed!Gap < W)
      BY <2>1, <2>3, <3>2, AdvanceKeeps DEF SpeedIInv
    <3>4. ~(gaps'[2] < W) /\ gaps'[1] = gaps[2]
      BY <3>1, <3>3
    <3>5. /\ gaps[2] < W => gaps[2] <= Speed!Between(mid, new)
          /\ gaps[2] \in 0 .. W
      BY <2>1 DEF TimesCovered, SpeedIInv, CaptureOK
    <3>6. /\ Speed!Between(old, mid) \in 0 .. W - 1
          /\ Speed!Between(mid, new) \in 0 .. W - 1
      BY AverageRange DEF SpeedIInv
    <3>7. gaps[2] < W => gaps[2] <= Speed!Between(old, mid) + Speed!Between(mid, new)
      BY <3>5, <3>6, TimerFacts
    <3>8. TimesCovered'
      BY <1>1, <3>4, <3>7 DEF TimesCovered, Speed!Between
    <3>9. QED
      BY <1>1, <2>1, <3>8
  <2>4. QED
    BY <2>2, <2>3
<1>8. QED
  BY <1>3, <1>6, <1>7

LEMMA EdgeKeeps ==
  ASSUME SpeedIInv, Speed!Advance, Speed!Edge
  PROVE  SignalOK' /\ CaptureOK' /\ moving' /\ new' = reg' /\ TimesCovered'
<1>1. /\ reg' # new /\ noEdge' = 0 /\ moving' = TRUE /\ new' = reg'
      /\ mid' = IF moving THEN new ELSE (reg' + 1) % W
      /\ old' = IF moving THEN mid ELSE (reg' + 2) % W
  BY DEF Speed!Edge
<1>2. SignalOK' /\ gaps' \in (0 .. W) \X (0 .. W)
  BY AdvanceKeeps DEF SpeedIInv
<1>3. reg' \in 0 .. W - 1
  BY <1>2 DEF SignalOK
<1>4. noEdge' \in 0 .. NoEdgeLimit /\ noEdge' < NoEdgeLimit
  BY <1>1, TimerFacts
<1>5. gaps'[1] \in 0 .. W /\ gaps'[2] \in 0 .. W
  BY <1>2
<1>6. CASE moving
  <2>1. mid' = new /\ old' = mid /\ new = reg /\ TimesCovered
    BY <1>1, <1>6 DEF SpeedIInv
  <2>2. mid' \in 0 .. W - 1 /\ old' \in 0 .. W - 1
    BY <2>1 DEF SpeedIInv, CaptureOK
  <2>3. CaptureOK'
    BY <1>1, <1>2, <1>3, <1>4, <2>2 DEF CaptureOK
  <2>4. Speed!Edges # 0
    BY <1>1, <2>1, AdvanceKeeps DEF SpeedIInv
  <2>5. gaps' = <<gaps[2], Speed!Gap>>
    BY <2>4, AdvanceKeeps DEF SpeedIInv
  <2>6. gaps'[1] = gaps[2] /\ gaps'[2] = Speed!Gap
    BY <2>5
  <2>7. gaps'[2] < W => gaps'[2] = Speed!Between(mid', new')
    BY <1>1, <1>6, <2>1, <2>4, <2>6, AdvanceKeeps DEF SpeedIInv
  <2>8. Speed!Between(mid', new') \in 0 .. W - 1
    <3>1. mid' \in Int /\ new' \in Int
      BY <1>1, <1>3, <2>2, TimerFacts
    <3>2. QED
      BY <3>1, BetweenRange
  <2>9. gaps'[1] < W => gaps'[1] <= Speed!Between(old', mid')
    BY <2>1, <2>6 DEF TimesCovered
  <2>10. TimesCovered'
    <3>1. gaps'[2] < W => gaps'[2] <= Speed!Between(mid', new')
      BY <1>5, <2>7, <2>8, TimerFacts
    <3>2. Speed!Between(old', mid') \in 0 .. W - 1
      <4>1. old' \in Int /\ mid' \in Int
        BY <2>2, TimerFacts
      <4>2. QED
        BY <4>1, BetweenRange
    <3>3. gaps'[1] < W => gaps'[1] <= Speed!Between(old', mid') + Speed!Between(mid', new')
      BY <1>5, <2>8, <2>9, <3>2, TimerFacts
    <3>4. QED
      BY <2>9, <3>1, <3>3 DEF TimesCovered, Speed!Between
  <2>11. QED
    BY <1>1, <1>2, <2>3, <2>10
<1>7. CASE ~moving
  <2>1. mid' = (reg' + 1) % W /\ old' = (reg' + 2) % W
    BY <1>1, <1>7
  <2>2. /\ mid' \in 0 .. W - 1 /\ old' \in 0 .. W - 1
        /\ Speed!Between(mid', new') = W - 1 /\ Speed!Between(old', mid') = W - 1
    BY <1>1, <1>3, <2>1, PretendedTimes
  <2>3. CaptureOK'
    BY <1>1, <1>2, <1>3, <1>4, <2>2 DEF CaptureOK
  <2>4. TimesCovered'
    BY <1>5, <2>2, TimerFacts DEF TimesCovered, Speed!Between
  <2>5. QED
    BY <1>1, <1>2, <2>3, <2>4
<1>8. QED
  BY <1>6, <1>7

LEMMA Standing ==
  /\ 0 \in 0 .. W - 1 /\ NoEdgeLimit \in 0 .. NoEdgeLimit /\ ~(NoEdgeLimit < NoEdgeLimit)
  /\ Speed!Standstill \in (0 .. W) \X (0 .. W)
<1>1. Speed!Standstill = <<W - 1, W - 1>> /\ W - 1 \in 0 .. W
  BY TimerFacts DEF Speed!Standstill
<1>2. QED
  BY <1>1, TimerFacts

LEMMA SpeedInit == Speed!Init => SpeedIInv
<1> SUFFICES ASSUME Speed!Init PROVE SpeedIInv
  OBVIOUS
<1>1. SignalOK
  BY TimerFacts DEF Speed!Init, SignalOK
<1>2. CaptureOK
  <2>1. /\ old = 0 /\ mid = 0 /\ new = 0 /\ moving = FALSE /\ noEdge = NoEdgeLimit
        /\ gaps = Speed!Standstill
    BY DEF Speed!Init
  <2>2. QED
    BY <2>1, Standing DEF CaptureOK
<1>3. ReportOK
  BY TimerFacts DEF Speed!Init, ReportOK
<1>4. QED
  BY <1>1, <1>2, <1>3 DEF SpeedIInv, Speed!Init

LEMMA SpeedStepInv == SpeedIInv /\ [Speed!Next]_(Speed!vars) => SpeedIInv'
<1> SUFFICES ASSUME SpeedIInv, [Speed!Next]_(Speed!vars) PROVE SpeedIInv'
  OBVIOUS
<1>1. ASSUME NEW p \in Periods \cup {0}, Speed!SetSpeed(p) PROVE SpeedIInv'
  <2>1. /\ period' = p
        /\ due' = IF p = 0 THEN 0 ELSE IF period = 0 THEN p ELSE Speed!Rescaled(p)
        /\ UNCHANGED <<now, reg, old, mid, new, moving, noEdge, report, fresh, since, gaps>>
    BY <1>1 DEF Speed!SetSpeed, Speed!times
  <2>2. IF p = 0 THEN due' = 0 ELSE due' \in 1 .. p
    <3>1. CASE p = 0
      BY <2>1, <3>1
    <3>2. CASE p # 0
      <4>1. p \in Periods /\ p \in 1 .. W - 1
        BY <3>2, SpeedAssumption
      <4>2. p \in 1 .. p
        BY <4>1
      <4>3. period # 0 => Speed!Rescaled(p) \in 1 .. p
        BY <4>1, RescaledRange DEF SpeedIInv
      <4>4. QED
        BY <2>1, <3>2, <4>2, <4>3
    <3>3. QED
      BY <3>1, <3>2
  <2>3. SignalOK'
    BY <2>1, <2>2 DEF SpeedIInv, SignalOK
  <2>4. CaptureOK' /\ ReportOK' /\ (moving' => new' = reg' /\ TimesCovered')
    BY <2>1 DEF SpeedIInv, CaptureOK, ReportOK, TimesCovered, Speed!Average, Speed!Between
  <2>5. QED
    BY <2>3, <2>4 DEF SpeedIInv
<1>2. CASE Speed!Irq
  <2>1. SignalOK' /\ CaptureOK' /\ (moving' => new' = reg' /\ TimesCovered')
    BY <1>2, NoEdgeKeeps, EdgeKeeps DEF Speed!Irq
  <2>2. fresh' = FALSE /\ report' = report
    BY <1>2 DEF Speed!Irq
  <2>3. ReportOK'
    BY <2>2 DEF SpeedIInv, ReportOK
  <2>4. QED
    BY <2>1, <2>3 DEF SpeedIInv
<1>3. ASSUME NEW off \in BOOLEAN, Speed!Segment2(off) PROVE SpeedIInv'
  <2>1. /\ report' = IF noEdge >= NoEdgeLimit THEN 0 ELSE Speed!Average
        /\ fresh' = TRUE
        /\ UNCHANGED <<now, period, due, reg, old, mid, new, moving, noEdge, since, gaps>>
    BY <1>3 DEF Speed!Segment2, Speed!signal, Speed!times
  <2>2. Speed!Average \in 0 .. W - 1 /\ Speed!Average' = Speed!Average
    BY <2>1, AverageRange DEF SpeedIInv, Speed!Average, Speed!Between
  <2>3. report' \in 0 .. W - 1
    BY <2>1, <2>2, TimerFacts
  <2>4. ReportOK'
    BY <2>1, <2>2, <2>3 DEF ReportOK
  <2>5. SignalOK' /\ CaptureOK' /\ (moving' => new' = reg' /\ TimesCovered')
    BY <2>1 DEF SpeedIInv, SignalOK, CaptureOK, TimesCovered, Speed!Between
  <2>6. QED
    BY <2>4, <2>5 DEF SpeedIInv
<1>4. CASE Speed!PowerOn
  <2>1. /\ old' = 0 /\ mid' = 0 /\ new' = 0 /\ moving' = FALSE /\ noEdge' = NoEdgeLimit
        /\ report' = 0 /\ fresh' = FALSE /\ gaps' = Speed!Standstill
        /\ UNCHANGED <<now, period, due, reg, since>>
    BY <1>4 DEF Speed!PowerOn, Speed!signal
  <2>2. SignalOK'
    BY <2>1 DEF SpeedIInv, SignalOK
  <2>3. CaptureOK'
    BY <2>1, Standing DEF CaptureOK
  <2>4. ReportOK'
    BY <2>1, TimerFacts DEF ReportOK
  <2>5. QED
    BY <2>1, <2>2, <2>3, <2>4 DEF SpeedIInv
<1>5. CASE UNCHANGED Speed!vars
  BY <1>5 DEF Speed!vars, Speed!signal, Speed!times, SpeedIInv, SignalOK, CaptureOK,
              ReportOK, TimesCovered, Speed!Average, Speed!Between
<1>6. QED
  BY <1>1, <1>2, <1>3, <1>4, <1>5 DEF Speed!Next

LEMMA SpeedTypes == SpeedIInv => Speed!TypeOK
<1> SUFFICES ASSUME SpeedIInv PROVE Speed!TypeOK
  OBVIOUS
<1>1. {now, reg, old, mid, new} \subseteq 0 .. W - 1
  BY DEF SpeedIInv, SignalOK, CaptureOK
<1>2. due \in 0 .. W
  BY SpeedAssumption DEF SpeedIInv, SignalOK
<1>3. QED
  BY <1>1, <1>2 DEF SpeedIInv, SignalOK, CaptureOK, ReportOK, Speed!TypeOK

\* For every timer width, interrupt and set of periods: segment 2 works with no
\* shorter a period than the mean of what the last two times between captured edges
\* are sure to leave, which is all of a time shorter than a turn and none of a longer.
THEOREM SpeedBounded == Speed!Spec => [](Speed!TypeOK /\ Speed!SpeedIsBounded)
<1>1. SpeedIInv => Speed!SpeedIsBounded
  <2> SUFFICES ASSUME SpeedIInv, fresh, report # 0
               PROVE  report >= (Speed!Sure(gaps[1]) + Speed!Sure(gaps[2])) \div 2
    BY DEF Speed!SpeedIsBounded
  <2>1. report = Speed!Average /\ moving
    BY TimerFacts DEF SpeedIInv, ReportOK, CaptureOK
  <2> DEFINE first  == Speed!Between(old, mid)
             second == Speed!Between(mid, new)
  <2>2. first \in 0 .. W - 1 /\ second \in 0 .. W - 1
    BY AverageRange DEF SpeedIInv
  <2>3. gaps[1] \in 0 .. W /\ gaps[2] \in 0 .. W
    BY DEF SpeedIInv, CaptureOK
  <2>4. /\ gaps[2] < W => gaps[2] <= second
        /\ gaps[1] < W /\ gaps[2] < W => gaps[1] <= first
        /\ gaps[1] < W /\ ~(gaps[2] < W) => gaps[1] <= first + second
    BY <2>1 DEF SpeedIInv, TimesCovered
  <2>5. report = (first + second) \div 2
    BY <2>1 DEF Speed!Average
  <2> HIDE DEF first, second
  <2>6. /\ Speed!Sure(gaps[1]) = IF gaps[1] < W THEN gaps[1] ELSE 0
        /\ Speed!Sure(gaps[2]) = IF gaps[2] < W THEN gaps[2] ELSE 0
    BY DEF Speed!Sure
  <2>7. Speed!Sure(gaps[1]) + Speed!Sure(gaps[2]) <= first + second
    BY <2>2, <2>3, <2>4, <2>6, TimerFacts
  <2>8. Speed!Sure(gaps[1]) \in Nat /\ Speed!Sure(gaps[2]) \in Nat
    BY <2>3, <2>6, TimerFacts
  <2>9. QED
    BY <2>2, <2>5, <2>7, <2>8, TimerFacts
<1>2. QED
  BY <1>1, SpeedInit, SpeedStepInv, SpeedTypes, PTL DEF Speed!Spec

-----------------------------------------------------------------------------
(* The battery, the burn-off and the release of power. *)

Half  == Cycle \div 2
Rounds == BurnDelay + BurnTime + 1

\* The odd interrupts since the one of segment s.
Since(s) == (IF count >= s THEN count - s ELSE count - s + Cycle) \div 2

\* The passes of segment 7 until the wire is cold for good, the one that lets it
\* cool included.
Left == IF delay + time = 0 /\ ~wire THEN 0 ELSE delay + time + 1

GateOK ==
  /\ count \in 0 .. Cycle - 1 /\ raw \in Battery!Levels
  /\ ignOff \in BOOLEAN /\ permitted \in BOOLEAN /\ running \in BOOLEAN
  /\ enabled \in BOOLEAN /\ barred \in BOOLEAN /\ high \in BOOLEAN
  /\ timer \in 0 .. PowerDown
  /\ delay \in 0 .. BurnDelay /\ time \in 0 .. BurnTime
  /\ wire \in BOOLEAN /\ driven \in {"none", "engine", "service"}
  /\ down \in BOOLEAN /\ tardy \in BOOLEAN

\* The burn-off is asked for with the ignition off only, and a battery too high is
\* a battery seen with the ignition on.
AskedOK ==
  /\ enabled => ignOff /\ ~barred
  /\ raw \in {"on", "high"} => ~ignOff

\* Passes done and passes left add up, or segment E has armed nothing yet.
BurnOK ==
  /\ burn \in [waited : 0 .. BurnDelay, heated : 0 .. BurnTime]
  /\ \/ burn.waited + delay = BurnDelay /\ burn.heated + time = BurnTime
     \/ delay = 0 /\ time = 0 /\ burn.waited = 0 /\ burn.heated = 0

\* Housekeeping stopped the engine, and the segment 1 after it drives nothing for it.
EngineOK == timer > Housekeeping + Since(Seg1) => driven # "engine"

\* A burn-off asked for in time is on schedule: the rounds it still needs, with the
\* loops it has used, are the rounds of a whole one.  A wire left hot by a key that
\* came on again cools at the next segment 7.
WireOK ==
  /\ enabled /\ ~tardy =>
       /\ timer > Housekeeping
       /\ Left > 0 => Left * Half + (timer - Housekeeping) <= Rounds * Half + Since(Seg7)
  /\ ~enabled /\ wire => timer <= Since(Seg7) \/ (count = SegE /\ ~ignOff)

BatteryIInv ==
  /\ GateOK /\ AskedOK /\ BurnOK /\ EngineOK /\ WireOK
  /\ down => driven # "engine" /\ (wire => tardy)

LEMMA CycleFacts ==
  /\ Cycle \in Nat /\ Half \in Nat /\ Half >= 2 /\ Cycle = 2 * Half
  /\ Seg1 \in 0 .. Cycle - 1 /\ Seg7 \in 0 .. Cycle - 1 /\ SegE \in 0 .. Cycle - 1
  /\ Seg1 % 2 = 1 /\ Seg7 % 2 = 1 /\ SegE % 2 = 0 /\ Seg1 # Seg7
<1>1. /\ Cycle \in Nat /\ Cycle % 2 = 0
      /\ Seg1 \in 0 .. Cycle - 1 /\ Seg7 \in 0 .. Cycle - 1 /\ SegE \in 0 .. Cycle - 1
      /\ Seg1 % 2 = 1 /\ Seg7 % 2 = 1 /\ SegE % 2 = 0 /\ Seg1 # Seg7
  BY CycleAssumption
<1>2. Half \in Nat /\ Cycle = 2 * Half
  BY <1>1 DEF Half
<1>3. Half >= 2
  BY <1>1, <1>2
<1>4. QED
  BY <1>1, <1>2, <1>3

LEMMA BurnFacts ==
  /\ Housekeeping \in Nat /\ BurnDelay \in Nat /\ BurnTime \in Nat \ {0}
  /\ PowerDown \in Nat /\ Rounds \in Nat /\ Rounds >= 2
  /\ Housekeeping + Rounds * Half <= PowerDown
  BY BurnAssumption DEF Rounds, Half

LEMMA NextCountIs ==
  ASSUME count \in 0 .. Cycle - 1
  PROVE  /\ Battery!NextCount = IF count + 1 = Cycle THEN 0 ELSE count + 1
         /\ Battery!NextCount \in 0 .. Cycle - 1
<1>1. Cycle \in Nat \ {0}
  BY CycleFacts
<1>2. CASE count + 1 = Cycle
  <2>1. count + 1 \in Int /\ 1 \in Int /\ 0 \in 0 .. Cycle - 1 /\ count + 1 = Cycle * 1 + 0
    BY <1>1, <1>2
  <2>2. (count + 1) % Cycle = 0
    BY <1>1, <2>1, Remainder
  <2>3. QED
    BY <1>1, <1>2, <2>2 DEF Battery!NextCount
<1>3. CASE count + 1 # Cycle
  <2>1. /\ count + 1 \in Int /\ 0 \in Int /\ count + 1 \in 0 .. Cycle - 1
        /\ count + 1 = Cycle * 0 + (count + 1)
    BY <1>1, <1>3
  <2>2. (count + 1) % Cycle = count + 1
    BY <1>1, <2>1, Remainder
  <2>3. QED
    BY <1>1, <1>3, <2>1, <2>2 DEF Battery!NextCount
<1>4. QED
  BY <1>2, <1>3

\* Odd interrupts are counted from one pass of an odd segment to the next.
LEMMA SincePasses ==
  ASSUME count \in 0 .. Cycle - 1, count' = Battery!NextCount,
         NEW s \in 0 .. Cycle - 1, s % 2 = 1
  PROVE  /\ Since(s) \in 0 .. Half - 1
         /\ Battery!NextCount % 2 = 0 => Since(s)' = Since(s)
         /\ Battery!NextCount % 2 = 1 /\ Battery!NextCount # s => Since(s)' = Since(s) + 1
         /\ Battery!NextCount = s => Since(s)' = 0 /\ Since(s) = Half - 1
<1> DEFINE A == IF count >= s THEN count - s ELSE count - s + Cycle
           C == IF count' >= s THEN count' - s ELSE count' - s + Cycle
<1>1. Since(s) = A \div 2 /\ Since(s)' = C \div 2
  BY DEF Since
<1>2. count' = IF count + 1 = Cycle THEN 0 ELSE count + 1
  BY NextCountIs
<1>3. PICK q \in Nat : s = 2 * q + 1
  <2>1. s \div 2 \in Nat /\ s = 2 * (s \div 2) + 1
    BY CycleFacts
  <2>2. QED
    BY <2>1
<1>4. PICK t \in Nat : count = 2 * t \/ count = 2 * t + 1
  <2>1. count \div 2 \in Nat
        /\ (count = 2 * (count \div 2) \/ count = 2 * (count \div 2) + 1)
    BY CycleFacts
  <2>2. QED
    BY <2>1
<1>5. A \in 0 .. Cycle - 1 /\ C = IF A = Cycle - 1 THEN 0 ELSE A + 1
  BY <1>2, CycleFacts
<1>6. count' = s <=> C = 0
  BY <1>2, CycleFacts
<1>7. /\ count' % 2 = 1 <=> count % 2 = 0
      /\ count' % 2 = 0 <=> count % 2 = 1
  BY <1>2, <1>4, CycleFacts
<1>8. /\ count % 2 = 0 => A % 2 = 1
      /\ count % 2 = 1 => A % 2 = 0
  BY <1>3, <1>4, CycleFacts
<1> HIDE DEF A, C
<1>9. A \div 2 \in 0 .. Half - 1
  BY <1>5, CycleFacts
<1>10. CASE count % 2 = 1
  <2>1. A % 2 = 0 /\ count' % 2 = 0
    BY <1>7, <1>8, <1>10
  <2>2. A # Cycle - 1
    BY <1>5, <2>1, CycleFacts
  <2>3. C = A + 1
    BY <1>5, <2>2
  <2>4. C \div 2 = A \div 2 /\ C # 0
    BY <1>5, <2>1, <2>3, CycleFacts
  <2>5. QED
    BY <1>1, <1>6, <1>9, <2>1, <2>4
<1>11. CASE count % 2 = 0
  <2>1. A % 2 = 1 /\ count' % 2 = 1
    BY <1>7, <1>8, <1>11
  <2>2. CASE C = 0
    <3>1. A = Cycle - 1
      BY <1>5, <2>2, CycleFacts
    <3>2. A \div 2 = Half - 1 /\ C \div 2 = 0
      BY <2>2, <3>1, CycleFacts
    <3>3. QED
      BY <1>1, <1>6, <1>9, <2>1, <2>2, <3>2
  <2>3. CASE C # 0
    <3>1. C = A + 1
      BY <1>5, <2>3
    <3>2. C \div 2 = (A \div 2) + 1
      BY <1>5, <2>1, <3>1, CycleFacts
    <3>3. QED
      BY <1>1, <1>6, <1>9, <2>1, <2>3, <3>2
  <2>4. QED
    BY <2>2, <2>3
<1>12. QED
  BY <1>4, <1>10, <1>11, CycleFacts

\* A round less is a round's loops less.
LEMMA RoundLess ==
  ASSUME NEW a \in Int, NEW h \in Nat, NEW b \in Int
  PROVE  /\ (a - b) * h \in Int
         /\ a <= b => a * h <= b * h
         /\ (a - 1) * h = a * h - h
<1>1. (a - 1) * h = a * h - h /\ (a - b) * h \in Int
  OBVIOUS
<1>2. ASSUME a <= b PROVE a * h <= b * h
  <2>1. b - a >= 0 /\ (b - a) * h >= 0
    BY <1>2
  <2>2. (b - a) * h = b * h - a * h
    OBVIOUS
  <2>3. QED
    BY <2>1, <2>2
<1>3. QED
  BY <1>1, <1>2

\* What the odd loop leaves for the segment of its interrupt.
LEMMA LoopEffect ==
  ASSUME BatteryIInv, Battery!OddLoop
  PROVE  /\ timer' \in 0 .. PowerDown
         /\ running' \in BOOLEAN /\ enabled' \in BOOLEAN /\ tardy' \in BOOLEAN
         /\ enabled' => ignOff /\ ~barred
         /\ timer' > Housekeeping => timer' = timer + 1 /\ running' = FALSE
         /\ enabled' /\ ~tardy' =>
              /\ timer' = timer + 1 /\ timer >= Housekeeping
              /\ (enabled /\ ~tardy) \/ timer = Housekeeping
         /\ ~enabled' => ~enabled /\ (timer' = 0 \/ (timer' = timer + 1 /\ ignOff))
<1>1. /\ timer \in 0 .. PowerDown /\ running \in BOOLEAN /\ enabled \in BOOLEAN
      /\ tardy \in BOOLEAN /\ ignOff \in BOOLEAN /\ barred \in BOOLEAN
  BY DEF BatteryIInv, GateOK
<1>2. enabled => ignOff /\ ~barred
  BY DEF BatteryIInv, AskedOK
<1>3. enabled /\ ~tardy => timer > Housekeeping
  BY DEF BatteryIInv, WireOK
<1>4. Housekeeping \in Nat /\ PowerDown \in Nat /\ Housekeeping < PowerDown
  <2>1. Rounds * Half >= 4
    <3>1. Rounds * Half >= 2 * Half
      BY BurnFacts, CycleFacts, RoundLess
    <3>2. Rounds * Half \in Int
      BY BurnFacts, CycleFacts
    <3>3. QED
      BY <3>1, <3>2, CycleFacts
  <2>2. Rounds * Half \in Int
    BY BurnFacts, CycleFacts
  <2>3. QED
    BY <2>1, <2>2, BurnFacts
<1>5. CASE Battery!OddOn
  <2>1. ~ignOff /\ timer' = 0 /\ running' = running /\ enabled' = enabled /\ tardy' = tardy
    BY <1>5 DEF Battery!OddOn
  <2>2. ~enabled'
    BY <1>2, <2>1
  <2>3. timer' \in 0 .. PowerDown /\ ~(timer' > Housekeeping)
    BY <1>4, <2>1
  <2>4. QED
    BY <1>1, <2>1, <2>2, <2>3
<1>6. CASE Battery!OddDebounce
  <2>1. /\ ignOff /\ timer < Housekeeping /\ timer' = timer + 1
        /\ running' = running /\ enabled' = enabled /\ tardy' = tardy
    BY <1>6 DEF Battery!OddDebounce
  <2>2. timer' \in 0 .. PowerDown /\ ~(timer' > Housekeeping) /\ ~(timer > Housekeeping)
    BY <1>1, <1>4, <2>1
  <2>3. ~(enabled' /\ ~tardy')
    BY <1>3, <2>1, <2>2
  <2>4. QED
    BY <1>1, <1>2, <2>1, <2>2, <2>3
<1>7. CASE Battery!OddHousekeeping
  <2>1. /\ ignOff /\ timer >= Housekeeping /\ timer < PowerDown /\ timer' = timer + 1
        /\ running' = FALSE
        /\ tardy' = IF enabled THEN tardy ELSE enabled' /\ timer > Housekeeping
    BY <1>7 DEF Battery!OddHousekeeping
  <2>2. PICK b \in BOOLEAN : enabled' = (enabled \/ b) /\ (b => ~barred)
    <3>1. PICK stationary \in BOOLEAN :
            enabled' = (enabled \/ Battery!AsksForBurn(stationary))
      BY <1>7 DEF Battery!OddHousekeeping
    <3>2. /\ Battery!AsksForBurn(stationary) \in BOOLEAN
          /\ Battery!AsksForBurn(stationary) => ~barred
      BY DEF Battery!AsksForBurn
    <3>3. QED
      BY <3>1, <3>2
  <2>3. enabled' \in BOOLEAN /\ (enabled' => ~barred) /\ (enabled => enabled')
    BY <1>1, <1>2, <2>2
  <2>4. tardy' \in BOOLEAN
    BY <1>1, <2>1, <2>3
  <2>5. timer' \in 0 .. PowerDown
    BY <1>1, <1>4, <2>1
  <2>6. enabled' /\ ~tardy' => (enabled /\ ~tardy) \/ timer = Housekeeping
    <3>1. timer > Housekeeping \/ timer = Housekeeping
      BY <1>1, <1>4, <2>1
    <3>2. QED
      BY <2>1, <3>1
  <2>7. QED
    BY <2>1, <2>3, <2>4, <2>5, <2>6
<1>8. QED
  BY <1>5, <1>6, <1>7 DEF Battery!OddLoop

\* A pass of segment 7 is a round less, and the wire is hot after it only if the
\* burn-off goes on.
LEMMA BurnEffect ==
  ASSUME BatteryIInv, Battery!Segment7, enabled' \in BOOLEAN
  PROVE  /\ delay' \in 0 .. BurnDelay /\ time' \in 0 .. BurnTime /\ wire' \in BOOLEAN
         /\ BurnOK'
         /\ wire' => /\ ignOff /\ enabled'
                     /\ burn.waited = BurnDelay /\ burn.heated < BurnTime
         /\ ignOff /\ enabled' => Left' = 0 \/ (Left' <= Left - 1 /\ Left' <= Rounds - 1)
<1> DEFINE w == burn.waited  h == burn.heated
<1>1. /\ delay \in 0 .. BurnDelay /\ time \in 0 .. BurnTime /\ wire \in BOOLEAN
      /\ ignOff \in BOOLEAN
  BY DEF BatteryIInv, GateOK
<1>2. /\ burn \in [waited : 0 .. BurnDelay, heated : 0 .. BurnTime]
      /\ w \in 0 .. BurnDelay /\ h \in 0 .. BurnTime
  BY DEF BatteryIInv, BurnOK
<1>3. \/ w + delay = BurnDelay /\ h + time = BurnTime
      \/ delay = 0 /\ time = 0 /\ w = 0 /\ h = 0
  BY DEF BatteryIInv, BurnOK
<1>4. BurnDelay \in Nat /\ BurnTime \in Nat \ {0} /\ Rounds = BurnDelay + BurnTime + 1
  BY BurnFacts DEF Rounds
<1>5. ASSUME wire' = FALSE, UNCHANGED <<delay, time, burn>>
      PROVE  /\ delay' \in 0 .. BurnDelay /\ time' \in 0 .. BurnTime
             /\ BurnOK' /\ ~wire' /\ wire' \in BOOLEAN
             /\ delay = 0 /\ time = 0 => Left' = 0
  <2>1. BurnOK'
    BY <1>5 DEF BatteryIInv, BurnOK
  <2>2. delay = 0 /\ time = 0 => Left' = 0
    BY <1>5 DEF Left
  <2>3. delay' \in 0 .. BurnDelay /\ time' \in 0 .. BurnTime
    BY <1>1, <1>5
  <2>4. QED
    BY <1>5, <2>1, <2>2, <2>3, Zenon
<1>6. CASE Battery!BurnOffIdle
  <2>1. wire' = FALSE /\ UNCHANGED <<delay, time, burn>> /\ ~(ignOff /\ enabled')
    BY <1>6 DEF Battery!BurnOffIdle, Battery!Burning
  <2>2. QED
    BY <1>5, <2>1, Zenon
<1>7. CASE Battery!BurnOffWaits
  <2>1. /\ delay > 0 /\ delay' = delay - 1 /\ wire' = FALSE /\ time' = time
        /\ burn' = [burn EXCEPT !.waited = @ + 1]
    BY <1>7 DEF Battery!BurnOffWaits
  <2>2. w + delay = BurnDelay /\ h + time = BurnTime
    BY <1>1, <1>3, <2>1
  <2>3. /\ burn'.waited = w + 1 /\ burn'.heated = h
        /\ burn' \in [waited : 0 .. BurnDelay, heated : 0 .. BurnTime]
    <3>1. w + 1 \in 0 .. BurnDelay
      BY <1>1, <1>2, <1>4, <2>1, <2>2
    <3>2. QED
      BY <1>2, <2>1, <3>1
  <2>4. burn'.waited + delay' = BurnDelay /\ burn'.heated + time' = BurnTime
    BY <1>1, <1>2, <1>4, <2>1, <2>2, <2>3
  <2>5. BurnOK'
    BY <2>3, <2>4 DEF BurnOK
  <2>6. delay' \in 0 .. BurnDelay
    BY <1>1, <1>4, <2>1
  <2>7. Left' = 0 \/ (Left' <= Left - 1 /\ Left' <= Rounds - 1)
    <3>1. Left = delay + time + 1
      BY <1>1, <2>1 DEF Left
    <3>2. Left' = 0 \/ Left' = delay' + time' + 1
      BY DEF Left
    <3>3. QED
      BY <1>1, <1>4, <2>1, <3>1, <3>2
  <2>8. ~wire' /\ wire' \in BOOLEAN /\ time' \in 0 .. BurnTime
    BY <1>1, <2>1
  <2>9. QED
    BY <2>5, <2>6, <2>7, <2>8
<1>8. CASE Battery!BurnOffSpent
  <2>1. wire' = FALSE /\ UNCHANGED <<delay, time, burn>> /\ delay = 0 /\ time = 0
    BY <1>8 DEF Battery!BurnOffSpent
  <2>2. QED
    BY <1>5, <2>1, Zenon
<1>9. CASE Battery!BurnOffHeats
  <2>1. /\ ignOff /\ enabled' /\ delay = 0 /\ delay' = delay /\ time > 0
        /\ time' = time - 1 /\ wire' = TRUE
        /\ burn' = [burn EXCEPT !.heated = @ + 1]
    BY <1>9 DEF Battery!BurnOffHeats, Battery!Burning
  <2>2. w + delay = BurnDelay /\ h + time = BurnTime
    BY <1>1, <1>3, <2>1
  <2>3. w = BurnDelay /\ h < BurnTime
    BY <1>1, <1>2, <1>4, <2>1, <2>2
  <2>4. /\ burn'.waited = w /\ burn'.heated = h + 1
        /\ burn' \in [waited : 0 .. BurnDelay, heated : 0 .. BurnTime]
    <3>1. h + 1 \in 0 .. BurnTime
      BY <1>2, <1>4, <2>3
    <3>2. QED
      BY <1>2, <2>1, <3>1
  <2>5. burn'.waited + delay' = BurnDelay /\ burn'.heated + time' = BurnTime
    BY <1>1, <1>2, <1>4, <2>1, <2>2, <2>4
  <2>6. BurnOK'
    BY <2>4, <2>5 DEF BurnOK
  <2>7. time' \in 0 .. BurnTime
    BY <1>1, <1>4, <2>1
  <2>8. Left' <= Left - 1 /\ Left' <= Rounds - 1
    <3>1. Left = delay + time + 1
      BY <1>1, <2>1 DEF Left
    <3>2. Left' = delay' + time' + 1
      BY <2>1 DEF Left
    <3>3. QED
      BY <1>1, <1>4, <2>1, <3>1, <3>2
  <2>9. QED
    BY <1>1, <2>1, <2>3, <2>6, <2>7, <2>8
<1>10. QED
  BY <1>6, <1>7, <1>8, <1>9 DEF Battery!Segment7

\* When power is released housekeeping has long stopped the engine, and a burn-off
\* asked for in time has had all its rounds.
LEMMA QuietByThen ==
  ASSUME BatteryIInv, ignOff, timer >= PowerDown
  PROVE  driven # "engine" /\ (wire => tardy) /\ (enabled /\ ~tardy => Left = 0)
<1>1. /\ count \in 0 .. Cycle - 1 /\ timer \in 0 .. PowerDown /\ wire \in BOOLEAN
      /\ enabled \in BOOLEAN /\ tardy \in BOOLEAN
      /\ delay \in 0 .. BurnDelay /\ time \in 0 .. BurnTime
  BY DEF BatteryIInv, GateOK
<1>2. /\ Housekeeping \in Nat /\ PowerDown \in Nat /\ Half \in Nat /\ Half >= 2
      /\ Rounds \in Nat /\ Rounds * Half \in Int /\ Rounds * Half >= 2 * Half
      /\ Housekeeping + Rounds * Half <= PowerDown
  BY BurnFacts, CycleFacts, RoundLess
<1>3. Since(Seg1) \in 0 .. Half - 1 /\ Since(Seg7) \in 0 .. Half - 1
  BY <1>1, CycleFacts DEF Since
<1>4. timer = PowerDown
  BY <1>1, <1>2
<1>5. driven # "engine"
  <2>1. timer > Housekeeping + Since(Seg1)
    BY <1>2, <1>3, <1>4
  <2>2. QED
    BY <2>1 DEF BatteryIInv, EngineOK
<1>6. Left \in Nat /\ (wire => Left > 0)
  <2>1. delay + time + 1 \in Nat /\ delay + time + 1 > 0
    BY <1>1, BurnFacts
  <2>2. QED
    BY <2>1 DEF Left
<1>7. enabled /\ ~tardy => Left = 0
  <2> SUFFICES ASSUME enabled, ~tardy, Left > 0 PROVE FALSE
    BY <1>6
  <2>1. Left * Half + (timer - Housekeeping) <= Rounds * Half + Since(Seg7)
    BY DEF BatteryIInv, WireOK
  <2>2. 1 * Half <= Left * Half /\ Left * Half \in Int
    BY <1>2, <1>6, RoundLess
  <2>3. QED
    BY <1>2, <1>3, <1>4, <2>1, <2>2
<1>8. ~enabled => ~wire
  <2> SUFFICES ASSUME ~enabled, wire PROVE FALSE
    OBVIOUS
  <2>1. timer <= Since(Seg7)
    BY DEF BatteryIInv, WireOK
  <2>2. QED
    BY <1>2, <1>3, <1>4, <2>1
<1>9. wire => tardy
  <2> SUFFICES ASSUME wire, ~tardy PROVE FALSE
    OBVIOUS
  <2>1. enabled
    BY <1>8
  <2>2. Left > 0 /\ Left = 0
    BY <1>6, <1>7, <2>1
  <2>3. QED
    BY <2>2
<1>10. QED
  BY <1>5, <1>7, <1>9

LEMMA PowerdownKeeps ==
  ASSUME BatteryIInv, count' = Battery!NextCount, Battery!OddPowerdown
  PROVE  BatteryIInv'
<1>1. /\ ignOff /\ timer >= PowerDown /\ down' = TRUE
      /\ UNCHANGED <<raw, ignOff, permitted, timer, running, enabled, barred, high, delay,
                     time, wire, driven, burn, tardy>>
  BY DEF Battery!OddPowerdown
<1>2. driven # "engine" /\ (wire => tardy) /\ (enabled /\ ~tardy => Left = 0)
  BY <1>1, QuietByThen
<1>3. count' \in 0 .. Cycle - 1
  BY NextCountIs DEF BatteryIInv, GateOK
<1>4. GateOK'
  BY <1>1, <1>3 DEF BatteryIInv, GateOK
<1>5. AskedOK' /\ BurnOK'
  BY <1>1 DEF BatteryIInv, AskedOK, BurnOK
<1>6. EngineOK'
  BY <1>1, <1>2 DEF EngineOK
<1>7. WireOK'
  <2>1. enabled' /\ ~tardy' => timer' > Housekeeping /\ ~(Left' > 0)
    <3>1. Left' = Left
      BY <1>1 DEF Left
    <3>2. enabled /\ ~tardy => timer > Housekeeping
      BY DEF BatteryIInv, WireOK
    <3>3. QED
      BY <1>1, <1>2, <3>1, <3>2
  <2>2. ~(~enabled' /\ wire')
    <3>1. ~enabled /\ wire => timer <= Since(Seg7)
      BY <1>1 DEF BatteryIInv, WireOK
    <3>2. Since(Seg7) \in 0 .. Half - 1 /\ timer \in 0 .. PowerDown
      BY CycleFacts DEF Since, BatteryIInv, GateOK
    <3>3. Housekeeping \in Nat /\ PowerDown \in Nat /\ PowerDown >= Half /\ Half \in Nat
      BY BurnFacts, CycleFacts, RoundLess
    <3>4. QED
      BY <1>1, <3>1, <3>2, <3>3
  <2>3. QED
    BY <2>1, <2>2 DEF WireOK
<1>8. QED
  BY <1>1, <1>2, <1>4, <1>5, <1>6, <1>7 DEF BatteryIInv

LEMMA OddKeeps ==
  ASSUME BatteryIInv, ~down, count' = Battery!NextCount, Battery!OddIrq
  PROVE  BatteryIInv'
<1>1. /\ Battery!NextCount % 2 = 1 /\ Battery!OddLoop /\ down' = down
      /\ raw' = raw /\ ignOff' = ignOff
      /\ \/ Battery!NextCount = Seg1 /\ Battery!Segment1 /\ permitted' = permitted
         \/ Battery!NextCount = Seg7 /\ Battery!Segment7 /\ permitted' = permitted
         \/ Battery!NextCount \notin {Seg1, Seg7} /\ Battery!OtherSegment
  BY DEF Battery!OddIrq, Battery!OtherSegment
<1>2. /\ timer' \in 0 .. PowerDown
      /\ running' \in BOOLEAN /\ enabled' \in BOOLEAN /\ tardy' \in BOOLEAN
      /\ enabled' => ignOff /\ ~barred
      /\ timer' > Housekeeping => timer' = timer + 1 /\ running' = FALSE
      /\ enabled' /\ ~tardy' =>
           /\ timer' = timer + 1 /\ timer >= Housekeeping
           /\ (enabled /\ ~tardy) \/ timer = Housekeeping
      /\ ~enabled' => ~enabled /\ (timer' = 0 \/ (timer' = timer + 1 /\ ignOff))
  BY <1>1, LoopEffect
<1>3. /\ count \in 0 .. Cycle - 1 /\ raw \in Battery!Levels
      /\ ignOff \in BOOLEAN /\ permitted \in BOOLEAN /\ running \in BOOLEAN
      /\ enabled \in BOOLEAN /\ barred \in BOOLEAN /\ high \in BOOLEAN
      /\ timer \in 0 .. PowerDown
      /\ delay \in 0 .. BurnDelay /\ time \in 0 .. BurnTime
      /\ wire \in BOOLEAN /\ driven \in {"none", "engine", "service"}
      /\ down \in BOOLEAN /\ tardy \in BOOLEAN
  BY DEF BatteryIInv, GateOK
<1>4. count' \in 0 .. Cycle - 1
  BY <1>3, NextCountIs
<1>5. /\ Since(Seg1) \in 0 .. Half - 1
      /\ Battery!NextCount # Seg1 => Since(Seg1)' = Since(Seg1) + 1
      /\ Battery!NextCount = Seg1 => Since(Seg1)' = 0
  BY <1>1, <1>3, CycleFacts, SincePasses
<1>6. /\ Since(Seg7) \in 0 .. Half - 1
      /\ Battery!NextCount # Seg7 => Since(Seg7)' = Since(Seg7) + 1
      /\ Battery!NextCount = Seg7 => Since(Seg7)' = 0 /\ Since(Seg7) = Half - 1
  BY <1>1, <1>3, CycleFacts, SincePasses
<1>7. Battery!NextCount # Seg7 =>
        UNCHANGED <<delay, time, wire, burn>> /\ Left' = Left
  <2>1. Battery!NextCount # Seg7 => UNCHANGED <<delay, time, wire, burn>>
    BY <1>1 DEF Battery!Segment1, Battery!OtherSegment
  <2>2. QED
    BY <2>1 DEF Left
<1>8. Battery!NextCount = Seg7 =>
        /\ delay' \in 0 .. BurnDelay /\ time' \in 0 .. BurnTime /\ wire' \in BOOLEAN
        /\ BurnOK' /\ (wire' => enabled')
        /\ ignOff /\ enabled' => Left' = 0 \/ (Left' <= Left - 1 /\ Left' <= Rounds - 1)
  <2> SUFFICES ASSUME Battery!NextCount = Seg7
               PROVE  /\ delay' \in 0 .. BurnDelay /\ time' \in 0 .. BurnTime
                      /\ wire' \in BOOLEAN /\ BurnOK' /\ (wire' => enabled')
                      /\ ignOff /\ enabled' =>
                           Left' = 0 \/ (Left' <= Left - 1 /\ Left' <= Rounds - 1)
    OBVIOUS
  <2>1. Battery!Segment7
    BY <1>1, CycleFacts
  <2>2. QED
    BY <1>2, <2>1, BurnEffect
<1>9. /\ barred' \in BOOLEAN /\ high' \in BOOLEAN /\ permitted' \in BOOLEAN
      /\ barred' => barred \/ raw = "high"
  <2>1. CASE Battery!Segment1 /\ permitted' = permitted
    <3>1. high' = (raw = "high") /\ barred' = (barred \/ raw = "high")
      BY <2>1 DEF Battery!Segment1
    <3>2. QED
      BY <1>3, <2>1, <3>1
  <2>2. CASE Battery!Segment7 /\ permitted' = permitted
    BY <1>3, <2>2 DEF Battery!Segment7
  <2>3. CASE Battery!OtherSegment
    <3>1. high' = high /\ barred' = barred /\ permitted' \in {permitted, TRUE}
      BY <2>3 DEF Battery!OtherSegment
    <3>2. QED
      BY <1>3, <3>1
  <2>4. QED
    BY <1>1, <2>1, <2>2, <2>3
<1>10. /\ driven' \in {"none", "engine", "service"}
       /\ Battery!NextCount = Seg1 /\ running' = FALSE => driven' # "engine"
       /\ Battery!NextCount # Seg1 => driven' = driven
  <2>1. CASE Battery!NextCount = Seg1
    <3>1. Battery!Segment1
      BY <1>1, <2>1, CycleFacts
    <3>2. driven' \in IF Battery!TooHigh THEN {"none"}
                      ELSE IF ~running' THEN {"none", "service"}
                      ELSE {"none", "engine"}
      BY <3>1 DEF Battery!Segment1
    <3>3. QED
      BY <2>1, <3>2
  <2>2. CASE Battery!NextCount # Seg1
    BY <1>1, <1>3, <2>2 DEF Battery!Segment7, Battery!OtherSegment
  <2>3. QED
    BY <2>1, <2>2
<1>11. GateOK'
  <2>1. delay' \in 0 .. BurnDelay /\ time' \in 0 .. BurnTime /\ wire' \in BOOLEAN
    BY <1>3, <1>7, <1>8
  <2>2. raw' \in Battery!Levels /\ ignOff' \in BOOLEAN /\ down' \in BOOLEAN
    BY <1>1, <1>3
  <2>3. Battery!Levels' = Battery!Levels
    BY DEF Battery!Levels
  <2>4. QED
    BY <1>2, <1>4, <1>9, <1>10, <2>1, <2>2, <2>3, Zenon DEF GateOK
<1>12. AskedOK'
  <2>1. raw \in {"on", "high"} => ~ignOff
    BY DEF BatteryIInv, AskedOK
  <2>2. enabled' => ~barred'
    BY <1>2, <1>9, <2>1
  <2>3. QED
    BY <1>1, <1>2, <2>1, <2>2 DEF AskedOK
<1>13. BurnOK'
  BY <1>7, <1>8 DEF BatteryIInv, BurnOK
<1>14. EngineOK'
  <2> SUFFICES ASSUME timer' > Housekeeping + Since(Seg1)' PROVE driven' # "engine"
    BY DEF EngineOK, Since
  <2>1. timer' > Housekeeping
    BY <1>2, <1>5, BurnFacts, CycleFacts
  <2>2. CASE Battery!NextCount = Seg1
    BY <1>2, <1>10, <2>1, <2>2
  <2>3. CASE Battery!NextCount # Seg1
    <3>1. timer > Housekeeping + Since(Seg1)
      BY <1>2, <1>3, <1>5, <2>1, <2>3, BurnFacts, CycleFacts
    <3>2. QED
      BY <1>10, <2>3, <3>1 DEF BatteryIInv, EngineOK
  <2>4. QED
    BY <2>2, <2>3
<1>15. WireOK'
  <2>1. /\ Half \in Nat /\ Half >= 2 /\ Rounds \in Nat /\ Housekeeping \in Nat
        /\ Rounds = BurnDelay + BurnTime + 1 /\ BurnDelay \in Nat /\ BurnTime \in Nat
    BY BurnFacts, CycleFacts DEF Rounds
  <2>2. Left \in 0 .. Rounds /\ Left' \in Nat
    <3>1. delay' \in Nat /\ time' \in Nat
      BY <1>3, <1>7, <1>8, <2>1
    <3>2. Left = 0 \/ Left = delay + time + 1
      BY DEF Left
    <3>3. Left' = 0 \/ Left' = delay' + time' + 1
      BY DEF Left
    <3>4. QED
      BY <1>3, <2>1, <3>1, <3>2, <3>3
  <2>3. /\ Left * Half \in Int /\ Left' * Half \in Int /\ Rounds * Half \in Int
        /\ Left * Half <= Rounds * Half
    BY <2>1, <2>2, RoundLess
  <2>4. ASSUME enabled', ~tardy', Left' > 0
        PROVE  Left' * Half + (timer' - Housekeeping) <= Rounds * Half + Since(Seg7)'
    <3>1. /\ timer' = timer + 1 /\ timer >= Housekeeping /\ ignOff
          /\ (enabled /\ ~tardy) \/ timer = Housekeeping
      BY <1>2, <2>4
    <3>2. enabled /\ ~tardy /\ Left > 0 =>
            Left * Half + (timer - Housekeeping) <= Rounds * Half + Since(Seg7)
      BY DEF BatteryIInv, WireOK
    <3>3. CASE Battery!NextCount # Seg7
      <4>1. Left' = Left /\ Since(Seg7)' = Since(Seg7) + 1
        BY <1>6, <1>7, <3>3
      <4>2. CASE enabled /\ ~tardy
        BY <1>3, <1>6, <2>1, <2>3, <2>4, <3>1, <3>2, <4>1, <4>2
      <4>3. CASE timer = Housekeeping
        BY <1>3, <1>6, <2>1, <2>3, <3>1, <4>1, <4>3
      <4>4. QED
        BY <3>1, <4>2, <4>3
    <3>4. CASE Battery!NextCount = Seg7
      <4>1. /\ Left' <= Left - 1 /\ Left' <= Rounds - 1
            /\ Since(Seg7)' = 0 /\ Since(Seg7) = Half - 1
        BY <1>6, <1>8, <2>4, <3>1, <3>4
      <4>2. /\ Left' * Half <= (Left - 1) * Half
            /\ Left' * Half <= (Rounds - 1) * Half
        <5>1. Left' \in Int /\ Left - 1 \in Int /\ Rounds - 1 \in Int
          BY <2>1, <2>2
        <5>2. Left' * Half <= (Left - 1) * Half
          BY <2>1, <4>1, <5>1, RoundLess
        <5>3. Left' * Half <= (Rounds - 1) * Half
          BY <2>1, <4>1, <5>1, RoundLess
        <5>4. QED
          BY <5>2, <5>3
      <4>3. (Left - 1) * Half = Left * Half - Half /\ (Rounds - 1) * Half = Rounds * Half - Half
        BY <2>1, <2>2, RoundLess
      <4>4. Left > 0
        BY <2>2, <2>4, <4>1
      <4>5. CASE enabled /\ ~tardy
        BY <1>3, <2>1, <2>3, <3>1, <3>2, <4>1, <4>2, <4>3, <4>4, <4>5
      <4>6. CASE timer = Housekeeping
        BY <1>3, <2>1, <2>3, <3>1, <4>1, <4>2, <4>3, <4>6
      <4>7. QED
        BY <3>1, <4>5, <4>6
    <3>5. QED
      BY <3>3, <3>4
  <2>5. enabled' /\ ~tardy' => timer' > Housekeeping
    BY <1>2, <1>3, <2>1
  <2>6. ASSUME ~enabled', wire' PROVE timer' <= Since(Seg7)'
    <3>1. ~enabled /\ (timer' = 0 \/ (timer' = timer + 1 /\ ignOff))
      BY <1>2, <2>6
    <3>2. Battery!NextCount # Seg7 /\ wire
      BY <1>7, <1>8, <2>6
    <3>3. Since(Seg7)' = Since(Seg7) + 1
      BY <1>6, <3>2
    <3>4. ignOff => timer <= Since(Seg7)
      BY <3>1, <3>2 DEF BatteryIInv, WireOK
    <3>5. QED
      BY <1>3, <1>6, <2>1, <3>1, <3>3, <3>4
  <2>7. QED
    BY <2>4, <2>5, <2>6 DEF WireOK, Since
<1>16. ~down'
  BY <1>1
<1>17. QED
  BY <1>11, <1>12, <1>13, <1>14, <1>15, <1>16 DEF BatteryIInv

LEMMA EvenKeeps ==
  ASSUME BatteryIInv, ~down, count' = Battery!NextCount, Battery!EvenIrq
  PROVE  BatteryIInv'
<1>1. /\ Battery!NextCount % 2 = 0 /\ running' \in BOOLEAN
      /\ UNCHANGED <<timer, down, tardy, barred, high, wire, driven>>
      /\ \/ /\ Battery!NextCount = SegE /\ Battery!SegmentE /\ permitted' = permitted
         \/ /\ Battery!OtherSegment
            /\ UNCHANGED enabled
  BY DEF Battery!EvenIrq, Battery!OtherSegment
<1>2. /\ count \in 0 .. Cycle - 1 /\ raw \in Battery!Levels
      /\ ignOff \in BOOLEAN /\ permitted \in BOOLEAN /\ running \in BOOLEAN
      /\ enabled \in BOOLEAN /\ barred \in BOOLEAN /\ high \in BOOLEAN
      /\ timer \in 0 .. PowerDown
      /\ delay \in 0 .. BurnDelay /\ time \in 0 .. BurnTime
      /\ wire \in BOOLEAN /\ driven \in {"none", "engine", "service"}
      /\ down \in BOOLEAN /\ tardy \in BOOLEAN
  BY DEF BatteryIInv, GateOK
<1>3. count' \in 0 .. Cycle - 1
  BY <1>2, NextCountIs
<1>4. Since(Seg1)' = Since(Seg1) /\ Since(Seg7)' = Since(Seg7)
  BY <1>1, <1>2, CycleFacts, SincePasses
<1>5. \* An even interrupt follows an odd one, and segment E runs in an even one.
      count # SegE
  <2>1. count = SegE => Battery!NextCount = SegE + 1
    BY CycleFacts, NextCountIs, <1>2
  <2>2. (SegE + 1) % 2 = 1
    BY CycleFacts
  <2>3. QED
    BY <1>1, <2>1, <2>2
<1>6. ~enabled /\ wire => timer <= Since(Seg7)
  BY <1>5 DEF BatteryIInv, WireOK
<1>7. EngineOK'
  BY <1>1, <1>4 DEF BatteryIInv, EngineOK, Since
<1>8. ~down'
  BY <1>1
<1>9. CASE Battery!OtherSegment /\ UNCHANGED enabled
  <2>1. /\ UNCHANGED <<raw, ignOff, delay, time, burn, enabled>>
        /\ permitted' \in {permitted, TRUE}
    BY <1>9 DEF Battery!OtherSegment
  <2>2. GateOK'
    BY <1>1, <1>2, <1>3, <2>1 DEF GateOK, Battery!Levels
  <2>3. AskedOK' /\ BurnOK'
    BY <1>1, <2>1 DEF BatteryIInv, AskedOK, BurnOK
  <2>4. Left' = Left
    BY <1>1, <2>1 DEF Left
  <2>5. WireOK'
    <3>1. /\ enabled /\ ~tardy =>
               /\ timer > Housekeeping
               /\ Left > 0 =>
                    Left * Half + (timer - Housekeeping) <= Rounds * Half + Since(Seg7)
      BY DEF BatteryIInv, WireOK
    <3>2. /\ enabled' /\ ~tardy' =>
               /\ timer' > Housekeeping
               /\ Left' > 0 =>
                    Left' * Half + (timer' - Housekeeping) <= Rounds * Half + Since(Seg7)'
          /\ ~enabled' /\ wire' => timer' <= Since(Seg7)'
      BY <1>1, <1>4, <1>6, <2>1, <2>4, <3>1
    <3>3. QED
      BY <3>2 DEF WireOK, Since
  <2>6. QED
    BY <1>7, <1>8, <2>2, <2>3, <2>5 DEF BatteryIInv
<1>10. CASE Battery!NextCount = SegE /\ Battery!SegmentE /\ permitted' = permitted
  <2>1. /\ raw' \in Battery!Levels
        /\ ignOff' = (raw' = "off" \/ (ignOff /\ raw' \notin {"on", "high"}))
        /\ enabled' = (enabled /\ raw' \notin {"on", "high"})
    BY <1>10 DEF Battery!SegmentE, Battery!IgnitionOn, Battery!IgnitionOff
  <2>2. CASE raw' \in {"on", "high"}
    <3>1. /\ delay' = BurnDelay /\ time' = BurnTime
          /\ burn' = [burn EXCEPT !.waited = 0, !.heated = 0]
      BY <1>10, <2>2 DEF Battery!SegmentE, Battery!IgnitionOn
    <3>2. enabled' = FALSE /\ ignOff' = FALSE
      BY <2>1, <2>2
    <3>3. GateOK'
      <4>1. delay' \in 0 .. BurnDelay /\ time' \in 0 .. BurnTime
        BY <3>1, BurnFacts
      <4>2. /\ ignOff' \in BOOLEAN /\ enabled' \in BOOLEAN /\ permitted' \in BOOLEAN
            /\ raw' \in Battery!Levels'
        BY <1>2, <1>10, <2>1, <3>2 DEF Battery!Levels
      <4>3. /\ barred' \in BOOLEAN /\ high' \in BOOLEAN /\ wire' \in BOOLEAN
            /\ driven' \in {"none", "engine", "service"}
            /\ down' \in BOOLEAN /\ tardy' \in BOOLEAN /\ timer' \in 0 .. PowerDown
        BY <1>1, <1>2
      <4>4. QED
        BY <1>1, <1>3, <4>1, <4>2, <4>3, Zenon DEF GateOK
    <3>4. AskedOK'
      BY <3>2 DEF AskedOK
    <3>5. BurnOK'
      <4>1. burn \in [waited : 0 .. BurnDelay, heated : 0 .. BurnTime]
        BY DEF BatteryIInv, BurnOK
      <4>2. /\ burn' \in [waited : 0 .. BurnDelay, heated : 0 .. BurnTime]
            /\ burn'.waited = 0 /\ burn'.heated = 0
        <5>1. 0 \in 0 .. BurnDelay /\ 0 \in 0 .. BurnTime
          BY BurnFacts
        <5>2. burn' = [waited |-> 0, heated |-> 0]
          BY <3>1, <4>1
        <5>3. QED
          BY <5>1, <5>2
      <4>3. QED
        BY <3>1, <4>2, BurnFacts DEF BurnOK
    <3>6. WireOK'
      BY <1>10, <3>2 DEF WireOK
    <3>7. QED
      BY <1>7, <1>8, <3>3, <3>4, <3>5, <3>6 DEF BatteryIInv
  <2>3. CASE raw' \notin {"on", "high"}
    <3>1. UNCHANGED <<delay, time, burn>>
      BY <1>10, <2>3 DEF Battery!SegmentE, Battery!IgnitionOn
    <3>2. ignOff' = (raw' = "off" \/ ignOff) /\ enabled' = enabled
      BY <1>2, <2>1, <2>3
    <3>3. GateOK'
      <4>1. delay' \in 0 .. BurnDelay /\ time' \in 0 .. BurnTime
        BY <1>2, <3>1
      <4>2. /\ ignOff' \in BOOLEAN /\ enabled' \in BOOLEAN /\ permitted' \in BOOLEAN
            /\ raw' \in Battery!Levels'
        BY <1>2, <1>10, <2>1, <3>2 DEF Battery!Levels
      <4>3. /\ barred' \in BOOLEAN /\ high' \in BOOLEAN /\ wire' \in BOOLEAN
            /\ driven' \in {"none", "engine", "service"}
            /\ down' \in BOOLEAN /\ tardy' \in BOOLEAN /\ timer' \in 0 .. PowerDown
        BY <1>1, <1>2
      <4>4. QED
        BY <1>1, <1>3, <4>1, <4>2, <4>3, Zenon DEF GateOK
    <3>4. AskedOK'
      BY <1>1, <2>3, <3>2 DEF BatteryIInv, AskedOK
    <3>5. BurnOK'
      BY <3>1 DEF BatteryIInv, BurnOK
    <3>6. WireOK'
      <4>1. Left' = Left
        BY <1>1, <3>1 DEF Left
      <4>2. /\ enabled /\ ~tardy =>
                 /\ timer > Housekeeping
                 /\ Left > 0 =>
                      Left * Half + (timer - Housekeeping) <= Rounds * Half + Since(Seg7)
        BY DEF BatteryIInv, WireOK
      <4>3. /\ enabled' /\ ~tardy' =>
                 /\ timer' > Housekeeping
                 /\ Left' > 0 =>
                      Left' * Half + (timer' - Housekeeping) <= Rounds * Half + Since(Seg7)'
            /\ ~enabled' /\ wire' => timer' <= Since(Seg7)'
        BY <1>1, <1>4, <1>6, <3>2, <4>1, <4>2
      <4>4. QED
        BY <4>3 DEF WireOK, Since
    <3>7. QED
      BY <1>7, <1>8, <3>3, <3>4, <3>5, <3>6 DEF BatteryIInv
  <2>4. QED
    BY <2>2, <2>3
<1>11. QED
  BY <1>1, <1>9, <1>10

\* The gate after a power-on: segment E may have armed a whole burn-off.
ColdGate ==
  /\ count \in 0 .. Cycle - 1 /\ raw \in Battery!Levels /\ ignOff \in BOOLEAN
  /\ raw \in {"on", "high"} => ~ignOff
  /\ permitted = FALSE /\ timer = 0 /\ running = FALSE /\ enabled = FALSE
  /\ barred = FALSE /\ high = FALSE /\ wire = FALSE /\ driven = "none"
  /\ down = FALSE /\ tardy = FALSE /\ burn = [waited |-> 0, heated |-> 0]
  /\ \/ delay = 0 /\ time = 0
     \/ delay = BurnDelay /\ time = BurnTime

LEMMA ColdStart == ColdGate => BatteryIInv
<1> SUFFICES ASSUME ColdGate PROVE BatteryIInv
  OBVIOUS
<1>1. delay \in 0 .. BurnDelay /\ time \in 0 .. BurnTime /\ timer \in 0 .. PowerDown
  BY BurnFacts DEF ColdGate
<1>2. GateOK
  BY <1>1, Zenon DEF ColdGate, GateOK
<1>3. AskedOK /\ EngineOK
  BY DEF ColdGate, AskedOK, EngineOK
<1>4. BurnOK
  <2>1. /\ burn \in [waited : 0 .. BurnDelay, heated : 0 .. BurnTime]
        /\ burn.waited = 0 /\ burn.heated = 0
    BY BurnFacts DEF ColdGate
  <2>2. QED
    BY <2>1, BurnFacts DEF ColdGate, BurnOK
<1>5. WireOK
  BY DEF ColdGate, WireOK
<1>6. QED
  BY <1>2, <1>3, <1>4, <1>5 DEF ColdGate, BatteryIInv

LEMMA BatteryInit == Battery!Init => BatteryIInv
<1> SUFFICES ASSUME Battery!Init PROVE BatteryIInv
  OBVIOUS
<1>1. count \in 0 .. Cycle - 1 /\ ignOff \in BOOLEAN
  BY CycleFacts DEF Battery!Init
<1>2. ColdGate
  BY <1>1 DEF Battery!Init, ColdGate
<1>3. QED
  BY <1>2, ColdStart

LEMMA BatteryStepInv == BatteryIInv /\ [Battery!Next]_(Battery!vars) => BatteryIInv'
<1> SUFFICES ASSUME BatteryIInv, [Battery!Next]_(Battery!vars) PROVE BatteryIInv'
  OBVIOUS
<1>1. CASE Battery!Irq
  BY <1>1, PowerdownKeeps, OddKeeps, EvenKeeps DEF Battery!Irq
<1>2. ASSUME NEW level \in Battery!Levels, NEW normal \in BOOLEAN,
             Battery!PowerOn(level, normal)
      PROVE  BatteryIInv'
  <2>1. count' = IF normal THEN SegE ELSE 0
    BY <1>2 DEF Battery!PowerOn
  <2>2. count' \in (0 .. Cycle - 1)'
    BY <2>1, CycleFacts
  <2>3. /\ raw' = level /\ ignOff' = (normal /\ level = "off")
        /\ delay' = IF normal /\ level \in {"on", "high"} THEN BurnDelay ELSE 0
        /\ time' = IF normal /\ level \in {"on", "high"} THEN BurnTime ELSE 0
    BY <1>2 DEF Battery!PowerOn
  <2>4. /\ raw' \in Battery!Levels' /\ ignOff' \in BOOLEAN
        /\ raw' \in {"on", "high"} => ~ignOff'
    BY <2>3 DEF Battery!Levels
  <2>5. \/ delay' = 0 /\ time' = 0
        \/ delay' = BurnDelay /\ time' = BurnTime
    BY <2>3
  <2>6. /\ permitted' = FALSE /\ timer' = 0 /\ running' = FALSE /\ enabled' = FALSE
        /\ barred' = FALSE /\ high' = FALSE /\ wire' = FALSE /\ driven' = "none"
        /\ down' = FALSE /\ tardy' = FALSE /\ burn' = [waited |-> 0, heated |-> 0]
    BY <1>2 DEF Battery!PowerOn
  <2>7. ColdGate'
    BY <2>2, <2>4, <2>5, <2>6 DEF ColdGate
  <2>8. QED
    BY <2>7, ColdStart, PTL
<1>3. CASE UNCHANGED Battery!vars
  <2>1. GateOK'
    BY <1>3 DEF Battery!vars, BatteryIInv, GateOK, Battery!Levels
  <2>2. AskedOK' /\ BurnOK'
    BY <1>3 DEF Battery!vars, BatteryIInv, AskedOK, BurnOK
  <2>3. EngineOK' /\ WireOK'
    BY <1>3 DEF Battery!vars, BatteryIInv, EngineOK, WireOK, Left, Since
  <2>4. QED
    BY <1>3, <2>1, <2>2, <2>3 DEF Battery!vars, BatteryIInv
<1>4. QED
  BY <1>1, <1>2, <1>3 DEF Battery!Next

LEMMA BatteryTypes == BatteryIInv => Battery!TypeOK
  BY DEF BatteryIInv, GateOK, BurnOK, Battery!TypeOK

\* The wire is heated by a pass of segment 7 that the burn-off still pays for.
LEMMA WireHeats ==
  ASSUME BatteryIInv, [Battery!Next]_(Battery!vars)
  PROVE  count' # count /\ count' = Seg7 /\ ~down' /\ wire' =>
           /\ ignOff /\ ~barred
           /\ burn.waited = BurnDelay /\ burn.heated < BurnTime
<1> SUFFICES ASSUME count' # count, count' = Seg7, ~down', wire'
             PROVE  /\ ignOff /\ ~barred
                    /\ burn.waited = BurnDelay /\ burn.heated < BurnTime
  OBVIOUS
<1>1. Battery!Irq
  <2>1. ~(UNCHANGED Battery!vars)
    BY DEF Battery!vars
  <2>2. ASSUME NEW level \in Battery!Levels, NEW normal \in BOOLEAN,
               Battery!PowerOn(level, normal)
        PROVE  FALSE
    BY <2>2 DEF Battery!PowerOn
  <2>3. QED
    BY <2>1, <2>2 DEF Battery!Next
<1>2. Battery!NextCount = Seg7
  BY <1>1 DEF Battery!Irq
<1>3. Battery!OddIrq
  <2>1. ~Battery!OddPowerdown
    BY DEF Battery!OddPowerdown
  <2>2. ~Battery!EvenIrq
    <3>1. Battery!EvenIrq => Battery!NextCount % 2 = 0
      BY DEF Battery!EvenIrq
    <3>2. QED
      BY <1>2, <3>1, CycleFacts
  <2>3. QED
    BY <1>1, <2>1, <2>2 DEF Battery!Irq
<1>4. Battery!OddLoop /\ Battery!Segment7
  BY <1>2, <1>3, CycleFacts DEF Battery!OddIrq
<1>5. enabled' \in BOOLEAN /\ (enabled' => ignOff /\ ~barred)
  BY <1>4, LoopEffect
<1>6. QED
  BY <1>4, <1>5, BurnEffect

\* For every burn-off that fits into the time to the release of power: no actuator is
\* left driven for the engine, and a wire asked for in time is cold (step 111).
THEOREM QuietWhenReleased == Battery!Spec => [](Battery!TypeOK /\ Battery!ReleasedQuiet)
<1>1. BatteryIInv => Battery!ReleasedQuiet
  BY DEF BatteryIInv, Battery!ReleasedQuiet
<1>2. QED
  BY <1>1, BatteryInit, BatteryStepInv, BatteryTypes, PTL DEF Battery!Spec

\* For every delay and time: the wire is heated with the ignition off, after the delay,
\* for no more than the time (segment 7).
THEOREM BurnIsEarned == Battery!Spec => Battery!HeatsWhenEarned
<1>1. BatteryIInv /\ [Battery!Next]_(Battery!vars) =>
        [count' # count /\ count' = Seg7 /\ ~down' /\ wire' =>
           /\ ignOff /\ ~barred
           /\ burn.waited = BurnDelay /\ burn.heated < BurnTime]_(Battery!vars)
  BY WireHeats
<1>2. QED
  BY <1>1, BatteryInit, BatteryStepInv, PTL DEF Battery!Spec, Battery!HeatsWhenEarned

-----------------------------------------------------------------------------
(* The units together: a step of one is a stutter of the others. *)

LEMMA AirRuns == Spec => Air!Spec
<1>1. Init => Air!Init
  BY DEF Init
<1>2. [Next]_vars => [Air!Next]_(Air!vars)
  BY DEF Next, vars, AirStep, PurgeStep, BatteryStep, SpeedStep, TempsStep, CodesStep,
         airVars, Air!vars
<1>3. QED
  BY <1>1, <1>2, PTL DEF Spec, Air!Spec

LEMMA PurgeRuns == Spec => Purge!Spec
<1>1. Init => Purge!Init
  BY DEF Init
<1>2. [Next]_vars => [Purge!Next]_(Purge!vars)
  BY DEF Next, vars, AirStep, PurgeStep, BatteryStep, SpeedStep, TempsStep, CodesStep,
         purgeVars, Purge!vars
<1>3. QED
  BY <1>1, <1>2, PTL DEF Spec, Purge!Spec

LEMMA BatteryRuns == Spec => Battery!Spec
<1>1. Init => Battery!Init
  BY DEF Init
<1>2. [Next]_vars => [Battery!Next]_(Battery!vars)
  BY DEF Next, vars, AirStep, PurgeStep, BatteryStep, SpeedStep, TempsStep, CodesStep,
         batteryVars, Battery!vars
<1>3. QED
  BY <1>1, <1>2, PTL DEF Spec, Battery!Spec

LEMMA SpeedRuns == Spec => Speed!Spec
<1>1. Init => Speed!Init
  BY DEF Init
<1>2. [Next]_vars => [Speed!Next]_(Speed!vars)
  BY DEF Next, vars, AirStep, PurgeStep, BatteryStep, SpeedStep, TempsStep, CodesStep,
         speedVars, Speed!vars, Speed!signal, Speed!times
<1>3. QED
  BY <1>1, <1>2, PTL DEF Spec, Speed!Spec

LEMMA TempsRun == Spec => Temps!Spec
<1>1. Init => Temps!Init
  BY DEF Init
<1>2. [Next]_vars => [Temps!Next]_(Temps!vars)
  BY DEF Next, vars, AirStep, PurgeStep, BatteryStep, SpeedStep, TempsStep, CodesStep,
         tempsVars, Temps!vars, Temps!coolantVars, Temps!fanVars, Temps!matVars
<1>3. QED
  BY <1>1, <1>2, PTL DEF Spec, Temps!Spec

LEMMA CodesRun == Spec => Codes!Spec
<1>1. Init => Codes!Init
  BY DEF Init
<1>2. [Next]_vars => [Codes!Next]_(Codes!vars)
  BY DEF Next, vars, AirStep, PurgeStep, BatteryStep, SpeedStep, TempsStep, CodesStep,
         codesVars, Codes!vars, Codes!flags, Codes!still
<1>3. QED
  BY <1>1, <1>2, PTL DEF Spec, Codes!Spec

\* Every timer, counter and command of the six units is in its range.
THEOREM OutputsTypeCorrect == Spec => []TypeOK
<1>1. Air!TypeOK /\ Purge!TypeOK /\ Battery!TypeOK /\ Speed!TypeOK /\ Temps!TypeOK
      /\ Codes!TypeOK => TypeOK
  BY DEF TypeOK
<1>2. QED
  BY <1>1, AirRuns, PurgeRuns, BatteryRuns, SpeedRuns, TempsRun, CodesRun,
     AirEnds, PurgeReleases, QuietWhenReleased, SpeedBounded, MatFaultsEarned,
     CodesAreEarned, PTL

\* Injection air ends within the open delay of losing closed loop (bua_air81).
THEOREM AirEndsInOpenLoop == Spec => []OpenLoopAirEnds
<1>1. Air!OpenLoopAirEnds => OpenLoopAirEnds
  BY DEF OpenLoopAirEnds
<1>2. QED
  BY <1>1, AirRuns, AirEnds, PTL

\* Power is released with no actuator driven for the engine and, unless the burn-off
\* was asked for late, with a cold wire (step 111 and segments 1 and 7).
THEOREM ReleaseIsQuiet == Spec => []ReleasedQuiet
<1>1. Battery!ReleasedQuiet => ReleasedQuiet
  BY DEF ReleasedQuiet
<1>2. QED
  BY <1>1, BatteryRuns, QuietWhenReleased, PTL

\* The wire is heated by a pass that the burn-off still pays for (segment 7).
THEOREM HeatIsEarned == Spec => HeatsWhenEarned
  BY BatteryRuns, BurnIsEarned DEF HeatsWhenEarned

\* Segment 2 works with no shorter a period than the last two times between edges
\* are sure to leave in the captures.
THEOREM SpeedIsBoundedByTimes == Spec => []SpeedIsBounded
<1>1. Speed!SpeedIsBounded => SpeedIsBounded
  BY DEF SpeedIsBounded
<1>2. QED
  BY <1>1, SpeedRuns, SpeedBounded, PTL

\* The fan goes off only after its minimum time and never after a kept coolant fault
\* (bua_fan79).
THEOREM FanStays == Spec => FanStaysOn
  BY TempsRun, FanIsHeld DEF FanStaysOn

\* No MAT fault without its test time and no other timed code without its tests
\* (steps 84 and 108).
THEOREM FaultsAreEarned == Spec => []FaultsEarned
<1>1. Temps!MatFaultEarned /\ Codes!CodesEarned => FaultsEarned
  BY DEF FaultsEarned
<1>2. QED
  BY <1>1, TempsRun, CodesRun, MatFaultsEarned, CodesAreEarned, PTL
=============================================================================
