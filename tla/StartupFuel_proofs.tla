-------------------------- MODULE StartupFuel_proofs --------------------------
(* The safety of the engine's start for every period and hand-off of the minor
   count, every number of startup loops that keeps the margin, and all tables. *)
EXTENDS StartupFuel, TLAPS

-----------------------------------------------------------------------------
(* The inductive invariant. *)

\* Even loops that have counted towards the start.
Done == startup + (IF second THEN 1 ELSE 0)

\* A start that is still owed its enrichment has had no time to be caught: every
\* even loop since the hand-off has counted at most once, and the turn of segment F
\* has not come.
Owed ==
  start = "owed" =>
    /\ ~running /\ ~nv /\ key \in {"on", "off"}
    /\ 2 * Done <= count - StartCount
    /\ pc = "loop" => 2 * Done + 1 <= count - StartCount
    /\ pc = "idle" => count < FPeriod - 1

IInv == TypeOK /\ ServedAtOnce /\ Owed

-----------------------------------------------------------------------------
(* Arithmetic and the two tables of levels. *)

LEMMA OneService ==
  ASSUME NEW p \in Nat \ {0}, NEW x \in Nat, x < p + p
  PROVE  x \div p \in {0, 1}
  OBVIOUS

LEMMA Remainder ==
  ASSUME NEW p \in Nat \ {0}, NEW x \in Nat
  PROVE  /\ x % p \in 0 .. p - 1
         /\ x < p => x % p = x
  OBVIOUS

LEMMA Linear ==
  ASSUME NEW x \in Nat, NEW y \in Nat, NEW a \in Nat, NEW b \in Nat,
         y <= x + 1, 2 * x + 2 <= a - b
  PROVE  2 * y <= a - b
  OBVIOUS

LEMMA OneMore ==
  ASSUME NEW x \in Nat
  PROVE  x + 0 = x /\ x + 1 \in Nat
  OBVIOUS

LEMMA Product ==
  ASSUME NEW a \in Nat, NEW b \in Nat
  PROVE  a * b \in Nat
  OBVIOUS

FuelLevels == [level : Nat, delay : Nat, repeat : Nat]
SparkLevels == [level : Nat, delay : Nat, repeat : Nat, phase : BOOLEAN]

LEMMA EnrichedFalls ==
  ASSUME NEW f \in FuelLevels, NEW d \in Nat, NEW r \in Nat
  PROVE  Enriched(f, d, r) \in FuelLevels /\ Enriched(f, d, r).level <= f.level
  <1>1. f.level \in Nat /\ f.delay \in Nat /\ f.repeat \in Nat
    BY DEF FuelLevels
  <1>2. CASE Enriched(f, d, r) = f
    BY <1>1, <1>2
  <1>3. CASE f.delay > 0 /\ Enriched(f, d, r) = [f EXCEPT !.delay = @ - 1]
    BY <1>1, <1>3 DEF FuelLevels
  <1>4. CASE f.repeat > 0 /\ Enriched(f, d, r) = [f EXCEPT !.repeat = @ - 1]
    BY <1>1, <1>4 DEF FuelLevels
  <1>5. CASE Enriched(f, d, r) =
               [f EXCEPT !.repeat = r, !.level = IF @ < d THEN 0 ELSE @ - d]
    <2>1. CASE f.level < d
      <3>1. Enriched(f, d, r) = [f EXCEPT !.repeat = r, !.level = 0]
        BY <1>5, <2>1, Zenon
      <3>2. 0 \in Nat /\ 0 <= f.level
        BY <1>1
      <3> QED
        BY <1>1, <3>1, <3>2 DEF FuelLevels
    <2>2. CASE ~(f.level < d)
      <3>1. Enriched(f, d, r) = [f EXCEPT !.repeat = r, !.level = f.level - d]
        BY <1>5, <2>2, Zenon
      <3>2. f.level - d \in Nat /\ f.level - d <= f.level
        BY <1>1, <2>2
      <3> QED
        BY <1>1, <3>1, <3>2 DEF FuelLevels
    <2> QED
      BY <2>1, <2>2, Zenon
  <1>6. \/ Enriched(f, d, r) = f
        \/ f.delay > 0 /\ Enriched(f, d, r) = [f EXCEPT !.delay = @ - 1]
        \/ f.repeat > 0 /\ Enriched(f, d, r) = [f EXCEPT !.repeat = @ - 1]
        \/ Enriched(f, d, r) =
             [f EXCEPT !.repeat = r, !.level = IF @ < d THEN 0 ELSE @ - d]
    BY Zenon DEF Enriched
  <1> QED
    BY <1>2, <1>3, <1>4, <1>5, <1>6, Zenon

LEMMA AdvancedFalls ==
  ASSUME NEW s \in SparkLevels, NEW d \in Nat, NEW r \in Nat
  PROVE  Advanced(s, d, r) \in SparkLevels /\ Advanced(s, d, r).level <= s.level
  <1>1. s.level \in Nat /\ s.delay \in Nat /\ s.repeat \in Nat
    BY DEF SparkLevels
  <1>2. CASE s.delay > 0 /\ Advanced(s, d, r) = [s EXCEPT !.delay = @ - 1]
    BY <1>1, <1>2 DEF SparkLevels
  <1>3. CASE s.repeat > 0 /\ Advanced(s, d, r) = [s EXCEPT !.repeat = @ - 1]
    BY <1>1, <1>3 DEF SparkLevels
  <1>4. CASE Advanced(s, d, r) =
               [s EXCEPT !.phase = TRUE, !.repeat = r,
                         !.level = IF @ < d THEN 0 ELSE @ - d]
    <2>1. CASE s.level < d
      <3>1. Advanced(s, d, r) = [s EXCEPT !.phase = TRUE, !.repeat = r, !.level = 0]
        BY <1>4, <2>1, Zenon
      <3>2. 0 \in Nat /\ 0 <= s.level
        BY <1>1
      <3> QED
        BY <1>1, <3>1, <3>2 DEF SparkLevels
    <2>2. CASE ~(s.level < d)
      <3>1. Advanced(s, d, r) =
              [s EXCEPT !.phase = TRUE, !.repeat = r, !.level = s.level - d]
        BY <1>4, <2>2, Zenon
      <3>2. s.level - d \in Nat /\ s.level - d <= s.level
        BY <1>1, <2>2
      <3> QED
        BY <1>1, <3>1, <3>2 DEF SparkLevels
    <2> QED
      BY <2>1, <2>2, Zenon
  <1>5. \/ s.delay > 0 /\ Advanced(s, d, r) = [s EXCEPT !.delay = @ - 1]
        \/ s.repeat > 0 /\ Advanced(s, d, r) = [s EXCEPT !.repeat = @ - 1]
        \/ Advanced(s, d, r) = [s EXCEPT !.phase = TRUE, !.repeat = r,
                                         !.level = IF @ < d THEN 0 ELSE @ - d]
    BY Zenon DEF Advanced
  <1> QED
    BY <1>2, <1>3, <1>4, <1>5, Zenon

LEMMA TypeFacts ==
  ASSUME TypeOK
  PROVE  /\ fuel \in FuelLevels /\ fuel.level \in Nat /\ fuel.delay \in Nat
         /\ spark \in SparkLevels /\ spark.level \in Nat /\ spark.delay \in Nat
         /\ spark.repeat \in Nat
         /\ count \in 0 .. FPeriod - 1 /\ startup \in 0 .. StartupLoops
         /\ phase \in 0 .. PulsesPerService - 1
  BY DEF TypeOK, FuelLevels, SparkLevels

LEMMA DoneFacts ==
  ASSUME TypeOK
  PROVE  /\ Done \in Nat /\ startup \in Nat
         /\ second => Done = startup + 1
         /\ ~second => Done = startup
         /\ StartCount \in Nat /\ count \in Nat /\ count <= FPeriod - 1
         /\ FPeriod \in Nat \ {0} /\ StartCount % 2 = 0 /\ FPeriod % 2 = 0
  <1>1. startup \in Nat /\ count \in 0 .. FPeriod - 1
    BY MarginAssumption DEF TypeOK
  <1>2. CASE second
    <2>1. Done = startup + 1
      BY <1>2, Zenon DEF Done
    <2> QED
      BY <1>1, <1>2, <2>1, CountAssumption
  <1>3. CASE ~second
    <2>1. Done = startup + 0
      BY <1>3, Zenon DEF Done
    <2> QED
      BY <1>1, <1>3, <2>1, CountAssumption
  <1> QED
    BY <1>2, <1>3, Zenon

LEMMA DoneNext ==
  ASSUME startup' \in Nat
  PROVE  /\ Done' \in Nat
         /\ second' => Done' = startup' + 1
         /\ ~second' => Done' = startup'
  <1>1. CASE second'
    <2>1. Done' = startup' + 1
      BY <1>1, Zenon DEF Done
    <2>2. startup' + 1 \in Nat
      BY OneMore, Zenon
    <2> QED
      BY <1>1, <2>1, <2>2, Zenon
  <1>2. CASE ~second'
    <2>1. Done' = startup' + 0
      BY <1>2, Zenon DEF Done
    <2>2. startup' + 0 = startup'
      BY OneMore, Zenon
    <2> QED
      BY <1>2, <2>1, <2>2, Zenon
  <1> QED
    BY <1>1, <1>2, Zenon

\* One service at most is asked for, and it is served.
LEMMA BeginFact ==
  ASSUME IInv, NEW n \in 0 .. MaxPulses, NEW s \in BOOLEAN, Begin(n, s)
  PROVE  /\ pending' = 0 /\ phase' \in 0 .. PulsesPerService - 1
         /\ fuel' \in FuelLevels /\ fuel'.level <= fuel.level
         /\ spark' \in SparkLevels /\ spark'.level <= spark.level
  <1>1. pending = 0 /\ phase \in 0 .. PulsesPerService - 1 /\ phase + n \in Nat
        /\ phase + n < PulsesPerService + PulsesPerService
    BY ServiceAssumption DEF IInv, TypeOK, ServedAtOnce
  <1>2. (phase + n) \div PulsesPerService \in {0, 1}
    BY <1>1, OneService, ServiceAssumption
  <1>3. Asked(n) \in {0, 1}
    BY <1>1, <1>2 DEF Asked
  <1>4. fuel \in FuelLevels /\ fuel.level \in Nat /\ spark \in SparkLevels
        /\ spark.level \in Nat
    BY TypeFacts DEF IInv
  <1>5. phase' \in 0 .. PulsesPerService - 1
    BY <1>1, Remainder, ServiceAssumption DEF Begin, References
  <1>6. \/ Asked(n) = 0 /\ pending' = 0
        \/ Asked(n) # 0 /\ pending' = Asked(n) - 1
    BY Zenon DEF Begin, Serve
  <1>7. pending' = 0
    BY <1>3, <1>6
  <1>8. CASE UNCHANGED <<fuel, spark>>
    BY <1>4, <1>5, <1>7, <1>8
  <1>9. CASE \E d \in Decays, r \in Repeats :
               fuel' = Enriched(fuel, d, r) /\ spark' = Advanced(spark, d, r)
    <2>1. PICK d \in Decays, r \in Repeats :
            fuel' = Enriched(fuel, d, r) /\ spark' = Advanced(spark, d, r)
      BY <1>9
    <2>2. d \in Nat /\ r \in Nat
      BY TableAssumption
    <2> QED
      BY <2>1, <2>2, <1>4, <1>5, <1>7, EnrichedFalls, AdvancedFalls
  <1>10. UNCHANGED <<fuel, spark>> \/ \E d \in Decays, r \in Repeats :
           fuel' = Enriched(fuel, d, r) /\ spark' = Advanced(spark, d, r)
    BY Zenon DEF Begin, Serve
  <1> QED
    BY <1>8, <1>9, <1>10, Zenon

LEMMA BeginKeeps ==
  ASSUME IInv, NEW n \in 0 .. MaxPulses, NEW s \in BOOLEAN, Begin(n, s)
  PROVE  IInv'
  <1>1. /\ pc = "idle" /\ pc' = "loop" /\ count' = (count + 1) % FPeriod
        /\ UNCHANGED <<key, running, nv, second, startup, start>>
        /\ refSeen' = (refSeen \/ n > 0)
        /\ slow' = IF n > 0 THEN s ELSE slow
    BY DEF Begin, Idle, References
  <1>2. /\ pending' = 0 /\ phase' \in 0 .. PulsesPerService - 1
        /\ fuel' \in FuelLevels /\ spark' \in SparkLevels
    BY BeginFact
  <1>3. count \in 0 .. FPeriod - 1 /\ FPeriod \in Nat \ {0} /\ count + 1 \in Nat
    BY CountAssumption DEF IInv, TypeOK
  <1>4. count' \in 0 .. FPeriod - 1 /\ (count < FPeriod - 1 => count' = count + 1)
    <2>1. (count + 1) % FPeriod \in 0 .. FPeriod - 1
          /\ (count + 1 < FPeriod => (count + 1) % FPeriod = count + 1)
      BY <1>3, Remainder
    <2> QED
      BY <2>1, <1>1, <1>3
  <1>5. slow' \in BOOLEAN /\ refSeen' \in BOOLEAN
    <2>1. slow \in BOOLEAN /\ refSeen \in BOOLEAN
      BY DEF IInv, TypeOK
    <2>2. slow' = s \/ slow' = slow
      BY <1>1, Zenon
    <2>3. (refSeen \/ n > 0) \in BOOLEAN
      BY Zenon
    <2> QED
      BY <1>1, <2>1, <2>2, <2>3, Zenon
  <1>6. pending' \in Nat
    BY <1>2
  <1>7. TypeOK'
    BY <1>1, <1>2, <1>4, <1>5, <1>6 DEF IInv, TypeOK, FuelLevels, SparkLevels
  <1>8. Owed'
    <2>1. SUFFICES ASSUME start' = "owed"
                   PROVE  /\ ~running' /\ ~nv' /\ key' \in {"on", "off"}
                          /\ 2 * Done' <= count' - StartCount
                          /\ 2 * Done' + 1 <= count' - StartCount
      BY <1>1, Zenon DEF Owed
    <2>2. /\ ~running /\ ~nv /\ key \in {"on", "off"} /\ 2 * Done <= count - StartCount
          /\ count < FPeriod - 1
      BY <2>1, <1>1, Zenon DEF IInv, Owed
    <2>3. Done' = Done /\ Done \in Nat /\ StartCount \in Nat
      <3>1. Done' = Done
        BY <1>1, Zenon DEF Done
      <3> QED
        BY <3>1, DoneFacts DEF IInv
    <2>4. /\ 2 * Done' <= count' - StartCount
          /\ 2 * Done' + 1 <= count' - StartCount
      BY <2>2, <2>3, <1>3, <1>4
    <2> QED
      BY <2>2, <2>4, <1>1, Zenon
  <1> QED
    BY <1>2, <1>7, <1>8 DEF IInv, ServedAtOnce

-----------------------------------------------------------------------------
(* The loops. *)

\* What every loop leaves alone, and where it goes.
LEMMA LoopFact ==
  ASSUME IInv, NEW odd \in BOOLEAN, Loop(odd)
  PROVE  /\ pc = "loop" /\ (count % 2 = 1) = odd
         /\ pc' \in {"idle", "segment"}
         /\ pc' = "idle" => count < FPeriod - 1
         /\ UNCHANGED <<count, phase, pending, fuel, spark, slow>>
  BY CountAssumption DEF Loop, Odd, SegmentDue, IInv, TypeOK

\* A loop that leaves the start owed counts for it only when it is even, at most once.
LEMMA LoopKeeps ==
  ASSUME IInv, NEW odd \in BOOLEAN, Loop(odd),
         key' \in {"on", "off", "kept", "down"}, running' \in BOOLEAN, nv' \in BOOLEAN,
         refSeen' \in BOOLEAN, second' \in BOOLEAN, startup' \in 0 .. StartupLoops,
         start' \in {"owed", "armed", "free"},
         start' = "owed" =>
           /\ start = "owed" /\ UNCHANGED <<key, nv, running>>
           /\ odd => Done' = Done
           /\ Done' <= Done + 1
  PROVE  IInv'
  <1>1. /\ pc = "loop" /\ (count % 2 = 1) = odd
        /\ pc' \in {"idle", "segment"}
        /\ pc' = "idle" => count < FPeriod - 1
        /\ UNCHANGED <<count, phase, pending, fuel, spark, slow>>
    BY LoopFact
  <1>2. TypeOK'
    BY <1>1 DEF IInv, TypeOK
  <1>3. Owed'
    <2>1. SUFFICES ASSUME start' = "owed"
                   PROVE  /\ ~running' /\ ~nv' /\ key' \in {"on", "off"}
                          /\ 2 * Done' <= count - StartCount
      <3>1. pc' # "loop" /\ count' = count
        BY <1>1
      <3> QED
        BY <1>1, <3>1, Zenon DEF Owed
    <2>2. /\ ~running /\ ~nv /\ key \in {"on", "off"}
          /\ 2 * Done + 1 <= count - StartCount
      BY <2>1, <1>1, Zenon DEF IInv, Owed
    <2>3. Done \in Nat /\ Done' \in Nat
      <3>1. Done' \in Nat
        <4>1. startup' \in Nat
          BY MarginAssumption
        <4> QED
          BY <4>1, DoneNext, Zenon
      <3> QED
        BY <3>1, DoneFacts DEF IInv
    <2>4. 2 * Done' <= count - StartCount
      <3>1. CASE odd
        <4>1. Done' = Done
          BY <3>1, <2>1, Zenon
        <4> QED
          BY <4>1, <2>2, <2>3, DoneFacts DEF IInv
      <3>2. CASE ~odd
        <4>1. count % 2 # 1
          BY <3>2, <1>1, Zenon
        <4>2. /\ count \in Nat /\ StartCount \in Nat /\ StartCount % 2 = 0
          BY DoneFacts DEF IInv
        <4>3. 2 * Done + 2 <= count - StartCount
          BY <4>1, <4>2, <2>2, <2>3
        <4>4. Done' <= Done + 1
          BY <2>1, Zenon
        <4> QED
          BY <2>3, <4>2, <4>3, <4>4, Linear
      <3> QED
        BY <3>1, <3>2, Zenon
    <2> QED
      BY <2>1, <2>2, <2>4, Zenon
  <1> QED
    BY <1>1, <1>2, <1>3 DEF IInv, ServedAtOnce

LEMMA OddKeeps ==
  ASSUME IInv, OddRuns \/ OddHousekeeping
  PROVE  IInv'
  <1>1. Loop(TRUE)
    BY DEF OddRuns, OddHousekeeping
  <1>2. CASE OddRuns
    <2>1. UNCHANGED <<key, running, nv, refSeen, second, startup, start>>
      BY <1>2 DEF OddRuns
    <2>2. Done' = Done
      BY <2>1, Zenon DEF Done
    <2>3. Done' <= Done + 1
      BY <2>2, DoneFacts DEF IInv
    <2>4. /\ key \in {"on", "off", "kept", "down"} /\ running \in BOOLEAN
          /\ nv \in BOOLEAN /\ refSeen \in BOOLEAN /\ second \in BOOLEAN
          /\ startup \in 0 .. StartupLoops /\ start \in {"owed", "armed", "free"}
      BY DEF IInv, TypeOK
    <2> QED
      BY <1>1, <2>1, <2>2, <2>3, <2>4, LoopKeeps, Zenon
  <1>3. CASE OddHousekeeping
    <2>1. /\ key' = "kept" /\ running' = FALSE /\ nv' = FALSE /\ startup' = 0
          /\ start' = "free" /\ UNCHANGED <<refSeen, second>>
      BY <1>3 DEF OddHousekeeping
    <2>2. 0 \in 0 .. StartupLoops
      BY MarginAssumption
    <2> QED
      BY <1>1, <2>1, <2>2, LoopKeeps DEF IInv, TypeOK
  <1> QED
    BY <1>2, <1>3

LEMMA EvenKeeps ==
  ASSUME IInv, EvenTooSlow \/ EvenRunningRef \/ EvenFirstRef \/ EvenStartupLoop \/ EvenNoRef
  PROVE  IInv'
  <1>1. Loop(FALSE) /\ UNCHANGED <<key, running, nv, start>>
    BY DEF EvenTooSlow, EvenRunningRef, EvenFirstRef, EvenStartupLoop, EvenNoRef, Qualifies
  <1>2. startup \in 0 .. StartupLoops /\ second \in BOOLEAN /\ refSeen \in BOOLEAN
    BY DEF IInv, TypeOK
  <1>3. /\ refSeen' \in BOOLEAN /\ second' \in BOOLEAN /\ startup' \in 0 .. StartupLoops
        /\ Done' <= Done + 1
    <2>1. Done \in Nat /\ startup \in Nat
      BY DoneFacts DEF IInv
    <2>2. CASE EvenTooSlow
      <3>1. refSeen' = FALSE /\ startup' = 0 /\ second' = second
        BY <2>2 DEF EvenTooSlow
      <3>2. 0 \in 0 .. StartupLoops /\ 0 \in Nat
        BY MarginAssumption
      <3>3. Done' <= Done + 1
        <4>1. CASE second
          <5>1. Done = startup + 1
            BY <4>1, DoneFacts DEF IInv
          <5>2. Done' = startup' + 1
            BY <4>1, <3>1, <3>2, DoneNext
          <5> QED
            BY <5>1, <5>2, <3>1, <2>1
        <4>2. CASE ~second
          <5>1. Done' = startup'
            BY <4>2, <3>1, <3>2, DoneNext
          <5> QED
            BY <5>1, <3>1, <2>1
        <4> QED
          BY <4>1, <4>2
      <3> QED
        BY <3>1, <3>2, <3>3, <1>2, Zenon
    <2>3. CASE EvenRunningRef \/ EvenNoRef
      <3>1. /\ refSeen' = FALSE \/ refSeen' = refSeen
            /\ second' = second /\ startup' = startup
        BY <2>3 DEF EvenRunningRef, EvenNoRef
      <3>2. Done' = Done
        BY <3>1, Zenon DEF Done
      <3>3. Done' <= Done + 1
        BY <3>2, <2>1
      <3>4. refSeen' \in BOOLEAN
        BY <3>1, <1>2, Zenon
      <3> QED
        BY <3>1, <3>3, <3>4, <1>2, Zenon
    <2>4. CASE EvenFirstRef
      <3>1. refSeen' = FALSE /\ second' = TRUE /\ ~second /\ startup' = startup
        BY <2>4 DEF EvenFirstRef
      <3>2. Done = startup
        BY <3>1, DoneFacts DEF IInv
      <3>3. Done' = startup' + 1
        BY <3>1, <2>1, DoneNext
      <3>4. Done' <= Done + 1
        BY <3>1, <3>2, <3>3, <2>1
      <3> QED
        BY <3>1, <3>4, <1>2, Zenon
    <2>5. CASE EvenStartupLoop
      <3>1. /\ refSeen' = FALSE /\ second' = second /\ second
            /\ startup' = startup + 1 /\ startup < StartupLoops
        BY <2>5 DEF EvenStartupLoop
      <3>2. Done = startup + 1
        BY <3>1, DoneFacts DEF IInv
      <3>3. startup' \in Nat /\ startup' \in 0 .. StartupLoops
        BY <3>1, <2>1, MarginAssumption
      <3>4. Done' = startup' + 1
        BY <3>1, <3>3, DoneNext
      <3>5. Done' <= Done + 1
        BY <3>1, <3>2, <3>4, <2>1
      <3> QED
        BY <3>1, <3>3, <3>5, <1>2, Zenon
    <2> QED
      BY <2>2, <2>3, <2>4, <2>5
  <1>4. /\ key \in {"on", "off", "kept", "down"} /\ running \in BOOLEAN
        /\ nv \in BOOLEAN /\ start \in {"owed", "armed", "free"}
    BY DEF IInv, TypeOK
  <1> QED
    BY <1>1, <1>3, <1>4, LoopKeeps, Zenon

\* The margin: an engine is not caught as long as segment F has not run.
LEMMA CaughtKeeps ==
  ASSUME IInv, EvenEngineCaught
  PROVE  IInv'
  <1>1. Loop(FALSE) /\ second /\ StartupLoops <= startup
        /\ refSeen' = FALSE /\ running' = TRUE /\ nv' = TRUE
        /\ UNCHANGED <<key, second, startup, start>>
    BY DEF EvenEngineCaught, Qualifies
  <1>2. start # "owed"
    <2>1. SUFFICES ASSUME start = "owed" PROVE FALSE
      OBVIOUS
    <2>2. pc = "loop" /\ count % 2 # 1
      BY <1>1, LoopFact
    <2>3. 2 * Done + 1 <= count - StartCount
      BY <2>1, <2>2, Zenon DEF IInv, Owed
    <2>4. /\ Done = startup + 1 /\ startup \in Nat /\ count \in Nat /\ count <= FPeriod - 1
          /\ StartCount \in Nat /\ StartCount % 2 = 0 /\ FPeriod \in Nat \ {0}
      BY <1>1, DoneFacts DEF IInv
    <2>5. 2 * Done + 2 <= count - StartCount
      BY <2>2, <2>3, <2>4
    <2>6. FPeriod - 1 - StartCount < 2 * (StartupLoops + 2)
      BY MarginAssumption
    <2> QED
      BY <1>1, <2>4, <2>5, <2>6, MarginAssumption
  <1> QED
    BY <1>1, <1>2, LoopKeeps DEF IInv, TypeOK

LEMMA DownKeeps ==
  ASSUME IInv, OddPowerdown
  PROVE  IInv'
  <1>1. /\ pc' = "idle" /\ key = "kept" /\ key' = "down" /\ nv' = FALSE
        /\ UNCHANGED <<count, running, refSeen, slow, second, startup, phase, pending,
                       fuel, spark, start>>
    BY DEF OddPowerdown, starting, injector
  <1>2. start # "owed"
    BY <1>1 DEF IInv, Owed
  <1> QED
    BY <1>1, <1>2 DEF IInv, TypeOK, ServedAtOnce, Owed

LEMMA SegmentKeeps ==
  ASSUME IInv, SegmentF
  PROVE  IInv'
  <1>1. /\ pc' = "idle"
        /\ UNCHANGED <<count, key, running, nv, refSeen, slow, second, startup, phase,
                       pending>>
    BY DEF SegmentF, starting, injector
  <1>2. fuel \in FuelLevels /\ spark \in SparkLevels
    BY TypeFacts DEF IInv
  <1>3. start' # "owed" /\ start' \in {"owed", "armed", "free"}
    <2>1. start \in {"owed", "armed", "free"}
      BY DEF IInv, TypeOK
    <2>2. start = "owed" => ~running /\ ~nv
      BY DEF IInv, Owed
    <2> QED
      BY <2>1, <2>2 DEF SegmentF
  <1>4. fuel' \in FuelLevels /\ spark' \in SparkLevels
    <2>1. CASE UNCHANGED <<fuel, spark>>
      BY <2>1, <1>2
    <2>2. CASE \E f, s \in Levels, d, e \in Delays :
                 fuel' = FreshFuel(f, d) /\ spark' = FreshSpark(s, e)
      <3>1. PICK f \in Levels, s \in Levels, d \in Delays, e \in Delays :
              fuel' = FreshFuel(f, d) /\ spark' = FreshSpark(s, e)
        BY <2>2
      <3>2. f * Unit \in Nat /\ s * Unit \in Nat /\ d \in Nat /\ e \in Nat
        BY Product, TableAssumption
      <3> QED
        BY <3>1, <3>2, <1>2 DEF FreshFuel, FreshSpark, FuelLevels, SparkLevels
    <2> QED
      BY <2>1, <2>2 DEF SegmentF
  <1>5. TypeOK'
    BY <1>1, <1>3, <1>4 DEF IInv, TypeOK, FuelLevels, SparkLevels
  <1> QED
    BY <1>1, <1>3, <1>5 DEF IInv, ServedAtOnce, Owed

-----------------------------------------------------------------------------
(* Key and power. *)

LEMMA KeyKeeps ==
  ASSUME IInv, KeyTurns
  PROVE  IInv'
  <1>1. /\ pc = "idle" /\ key' \in {"on", "off"}
        /\ UNCHANGED <<pc, count, running, nv, refSeen, slow, second, startup, phase,
                       pending, fuel, spark, start>>
    BY DEF KeyTurns, Idle, starting, injector
  <1>2. Done' = Done
    BY <1>1 DEF Done
  <1> QED
    BY <1>1, <1>2 DEF IInv, TypeOK, ServedAtOnce, Owed

\* What a power-on keeps of the levels.
LEMMA KeptFact ==
  ASSUME IInv, NEW recover \in BOOLEAN
  PROVE  /\ KeptFuel(recover) \in FuelLevels /\ KeptSpark(recover) \in SparkLevels
         /\ ~recover => /\ KeptFuel(recover).level = fuel.level
                        /\ KeptSpark(recover).level = spark.level
  <1>1. /\ fuel.level \in Nat /\ fuel.delay \in Nat
        /\ spark.level \in Nat /\ spark.delay \in Nat /\ spark.repeat \in Nat
    BY TypeFacts DEF IInv
  <1>2. KeptFuel(recover) \in FuelLevels
    BY <1>1 DEF KeptFuel, FuelLevels
  <1>3. KeptSpark(recover) \in SparkLevels
    BY <1>1 DEF KeptSpark, SparkLevels
  <1> QED
    BY <1>2, <1>3 DEF KeptFuel, KeptSpark

LEMMA ClearFact ==
  ASSUME IInv, NEW recover \in BOOLEAN, ClearVolatile(recover)
  PROVE  /\ pc = "idle" /\ pc' = "idle" /\ UNCHANGED <<phase, pending>>
         /\ key' \in {"on", "off"} /\ running' = FALSE
         /\ refSeen' = FALSE /\ slow' = FALSE /\ second' = FALSE /\ startup' = 0
         /\ nv' = (nv /\ ~recover) /\ nv' \in BOOLEAN
  BY DEF ClearVolatile, Idle, injector

LEMMA NormalKeeps ==
  ASSUME IInv, NEW recover \in BOOLEAN, PowerOnNormal(recover)
  PROVE  IInv'
  <1>1. /\ pc' = "idle" /\ UNCHANGED <<phase, pending>>
        /\ key' \in {"on", "off"} /\ running' = FALSE
        /\ refSeen' = FALSE /\ slow' = FALSE /\ second' = FALSE /\ startup' = 0
        /\ nv' \in BOOLEAN /\ count' = StartCount
    BY ClearFact DEF PowerOnNormal
  <1>2. /\ fuel' \in FuelLevels /\ spark' \in SparkLevels
        /\ start' \in {"free", "owed"} /\ (start' = "owed" => ~nv')
    <2>1. KeptFuel(recover) \in FuelLevels /\ KeptSpark(recover) \in SparkLevels
      BY KeptFact
    <2>2. CASE nv'
      BY <2>1, <2>2 DEF PowerOnNormal
    <2>3. CASE ~nv'
      <3>1. PICK f \in Levels, s \in Levels :
              /\ fuel' = [KeptFuel(recover) EXCEPT !.level = f * Unit]
              /\ spark' = [KeptSpark(recover) EXCEPT !.level = s * Unit + (@ % Unit)]
        BY <2>3 DEF PowerOnNormal
      <3>2. KeptSpark(recover).level \in Nat
        BY <2>1 DEF SparkLevels
      <3>3. /\ f * Unit \in Nat /\ s * Unit \in Nat
            /\ KeptSpark(recover).level % Unit \in 0 .. Unit - 1
        BY <3>2, Product, Remainder, TableAssumption
      <3>4. s * Unit + (KeptSpark(recover).level % Unit) \in Nat
        BY <3>3, TableAssumption
      <3>5. fuel' \in FuelLevels
        BY <3>1, <3>3, <2>1 DEF FuelLevels
      <3>6. spark' \in SparkLevels
        BY <3>1, <3>4, <2>1 DEF SparkLevels
      <3> QED
        BY <3>5, <3>6, <2>3 DEF PowerOnNormal
    <2> QED
      BY <2>2, <2>3
  <1>3. /\ StartCount \in 0 .. FPeriod - 1 /\ StartCount < FPeriod - 1
        /\ 0 \in 0 .. StartupLoops
    BY CountAssumption, MarginAssumption
  <1>4. TypeOK'
    BY <1>1, <1>2, <1>3 DEF IInv, TypeOK, FuelLevels, SparkLevels
  <1>5. 2 * Done' <= StartCount - StartCount
    <2>1. Done' = 0
      BY <1>1, DoneNext
    <2> QED
      BY <2>1, CountAssumption
  <1>6. Owed'
    <2>1. pc' # "loop"
      BY <1>1
    <2> QED
      BY <1>1, <1>2, <1>3, <1>5, <2>1, Zenon DEF Owed
  <1> QED
    BY <1>1, <1>4, <1>6 DEF IInv, ServedAtOnce

LEMMA SwiKeeps ==
  ASSUME IInv, NEW recover \in BOOLEAN, PowerOnSwi(recover)
  PROVE  IInv'
  <1>1. /\ pc' = "idle" /\ UNCHANGED <<phase, pending, count>>
        /\ key' \in {"on", "off"} /\ running' = FALSE
        /\ refSeen' = FALSE /\ slow' = FALSE /\ second' = FALSE /\ startup' = 0
        /\ nv' \in BOOLEAN /\ start' = "free"
    BY ClearFact DEF PowerOnSwi
  <1>2. fuel' \in FuelLevels /\ spark' \in SparkLevels
    BY KeptFact DEF PowerOnSwi
  <1>3. 0 \in 0 .. StartupLoops
    BY MarginAssumption
  <1>4. TypeOK'
    BY <1>1, <1>2, <1>3 DEF IInv, TypeOK, FuelLevels, SparkLevels
  <1> QED
    BY <1>1, <1>4 DEF IInv, ServedAtOnce, Owed

-----------------------------------------------------------------------------
(* The theorems. *)

LEMMA Initially ==
  ASSUME Init
  PROVE  IInv
  <1>1. /\ StartCount \in 0 .. FPeriod - 1 /\ StartCount < FPeriod - 1
        /\ 0 \in 0 .. StartupLoops /\ 0 \in 0 .. PulsesPerService - 1 /\ 0 \in Nat
    BY CountAssumption, MarginAssumption, ServiceAssumption
  <1>2. \A f \in Levels : f * Unit \in Nat
    BY Product, TableAssumption
  <1>3. fuel \in FuelLevels
    BY <1>1, <1>2 DEF Init, FuelLevels
  <1>4. spark \in SparkLevels
    BY <1>1, <1>2 DEF Init, SparkLevels
  <1>5. TypeOK
    BY <1>1, <1>3, <1>4 DEF Init, TypeOK, FuelLevels, SparkLevels
  <1>6. Owed
    <2>1. Done = 0
      BY <1>5, DoneFacts DEF Init
    <2>2. 2 * Done <= count - StartCount
      BY <2>1, CountAssumption DEF Init
    <2> QED
      BY <1>1, <2>2 DEF Init, Owed
  <1> QED
    BY <1>5, <1>6 DEF IInv, Init, ServedAtOnce

LEMMA Inductive == IInv /\ [Next]_vars => IInv'
  <1> SUFFICES ASSUME IInv, [Next]_vars PROVE IInv'
    OBVIOUS
  <1>1. CASE Irq
    <2>1. CASE \E n \in 0 .. MaxPulses, s \in BOOLEAN : Begin(n, s)
      BY <2>1, BeginKeeps
    <2>2. CASE OddRuns \/ OddHousekeeping
      BY <2>2, OddKeeps
    <2>3. CASE OddPowerdown
      BY <2>3, DownKeeps
    <2>4. CASE EvenTooSlow \/ EvenRunningRef \/ EvenFirstRef \/ EvenStartupLoop \/ EvenNoRef
      BY <2>4, EvenKeeps
    <2>5. CASE EvenEngineCaught
      BY <2>5, CaughtKeeps
    <2>6. CASE SegmentF
      BY <2>6, SegmentKeeps
    <2> QED
      BY <1>1, <2>1, <2>2, <2>3, <2>4, <2>5, <2>6 DEF Irq
  <1>2. CASE KeyTurns
    BY <1>2, KeyKeeps
  <1>3. CASE PowerOn
    BY <1>3, NormalKeeps, SwiKeeps DEF PowerOn
  <1>4. CASE UNCHANGED vars
    <2>1. Done' = Done
      BY <1>4 DEF vars, Done
    <2> QED
      BY <1>4, <2>1 DEF vars, IInv, TypeOK, ServedAtOnce, Owed
  <1> QED
    BY <1>1, <1>2, <1>3, <1>4 DEF Next

\* The invariant of the start, which interrupts, the key and power-ons keep.
THEOREM Invariance == Spec => []IInv
  BY Initially, Inductive, PTL DEF Spec

\* The types of StartupFuel hold: no delay, repeat or level goes below zero.
THEOREM TypeCorrect == Spec => []TypeOK
  <1>1. IInv => TypeOK
    BY DEF IInv
  <1> QED
    BY <1>1, Invariance, PTL

\* No service is ever left pending.
THEOREM NothingPends == Spec => []ServedAtOnce
  <1>1. IInv => ServedAtOnce
    BY DEF IInv
  <1> QED
    BY <1>1, Invariance, PTL

\* No engine runs on a start that segment F has not armed, for every hand-off and
\* number of startup loops within the margin.
THEOREM StartIsArmed == Spec => []FreshStart
  <1>1. IInv => FreshStart
    BY DEF IInv, Owed, FreshStart
  <1> QED
    BY <1>1, Invariance, PTL

\* An interrupted run resumes its decay: the levels do not rise while the bit stays.
THEOREM ResumeDoesNotRaise == Spec => ResumedNotRaised
  <1>1. ASSUME IInv, Next, nv, nv'
        PROVE  fuel'.level <= fuel.level /\ spark'.level <= spark.level
    <2>1. fuel.level \in Nat /\ spark.level \in Nat
      BY <1>1, TypeFacts DEF IInv
    <2>2. CASE \E n \in 0 .. MaxPulses, s \in BOOLEAN : Begin(n, s)
      BY <2>2, <1>1, BeginFact
    <2>3. CASE UNCHANGED <<fuel, spark>>
      BY <2>1, <2>3
    <2>4. CASE PowerOn
      <3>1. PICK recover \in BOOLEAN : PowerOnNormal(recover) \/ PowerOnSwi(recover)
        BY <2>4 DEF PowerOn
      <3>2. nv' = (nv /\ ~recover)
        BY <3>1 DEF PowerOnNormal, PowerOnSwi, ClearVolatile
      <3>3. ~recover /\ fuel' = KeptFuel(recover) /\ spark' = KeptSpark(recover)
        BY <3>1, <3>2, <1>1 DEF PowerOnNormal, PowerOnSwi
      <3> QED
        BY <3>3, <1>1, <2>1, KeptFact
    <2>5. SegmentF => UNCHANGED <<fuel, spark>>
      BY <1>1 DEF SegmentF
    <2>6. OddRuns \/ OddHousekeeping \/ OddPowerdown \/ EvenTooSlow \/ EvenRunningRef
          \/ EvenFirstRef \/ EvenStartupLoop \/ EvenEngineCaught \/ EvenNoRef \/ KeyTurns
          => UNCHANGED <<fuel, spark>>
      BY DEF OddRuns, OddHousekeeping, OddPowerdown, EvenTooSlow, EvenRunningRef,
             EvenFirstRef, EvenStartupLoop, EvenEngineCaught, EvenNoRef, KeyTurns,
             Qualifies, Loop
    <2> QED
      BY <1>1, <2>2, <2>3, <2>4, <2>5, <2>6 DEF Next, Irq
  <1>2. IInv /\ [Next]_vars =>
          [nv /\ nv' => fuel'.level <= fuel.level /\ spark'.level <= spark.level]_vars
    BY <1>1
  <1> QED
    BY <1>2, Invariance, PTL DEF Spec, ResumedNotRaised
-----------------------------------------------------------------------------
(* Progress: what a service takes off.  The fairness of EnrichmentEnds, and the
   references it assumes, only have to supply the services. *)

\* In the order in which they run down: the level counts before the delay, the
\* delay before the repeat count.
Lower(a, b) ==
  \/ a.level < b.level
  \/ a.level = b.level /\ a.delay < b.delay
  \/ a.level = b.level /\ a.delay = b.delay /\ a.repeat < b.repeat

LEMMA EnrichedLower ==
  ASSUME NEW f \in FuelLevels, NEW d \in Nat \ {0}, NEW r \in Nat, Unit <= f.level
  PROVE  Lower(Enriched(f, d, r), f)
  <1>1. /\ f.level \in Nat /\ f.delay \in Nat /\ f.repeat \in Nat
        /\ f.level # 0 /\ ~(f.level < Unit)
    BY TableAssumption DEF FuelLevels
  <1>2. CASE f.delay > 0
    <2>1. Enriched(f, d, r) = [f EXCEPT !.delay = f.delay - 1]
      BY <1>1, <1>2, Zenon DEF Enriched
    <2> QED
      BY <1>1, <1>2, <2>1 DEF Lower, FuelLevels
  <1>3. CASE ~(f.delay > 0) /\ f.repeat > 0
    <2>1. Enriched(f, d, r) = [f EXCEPT !.repeat = f.repeat - 1]
      BY <1>1, <1>3, Zenon DEF Enriched
    <2> QED
      BY <1>1, <1>3, <2>1 DEF Lower, FuelLevels
  <1>4. CASE ~(f.delay > 0) /\ ~(f.repeat > 0)
    <2> DEFINE less == IF f.level < d THEN 0 ELSE f.level - d
    <2>1. less \in Nat /\ less < f.level
      BY <1>1
    <2>2. Enriched(f, d, r) = [f EXCEPT !.repeat = r, !.level = less]
      BY <1>1, <1>4, Zenon DEF Enriched
    <2> HIDE DEF less
    <2>3. Enriched(f, d, r).level = less
      BY <2>2 DEF FuelLevels
    <2> QED
      BY <2>1, <2>3 DEF Lower
  <1> QED
    BY <1>2, <1>3, <1>4

LEMMA AdvancedLower ==
  ASSUME NEW f \in SparkLevels, NEW d \in Nat \ {0}, NEW r \in Nat, 0 < f.level
  PROVE  Lower(Advanced(f, d, r), f)
  <1>1. f.level \in Nat /\ f.delay \in Nat /\ f.repeat \in Nat /\ f.level # 0
    BY DEF SparkLevels
  <1>2. CASE f.delay > 0
    <2>1. Advanced(f, d, r) = [f EXCEPT !.delay = f.delay - 1]
      BY <1>1, <1>2, Zenon DEF Advanced
    <2> QED
      BY <1>1, <1>2, <2>1 DEF Lower, SparkLevels
  <1>3. CASE ~(f.delay > 0) /\ f.phase /\ f.repeat > 0
    <2>1. Advanced(f, d, r) = [f EXCEPT !.repeat = f.repeat - 1]
      BY <1>1, <1>3, Zenon DEF Advanced
    <2> QED
      BY <1>1, <1>3, <2>1 DEF Lower, SparkLevels
  <1>4. CASE ~(f.delay > 0) /\ ~(f.phase /\ f.repeat > 0)
    <2> DEFINE less == IF f.level < d THEN 0 ELSE f.level - d
    <2>1. less \in Nat /\ less < f.level
      BY <1>1
    <2>2. Advanced(f, d, r) = [f EXCEPT !.phase = TRUE, !.repeat = r, !.level = less]
      BY <1>1, <1>4, Zenon DEF Advanced
    <2> HIDE DEF less
    <2>3. Advanced(f, d, r).level = less
      BY <2>2 DEF SparkLevels
    <2> QED
      BY <2>1, <2>3 DEF Lower
  <1> QED
    BY <1>2, <1>3, <1>4

\* The interrupt whose references complete a revolution serves the engine.
LEMMA ServiceLowers ==
  ASSUME IInv, running, NEW n \in 0 .. MaxPulses, NEW s \in BOOLEAN, Begin(n, s),
         PulsesPerService <= phase + n
  PROVE  /\ Unit <= fuel.level => Lower(fuel', fuel)
         /\ 0 < spark.level => Lower(spark', spark)
  <1>1. pending = 0 /\ phase + n \in Nat /\ PulsesPerService \in Nat \ {0}
    BY ServiceAssumption DEF IInv, TypeOK, ServedAtOnce
  <1>2. (phase + n) \div PulsesPerService >= 1
    BY <1>1
  <1>3. Asked(n) # 0
    BY <1>1, <1>2 DEF Asked
  <1>4. PICK d \in Decays, r \in Repeats :
          fuel' = Enriched(fuel, d, r) /\ spark' = Advanced(spark, d, r)
    BY <1>3, Zenon DEF Begin, Serve
  <1>5. d \in Nat \ {0} /\ r \in Nat
    BY TableAssumption
  <1>6. fuel \in FuelLevels /\ spark \in SparkLevels
    BY TypeFacts DEF IInv
  <1> QED
    BY <1>4, <1>5, <1>6, EnrichedLower, AdvancedLower

\* Nothing but a service or a power-on touches the levels of a running engine.
LEMMA OthersLeave ==
  ASSUME IInv, running, [Next]_vars, ~PowerOn,
         ~\E n \in 0 .. MaxPulses, s \in BOOLEAN :
             Begin(n, s) /\ PulsesPerService <= phase + n
  PROVE  UNCHANGED <<fuel, spark>>
  <1>1. ASSUME NEW n \in 0 .. MaxPulses, NEW s \in BOOLEAN, Begin(n, s)
        PROVE  UNCHANGED <<fuel, spark>>
    <2>1. /\ pending = 0 /\ phase + n \in Nat /\ PulsesPerService \in Nat \ {0}
          /\ phase + n < PulsesPerService
      BY <1>1, ServiceAssumption DEF IInv, TypeOK, ServedAtOnce
    <2>2. (phase + n) \div PulsesPerService = 0
      BY <2>1
    <2>3. Asked(n) = 0
      BY <2>1, <2>2 DEF Asked
    <2> QED
      BY <1>1, <2>3, Zenon DEF Begin, Serve
  <1>2. OddRuns \/ OddHousekeeping \/ OddPowerdown \/ EvenTooSlow \/ EvenRunningRef
        \/ EvenFirstRef \/ EvenStartupLoop \/ EvenEngineCaught \/ EvenNoRef \/ KeyTurns
        => UNCHANGED <<fuel, spark>>
    BY DEF OddRuns, OddHousekeeping, OddPowerdown, EvenTooSlow, EvenRunningRef,
           EvenFirstRef, EvenStartupLoop, EvenEngineCaught, EvenNoRef, KeyTurns,
           Qualifies, Loop
  <1>3. SegmentF => UNCHANGED <<fuel, spark>>
    BY DEF SegmentF
  <1>4. UNCHANGED vars => UNCHANGED <<fuel, spark>>
    BY DEF vars
  <1> QED
    BY <1>1, <1>2, <1>3, <1>4 DEF Next, Irq

\* The safety half of EnrichmentEnds, for fuel and spark: the interrupt that
\* completes a revolution of a running engine lowers the enrichment that is left,
\* and the startup spark that is left, in an order without infinite descent;
\* whatever the loops, the key and segment F do, nothing else but a power-on
\* touches either.
THEOREM EveryRevolutionCounts ==
  Spec =>
    [][running =>
         /\ \A n \in 0 .. MaxPulses, s \in BOOLEAN :
              Begin(n, s) /\ PulsesPerService <= phase + n
                => /\ Unit <= fuel.level => Lower(fuel', fuel)
                   /\ 0 < spark.level => Lower(spark', spark)
         /\ \/ PowerOn \/ UNCHANGED <<fuel, spark>>
            \/ \E n \in 0 .. MaxPulses, s \in BOOLEAN :
                 Begin(n, s) /\ PulsesPerService <= phase + n]_vars
  <1>1. IInv /\ [Next]_vars =>
          [running =>
             /\ \A n \in 0 .. MaxPulses, s \in BOOLEAN :
                  Begin(n, s) /\ PulsesPerService <= phase + n
                    => /\ Unit <= fuel.level => Lower(fuel', fuel)
                       /\ 0 < spark.level => Lower(spark', spark)
             /\ \/ PowerOn \/ UNCHANGED <<fuel, spark>>
                \/ \E n \in 0 .. MaxPulses, s \in BOOLEAN :
                     Begin(n, s) /\ PulsesPerService <= phase + n]_vars
    BY ServiceLowers, OthersLeave
  <1> QED
    BY <1>1, Invariance, PTL DEF Spec
=============================================================================
