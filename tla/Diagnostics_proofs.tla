-------------------------- MODULE Diagnostics_proofs --------------------------
(***************************************************************************)
(* Segment D's safety: the logger for every set of codes, every mask and   *)
(* every set of thresholds in the order of ThresholdAssumption; the        *)
(* flasher for every mask, every set of codes and every cadence of         *)
(* CadenceAssumption.                                                      *)
(***************************************************************************)
EXTENDS Diagnostics, DiagFlash, TLAPS

-----------------------------------------------------------------------------
(* The logger: its inductive invariant. *)

TimerBelow == long \/ timer < ShortHas

IdleTimer == candidates = {} => timer <= NoLimit(long)

\* What the timer has run up, every candidate has been reported for.
Sampled ==
  \A c \in candidates :
    /\ 1 <= seen[c]
    /\ seen[c] = SeenMax \/ timer + 2 <= NoLimit(long) + seen[c]

\* The timer cannot have run down yet.
Lit == since <= LongNo => long /\ LongNo <= timer + since

IInv == TypeOK /\ TimerBelow /\ IdleTimer /\ Sampled /\ Lit

-----------------------------------------------------------------------------
(* Facts used by every step. *)

\* Both limits are ordered, in either mode, and SeenMax lies above their
\* distance.
LEMMA LimitFact ==
  \A l \in BOOLEAN :
    /\ NoLimit(l) \in Nat \ {0} /\ HasLimit(l) \in Nat
    /\ NoLimit(l) < HasLimit(l) /\ HasLimit(l) <= LongHas
    /\ NoLimit(l) <= LongNo
    /\ HasLimit(l) - NoLimit(l) + 2 <= SeenMax
  BY ThresholdAssumption DEF NoLimit, HasLimit

\* A logging pass adds one to the history of what it reports.
LEMMA SeenStep ==
  ASSUME NumbersOK, NEW new \in Reports, Logs(new)
  PROVE  /\ seen' \in [Codes -> 0 .. SeenMax]
         /\ \A c \in new : /\ c \in Codes /\ 1 <= seen'[c]
                           /\ seen'[c] = SeenMax \/ seen'[c] = seen[c] + 1
                           /\ seen[c] = SeenMax => seen'[c] = SeenMax
  <1>1. SeenMax \in Nat \ {0}
    BY ThresholdAssumption
  <1>2. new \subseteq Codes
    BY DEF Reports
  <1> QED
    BY <1>1, <1>2 DEF NumbersOK, Logs, Least

\* The front keeps the start count within its limit.
LEMMA FrontCount ==
  ASSUME NumbersOK
  PROVE  KeyOnsAfterFront \in 0 .. NoErrorLimit
  BY ThresholdAssumption DEF NumbersOK, KeyOnsAfterFront, CountsStart, Expires

-----------------------------------------------------------------------------
(* Passes of segment D. *)

\* A pass that only runs the front leaves the invariant.
LEMMA FrontPassKeeps ==
  ASSUME IInv, ServicePass \/ IgnitionOffPass
  PROVE  IInv'
  <1>1. FrontOnly
    BY DEF ServicePass, IgnitionOffPass
  <1>2. FlagsOK'
    BY <1>1 DEF IInv, TypeOK, FlagsOK, FrontOnly, Front, inputs, StoredAfterFront
  <1>3. KeyOnsAfterFront \in 0 .. NoErrorLimit
    BY FrontCount DEF IInv, TypeOK
  <1>4. CASE IgnitionOffPass
    <2>1. UNCHANGED <<candidates, timer, long, seen, since>>
      BY <1>4, <1>1 DEF IgnitionOffPass, FrontOnly
    <2>2. NumbersOK'
      BY <1>1, <1>3, <2>1 DEF IInv, TypeOK, NumbersOK, FrontOnly
    <2>3. (TimerBelow /\ IdleTimer /\ Sampled /\ Lit)'
      BY <2>1 DEF IInv, TimerBelow, IdleTimer, Sampled, Lit, NoLimit
    <2> QED
      BY <1>2, <2>2, <2>3 DEF IInv, TypeOK
  <1>5. CASE ServicePass
    <2>1. UNCHANGED <<candidates, long, seen>> /\ timer' = 0 /\ since' = LongNo + 1
      BY <1>5, <1>1 DEF ServicePass, FrontOnly, LongAgo
    <2>2. NumbersOK'
      BY <1>1, <1>3, <2>1, ThresholdAssumption
      DEF IInv, TypeOK, NumbersOK, FrontOnly, LongAgo
    <2>3. NoLimit(long') \in Nat \ {0} /\ NoLimit(long') = NoLimit(long)
      BY <2>1, LimitFact DEF IInv, TypeOK, FlagsOK
    <2>4. TimerBelow' /\ IdleTimer' /\ Lit'
      BY <2>1, <2>3, ThresholdAssumption
      DEF IInv, TypeOK, FlagsOK, TimerBelow, IdleTimer, Lit
    <2>5. \A c \in candidates : seen[c] \in 0 .. SeenMax /\ 1 <= seen[c]
      BY CodeAssumption DEF IInv, TypeOK, FlagsOK, NumbersOK, Sampled
    <2>6. Sampled'
      BY <2>1, <2>3, <2>5, ThresholdAssumption DEF Sampled
    <2> QED
      BY <1>2, <2>2, <2>4, <2>6 DEF IInv, TypeOK
  <1> QED
    BY <1>4, <1>5

\* Sampling: the timer of an idle logger is within its limit, so a new
\* candidate starts with no more than the limit of head start.
LEMMA SampleKeeps ==
  ASSUME IInv, NEW new \in Reports, SamplePass(new)
  PROVE  IInv'
  <1>1. /\ Logs(new) /\ StoresNothing /\ candidates = {}
        /\ candidates' = new \cap Enabled
    BY DEF SamplePass
  <1>2. /\ timer \in Nat /\ since \in Nat /\ timer <= NoLimit(long)
        /\ timer <= LongHas - 1 /\ long \in BOOLEAN
    BY <1>1, ThresholdAssumption DEF IInv, TypeOK, FlagsOK, NumbersOK, IdleTimer, LongAgo
  <1>3. since' \in 0 .. LongAgo /\ (since' <= LongNo => since' = since + 1)
    BY <1>1, <1>2, ThresholdAssumption DEF StoresNothing, Least, LongAgo
  <1>4. \/ timer # 0 /\ timer' = timer - 1 /\ long' = long
        \/ timer = 0 /\ timer' = 0 /\ long' = FALSE
    BY DEF SamplePass
  <1>5. long' \in BOOLEAN /\ NoLimit(long') \in Nat \ {0} /\ timer' \in 0 .. LongHas - 1
    <2>1. long' \in BOOLEAN
      BY <1>2, <1>4
    <2>2. timer' \in 0 .. LongHas - 1
      BY <1>2, <1>4, ThresholdAssumption
    <2> QED
      BY <2>1, <2>2, LimitFact
  <1>6. FlagsOK'
    BY <1>1, <1>5 DEF IInv, TypeOK, FlagsOK, Logs, Front, inputs, StoresNothing,
                      StoredAfterFront, Reports
  <1>7. NumbersOK'
    BY <1>1, <1>3, <1>5, FrontCount, SeenStep DEF IInv, TypeOK, NumbersOK, StoresNothing
  <1>8. TimerBelow'
    BY <1>2, <1>4, ThresholdAssumption DEF IInv, TimerBelow
  <1>9. timer' <= NoLimit(long') /\ timer' + 1 <= NoLimit(long')
    BY <1>2, <1>4, <1>5
  <1>10. Sampled'
    <2> SUFFICES ASSUME NEW c \in candidates'
                 PROVE  /\ 1 <= seen'[c]
                        /\ seen'[c] = SeenMax \/ timer' + 2 <= NoLimit(long') + seen'[c]
      BY DEF Sampled
    <2>1. 1 <= seen'[c] /\ seen'[c] \in Nat
      BY <1>1, SeenStep, ThresholdAssumption DEF IInv, TypeOK
    <2> QED
      BY <2>1, <1>5, <1>9
  <1>11. Lit'
    <2> SUFFICES ASSUME since' <= LongNo
                 PROVE  long' /\ LongNo <= timer' + since'
      BY DEF Lit
    <2>1. since' = since + 1 /\ since + 1 <= LongNo
      BY <1>3
    <2>2. long /\ LongNo <= timer + since
      BY <2>1, <1>2, ThresholdAssumption DEF IInv, Lit
    <2>3. timer # 0
      BY <2>1, <2>2, <1>2, ThresholdAssumption
    <2>4. timer' = timer - 1 /\ long' = long
      BY <1>4, <2>3
    <2>5. LongNo <= timer' + since'
      BY <2>1, <2>2, <2>4, <1>2, ThresholdAssumption
    <2> QED
      BY <2>2, <2>4, <2>5
  <1> QED
    BY <1>6, <1>7, <1>8, <1>9, <1>10, <1>11 DEF IInv, TypeOK, IdleTimer

\* Losing the candidates takes the timer back within its limit.
LEMMA DropKeeps ==
  ASSUME IInv, NEW new \in Reports, DropPass(new)
  PROVE  IInv'
  <1>1. /\ Logs(new) /\ StoresNothing /\ candidates' = {} /\ long' = long
        /\ timer' = Least(timer + 1, NoLimit(long))
    BY DEF DropPass
  <1>2. /\ timer \in Nat /\ since \in Nat /\ long \in BOOLEAN
        /\ NoLimit(long) \in Nat \ {0} /\ NoLimit(long) <= LongNo
    BY LimitFact, ThresholdAssumption DEF IInv, TypeOK, FlagsOK, NumbersOK, LongAgo
  <1>3. since' \in 0 .. LongAgo /\ (since' <= LongNo => since' = since + 1)
    BY <1>1, <1>2, ThresholdAssumption DEF StoresNothing, Least, LongAgo
  <1>4. /\ timer' \in 0 .. LongHas - 1 /\ timer' <= NoLimit(long)
        /\ timer' = timer + 1 \/ timer' = NoLimit(long)
    BY <1>1, <1>2, ThresholdAssumption DEF Least
  <1>5. FlagsOK'
    BY <1>1 DEF IInv, TypeOK, FlagsOK, Logs, Front, inputs, StoresNothing,
                StoredAfterFront
  <1>6. NumbersOK'
    BY <1>1, <1>3, <1>4, FrontCount, SeenStep DEF IInv, TypeOK, NumbersOK, StoresNothing
  <1>7. NoLimit(long') = NoLimit(long)
    BY <1>1
  <1>8. TimerBelow'
    BY <1>1, <1>2, <1>4, ThresholdAssumption DEF TimerBelow, NoLimit
  <1>9. Lit'
    <2> SUFFICES ASSUME since' <= LongNo
                 PROVE  long' /\ LongNo <= timer' + since'
      BY DEF Lit
    <2>1. since' = since + 1 /\ since + 1 <= LongNo
      BY <1>3
    <2>2. long /\ LongNo <= timer + since
      BY <2>1, <1>2, ThresholdAssumption DEF IInv, Lit
    <2>3. NoLimit(long) = LongNo
      BY <2>2 DEF NoLimit
    <2>4. LongNo <= timer' + since'
      <3>1. LongNo <= timer + since /\ LongNo \in Nat
        BY <2>2, ThresholdAssumption
      <3>2. CASE timer' = timer + 1
        BY <3>1, <3>2, <2>1, <1>2
      <3>3. CASE timer' = NoLimit(long)
        BY <3>1, <3>3, <2>1, <2>3, <1>2
      <3> QED
        BY <3>2, <3>3, <1>4
    <2> QED
      BY <2>2, <2>4, <1>1
  <1>10. Sampled'
    BY <1>1 DEF Sampled
  <1> QED
    BY <1>4, <1>5, <1>6, <1>7, <1>8, <1>9, <1>10 DEF IInv, TypeOK, IdleTimer

\* Whatever remains a candidate was reported by this pass too.
LEMMA CountKeeps ==
  ASSUME IInv, NEW new \in Reports, CountPass(new)
  PROVE  IInv'
  <1>1. /\ Logs(new) /\ StoresNothing /\ Remaining(new) # {} /\ long' = long
        /\ candidates' = Remaining(new) /\ timer' = timer + 1
        /\ timer + 1 < HasLimit(long)
    BY DEF CountPass
  <1>2. /\ timer \in Nat /\ since \in Nat /\ long \in BOOLEAN
        /\ NoLimit(long) \in Nat \ {0}
        /\ HasLimit(long) \in Nat /\ HasLimit(long) <= LongHas
    BY LimitFact, ThresholdAssumption DEF IInv, TypeOK, FlagsOK, NumbersOK, LongAgo
  <1>3. since' \in 0 .. LongAgo /\ (since' <= LongNo => since' = since + 1)
    BY <1>1, <1>2, ThresholdAssumption DEF StoresNothing, Least, LongAgo
  <1>4. timer' \in 0 .. LongHas - 1
    BY <1>1, <1>2, ThresholdAssumption
  <1>5. FlagsOK'
    BY <1>1 DEF IInv, TypeOK, FlagsOK, Logs, Front, inputs, StoresNothing,
                StoredAfterFront, Remaining
  <1>6. NumbersOK'
    BY <1>1, <1>3, <1>4, FrontCount, SeenStep DEF IInv, TypeOK, NumbersOK, StoresNothing
  <1>7. TimerBelow'
    BY <1>1, <1>2, ThresholdAssumption DEF TimerBelow, HasLimit
  <1>8. Lit'
    <2> SUFFICES ASSUME since' <= LongNo
                 PROVE  long' /\ LongNo <= timer' + since'
      BY DEF Lit
    <2>1. since' = since + 1 /\ since + 1 <= LongNo
      BY <1>3
    <2>2. long /\ LongNo <= timer + since
      BY <2>1, <1>2, ThresholdAssumption DEF IInv, Lit
    <2>3. LongNo <= timer' + since'
      BY <2>1, <2>2, <1>1, <1>2, ThresholdAssumption
    <2> QED
      BY <2>2, <2>3, <1>1
  <1>9. Sampled'
    <2> SUFFICES ASSUME NEW c \in candidates'
                 PROVE  /\ 1 <= seen'[c]
                        /\ seen'[c] = SeenMax
                           \/ timer' + 2 <= NoLimit(long') + seen'[c]
      BY DEF Sampled
    <2>1. c \in candidates /\ c \in new
      BY <1>1 DEF Remaining
    <2>2. /\ c \in Codes /\ 1 <= seen'[c]
          /\ seen'[c] = SeenMax \/ seen'[c] = seen[c] + 1
          /\ seen[c] = SeenMax => seen'[c] = SeenMax
      BY <1>1, <2>1, SeenStep DEF IInv, TypeOK
    <2>3. seen[c] \in Nat
      BY <2>2, ThresholdAssumption DEF IInv, TypeOK, NumbersOK
    <2>4. seen[c] = SeenMax \/ timer + 2 <= NoLimit(long) + seen[c]
      BY <2>1 DEF IInv, Sampled
    <2>5. NoLimit(long') = NoLimit(long)
      BY <1>1
    <2> QED
      BY <1>1, <1>2, <2>2, <2>3, <2>4, <2>5
  <1> QED
    BY <1>1, <1>5, <1>6, <1>7, <1>8, <1>9 DEF IInv, TypeOK, IdleTimer

\* A store leaves the timer at the long limit, without candidates.
LEMMA StoreKeeps ==
  ASSUME IInv, NEW new \in Reports, StorePass(new)
  PROVE  IInv'
  <1>1. /\ Logs(new) /\ stored' = StoredAfterFront \cup Remaining(new)
        /\ candidates' = {} /\ timer' = LongNo /\ long' = TRUE
        /\ keyOns' = 0 /\ sumOK' = TRUE /\ since' = 0
    BY DEF StorePass
  <1>2. FlagsOK'
    BY <1>1, CodeAssumption
    DEF IInv, TypeOK, FlagsOK, Logs, Front, inputs, StoredAfterFront, Remaining
  <1>3. NumbersOK'
    BY <1>1, SeenStep, ThresholdAssumption DEF IInv, TypeOK, NumbersOK, LongAgo
  <1>4. NoLimit(long') = LongNo
    BY <1>1 DEF NoLimit
  <1>5. TimerBelow' /\ IdleTimer' /\ Lit'
    BY <1>1, <1>4, ThresholdAssumption DEF TimerBelow, IdleTimer, Lit
  <1>6. Sampled'
    BY <1>1 DEF Sampled
  <1> QED
    BY <1>2, <1>3, <1>5, <1>6 DEF IInv, TypeOK

-----------------------------------------------------------------------------
(* The other steps. *)

\* Nothing between two passes touches the timer or the history.
LEMMA BetweenKeeps ==
  ASSUME IInv, Inputs \/ Mode4ErrorReset \/ UNCHANGED vars
  PROVE  IInv'
  <1>1. UNCHANGED <<candidates, keyOns, counted, timer, long, seen, since>>
    BY DEF Inputs, Mode4ErrorReset, retained, vars
  <1>2. FlagsOK'
    BY <1>1 DEF IInv, TypeOK, FlagsOK, Inputs, Mode4ErrorReset, inputs, retained, vars
  <1>3. NumbersOK'
    BY <1>1 DEF IInv, TypeOK, NumbersOK
  <1>4. (TimerBelow /\ IdleTimer /\ Sampled /\ Lit)'
    BY <1>1 DEF IInv, TimerBelow, IdleTimer, Sampled, Lit, NoLimit
  <1> QED
    BY <1>2, <1>3, <1>4 DEF IInv, TypeOK

\* A cleared timer with the short thresholds and no candidates.
LEMMA ClearedHolds ==
  ASSUME candidates' = {}, timer' = 0, long' = FALSE, since' = LongAgo
  PROVE  (TimerBelow /\ IdleTimer /\ Sampled /\ Lit)'
  BY ThresholdAssumption DEF TimerBelow, IdleTimer, Sampled, Lit, NoLimit, LongAgo

\* A power-on starts over.
LEMMA PowerOnKeeps ==
  ASSUME IInv, ClearVolatile,
         (\E lost, badSocket \in BOOLEAN : PowerOn(lost, badSocket))
           \/ (\E fill \in BOOLEAN : PowerOnFactory(fill))
  PROVE  IInv'
  <1>1. (TimerBelow /\ IdleTimer /\ Sampled /\ Lit)'
    BY ClearedHolds DEF ClearVolatile
  <1>2. keyOns' \in 0 .. NoErrorLimit
    BY ThresholdAssumption DEF IInv, TypeOK, NumbersOK, PowerOn, PowerOnFactory
  <1>3. NumbersOK'
    BY <1>2, ThresholdAssumption DEF ClearVolatile, NumbersOK, LongAgo
  <1>4. FlagsOK'
    BY CodeAssumption DEF IInv, TypeOK, FlagsOK, ClearVolatile, PowerOn, PowerOnFactory
  <1> QED
    BY <1>1, <1>3, <1>4 DEF IInv, TypeOK

-----------------------------------------------------------------------------
(* The theorems. *)

\* ecm_reset establishes the invariant.
LEMMA InitHolds == Init => IInv
  <1> SUFFICES ASSUME Init PROVE IInv
    OBVIOUS
  <1>1. FlagsOK
    BY DEF Init, FlagsOK
  <1>2. NumbersOK
    BY ThresholdAssumption DEF Init, NumbersOK, LongAgo
  <1>3. TimerBelow /\ IdleTimer /\ Sampled /\ Lit
    BY ThresholdAssumption
    DEF Init, TimerBelow, IdleTimer, Sampled, Lit, NoLimit, LongAgo
  <1> QED
    BY <1>1, <1>2, <1>3 DEF IInv, TypeOK

\* Every step keeps it.
LEMMA NextKeeps == IInv /\ [Next]_vars => IInv'
  <1> SUFFICES ASSUME IInv, [Next]_vars PROVE IInv'
    OBVIOUS
  <1>1. CASE ServicePass \/ IgnitionOffPass
    BY <1>1, FrontPassKeeps
  <1>2. ASSUME NEW new \in Reports, SamplePass(new) PROVE IInv'
    BY <1>2, SampleKeeps
  <1>3. ASSUME NEW new \in Reports, DropPass(new) PROVE IInv'
    BY <1>3, DropKeeps
  <1>4. ASSUME NEW new \in Reports, CountPass(new) PROVE IInv'
    BY <1>4, CountKeeps
  <1>5. ASSUME NEW new \in Reports, StorePass(new) PROVE IInv'
    BY <1>5, StoreKeeps
  <1>6. CASE Inputs \/ Mode4ErrorReset \/ UNCHANGED vars
    BY <1>6, BetweenKeeps
  <1>7. ASSUME NEW lost \in BOOLEAN, NEW badSocket \in BOOLEAN,
               PowerOn(lost, badSocket)
        PROVE IInv'
    BY <1>7, PowerOnKeeps DEF PowerOn
  <1>8. ASSUME NEW fill \in BOOLEAN, PowerOnFactory(fill) PROVE IInv'
    BY <1>8, PowerOnKeeps DEF PowerOnFactory
  <1> QED
    BY <1>1, <1>2, <1>3, <1>4, <1>5, <1>6, <1>7, <1>8 DEF Next, SegmentD

\* The invariant of the logger, which segment D and the power-ons keep.
THEOREM Invariance == Spec => []IInv
  BY InitHolds, NextKeeps, PTL DEF Spec

\* Types, for every set of codes and of thresholds.
THEOREM TypeCorrect == Spec => []TypeOK
  <1>1. IInv => TypeOK
    BY DEF IInv
  <1> QED
    BY <1>1, Invariance, PTL

\* A stored code keeps the lamp's reason for the next LongNo logging passes.
THEOREM LampStaysLit == Spec => []LampHolds
  <1>1. IInv => LampHolds
    BY DEF IInv, Lit, LampHolds
  <1> QED
    BY <1>1, Invariance, PTL

\* A candidate that gets stored has been reported long enough.
LEMMA StoreNeedsReports ==
  ASSUME IInv, NEW new \in Reports, StorePass(new), NEW c \in Remaining(new)
  PROVE  seen'[c] >= Persistent
  <1>1. /\ timer \in Nat /\ NoLimit(long) \in Nat /\ HasLimit(long) \in Nat
        /\ HasLimit(long) - NoLimit(long) + 2 <= SeenMax
    BY LimitFact, ThresholdAssumption DEF IInv, TypeOK, FlagsOK, NumbersOK
  <1>2. c \in candidates /\ c \in new /\ Logs(new) /\ HasLimit(long) <= timer + 1
    BY DEF Remaining, StorePass
  <1>3. /\ c \in Codes
        /\ seen'[c] = SeenMax \/ seen'[c] = seen[c] + 1
        /\ seen[c] = SeenMax => seen'[c] = SeenMax
    BY <1>2, SeenStep DEF IInv, TypeOK
  <1>4. seen[c] \in Nat /\ SeenMax \in Nat
    BY <1>3, ThresholdAssumption DEF IInv, TypeOK, NumbersOK
  <1>5. seen[c] = SeenMax \/ timer + 2 <= NoLimit(long) + seen[c]
    BY <1>2 DEF IInv, Sampled
  <1> QED
    BY <1>1, <1>2, <1>3, <1>4, <1>5 DEF Persistent

\* No intermittent error is stored, whatever the candidates did meanwhile.
THEOREM OnlyPersistentStored == Spec => StoredWasPersistent
  <1>1. ASSUME IInv, [Next]_vars
        PROVE  [\A c \in (stored' \ stored) \ {Err51} :
                   factory' \/ seen'[c] >= Persistent]_vars
    <2> SUFFICES ASSUME Next, NEW c \in (stored' \ stored) \ {Err51}, ~factory'
                 PROVE  seen'[c] >= Persistent
      BY <1>1
    <2>1. ASSUME NEW new \in Reports, StorePass(new)
          PROVE  seen'[c] >= Persistent
      BY <1>1, <2>1, StoreNeedsReports DEF StorePass, StoredAfterFront
    <2>2. ASSUME NEW new \in Reports,
                 SamplePass(new) \/ DropPass(new) \/ CountPass(new)
          PROVE  FALSE
      BY <2>2 DEF SamplePass, DropPass, CountPass, StoresNothing, StoredAfterFront
    <2>3. ~ServicePass /\ ~IgnitionOffPass /\ ~Inputs /\ ~Mode4ErrorReset
      BY DEF ServicePass, IgnitionOffPass, FrontOnly, StoredAfterFront, Inputs,
             retained, Mode4ErrorReset
    <2>4. ASSUME NEW lost \in BOOLEAN, NEW badSocket \in BOOLEAN,
                 PowerOn(lost, badSocket)
          PROVE FALSE
      BY <2>4 DEF PowerOn
    <2>5. ASSUME NEW fill \in BOOLEAN, PowerOnFactory(fill) PROVE FALSE
      BY <2>5 DEF PowerOnFactory
    <2> QED
      BY <2>1, <2>2, <2>3, <2>4, <2>5 DEF Next, SegmentD
  <1> QED
    BY <1>1, Invariance, PTL DEF Spec, StoredWasPersistent

\* The checksum, once right, stays right while the scheduler runs.
THEOREM ChecksumIsKept == Spec => ChecksumStays
  <1>1. [Next]_vars => [sumOK /\ ~factory' => sumOK']_vars
    <2> SUFFICES ASSUME Next, sumOK, ~factory' PROVE sumOK'
      OBVIOUS
    <2>1. CASE SegmentD
      BY <2>1 DEF SegmentD, ServicePass, IgnitionOffPass, FrontOnly, SamplePass,
                  DropPass, CountPass, StorePass, StoresNothing
    <2>2. CASE Inputs \/ Mode4ErrorReset
      BY <2>2 DEF Inputs, retained, Mode4ErrorReset
    <2>3. CASE \/ \E lost, badSocket \in BOOLEAN : PowerOn(lost, badSocket)
               \/ \E fill \in BOOLEAN : PowerOnFactory(fill)
      BY <2>3 DEF PowerOn, PowerOnFactory
    <2> QED
      BY <2>1, <2>2, <2>3 DEF Next
  <1> QED
    BY <1>1, PTL DEF Spec, ChecksumStays

\* Only lasting errors are stored, and never without the checksum.
THEOREM StoringIsSound == Spec => StoredSoundly
  BY OnlyPersistentStored, ChecksumIsKept, PTL DEF StoredSoundly

-----------------------------------------------------------------------------
(* Progress: how many more passes that all report a code can go by before it
   is stored.  The fairness of PersistentIsStored only has to supply them. *)

More(a, b) == IF a >= b THEN a ELSE b

\* What the timer may still need once a code outside the candidates joins them.
Detour == More(ShortHas - ShortNo, LongHas - LongNo) + 2

\* A candidate waits for the timer; without candidates the next pass samples the
\* code; other candidates first have to be stored or dropped.
PassesLeft(c) ==
  IF c \in candidates THEN HasLimit(long) - timer
  ELSE IF candidates # {} THEN HasLimit(long) - timer + Detour
  ELSE IF timer = 0 THEN ShortHas + 1
  ELSE HasLimit(long) - timer + 2

LogPass(new) ==
  SamplePass(new) \/ DropPass(new) \/ CountPass(new) \/ StorePass(new)

LEMMA DetourFact ==
  /\ Detour \in Nat
  /\ \A l \in BOOLEAN : HasLimit(l) - NoLimit(l) + 2 <= Detour
  /\ 3 <= Detour
  BY ThresholdAssumption DEF Detour, More, HasLimit, NoLimit

LEMMA PassesBounded ==
  ASSUME IInv, NEW c \in Enabled
  PROVE  PassesLeft(c) \in 1 .. LongHas + Detour
  <1>1. /\ long \in BOOLEAN /\ timer \in Nat /\ timer < LongHas
        /\ long \/ timer < ShortHas
    BY ThresholdAssumption
    DEF IInv, TypeOK, FlagsOK, NumbersOK, TimerBelow
  <1>2. /\ HasLimit(long) \in Nat /\ timer < HasLimit(long)
        /\ HasLimit(long) <= LongHas
    BY <1>1, ThresholdAssumption DEF HasLimit
  <1>3. ShortHas + 1 \in 1 .. LongHas + Detour
    BY DetourFact, ThresholdAssumption
  <1> QED
    BY <1>1, <1>2, <1>3, DetourFact, ThresholdAssumption DEF PassesLeft

LEMMA SampleAdvances ==
  ASSUME IInv, NEW new \in Reports, SamplePass(new), NEW c \in new \cap Enabled
  PROVE  PassesLeft(c)' < PassesLeft(c)
  <1>1. /\ long \in BOOLEAN /\ timer \in Nat
        /\ HasLimit(long) \in Nat /\ HasLimit(FALSE) = ShortHas /\ ShortHas \in Nat
    BY ThresholdAssumption
    DEF IInv, TypeOK, FlagsOK, NumbersOK, HasLimit
  <1>2. candidates = {} /\ c \notin candidates /\ c \in candidates'
    BY DEF SamplePass
  <1>3. PassesLeft(c)' = HasLimit(long') - timer'
    BY <1>2 DEF PassesLeft, HasLimit
  <1>4. CASE timer = 0
    <2>1. long' = FALSE /\ timer' = 0
      BY <1>4 DEF SamplePass
    <2>2. HasLimit(long') = ShortHas
      BY <1>1, <2>1
    <2>3. PassesLeft(c)' = ShortHas /\ PassesLeft(c) = ShortHas + 1
      BY <1>1, <1>2, <1>3, <1>4, <2>1, <2>2 DEF PassesLeft
    <2> QED
      BY <1>1, <2>3
  <1>5. CASE timer # 0
    <2>1. long' = long /\ timer' = timer - 1
      BY <1>5 DEF SamplePass
    <2> QED
      BY <1>1, <1>2, <1>3, <1>5, <2>1 DEF PassesLeft
  <1> QED
    BY <1>4, <1>5

LEMMA DropAdvances ==
  ASSUME IInv, NEW new \in Reports, DropPass(new), NEW c \in new \cap Enabled
  PROVE  PassesLeft(c)' < PassesLeft(c)
  <1>1. /\ long \in BOOLEAN /\ timer \in Nat
        /\ NoLimit(long) \in Nat \ {0} /\ HasLimit(long) \in Nat
        /\ timer < HasLimit(long)
    BY ThresholdAssumption
    DEF IInv, TypeOK, FlagsOK, NumbersOK, TimerBelow, HasLimit, NoLimit
  <1>2. candidates # {} /\ c \notin candidates /\ candidates' = {}
    BY DEF DropPass, Remaining
  <1>3. long' = long /\ timer' = Least(timer + 1, NoLimit(long))
    BY DEF DropPass
  <1>4. timer' \in Nat \ {0} /\ (timer' = timer + 1 \/ timer' = NoLimit(long))
    BY <1>1, <1>3 DEF Least
  <1>5. HasLimit(long') = HasLimit(long)
    BY <1>3
  <1>6. PassesLeft(c)' = HasLimit(long) - timer' + 2
    BY <1>2, <1>4, <1>5 DEF PassesLeft, HasLimit
  <1>7. PassesLeft(c) = HasLimit(long) - timer + Detour
    BY <1>2 DEF PassesLeft
  <1>8. HasLimit(long) - NoLimit(long) + 2 <= Detour /\ 3 <= Detour /\ Detour \in Nat
    BY <1>1, DetourFact
  <1> QED
    BY <1>1, <1>4, <1>6, <1>7, <1>8

LEMMA CountAdvances ==
  ASSUME IInv, NEW new \in Reports, CountPass(new), NEW c \in new \cap Enabled
  PROVE  PassesLeft(c)' < PassesLeft(c)
  <1>1. /\ long \in BOOLEAN /\ timer \in Nat /\ HasLimit(long) \in Nat
    BY ThresholdAssumption
    DEF IInv, TypeOK, FlagsOK, NumbersOK, HasLimit
  <1>2. /\ candidates # {} /\ candidates' # {}
        /\ c \in candidates <=> c \in candidates'
        /\ timer' = timer + 1 /\ long' = long
    BY DEF CountPass, Remaining
  <1>3. HasLimit(long') = HasLimit(long)
    BY <1>2
  <1>4. CASE c \in candidates
    BY <1>1, <1>2, <1>3, <1>4 DEF PassesLeft, HasLimit
  <1>5. CASE c \notin candidates
    <2>1. /\ PassesLeft(c) = HasLimit(long) - timer + Detour
          /\ PassesLeft(c)' = HasLimit(long) - (timer + 1) + Detour
      BY <1>2, <1>3, <1>5 DEF PassesLeft, HasLimit, Detour
    <2> QED
      BY <1>1, <2>1, DetourFact
  <1> QED
    BY <1>4, <1>5

LEMMA StoreAdvances ==
  ASSUME IInv, NEW new \in Reports, StorePass(new), NEW c \in new \cap Enabled
  PROVE  c \in stored' \/ PassesLeft(c)' < PassesLeft(c)
  <1>1. CASE c \in candidates
    BY <1>1 DEF StorePass, Remaining
  <1>2. CASE c \notin candidates
    <2>1. /\ candidates # {} /\ candidates' = {} /\ timer' = LongNo /\ long' = TRUE
      BY DEF StorePass, Remaining
    <2>2. /\ timer \in Nat /\ timer < HasLimit(long) /\ HasLimit(long) \in Nat
          /\ LongNo \in Nat \ {0} /\ HasLimit(TRUE) = LongHas /\ LongHas \in Nat
      BY ThresholdAssumption
      DEF IInv, TypeOK, FlagsOK, NumbersOK, TimerBelow, HasLimit
    <2>3. PassesLeft(c)' = LongHas - LongNo + 2
      BY <2>1, <2>2 DEF PassesLeft, HasLimit
    <2>4. PassesLeft(c) = HasLimit(long) - timer + Detour
      BY <1>2, <2>1 DEF PassesLeft
    <2>5. LongHas - LongNo + 2 <= Detour /\ Detour \in Nat
      BY DetourFact DEF HasLimit, NoLimit
    <2> QED
      BY <2>2, <2>3, <2>4, <2>5
  <1> QED
    BY <1>1, <1>2

\* Between passes nothing sets a code back.
LEMMA BetweenLeaves ==
  ASSUME Inputs \/ Mode4ErrorReset \/ IgnitionOffPass, NEW c
  PROVE  PassesLeft(c)' = PassesLeft(c)
  <1>1. UNCHANGED <<candidates, timer, long>>
    BY DEF Inputs, Mode4ErrorReset, IgnitionOffPass, FrontOnly
  <1> QED
    BY <1>1 DEF PassesLeft, HasLimit, Detour

\* The safety half of PersistentIsStored: of a code that is enabled and reported
\* every pass stores it or leaves fewer passes before it is stored, whatever else
\* is sampled, dropped, counted or stored; the inputs, an error reset and passes
\* with the ignition off set nothing back.  So at most LongHas + Detour passes in a
\* row (162 as calibrated, 16.2 s) go by before a persistent error is stored.
THEOREM EveryReportCounts ==
  Spec => [][\A c \in Enabled :
               /\ PassesLeft(c) \in 1 .. LongHas + Detour
               /\ \A new \in Reports :
                    LogPass(new) /\ c \in new
                      => c \in stored' \/ PassesLeft(c)' < PassesLeft(c)
               /\ Inputs \/ Mode4ErrorReset \/ IgnitionOffPass
                    => PassesLeft(c)' = PassesLeft(c)]_vars
  <1> DEFINE Counts(c) ==
        /\ PassesLeft(c) \in 1 .. LongHas + Detour
        /\ \A new \in Reports :
             LogPass(new) /\ c \in new
               => c \in stored' \/ PassesLeft(c)' < PassesLeft(c)
        /\ Inputs \/ Mode4ErrorReset \/ IgnitionOffPass
             => PassesLeft(c)' = PassesLeft(c)
  <1>1. ASSUME IInv PROVE [\A c \in Enabled : Counts(c)]_vars
    <2> SUFFICES ASSUME NEW c \in Enabled PROVE Counts(c)
      OBVIOUS
    <2>1. PassesLeft(c) \in 1 .. LongHas + Detour
      BY <1>1, PassesBounded
    <2>2. ASSUME NEW new \in Reports, LogPass(new), c \in new
          PROVE  c \in stored' \/ PassesLeft(c)' < PassesLeft(c)
      BY <1>1, <2>2, SampleAdvances, DropAdvances, CountAdvances, StoreAdvances
      DEF LogPass
    <2>3. Inputs \/ Mode4ErrorReset \/ IgnitionOffPass
            => PassesLeft(c)' = PassesLeft(c)
      BY BetweenLeaves
    <2> QED
      BY <2>1, <2>2, <2>3
  <1> QED
    BY <1>1, Invariance, PTL

-----------------------------------------------------------------------------
(* The flasher: its inductive invariant. *)

\* What is left of a digit and what has been blinked of it make the digit.
Digits ==
  active =>
    /\ index \in Indexes
    /\ tens + blinks[1] = ((index - 1) \div 6) + 1
    /\ units + blinks[2] = ((index - 1) % 6) + 1
    /\ second => tens = 0

\* The codes below the one displayed are done, those above not begun.
Displays ==
  active =>
    /\ played[index] = 2 - repeats
    /\ \A c \in Indexes :
         c < index /\ (c = First \/ c \in errors \cap Masked) => played[c] = 3
    /\ \A c \in Indexes : index < c => played[c] = 0

\* A reload of the word comes between two indexes.
ReloadIn(b, c) == \E g \in Groups : b < g /\ g <= c

\* Up to the next reload the word holds every code that is stored, and none
\* that was not listed.
Words ==
  active =>
    /\ errors \subseteq listed
    /\ index = First \/ index \in listed \cap Masked
    /\ \A c \in word : c \in listed \cap Masked \/ ReloadIn(index, c)
    /\ \A c \in errors \cap Masked :
         index < c /\ ~ReloadIn(index, c) => c \in word

FlashIInv == FlashTypeOK /\ Digits /\ Displays /\ Words

-----------------------------------------------------------------------------
(* The scan. *)

\* An index and its two digits determine each other.
LEMMA DigitsOfIndex ==
  ASSUME NEW c \in Indexes
  PROVE  /\ ((c - 1) \div 6) + 1 \in 1 .. 6 /\ ((c - 1) % 6) + 1 \in 1 .. 6
         /\ c = 6 * ((c - 1) \div 6) + ((c - 1) % 6) + 1
  BY DEF Indexes, First, Last

\* If the scan from $00BB has passed a reload, one is within the last eight.
LEMMA LoadsFact ==
  ASSUME index \in Indexes, NEW b \in index + 1 .. Last
  PROVE  ReloadIn(index, b) <=> Loads(b) # {}
  BY DEF ReloadIn, Loads, Groups, Indexes, First, Last

\* What the word at hand lets out at an index was listed, or comes from below
\* a reload that is still to be made.
LEMMA AtHandSound ==
  ASSUME FlashIInv, active, NEW b \in index + 1 .. Last, NEW c \in AtHand(b), b <= c
  PROVE  c \in listed \cap Masked \/ ReloadIn(b, c)
  <1>1. index \in Indexes /\ errors \subseteq listed /\ word \subseteq Int
    BY DEF FlashIInv, FlashTypeOK, ScanOK, Digits, Words
  <1>2. CASE c \in Carried(b)
    <2>1. PICK d \in index + 1 .. b - 1 :
            c = d + 8 /\ Carry(d) /\ \A g \in Loads(b) : g <= d
      BY <1>2 DEF Carried
    <2>2. PICK g \in Groups : d < g /\ g <= d + 8
      BY <2>1, <1>1 DEF Carry, Groups, Indexes, First, Last
    <2>3. g > b
      BY <2>1, <2>2, <1>1 DEF Loads, Groups, Indexes, First, Last
    <2> QED
      BY <2>1, <2>2, <2>3 DEF ReloadIn
  <1>3. CASE Loads(b) = {} /\ c \in word
    <2>1. ~ReloadIn(index, b)
      BY <1>1, <1>3, LoadsFact
    <2>2. c \in listed \cap Masked \/ ReloadIn(index, c)
      BY <1>3 DEF FlashIInv, Words
    <2> QED
      BY <2>1, <2>2, <1>1 DEF ReloadIn, Groups, Indexes, First, Last
  <1>4. CASE \E g \in Loads(b) : c \in WordAt(g)
    BY <1>4, <1>1 DEF WordAt
  <1> QED
    BY <1>2, <1>3, <1>4 DEF AtHand

\* A stored code is let out at its index: no reload comes between the look at
\* an index and the next one without bringing it.
LEMMA AtHandComplete ==
  ASSUME FlashIInv, active, NEW b \in index + 1 .. Last,
         NEW c \in errors \cap Masked, b <= c, ~ReloadIn(b, c)
  PROVE  c \in AtHand(b)
  <1>1. index \in Indexes /\ c \in Indexes
    BY FlashCodeAssumption DEF FlashIInv, Digits
  <1>2. CASE Loads(b) = {}
    <2>1. ~ReloadIn(index, b)
      BY <1>1, <1>2, LoadsFact
    <2>2. ~ReloadIn(index, c) /\ index < c
      BY <2>1, <1>1 DEF ReloadIn, Groups, Indexes, First, Last
    <2>3. c \in word
      BY <2>2 DEF FlashIInv, Words
    <2> QED
      BY <2>3, <1>2 DEF AtHand
  <1>3. CASE Loads(b) # {}
    <2>1. PICK g \in Loads(b) : TRUE
      BY <1>3
    <2>2. g <= c /\ c <= g + 7
      BY <2>1, <1>1 DEF Loads, ReloadIn, Groups, Indexes, First, Last
    <2>3. c \in WordAt(g)
      BY <2>2 DEF WordAt
    <2> QED
      BY <2>1, <2>3, <1>3 DEF AtHand
  <1> QED
    BY <1>2, <1>3

\* Every stored code above the one displayed is found.
LEMMA StoredFollows ==
  ASSUME FlashIInv, active, NEW c \in errors \cap Masked, index < c
  PROVE  c \in Following
  <1>1. index \in Indexes /\ c \in Indexes
    BY FlashCodeAssumption DEF FlashIInv, Digits
  <1>2. c \in index + 1 .. Last /\ ~ReloadIn(c, c)
    BY <1>1 DEF ReloadIn, Groups, Indexes, First, Last
  <1> QED
    BY <1>1, <1>2, AtHandComplete DEF Following

\* What is found was listed.
LEMMA FollowingListed ==
  ASSUME FlashIInv, active, NEW c \in Following
  PROVE  c \in Indexes /\ index < c /\ c \in listed \cap Masked
  <1>1. index \in Indexes
    BY DEF FlashIInv, Digits
  <1>2. c \in index + 1 .. Last /\ c \in AtHand(c)
    BY DEF Following
  <1>3. c \in Indexes /\ index < c /\ ~ReloadIn(c, c)
    BY <1>1, <1>2 DEF ReloadIn, Groups, Indexes, First, Last
  <1> QED
    BY <1>2, <1>3, AtHandSound

\* The eight bits of the word at hand.
LEMMA AtHandRange ==
  ASSUME FlashIInv, active, NEW b \in index + 1 .. Last, NEW c \in AtHand(b)
  PROVE  c \in Int /\ c <= b + 7
  <1>1. index \in Indexes /\ word \subseteq index + 1 .. index + 8 /\ Masked \subseteq Indexes
    BY FlashCodeAssumption DEF FlashIInv, FlashTypeOK, ScanOK, Digits
  <1>2. CASE c \in Carried(b)
    BY <1>1, <1>2 DEF Carried, Indexes, First, Last
  <1>3. CASE c \in word
    BY <1>1, <1>3 DEF Indexes, First, Last
  <1>4. CASE \E g \in Loads(b) : c \in WordAt(g)
    <2>1. PICK g \in Loads(b) : c \in WordAt(g)
      BY <1>4
    <2>2. g \in Groups /\ g <= b
      BY <2>1 DEF Loads
    <2>3. c \in Indexes /\ c <= g + 7
      BY <1>1, <2>1 DEF WordAt
    <2> QED
      BY <1>1, <2>2, <2>3 DEF Groups, Indexes, First, Last
  <1> QED
    BY <1>2, <1>3, <1>4 DEF AtHand

-----------------------------------------------------------------------------
(* Passes of the flasher. *)

\* A display begun is typed and owes each digit all of its blinks.
LEMMA ShowKeeps ==
  ASSUME FlashIInv, Service, NEW code \in Indexes, NEW more \in 0 .. 2, Show(code, more),
         word' \subseteq code + 1 .. code + 8, HistoryOK'
  PROVE  FlashTypeOK' /\ Digits'
  <1>1. ((code - 1) \div 6) + 1 \in 1 .. 6 /\ ((code - 1) % 6) + 1 \in 1 .. 6
    BY DigitsOfIndex
  <1>2. ControlOK'
    BY DEF FlashIInv, FlashTypeOK, ControlOK, Service, Show
  <1>3. Blank \in 1 .. Byte - 1
    BY CadenceAssumption DEF Byte
  <1>4. ScanOK'
    BY <1>1, <1>3, CadenceAssumption DEF Show, ScanOK
  <1>5. Digits'
    BY <1>1 DEF Show, Digits, NoBlinks
  <1> QED
    BY <1>2, <1>4, <1>5 DEF FlashTypeOK

\* A new sequence begins with code 12, and everything stored is to come.
LEMMA FlashBeginsKeeps ==
  ASSUME FlashIInv, FlashBegins
  PROVE  FlashIInv'
  <1>1. /\ Service /\ Show(First, 2) /\ errors' = errors
        /\ word' = WordAt(First) \ {First}
        /\ listed' = errors /\ played' = NotPlayed
    BY DEF FlashBegins, Service
  <1>2. errors \subseteq Errors /\ errors \subseteq Indexes
    BY FlashCodeAssumption DEF FlashIInv, FlashTypeOK, ControlOK
  <1>3. \A c \in word' : c \in errors \cap Masked /\ c \in First + 1 .. First + 7
    BY <1>1, <1>2 DEF WordAt, Indexes, First, Last
  <1>4. HistoryOK'
    BY <1>1, <1>2 DEF HistoryOK, Show, NotPlayed, NoBlinks
  <1>5. FlashTypeOK' /\ Digits'
    <2>1. word' \subseteq First + 1 .. First + 8
      BY <1>3 DEF First
    <2> QED
      BY <1>1, <1>4, <2>1, ShowKeeps DEF Indexes, First, Last
  <1>6. Displays'
    BY <1>1 DEF Displays, Show, NotPlayed, Indexes, First, Last
  <1>7. Words'
    <2>1. \A c \in errors \cap Masked : First < c /\ ~ReloadIn(First, c) => c \in word'
      BY <1>1, <1>2 DEF WordAt, ReloadIn, Groups, Indexes, First, Last
    <2>2. index' = First
      BY <1>1 DEF Show
    <2> QED
      BY <1>1, <1>3, <2>1, <2>2 DEF Words
  <1> QED
    BY <1>5, <1>6, <1>7 DEF FlashIInv

\* The count is never left at zero, so it cannot wrap.
LEMMA FlashWaitsKeeps ==
  ASSUME FlashIInv, FlashWaits
  PROVE  FlashIInv'
  <1>1. /\ cadence \in 1 .. Blank /\ cadence # 1 /\ Blank \in 0 .. Byte - 1
        /\ active
    BY CadenceAssumption DEF FlashIInv, FlashTypeOK, ScanOK, FlashWaits, Byte
  <1>2. cadence' = cadence - 1
    BY <1>1 DEF FlashWaits, Byte
  <1>3. UNCHANGED <<grounded, turning, errors, control, digits, scan, history>>
    BY DEF FlashWaits, Service
  <1>4. cadence' \in 1 .. Blank /\ cadence' \in 0 .. Byte - 1
    BY <1>1, <1>2 DEF Byte
  <1>5. FlashTypeOK'
    BY <1>3, <1>4
    DEF FlashIInv, FlashTypeOK, ControlOK, ScanOK, HistoryOK, control, digits, scan, history
  <1>6. Digits' /\ Displays' /\ Words'
    BY <1>3 DEF FlashIInv, Digits, Displays, Words, ReloadIn, control, digits, scan, history
  <1> QED
    BY <1>5, <1>6 DEF FlashIInv

\* The blinks and the pauses of a display move blinks from the digits to the
\* history and touch nothing else.
LEMMA BlinksKeep ==
  ASSUME FlashIInv,
         LampGoesOff \/ FirstDigitBlinks \/ FirstDigitEnds \/ SecondDigitBlinks
  PROVE  FlashIInv'
  <1>1. UNCHANGED <<grounded, turning, errors, active, repeats, scan, listed, played>>
    BY DEF LampGoesOff, FirstDigitBlinks, FirstDigitEnds, SecondDigitBlinks,
           Due, Service, digits, scan, history
  <1>2. active /\ cadence' \in {Blink, Gap} /\ cadence' \in 1 .. Blank
    BY CadenceAssumption
    DEF LampGoesOff, FirstDigitBlinks, FirstDigitEnds, SecondDigitBlinks, Due
  <1>3. cadence' \in 0 .. Byte - 1
    BY <1>2, CadenceAssumption DEF Byte
  <1>4. Displays' /\ Words'
    BY <1>1 DEF FlashIInv, Displays, Words, ReloadIn, scan
  <1>5. /\ tens \in 0 .. 6 /\ units \in 0 .. 6 /\ index \in Indexes
        /\ blinks \in (0 .. 6) \X (0 .. 6)
        /\ tens + blinks[1] \in 1 .. 6 /\ units + blinks[2] \in 1 .. 6
    BY <1>2, DigitsOfIndex DEF FlashIInv, FlashTypeOK, ScanOK, HistoryOK, Digits
  <1>6. /\ tens' \in 0 .. 6 /\ units' \in 0 .. 6 /\ second' \in BOOLEAN /\ lit' \in BOOLEAN
        /\ blinks' \in (0 .. 6) \X (0 .. 6)
        /\ tens' + blinks'[1] = tens + blinks[1]
        /\ units' + blinks'[2] = units + blinks[2]
        /\ second' => tens' = 0
    <2>1. second \in BOOLEAN /\ lit \in BOOLEAN /\ (second => tens = 0)
      BY <1>2 DEF FlashIInv, FlashTypeOK, ControlOK, Digits
    <2>2. CASE LampGoesOff
      BY <2>1, <2>2, <1>5 DEF LampGoesOff, digits, history
    <2>3. CASE FirstDigitBlinks
      BY <2>1, <2>3, <1>5 DEF FirstDigitBlinks
    <2>4. CASE FirstDigitEnds
      BY <2>1, <2>4, <1>5 DEF FirstDigitEnds, digits, history
    <2>5. CASE SecondDigitBlinks
      BY <2>1, <2>5, <1>5 DEF SecondDigitBlinks
    <2> QED
      BY <2>2, <2>3, <2>4, <2>5
  <1>7. FlashTypeOK'
    BY <1>1, <1>2, <1>3, <1>6
    DEF FlashIInv, FlashTypeOK, ControlOK, ScanOK, HistoryOK, scan
  <1>8. Digits'
    BY <1>1, <1>6 DEF FlashIInv, Digits, scan
  <1> QED
    BY <1>4, <1>7, <1>8 DEF FlashIInv

\* The display that ends is counted, and no code gets more than three.
LEMMA DisplayCounted ==
  ASSUME FlashIInv, DisplayEnds
  PROVE  /\ active /\ index \in Indexes /\ repeats \in 0 .. 2
         /\ played' \in [Indexes -> 0 .. 3] /\ played'[index] = 3 - repeats
         /\ \A c \in Indexes : c # index => played'[c] = played[c]
         /\ UNCHANGED <<grounded, turning, errors, listed>>
  BY DEF FlashIInv, FlashTypeOK, ControlOK, HistoryOK, Digits, Displays, DisplayEnds, Due, Service

LEMMA CodeRepeatsKeeps ==
  ASSUME FlashIInv, CodeRepeats
  PROVE  FlashIInv'
  <1>1. /\ DisplayEnds /\ Service /\ repeats # 0
        /\ Show(index, repeats - 1) /\ word' = word
    BY DEF CodeRepeats, DisplayEnds, Due
  <1>2. /\ active /\ index \in Indexes /\ repeats \in 0 .. 2
        /\ played' \in [Indexes -> 0 .. 3] /\ played'[index] = 3 - repeats
        /\ \A c \in Indexes : c # index => played'[c] = played[c]
        /\ UNCHANGED <<grounded, turning, errors, listed>>
    BY <1>1, DisplayCounted
  <1>3. HistoryOK'
    BY <1>1, <1>2 DEF FlashIInv, FlashTypeOK, HistoryOK, Show, NoBlinks
  <1>4. repeats - 1 \in 0 .. 2 /\ index' = index /\ repeats' = repeats - 1
    BY <1>1, <1>2 DEF Show
  <1>5. FlashTypeOK' /\ Digits'
    <2>1. word' \subseteq index + 1 .. index + 8
      BY <1>1 DEF FlashIInv, FlashTypeOK, ScanOK
    <2> QED
      BY <1>1, <1>2, <1>3, <1>4, <2>1, ShowKeeps
  <1>6. Displays'
    BY <1>2, <1>4 DEF FlashIInv, Displays, Indexes, First, Last
  <1>7. Words'
    BY <1>1, <1>2, <1>4 DEF FlashIInv, Words, ReloadIn
  <1> QED
    BY <1>5, <1>6, <1>7 DEF FlashIInv

\* The next code is the first one found, so no stored code is passed over.
LEMMA NextCodeKeeps ==
  ASSUME FlashIInv, NextCode
  PROVE  FlashIInv'
  <1>1. PICK b \in Following : /\ \A d \in Following : b <= d
                               /\ Show(b, 2) /\ word' = Passed(b)
    BY DEF NextCode
  <1>2. DisplayEnds /\ Service /\ repeats = 0
    BY DEF NextCode, DisplayEnds, Due
  <1>3. /\ active /\ index \in Indexes
        /\ played' \in [Indexes -> 0 .. 3] /\ played'[index] = 3
        /\ \A c \in Indexes : c # index => played'[c] = played[c]
        /\ UNCHANGED <<grounded, turning, errors, listed>>
    BY <1>2, DisplayCounted
  <1>4. b \in Indexes /\ index < b /\ b \in listed \cap Masked /\ b \in index + 1 .. Last
    BY <1>3, FollowingListed DEF Following
  <1>5. HistoryOK'
    BY <1>1, <1>3 DEF FlashIInv, FlashTypeOK, HistoryOK, Show, NoBlinks
  <1>6. index' = b /\ repeats' = 2 /\ active' = TRUE
    BY <1>1 DEF Show
  <1>7. word' \subseteq b + 1 .. b + 8
    <2>1. \A c \in AtHand(b) : c \in Int /\ c <= b + 7
      BY <1>3, <1>4, AtHandRange
    <2> QED
      BY <1>1, <1>4, <2>1 DEF Passed, Indexes, First, Last
  <1>8. FlashTypeOK' /\ Digits'
    BY <1>1, <1>2, <1>4, <1>5, <1>7, ShowKeeps
  <1>9. Displays'
    <2>1. \A c \in errors \cap Masked : index < c => b <= c
      BY <1>1, <1>3, StoredFollows
    <2>2. errors \subseteq Indexes
      BY FlashCodeAssumption DEF FlashIInv, FlashTypeOK, ControlOK
    <2>3. \A c \in Indexes :
            c < b /\ (c = First \/ c \in errors \cap Masked) => played'[c] = 3
      BY <1>3, <1>4, <2>1 DEF FlashIInv, Displays, Indexes, First, Last
    <2>4. \A c \in Indexes : b <= c => played'[c] = 0
      BY <1>3, <1>4 DEF FlashIInv, Displays, Indexes, First, Last
    <2> QED
      BY <1>3, <1>4, <1>6, <2>3, <2>4 DEF Displays, Indexes, First, Last
  <1>10. Words'
    <2>1. \A c \in AtHand(b) : b < c => c \in listed \cap Masked \/ ReloadIn(b, c)
      <3>1. \A c \in AtHand(b) : c \in Int
        BY <1>3, <1>4, AtHandRange
      <3> QED
        BY <1>3, <1>4, <3>1, AtHandSound DEF Indexes, First, Last
    <2>2. Carry(b) => ReloadIn(b, b + 8)
      BY <1>4 DEF Carry, ReloadIn, Groups, Indexes, First, Last
    <2>3. \A c \in word' : c \in listed \cap Masked \/ ReloadIn(b, c)
      BY <1>1, <2>1, <2>2 DEF Passed
    <2>4. \A c \in errors \cap Masked : b < c /\ ~ReloadIn(b, c) => c \in word'
      <3>1. errors \subseteq Indexes
        BY FlashCodeAssumption DEF FlashIInv, FlashTypeOK, ControlOK
      <3> QED
        BY <1>1, <1>3, <1>4, <3>1, AtHandComplete DEF Passed, Indexes, First, Last
    <2>5. errors \subseteq listed
      BY <1>3 DEF FlashIInv, Words
    <2> QED
      BY <1>3, <1>4, <1>6, <2>3, <2>4, <2>5 DEF Words, ReloadIn
  <1> QED
    BY <1>8, <1>9, <1>10 DEF FlashIInv

LEMMA FlashEndsKeeps ==
  ASSUME FlashIInv, FlashEnds
  PROVE  FlashIInv'
  <1>1. DisplayEnds
    BY DEF FlashEnds
  <1>2. /\ played' \in [Indexes -> 0 .. 3]
        /\ UNCHANGED <<grounded, turning, errors, listed>>
    BY <1>1, DisplayCounted
  <1>3. ~active' /\ UNCHANGED <<digits, scan, blinks>> /\ cadence' = Last + 1
    BY DEF FlashEnds
  <1>4. ControlOK'
    BY <1>2 DEF FlashEnds, FlashIInv, FlashTypeOK, ControlOK
  <1>5. ScanOK'
    BY <1>3 DEF FlashIInv, FlashTypeOK, ScanOK, digits, scan, Last, Byte
  <1>6. HistoryOK'
    BY <1>2, <1>3 DEF FlashIInv, FlashTypeOK, HistoryOK
  <1> QED
    BY <1>3, <1>4, <1>5, <1>6 DEF FlashIInv, FlashTypeOK, Digits, Displays, Words

-----------------------------------------------------------------------------
(* Everything else. *)

\* Stored codes change only when no sequence is left, or by being cleared.
LEMMA OthersKeep ==
  ASSUME FlashIInv, OtherPass \/ FlashInputs \/ FlashErrorReset \/ FlashPowerOn
  PROVE  FlashIInv'
  <1>1. CASE OtherPass
    <2>1. ~active' /\ UNCHANGED <<grounded, turning, digits, scan, cadence, history>>
      BY <1>1 DEF OtherPass, Dropped
    <2>2. ControlOK'
      <3>1. errors' \subseteq Errors
        BY <1>1 DEF OtherPass, FlashIInv, FlashTypeOK, ControlOK
      <3>2. repeats' \in 0 .. 2
        BY <1>1 DEF OtherPass, Dropped
      <3> QED
        BY <1>1, <2>1, <3>1, <3>2, Zenon DEF OtherPass, Dropped, FlashIInv, FlashTypeOK, ControlOK
    <2>3. FlashTypeOK'
      BY <2>1, <2>2 DEF FlashIInv, FlashTypeOK, ScanOK, HistoryOK, digits, scan, history
    <2> QED
      BY <2>1, <2>3 DEF FlashIInv, Digits, Displays, Words
  <1>2. CASE FlashInputs
    <2>1. UNCHANGED <<errors, control, digits, scan, cadence, history>>
      BY <1>2 DEF FlashInputs
    <2>2. FlashTypeOK'
      BY <1>2, <2>1 DEF FlashInputs, FlashIInv, FlashTypeOK, ControlOK, ScanOK, HistoryOK,
                        control, digits, scan, history
    <2> QED
      BY <2>1, <2>2 DEF FlashIInv, Digits, Displays, Words, ReloadIn,
                        control, digits, scan, history
  <1>3. CASE FlashErrorReset
    <2>1. /\ errors' = {}
          /\ UNCHANGED <<grounded, turning, control, digits, scan, cadence, history>>
      BY <1>3 DEF FlashErrorReset
    <2>2. FlashTypeOK'
      BY <2>1 DEF FlashIInv, FlashTypeOK, ControlOK, ScanOK, HistoryOK,
                  control, digits, scan, history
    <2>3. Digits'
      BY <2>1 DEF FlashIInv, Digits, control, digits, scan, history
    <2>4. Displays' /\ Words'
      BY <2>1 DEF FlashIInv, Displays, Words, ReloadIn, control, scan, history
    <2> QED
      BY <2>2, <2>3, <2>4 DEF FlashIInv
  <1>4. CASE FlashPowerOn
    <2>1. ~active'
      BY <1>4 DEF FlashPowerOn, Dropped
    <2>2. ControlOK'
      <3>1. PICK kept \in {{}, errors}, added \in {{}, {25} \cap Errors} :
              errors' = kept \cup added
        BY <1>4 DEF FlashPowerOn
      <3>2. errors' \subseteq Errors
        BY <3>1 DEF FlashIInv, FlashTypeOK, ControlOK
      <3>3. repeats' \in 0 .. 2
        BY <1>4 DEF FlashPowerOn, Dropped
      <3> QED
        BY <1>4, <3>2, <3>3, Zenon DEF FlashPowerOn, Dropped, ControlOK
    <2>3. ScanOK' /\ HistoryOK'
      BY <1>4 DEF FlashPowerOn, Dropped, FlashIInv, FlashTypeOK, ScanOK, HistoryOK, history, Byte
    <2> QED
      BY <2>1, <2>2, <2>3 DEF FlashIInv, FlashTypeOK, Digits, Displays, Words
  <1> QED
    BY <1>1, <1>2, <1>3, <1>4

-----------------------------------------------------------------------------
(* The theorems. *)

LEMMA Initial == FlashInit => FlashIInv
  <1> SUFFICES ASSUME FlashInit PROVE FlashIInv
    OBVIOUS
  <1>1. ControlOK
    <2>1. repeats \in 0 .. 2
      BY DEF FlashInit
    <2> QED
      BY <2>1, Zenon DEF FlashInit, ControlOK
  <1>2. ScanOK
    BY DEF FlashInit, ScanOK, Byte
  <1>3. HistoryOK
    BY DEF FlashInit, HistoryOK, NotPlayed, NoBlinks
  <1> QED
    BY <1>1, <1>2, <1>3 DEF FlashTypeOK, FlashInit, FlashIInv, Digits, Displays, Words

LEMMA Inductive == FlashIInv /\ [FlashNext]_flashVars => FlashIInv'
  <1> SUFFICES ASSUME FlashIInv, [FlashNext]_flashVars PROVE FlashIInv'
    OBVIOUS
  <1>1. CASE UNCHANGED flashVars
    BY <1>1 DEF flashVars, FlashIInv, FlashTypeOK, ControlOK, ScanOK, HistoryOK, Digits, Displays,
                Words, ReloadIn
  <1>2. CASE FlashPass
    BY <1>2, FlashBeginsKeeps, FlashWaitsKeeps, BlinksKeep, CodeRepeatsKeeps,
       NextCodeKeeps, FlashEndsKeeps DEF FlashPass
  <1> QED
    BY <1>1, <1>2, OthersKeep DEF FlashNext

LEMMA FlashInvariance == FlashSpec => []FlashIInv
  <1> QED
    BY Initial, Inductive, PTL DEF FlashSpec

\* Types hold: a sequence in progress never waits for a wrapped count, and the
\* word at hand is eight bits.
THEOREM FlashTypeCorrect == FlashSpec => []FlashTypeOK
  <1>1. FlashIInv => FlashTypeOK
    BY DEF FlashIInv
  <1> QED
    BY <1>1, FlashInvariance, PTL

\* What has been blinked when a display is over reads as the code displayed.
THEOREM BlinksReadAsCode == FlashSpec => []DisplayReadsAsCode
  <1>1. FlashIInv => DisplayReadsAsCode
    <2> SUFFICES ASSUME FlashIInv, active, second, units = 0
                 PROVE  /\ blinks[2] \in 1 .. 6
                        /\ index = 6 * (blinks[1] - 1) + blinks[2]
      BY DEF DisplayReadsAsCode
    <2>1. /\ index \in Indexes /\ tens = 0 /\ blinks[1] \in 0 .. 6 /\ blinks[2] \in 0 .. 6
          /\ blinks[1] = ((index - 1) \div 6) + 1
          /\ blinks[2] = ((index - 1) % 6) + 1
      BY DEF FlashIInv, FlashTypeOK, HistoryOK, Digits
    <2> QED
      BY <2>1, DigitsOfIndex DEF Indexes, First, Last
  <1> QED
    BY <1>1, FlashInvariance, PTL

\* No code is flashed that was not stored when the sequence began.
THEOREM OnlyListedFlashed == FlashSpec => []NoFalseCode
  <1>1. FlashIInv => NoFalseCode
    BY DEF FlashIInv, Words, NoFalseCode
  <1> QED
    BY <1>1, FlashInvariance, PTL

\* The lamp shows code 12 or a code that was stored, and shows it readably.
THEOREM FlashedIsTrue == FlashSpec => []FlashedTrue
  <1>1. DisplayReadsAsCode /\ NoFalseCode => FlashedTrue
    BY DEF FlashedTrue
  <1> QED
    BY <1>1, BlinksReadAsCode, OnlyListedFlashed, PTL

\* A sequence that ends by itself has shown every code still stored three times.
THEOREM AllShownThreeTimes == FlashSpec => EveryCodeThreeTimes
  <1>1. FlashIInv /\ [FlashNext]_flashVars =>
          [FlashEnds =>
             \A c \in {First} \cup (errors \cap Masked) : played'[c] = 3]_flashVars
    <2> SUFFICES ASSUME FlashIInv, FlashEnds,
                        NEW c \in {First} \cup (errors \cap Masked)
                 PROVE  played'[c] = 3
      OBVIOUS
    <2>1. DisplayEnds /\ repeats = 0 /\ Following = {}
      BY DEF FlashEnds
    <2>2. /\ active /\ index \in Indexes
          /\ played'[index] = 3
          /\ \A d \in Indexes : d # index => played'[d] = played[d]
      BY <2>1, DisplayCounted
    <2>3. c \in Indexes
      BY FlashCodeAssumption DEF Indexes, First, Last
    <2>4. c <= index
      BY <2>1, <2>2, <2>3, StoredFollows DEF Indexes, First, Last
    <2> QED
      BY <2>2, <2>3, <2>4 DEF FlashIInv, Displays, Indexes, First, Last
  <1> QED
    BY <1>1, FlashInvariance, PTL DEF FlashSpec, EveryCodeThreeTimes
=============================================================================
