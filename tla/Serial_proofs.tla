----------------------------- MODULE Serial_proofs ----------------------------
(***************************************************************************)
(* The two protocols of the ALDL connector: the Mode-4 session of the      *)
(* 8192-baud core, for every timeout shorter than a byte and every set of  *)
(* commands, and the 160-baud stream with the factory test, for every      *)
(* length of the tables and of a byte.                                     *)
(***************************************************************************)
EXTENDS Mode4, FactoryStream, TLAPS

-----------------------------------------------------------------------------
(* The Mode-4 session: its inductive invariant. *)

\* While $0151 says Mode 4 the bytes behind it are the last frame's, and the
\* count that will end it is the real time of silence.
Held ==
  mode = 4 =>
    /\ lock /\ last.mode = 4 /\ commands = last.commands
    /\ age = silent /\ silent <= Timeout
    /\ spent => active

\* A Mode-4 frame stops saying so only by its tool's silence.
Released == last.mode = 4 /\ mode # 4 => silent > Timeout

Sessions == (active => lock) /\ (~active => normal)

IInv == TypeOK /\ Held /\ Released /\ Sessions

-----------------------------------------------------------------------------
(* Steps. *)

LEMMA ReceiveKeeps ==
  ASSUME IInv, Receive
  PROVE  IInv'
  <1>1. PICK m \in Modes, c \in SUBSET Commands :
          /\ Accepted(m) /\ commands' \subseteq Commands
          /\ last' = [mode |-> m, commands |-> c]
          /\ m = 4 => commands' = c
    <2>1. CASE \E m \in 0 .. 3 : AcceptOther(m)
      <3>1. PICK m \in 0 .. 3 : AcceptOther(m)
        BY <2>1
      <3>2. m \in Modes /\ m # 4 /\ {} \in SUBSET Commands
        BY DEF Modes
      <3>3. /\ Accepted(m) /\ last' = [mode |-> m, commands |-> {}]
            /\ commands' \subseteq Commands
        BY <3>1 DEF AcceptOther, IInv, TypeOK
      <3> QED
        BY <3>2, <3>3
    <2>2. CASE \E c \in SUBSET Commands : AcceptMode4(c)
      BY <2>2 DEF AcceptMode4, Modes
    <2> QED
      BY <2>1, <2>2 DEF Receive
  <1>2. /\ mode' = m /\ lock' = TRUE /\ age' = 0 /\ silent' = 0 /\ spent' = FALSE
        /\ UNCHANGED <<live, aldl, active, normal>>
    BY <1>1 DEF Accepted
  <1>3. /\ last' \in Frames /\ last'.mode = m /\ last'.commands = c
        /\ age' \in 0 .. Byte - 1 /\ silent' \in 0 .. Timeout + 2
    BY <1>1, <1>2, TimeoutAssumption DEF Frames
  <1>4. TypeOK'
    <2>1. UNCHANGED <<live, aldl, active, normal>> /\ mode' \in Modes /\ commands' \subseteq Commands
      BY <1>1, <1>2
    <2> QED
      BY <1>2, <1>3, <2>1, Zenon DEF IInv, TypeOK
  <1>5. Held' /\ Released'
    BY <1>1, <1>2, <1>3, TimeoutAssumption DEF Held, Released
  <1>6. Sessions'
    BY <1>2 DEF IInv, Sessions
  <1> QED
    BY <1>4, <1>5, <1>6 DEF IInv

\* What a pass and the consumers leave behind, with or without a second.
LEMMA PassFact ==
  ASSUME IInv, Pass, Line, Consumers
  PROVE  /\ UNCHANGED <<live, lock, commands, last>>
         /\ active' \in BOOLEAN /\ spent' \in BOOLEAN /\ normal' \in BOOLEAN
         /\ aldl' \in BOOLEAN
         /\ active' <=> mode = 4
         /\ mode = 4 => lock
         /\ ~active' => normal'
         /\ mode # 4 => UNCHANGED spent
  <1>1. /\ active \in BOOLEAN /\ spent \in BOOLEAN /\ normal \in BOOLEAN /\ aldl \in BOOLEAN
        /\ active => lock
        /\ mode = 4 => lock
    BY DEF IInv, TypeOK, Sessions, Held
  <1>2. UNCHANGED <<live, lock, commands, last>> /\ (~active' => normal')
    BY DEF Consumers
  <1>3. active' \in BOOLEAN /\ spent' \in BOOLEAN
    BY <1>1 DEF Pass, Enters, Exits, Stays
  <1>4. active' <=> mode = 4
    BY <1>1 DEF Pass, Enters, Exits, Stays, Interprets
  <1>5. mode # 4 => UNCHANGED spent
    BY DEF Pass, Enters, Exits, Stays
  <1>6. normal' \in BOOLEAN
    BY <1>1, <1>3, Zenon DEF Consumers
  <1>7. aldl' \in BOOLEAN
    BY <1>1, Zenon DEF Line
  <1> QED
    BY <1>1, <1>2, <1>3, <1>4, <1>5, <1>6, <1>7

LEMMA IrqKeeps ==
  ASSUME IInv, Irq \/ IrqSecond
  PROVE  IInv'
  <1>1. Pass /\ Line /\ Consumers
    BY DEF Irq, IrqSecond
  <1>2. /\ UNCHANGED <<live, lock, commands, last>>
        /\ active' \in BOOLEAN /\ spent' \in BOOLEAN /\ normal' \in BOOLEAN
        /\ aldl' \in BOOLEAN
        /\ active' <=> mode = 4
        /\ mode = 4 => lock
        /\ ~active' => normal'
        /\ mode # 4 => UNCHANGED spent
    BY <1>1, PassFact
  <1>3. /\ mode \in Modes /\ age \in 0 .. Byte - 1 /\ silent \in 0 .. Timeout + 2
        /\ mode = 4 => age = silent /\ silent <= Timeout
    BY DEF IInv, TypeOK, Held
  <1>4. /\ mode' \in Modes /\ age' \in 0 .. Byte - 1 /\ silent' \in 0 .. Timeout + 2
        /\ mode' = 4 => mode = 4 /\ age' = silent' /\ silent' <= Timeout
        /\ mode = 4 /\ mode' # 4 => silent' > Timeout
        /\ silent > Timeout => silent' > Timeout
    <2>1. CASE Irq
      BY <2>1, <1>3 DEF Irq
    <2>2. CASE IrqSecond
      <3>1. /\ age' = (age + 1) % Byte
            /\ mode' = IF age' > Timeout THEN 0 ELSE mode
            /\ silent' = IF silent + 1 < Timeout + 2 THEN silent + 1 ELSE Timeout + 2
        BY <2>2 DEF IrqSecond, Second, SilentFor
      <3>2. age' \in 0 .. Byte - 1 /\ (mode = 4 => age' = age + 1)
        BY <1>3, <3>1, TimeoutAssumption
      <3> QED
        BY <1>3, <3>1, <3>2, TimeoutAssumption DEF Modes
    <2> QED
      BY <2>1, <2>2
  <1>5. TypeOK'
    BY <1>2, <1>4, Zenon DEF IInv, TypeOK
  <1>6. Held'
    BY <1>2, <1>4 DEF IInv, Held
  <1>7. Released'
    BY <1>2, <1>4 DEF IInv, Released
  <1>8. Sessions'
    BY <1>2 DEF Sessions
  <1> QED
    BY <1>5, <1>6, <1>7, <1>8 DEF IInv

LEMMA PowerKeeps ==
  ASSUME IInv, Powerdown \/ PowerOn
  PROVE  IInv'
  <1>1. CASE Powerdown
    <2>1. live' \in BOOLEAN /\ UNCHANGED <<serial, aldl, active, age, history>>
      BY <1>1 DEF Powerdown
    <2>2. TypeOK'
      BY <2>1, Zenon DEF IInv, TypeOK, serial, history
    <2>3. Held' /\ Released' /\ Sessions'
      BY <2>1 DEF IInv, Held, Released, Sessions, serial, history
    <2> QED
      BY <2>2, <2>3 DEF IInv
  <1>2. CASE PowerOn
    <2>1. 0 \in Modes /\ 0 \in 0 .. Byte - 1 /\ 0 \in 0 .. Timeout + 2 /\ 0 # 4
      BY TimeoutAssumption DEF Modes
    <2>2. NoFrame \in Frames /\ NoFrame.mode = 0
      BY <2>1 DEF NoFrame, Frames
    <2>3. TypeOK'
      BY <1>2, <2>1, <2>2, Zenon DEF PowerOn, TypeOK
    <2>4. Held' /\ Released' /\ Sessions'
      BY <1>2, <2>1, <2>2 DEF PowerOn, Held, Released, Sessions
    <2> QED
      BY <2>3, <2>4 DEF IInv
  <1> QED
    BY <1>1, <1>2

-----------------------------------------------------------------------------
(* The theorems. *)

LEMMA Initial == Init => IInv
  <1> SUFFICES ASSUME Init PROVE IInv
    OBVIOUS
  <1>1. 0 \in Modes /\ 0 \in 0 .. Byte - 1 /\ 0 \in 0 .. Timeout + 2 /\ 0 # 4
    BY TimeoutAssumption DEF Modes
  <1>2. NoFrame \in Frames /\ NoFrame.mode = 0
    BY <1>1 DEF NoFrame, Frames
  <1>3. TypeOK
    BY <1>1, <1>2, Zenon DEF Init, TypeOK
  <1>4. Held /\ Released /\ Sessions
    BY <1>1, <1>2 DEF Init, Held, Released, Sessions
  <1> QED
    BY <1>3, <1>4 DEF IInv

LEMMA Inductive == IInv /\ [Next]_vars => IInv'
  <1> SUFFICES ASSUME IInv, [Next]_vars PROVE IInv'
    OBVIOUS
  <1>1. CASE UNCHANGED vars
    BY <1>1 DEF vars, IInv, TypeOK, Held, Released, Sessions
  <1> QED
    BY <1>1, ReceiveKeeps, IrqKeeps, PowerKeeps DEF Next

LEMMA Invariance == Spec => []IInv
  <1> QED
    BY Initial, Inductive, PTL DEF Spec

\* Types hold: the count of the silence stays a byte.
THEOREM TypeCorrect == Spec => []TypeOK
  <1>1. IInv => TypeOK
    BY DEF IInv
  <1> QED
    BY <1>1, Invariance, PTL

\* Overrides are in force only with the bytes of the last accepted frame, in
\* Mode 4, and not longer than a second past the timeout.
THEOREM OverridesAreAttended == Spec => OverridesAttended
  <1>1. IInv /\ [Next]_vars =>
          [(Irq \/ IrqSecond) /\ active' =>
             /\ last.mode = 4 /\ commands = last.commands
             /\ silent' <= Timeout + 1]_vars
    <2> SUFFICES ASSUME IInv, Irq \/ IrqSecond, active'
                 PROVE  /\ last.mode = 4 /\ commands = last.commands
                        /\ silent' <= Timeout + 1
      OBVIOUS
    <2>1. mode = 4
      BY PassFact DEF Irq, IrqSecond
    <2>2. /\ last.mode = 4 /\ commands = last.commands
          /\ silent \in 0 .. Timeout + 2 /\ silent <= Timeout
      BY <2>1 DEF IInv, TypeOK, Held
    <2>3. silent' = silent \/ silent' = SilentFor(silent + 1)
      BY DEF Irq, IrqSecond, Second
    <2> QED
      BY <2>2, <2>3, TimeoutAssumption DEF SilentFor
  <1> QED
    BY <1>1, Invariance, PTL DEF Spec, OverridesAttended

\* Commands are executed once for a frame, with normal operation in between.
THEOREM CommandsRunOnce == Spec => CommandsOnce
  <1>1. IInv /\ [Next]_vars =>
          [(Irq \/ IrqSecond) /\ Enters => ~spent /\ normal]_vars
    BY DEF IInv, Enters, Held, Sessions
  <1> QED
    BY <1>1, Invariance, PTL DEF Spec, CommandsOnce

\* A tool that repeats its frame in time keeps its session.
THEOREM AttendedIsKept == Spec => AttendedStays
  <1>1. IInv /\ [Next]_vars =>
          [active /\ ~active' => last.mode # 4 \/ silent > Timeout \/ PowerOn]_vars
    <2> SUFFICES ASSUME IInv, Next, active, ~active', ~PowerOn, last.mode = 4
                 PROVE  silent > Timeout
      OBVIOUS
    <2>1. Irq \/ IrqSecond
      BY DEF Next, Receive, AcceptOther, AcceptMode4, Accepted, Powerdown
    <2>2. mode # 4
      BY <2>1, PassFact DEF Irq, IrqSecond
    <2> QED
      BY <2>2 DEF IInv, Released
  <1> QED
    BY <1>1, Invariance, PTL DEF Spec, AttendedStays

-----------------------------------------------------------------------------
(* The 160-baud stream: its inductive invariant. *)

\* The table the next byte comes from.
InUse == IF factory THEN testMode ELSE IF diag THEN Diagnostic ELSE Ordinary

\* At index 0 nothing has been sent since the sync or the reset of the stream; at
\* any other index of a table the byte before it is the one in the register: in a
\* factory test of the mode's table, in a frame that was not cut of the table in
\* use.  A change of test mode leaves the index outside, and the frame cut.
Position ==
  /\ index = 0 => sending.kind # "byte"
  /\ index \in 1 .. DiagEnd =>
       \/ index = StartIndex /\ ~factory /\ sending = Silence
       \/ /\ sending.kind = "byte" /\ sending.at = index - 1
          /\ factory => sending.table = testMode
          /\ ~cut => sending.table = InUse
  /\ index = Restart => factory /\ cut

\* The buffered low half is of the reading its high half was sent from.
Halves ==
  factory /\ index \in 1 .. DiagEnd /\ index % 2 = 1 => sending.read = held

StreamIInv == StreamTypeOK /\ Position /\ Halves

\* The part of the type invariant that no cell touches, and the part that the
\* factory interrupt leaves alone unless it changes the mode.
TestOK ==
  /\ factory \in BOOLEAN /\ diag \in BOOLEAN /\ swi \in BOOLEAN
  /\ testMode \in TestModes /\ (testMode # 0 => factory)
  /\ timer \in 0 .. (IF BootTimer > OffLimit THEN BootTimer ELSE OffLimit)
  /\ counter \in 0 .. CounterLimit - 1
  /\ exercised \in BOOLEAN /\ (exercised => testMode % 2 = 1)
  /\ written \in [Tables -> BOOLEAN]
  /\ resets \in 0 .. MaxResets

SendingOK ==
  /\ sending \in {Silence, Sync} \cup
       {ByteOf(t, i, r) : t \in 0 .. 4, i \in 0 .. DiagEnd - 1, r \in BOOLEAN}
  /\ sending.kind = "byte" => sending.at <= LastOf(sending.table)

RegisterOK ==
  /\ index \in 0 .. DiagEnd \cup {Restart} /\ bits \in 0 .. Bits
  /\ held \in BOOLEAN /\ cut \in BOOLEAN
  /\ SendingOK

\* What the two kinds of byte that are not a table's look like.
LEMMA Kinds ==
  /\ Silence.kind = "none" /\ Sync.kind = "sync"
  /\ \A t, i, r : /\ ByteOf(t, i, r).kind = "byte" /\ ByteOf(t, i, r).at = i
                  /\ ByteOf(t, i, r).table = t /\ ByteOf(t, i, r).read = r
BY DEF Silence, Sync, ByteOf

LEMMA Lasts ==
  ASSUME NEW t \in 0 .. 4
  PROVE  LastOf(t) \in 0 .. DiagEnd - 1 \/ LastOf(t) = FactoryEnd - 1
BY StreamAssumption DEF LastOf, Ordinary, Diagnostic

\* The table in use, and which of the three ends is its own.
LEMMA TableInUse ==
  ASSUME TestOK
  PROVE  /\ InUse \in 0 .. 4
         /\ factory /\ testMode \in Tables => InUse \in Tables /\ LastOf(InUse) = FactoryEnd - 1
         /\ ~factory /\ diag => InUse = Diagnostic /\ LastOf(InUse) = DiagEnd - 1
         /\ ~factory /\ ~diag => InUse = Ordinary /\ LastOf(InUse) = NormalLast
BY DEF TestOK, TestModes, Tables, InUse, LastOf, Ordinary, Diagnostic

LEMMA StreamType == StreamTypeOK <=> TestOK /\ RegisterOK
  BY DEF StreamTypeOK, TestOK, RegisterOK, SendingOK

LEMMA StreamInitInv == StreamInit => StreamIInv
<1>1. SUFFICES ASSUME StreamInit PROVE StreamIInv
  OBVIOUS
<1>2. TestOK
  <2>1. counter \in 0 .. CounterLimit - 1 /\ resets \in 0 .. MaxResets
    BY <1>1, TestAssumption DEF StreamInit
  <2>2. timer \in 0 .. (IF BootTimer > OffLimit THEN BootTimer ELSE OffLimit)
    BY <1>1, TestAssumption DEF StreamInit
  <2>3. written \in [Tables -> BOOLEAN]
    BY <1>1 DEF StreamInit
  <2>4. testMode \in TestModes /\ (testMode # 0 => factory)
    BY <1>1 DEF StreamInit, TestModes
  <2>5. QED
    BY <1>1, <2>1, <2>2, <2>3, <2>4, Zenon DEF StreamInit, TestOK
<1>3. RegisterOK
  <2>1. index \in 0 .. DiagEnd \cup {Restart} /\ bits \in 0 .. Bits
    BY <1>1, StreamAssumption DEF StreamInit
  <2>2. SendingOK
    <3>1. sending = Silence /\ Silence.kind = "none"
      BY <1>1, Kinds DEF StreamInit
    <3>2. QED
      BY <3>1 DEF SendingOK
  <2>3. QED
    BY <1>1, <2>1, <2>2, Zenon DEF StreamInit, RegisterOK
<1>4. Position /\ Halves
  <2>1. sending = Silence /\ index = StartIndex /\ factory = FALSE
    BY <1>1 DEF StreamInit
  <2>2. QED
    BY <2>1, Kinds, StreamAssumption DEF Position, Halves
<1>5. QED
  BY <1>2, <1>3, <1>4, StreamType DEF StreamIInv

-----------------------------------------------------------------------------
(* The factory interrupt. *)

LEMMA ExecuteWrites ==
  ASSUME TestOK, NEW m \in TestModes, NEW c \in Nat, Execute(m, c)
  PROVE  /\ exercised' \in BOOLEAN /\ written' \in [Tables -> BOOLEAN]
         /\ exercised' => m % 2 = 1
<1>1. CASE ExecuteIdle(m)
  BY <1>1 DEF ExecuteIdle, AllOff, TestOK
<1>2. CASE ExecuteEven(m)
  BY <1>2 DEF ExecuteEven, AllOff, NvChecksum, TestOK, Tables
<1>3. CASE ExecuteOdd(m, c)
  BY <1>3, TestAssumption DEF ExecuteOdd, Outputs, Sweep, FuelSpark, TestOK, Tables
<1>4. QED
  BY <1>1, <1>2, <1>3 DEF Execute

LEMMA CountedInRange ==
  ASSUME counter \in 0 .. CounterLimit - 1
  PROVE  Counted \in 0 .. CounterLimit - 1
BY TestAssumption DEF Counted

\* Every path of the interrupt: the new mode and count, and what becomes of the
\* stream.
LEMMA FactoryIrqWrites ==
  ASSUME TestOK, FactoryIrq
  PROVE  /\ TestOK' /\ factory /\ factory'
         /\ diag' = diag /\ cut' = (cut \/ testMode' # testMode)
         /\ \/ UNCHANGED stream /\ testMode' = testMode
            \/ /\ index' = Restart /\ bits' = 0 /\ UNCHANGED <<held, sending>>
               /\ testMode' # testMode
<1>0. /\ factory = TRUE /\ UNCHANGED <<factory, diag, resets>>
      /\ cut' = (cut \/ testMode' # testMode)
      /\ Counted \in 0 .. CounterLimit - 1 /\ Counted \in Nat
  BY CountedInRange, TestAssumption DEF FactoryIrq, TestOK
<1> DEFINE Range == 0 .. (IF BootTimer > OffLimit THEN BootTimer ELSE OffLimit)
           Driven == /\ exercised' \in BOOLEAN /\ (exercised' => testMode' % 2 = 1)
                     /\ written' \in [Tables -> BOOLEAN]
           Numbers == /\ swi' \in BOOLEAN /\ testMode' \in TestModes
                      /\ timer' \in Range /\ counter' \in 0 .. CounterLimit - 1
           Streams == \/ UNCHANGED stream /\ testMode' = testMode
                      \/ /\ index' = Restart /\ bits' = 0 /\ UNCHANGED <<held, sending>>
                         /\ testMode' # testMode
<1>1. timer \in Range /\ 0 \in Range /\ (timer < OffLimit => timer + 1 \in Range)
  BY TestAssumption DEF TestOK
<1>2. SUFFICES Numbers /\ Driven /\ Streams
  BY <1>0, Zenon DEF TestOK
<1>3. CASE DiagnosticSwi
  BY <1>1, <1>3 DEF DiagnosticSwi, TestOK
<1>4. CASE PowersDown
  BY <1>0, <1>1, <1>4 DEF PowersDown, TestOK
<1>5. CASE CountsOff \/ Holds
  <2>1. Execute(testMode, Counted) /\ testMode \in TestModes /\ testMode' = testMode
    BY <1>5 DEF CountsOff, Holds, TestOK
  <2>2. Driven
    BY <1>0, <2>1, ExecuteWrites
  <2>3. QED
    BY <1>0, <1>1, <1>5, <2>1, <2>2 DEF CountsOff, Holds, TestOK
<1>6. ASSUME NEW m \in TestModes, Returns(m) PROVE Numbers /\ Driven /\ Streams
  <2>1. /\ timer' = 0 /\ swi' = swi /\ testMode' = m
        /\ Execute(m, 0) \/ Execute(m, Counted)
        /\ counter' = 0 \/ counter' = Counted
        /\ Streams
    BY <1>6 DEF Returns, NewMode
  <2>2. Driven
    BY <1>0, <2>1, ExecuteWrites
  <2>3. Numbers
    BY <1>0, <1>1, <2>1, TestAssumption DEF TestOK
  <2>4. QED
    BY <2>1, <2>2, <2>3
<1>7. QED
  BY <1>3, <1>4, <1>5, <1>6 DEF FactoryIrq

\* The interrupt keeps the place in the frame, or takes the stream out of it.
LEMMA FactoryIrqKeeps ==
  ASSUME StreamIInv, FactoryIrq
  PROVE  StreamIInv'
<1>1. /\ TestOK' /\ factory /\ factory' /\ diag' = diag
      /\ cut' = (cut \/ testMode' # testMode)
      /\ \/ UNCHANGED stream /\ testMode' = testMode
         \/ /\ index' = Restart /\ bits' = 0 /\ UNCHANGED <<held, sending>>
            /\ testMode' # testMode
  BY FactoryIrqWrites, StreamType DEF StreamIInv
<1>2. RegisterOK /\ Position /\ Halves
  BY StreamType DEF StreamIInv
<1>3. CASE UNCHANGED stream /\ testMode' = testMode
  <2>1. UNCHANGED <<index, bits, held, sending, testMode>> /\ cut' = cut
    BY <1>1, <1>2, <1>3 DEF stream, RegisterOK
  <2>2. RegisterOK'
    BY <1>2, <2>1 DEF RegisterOK, SendingOK
  <2>3. Position' /\ Halves'
    BY <1>1, <1>2, <2>1 DEF Position, Halves, InUse
  <2>4. QED
    BY <1>1, <2>2, <2>3 DEF StreamIInv, StreamTypeOK, TestOK, RegisterOK, SendingOK
<1>4. CASE index' = Restart /\ bits' = 0 /\ UNCHANGED <<held, sending>> /\ testMode' # testMode
  <2>1. cut' = TRUE
    BY <1>1, <1>4
  <2>2. RegisterOK'
    BY <1>2, <1>4, <2>1, StreamAssumption DEF RegisterOK, SendingOK
  <2>3. Position' /\ Halves'
    BY <1>1, <1>4, <2>1, StreamAssumption DEF Position, Halves
  <2>4. QED
    BY <1>1, <2>2, <2>3 DEF StreamIInv, StreamTypeOK, TestOK, RegisterOK, SendingOK
<1>5. QED
  BY <1>1, <1>3, <1>4

-----------------------------------------------------------------------------
(* The cells. *)

\* What a load of a byte sends: the entry at the index of the table in use, and
\* at an odd index of a factory table the half buffered with the byte before.
SentInTurn ==
  \E r \in BOOLEAN :
    /\ index \in 0 .. DiagEnd - 1 /\ index <= LastOf(InUse)
    /\ factory => InUse \in Tables
    /\ index' = index + 1 /\ held' \in BOOLEAN
    /\ sending' = ByteOf(InUse, index, r)
    /\ factory /\ index % 2 = 1 => r = held /\ held' = held
    /\ factory /\ index % 2 # 1 => r = held'

\* The synchronising byte, past the end of the table in use.
SyncInTurn ==
  /\ index > LastOf(InUse)
  /\ index' = 0 /\ sending' = Sync /\ held' = held

LEMMA LoadSends ==
  ASSUME StreamIInv, Load
  PROVE  SyncInTurn \/ SentInTurn \/ UNCHANGED <<index, held, sending>>
<1>0. TestOK /\ RegisterOK /\ Position /\ held \in BOOLEAN
  BY StreamType DEF StreamIInv, RegisterOK
<1>1. CASE LoadNormal \/ LoadDiagnostic
  <2>1. ~factory /\ held' = held
    BY <1>1 DEF LoadNormal, LoadDiagnostic
  <2>2. index \in 0 .. DiagEnd
    BY <1>0, <2>1 DEF RegisterOK, Position
  <2>3. CASE LoadNormal
    <3>1. InUse = Ordinary /\ LastOf(InUse) = NormalLast
      BY <1>0, <2>3, TableInUse DEF LoadNormal
    <3>2. CASE index > NormalLast
      BY <2>1, <2>3, <3>1, <3>2 DEF LoadNormal, SendsSync, SyncInTurn
    <3>3. CASE ~(index > NormalLast)
      <4>1. index' = index + 1 /\ sending' = ByteOf(InUse, index, FALSE)
        BY <2>3, <3>1, <3>3 DEF LoadNormal, Sends
      <4>2. index \in 0 .. DiagEnd - 1 /\ index <= LastOf(InUse)
        BY <2>2, <3>1, <3>3, StreamAssumption
      <4>3. QED
        BY <1>0, <2>1, <4>1, <4>2 DEF SentInTurn
    <3>4. QED
      BY <3>2, <3>3
  <2>4. CASE LoadDiagnostic
    <3>1. InUse = Diagnostic /\ LastOf(InUse) = DiagEnd - 1
      BY <1>0, <2>4, TableInUse DEF LoadDiagnostic
    <3>2. CASE index = DiagEnd
      BY <2>1, <2>4, <3>1, <3>2, StreamAssumption DEF LoadDiagnostic, SendsSync, SyncInTurn
    <3>3. CASE index # DiagEnd
      <4>1. index' = index + 1 /\ sending' = ByteOf(InUse, index, FALSE)
        BY <2>4, <3>1, <3>3 DEF LoadDiagnostic, Sends
      <4>2. index \in 0 .. DiagEnd - 1 /\ index <= LastOf(InUse)
        BY <2>2, <3>1, <3>3, StreamAssumption
      <4>3. QED
        BY <1>0, <2>1, <4>1, <4>2 DEF SentInTurn
    <3>4. QED
      BY <3>2, <3>3
  <2>5. QED
    BY <1>1, <2>3, <2>4
<1>2. CASE LoadFactory /\ testMode \in Tables /\ index < FactoryEnd /\ FactoryByte
  <2>1. /\ factory /\ index \in 0 .. DiagEnd - 1 /\ written[testMode] \in BOOLEAN
        /\ InUse = testMode /\ InUse \in Tables /\ index <= LastOf(InUse)
    BY <1>0, <1>2, TableInUse, StreamAssumption DEF LoadFactory, TestOK, RegisterOK, InUse
  <2>2. CASE index % 2 = 1
    BY <1>0, <1>2, <2>1, <2>2 DEF FactoryByte, Sends, SentInTurn
  <2>3. CASE index % 2 # 1
    BY <1>0, <1>2, <2>1, <2>3 DEF FactoryByte, Sends, SentInTurn
  <2>4. QED
    BY <2>2, <2>3
<1>3. CASE LoadFactory /\ testMode \in Tables /\ index >= FactoryEnd /\ SendsSync /\ held' = held
  BY <1>0, <1>3, TableInUse, StreamAssumption DEF LoadFactory, SendsSync, SyncInTurn, RegisterOK
<1>4. QED
  BY <1>1, <1>2, <1>3 DEF Load, LoadFactory

LEMMA CellKeeps ==
  ASSUME StreamIInv, Cell
  PROVE  StreamIInv'
<1>0. /\ TestOK /\ RegisterOK /\ Position /\ Halves
      /\ UNCHANGED <<factory, diag, testMode>>
      /\ UNCHANGED <<swi, timer, counter, exercised, written, resets>>
  BY StreamType DEF StreamIInv, Cell, test
<1>1. TestOK' /\ InUse' = InUse
  BY <1>0 DEF TestOK, InUse
<1>2. bits' \in 0 .. Bits
  BY <1>0, StreamAssumption DEF Cell, Shift, Load, RegisterOK
<1>3. cut' \in BOOLEAN /\ (cut' => cut) /\ (cut /\ index' \notin {0, 1} => cut')
  BY <1>0 DEF Cell, RegisterOK
<1>4. CASE SyncInTurn
  <2>1. sending' = Sync /\ index' = 0 /\ held' = held /\ sending'.kind = "sync"
    BY <1>4, Kinds DEF SyncInTurn
  <2>2. SendingOK'
    BY <2>1 DEF SendingOK
  <2>3. RegisterOK'
    <3>1. index' \in 0 .. DiagEnd \cup {Restart}
      BY <2>1, StreamAssumption
    <3>2. QED
      BY <1>0, <1>2, <1>3, <2>1, <2>2, <3>1, Zenon DEF RegisterOK
  <2>4. Position' /\ Halves'
    BY <2>1, StreamAssumption DEF Position, Halves
  <2>5. QED
    BY <1>1, <2>3, <2>4 DEF StreamIInv, StreamTypeOK, TestOK, RegisterOK, SendingOK
<1>5. CASE SentInTurn
  <2>1. PICK r \in BOOLEAN :
          /\ index \in 0 .. DiagEnd - 1 /\ index <= LastOf(InUse)
          /\ factory => InUse \in Tables
          /\ index' = index + 1 /\ held' \in BOOLEAN
          /\ sending' = ByteOf(InUse, index, r)
          /\ factory /\ index % 2 = 1 => r = held /\ held' = held
          /\ factory /\ index % 2 # 1 => r = held'
    BY <1>5 DEF SentInTurn
  <2>2. /\ sending'.kind = "byte" /\ sending'.at = index /\ sending'.table = InUse
        /\ sending'.read = r /\ InUse \in 0 .. 4
    BY <1>0, <2>1, Kinds, TableInUse
  <2>3. RegisterOK'
    <3>1. SendingOK'
      BY <2>1, <2>2 DEF SendingOK
    <3>2. index' \in 0 .. DiagEnd \cup {Restart}
      BY <2>1, StreamAssumption
    <3>3. QED
      BY <1>2, <1>3, <2>1, <3>1, <3>2, Zenon DEF RegisterOK
  <2>4. Position'
    <3>1. index' \in 1 .. DiagEnd /\ index' # 0 /\ index' # Restart /\ sending'.at = index' - 1
      BY <2>1, <2>2, StreamAssumption
    <3>2. sending'.table = InUse' /\ (factory' => sending'.table = testMode')
      BY <1>0, <1>1, <2>2 DEF InUse
    <3>3. QED
      BY <2>2, <3>1, <3>2, Zenon DEF Position
  <2>5. Halves'
    BY <1>0, <2>1, <2>2, StreamAssumption DEF Halves
  <2>6. QED
    BY <1>1, <2>3, <2>4, <2>5 DEF StreamIInv, StreamTypeOK, TestOK, RegisterOK, SendingOK
<1>6. CASE UNCHANGED <<index, held, sending>>
  <2>1. RegisterOK'
    BY <1>0, <1>2, <1>3, <1>6 DEF RegisterOK, SendingOK
  <2>2. Position'
    <3>1. cut' = cut \/ factory
      <4>1. CASE Shift
        BY <1>0, <4>1, StreamAssumption DEF Cell, Shift, RegisterOK
      <4>2. CASE Load
        <5>1. index' # index + 1 /\ (SendsSync => index = 0)
          BY <1>0, <1>6, StreamAssumption DEF RegisterOK, SendsSync
        <5>2. ~LoadNormal /\ ~LoadDiagnostic
          <6>1. ~(index = 0 /\ index > NormalLast) /\ ~(index = 0 /\ index = DiagEnd)
            BY StreamAssumption
          <6>2. QED
            BY <5>1, <6>1, Zenon DEF LoadNormal, LoadDiagnostic, Sends
        <5>3. QED
          BY <4>2, <5>2 DEF Load, LoadFactory
      <4>3. QED
        BY <4>1, <4>2 DEF Cell
    <3>2. index = Restart => index' \notin {0, 1}
      BY <1>6, StreamAssumption
    <3>3. QED
      BY <1>0, <1>1, <1>3, <1>6, <3>1, <3>2, Zenon DEF Position, InUse
  <2>3. Halves'
    BY <1>0, <1>6 DEF Halves
  <2>4. QED
    BY <1>1, <2>1, <2>2, <2>3 DEF StreamIInv, StreamTypeOK, TestOK, RegisterOK, SendingOK
<1>7. QED
  BY <1>4, <1>5, <1>6, LoadSends DEF Cell, Shift

-----------------------------------------------------------------------------
(* Segment 3 and the resets. *)

LEMMA ResetsKeep ==
  ASSUME StreamIInv, PowerCycle \/ HalInit \/ \E d \in BOOLEAN : Segment3(d)
  PROVE  StreamIInv'
<1>0. TestOK /\ RegisterOK
  BY StreamType DEF StreamIInv
<1>1. CASE PowerCycle
  <2>1. PICK toFactory, toNormal \in BOOLEAN :
          StreamPowerOn(toFactory, toNormal) /\ ~(toFactory /\ toNormal)
    BY <1>1 DEF PowerCycle
  <2>2. TestOK'
    <3>1. /\ resets' \in 0 .. MaxResets /\ counter' \in 0 .. CounterLimit - 1
          /\ timer' \in 0 .. (IF BootTimer > OffLimit THEN BootTimer ELSE OffLimit)
      BY <1>0, <2>1, TestAssumption DEF StreamPowerOn, TestOK
    <3>2. testMode' \in TestModes /\ (testMode' # 0 => factory')
      BY <2>1 DEF StreamPowerOn, TestModes
    <3>3. QED
      BY <1>0, <2>1, <3>1, <3>2, Zenon DEF StreamPowerOn, TestOK
  <2>3. SendingOK'
    BY <2>1, Kinds DEF StreamPowerOn, SendingOK
  <2>4. RegisterOK'
    <3>1. index' \in 0 .. DiagEnd \cup {Restart} /\ bits' \in 0 .. Bits
      BY <2>1, StreamAssumption DEF StreamPowerOn
    <3>2. QED
      BY <2>1, <2>3, <3>1, Zenon DEF StreamPowerOn, RegisterOK
  <2>5. Position' /\ Halves'
    <3>1. sending' = Silence /\ sending'.kind # "byte"
      BY <2>1, Kinds DEF StreamPowerOn
    <3>2. index' = 0 \/ (index' = StartIndex /\ factory' = FALSE)
      BY <2>1 DEF StreamPowerOn
    <3>3. QED
      BY <3>1, <3>2, StreamAssumption DEF Position, Halves
  <2>6. QED
    BY <2>2, <2>4, <2>5 DEF StreamIInv, StreamTypeOK, TestOK, RegisterOK, SendingOK
<1>2. CASE HalInit
  <2>1. TestOK'
    BY <1>0, <1>2, TestAssumption DEF HalInit, TestOK, test
  <2>2. /\ index' = 0 /\ bits' = 0 /\ sending' = Silence /\ cut' = FALSE /\ held' = held
        /\ sending'.kind = "none"
    BY <1>2, Kinds DEF HalInit
  <2>3. RegisterOK'
    <3>1. SendingOK'
      BY <2>2 DEF SendingOK
    <3>2. index' \in 0 .. DiagEnd \cup {Restart} /\ bits' \in 0 .. Bits
      BY <2>2, StreamAssumption
    <3>3. QED
      BY <1>0, <2>2, <3>1, <3>2, Zenon DEF RegisterOK
  <2>4. Position' /\ Halves'
    BY <2>2, StreamAssumption DEF Position, Halves
  <2>5. QED
    BY <2>1, <2>3, <2>4 DEF StreamIInv, StreamTypeOK, TestOK, RegisterOK, SendingOK
<1>3. ASSUME NEW d \in BOOLEAN, Segment3(d) PROVE StreamIInv'
  <2>1. /\ factory = FALSE /\ factory' = FALSE /\ diag' = d
        /\ UNCHANGED <<swi, testMode, timer, counter, exercised, written, resets>>
        /\ UNCHANGED <<index, bits, held, sending>>
    BY <1>0, <1>3 DEF Segment3, test, stream, TestOK
  <2>2. cut' \in BOOLEAN /\ (cut => cut') /\ (~cut' => d = diag)
    BY <1>0, <1>3 DEF Segment3, RegisterOK
  <2>3. TestOK'
    BY <1>0, <1>3, <2>1 DEF TestOK
  <2>4. RegisterOK'
    BY <1>0, <2>1, <2>2 DEF RegisterOK, SendingOK
  <2>5. Position'
    BY <2>1, <2>2 DEF StreamIInv, Position, InUse
  <2>6. Halves'
    BY <2>1 DEF StreamIInv, Halves
  <2>7. QED
    BY <2>3, <2>4, <2>5, <2>6 DEF StreamIInv, StreamTypeOK, TestOK, RegisterOK, SendingOK
<1>4. QED
  BY <1>1, <1>2, <1>3

-----------------------------------------------------------------------------
(* The theorems of the stream. *)

LEMMA StreamInductive == StreamIInv /\ [StreamNext]_streamVars => StreamIInv'
<1>1. ASSUME StreamIInv, UNCHANGED streamVars PROVE StreamIInv'
  BY <1>1 DEF streamVars, StreamIInv, StreamTypeOK, Position, Halves, InUse
<1>2. QED
  BY <1>1, CellKeeps, FactoryIrqKeeps, ResetsKeep DEF StreamNext

LEMMA StreamInvariance == StreamSpec => []StreamIInv
<1>1. QED
  BY StreamInitInv, StreamInductive, PTL DEF StreamSpec

\* Every variable of the stream and of the factory test stays in its range: no
\* byte is taken from past the end of its table, and outputs are driven in the
\* odd test modes only.
THEOREM StreamTypeCorrect == StreamSpec => []StreamTypeOK
<1>1. StreamIInv => StreamTypeOK
  BY DEF StreamIInv
<1>2. QED
  BY <1>1, StreamInvariance, PTL

\* What a listener hears between two synchronising bytes has neither gap nor
\* repetition, in a factory test neither mixes tables nor the readings of a word,
\* and is one whole table, first entry to last, unless the jumper's answer or the
\* test mode changed in mid-frame.
THEOREM FramesAreWhole == StreamSpec => FrameInOrder
<1> DEFINE Uncut ==
      ~cut /\ sending.kind = "byte" =>
        IF sending' = Sync
        THEN sending.at = LastOf(sending.table)
        ELSE sending'.table = sending.table
<1>1. ASSUME StreamIInv, StreamNext, Loads, sending' # sending
      PROVE  (sending'.kind = "byte" => Follows(sending')) /\ Uncut
  <2>0. TestOK /\ RegisterOK /\ SendingOK /\ Position /\ Halves
    BY <1>1, StreamType DEF StreamIInv, RegisterOK
  <2>1. CASE Cell
    <3>1. Load
      BY <1>1, <2>0, <2>1 DEF Cell, Shift, Loads, RegisterOK
    <3>2. CASE SentInTurn
      <4>1. PICK r \in BOOLEAN :
              /\ index \in 0 .. DiagEnd - 1 /\ index <= LastOf(InUse)
              /\ factory => InUse \in Tables
              /\ sending' = ByteOf(InUse, index, r)
              /\ factory /\ index % 2 = 1 => r = held
        BY <3>2 DEF SentInTurn
      <4>2. /\ sending'.kind = "byte" /\ sending'.at = index
            /\ sending'.table = InUse /\ sending'.read = r /\ sending' # Sync
        BY <4>1, Kinds
      <4>3. (index \in 1 .. DiagEnd /\ index # StartIndex) \/ index = 0
        BY <4>1, StreamAssumption
      <4>4. InUse \in Tables => factory /\ InUse = testMode
        BY <2>0 DEF TestOK, Tables, InUse, Ordinary, Diagnostic
      <4>5. CASE index = 0
        <5>1. sending.kind \in {"sync", "none"}
          BY <2>0, <4>5, Kinds DEF Position, SendingOK
        <5>2. QED
          BY <4>2, <4>5, <5>1 DEF Follows
      <4>6. CASE index \in 1 .. DiagEnd /\ index # StartIndex
        <5>1. /\ sending.kind = "byte" /\ sending.at = index - 1 /\ index # 0
              /\ index = sending.at + 1
              /\ factory => sending.table = testMode
              /\ ~cut => sending.table = InUse
          BY <2>0, <4>6 DEF Position
        <5>2. factory /\ index % 2 = 1 => sending.read = r
          BY <2>0, <4>1, <4>6 DEF Halves
        <5>3. Follows(sending')
          BY <4>2, <4>4, <5>1, <5>2, Zenon DEF Follows
        <5>4. QED
          BY <4>2, <5>1, <5>3
      <4>7. QED
        BY <4>3, <4>5, <4>6
    <3>3. CASE SyncInTurn
      <4>1. sending' = Sync /\ sending'.kind # "byte" /\ index > LastOf(InUse)
        BY <3>3, Kinds DEF SyncInTurn
      <4>2. ASSUME ~cut, sending.kind = "byte" PROVE sending.at = LastOf(sending.table)
        <5>1. /\ index \in 1 .. DiagEnd /\ sending.at = index - 1 /\ sending.table = InUse
              /\ sending.at <= LastOf(InUse)
          BY <2>0, <4>2, Kinds DEF Position, RegisterOK, SendingOK
        <5>2. LastOf(InUse) \in Int
          BY <2>0, TableInUse, Lasts, StreamAssumption
        <5>3. QED
          BY <4>1, <5>1, <5>2
      <4>3. QED
        BY <4>1, <4>2
    <3>4. QED
      BY <1>1, <3>1, <3>2, <3>3, LoadSends
  <2>2. CASE FactoryIrq
    BY <1>1, <2>0, <2>2, FactoryIrqWrites DEF stream
  <2>3. CASE PowerCycle \/ HalInit \/ \E d \in BOOLEAN : Segment3(d)
    <3>1. bits' = 0 \/ UNCHANGED sending
      BY <2>3 DEF PowerCycle, StreamPowerOn, HalInit, Segment3, stream
    <3>2. QED
      BY <1>1, <3>1, StreamAssumption DEF Loads
  <2>4. QED
    BY <1>1, <2>1, <2>2, <2>3 DEF StreamNext
<1>2. StreamIInv /\ [StreamNext]_streamVars =>
        [Loads /\ sending' # sending =>
           (sending'.kind = "byte" => Follows(sending')) /\ Uncut]_streamVars
  BY <1>1
<1>3. QED
  BY <1>2, StreamInvariance, PTL DEF StreamSpec, FrameInOrder
-----------------------------------------------------------------------------
(* Progress: how many more cells a listener waits for the synchronising byte.
   The fairness of SyncRecurs only has to supply them. *)

\* A byte for every entry up to the end of the longest table, the bits of the one
\* that is going out, and the load of the synchronising byte.
BytesLeft == IF index > DiagEnd THEN 0 ELSE DiagEnd - index
CellsLeft == BytesLeft * (Bits + 1) + bits + 1

LEMMA OneByteMore ==
  ASSUME NEW n \in Nat, NEW k \in Nat
  PROVE  n * k \in Nat /\ (n + 1) * k = n * k + k
OBVIOUS

LEMMA AtMost ==
  ASSUME NEW n \in Nat, NEW m \in Nat, n <= m, NEW k \in Nat
  PROVE  n * k <= m * k
OBVIOUS

LEMMA CellsBounded ==
  ASSUME StreamIInv
  PROVE  /\ BytesLeft \in 0 .. DiagEnd /\ BytesLeft * (Bits + 1) \in Nat
         /\ CellsLeft \in 1 .. (DiagEnd + 1) * (Bits + 1)
<1>1. /\ index \in 0 .. DiagEnd \cup {Restart} /\ bits \in 0 .. Bits
      /\ DiagEnd \in Nat /\ Bits \in Nat /\ Restart > DiagEnd /\ Restart \in Nat
  BY StreamAssumption DEF StreamIInv, StreamTypeOK
<1>2. BytesLeft \in 0 .. DiagEnd
  BY <1>1 DEF BytesLeft
<1>3. /\ BytesLeft * (Bits + 1) \in Nat
      /\ DiagEnd * (Bits + 1) \in Nat
      /\ BytesLeft * (Bits + 1) <= DiagEnd * (Bits + 1)
      /\ (DiagEnd + 1) * (Bits + 1) = DiagEnd * (Bits + 1) + (Bits + 1)
  <2>1. BytesLeft \in Nat /\ BytesLeft <= DiagEnd /\ Bits + 1 \in Nat /\ DiagEnd \in Nat
    BY <1>1, <1>2
  <2>2. QED
    BY <2>1, OneByteMore, AtMost
<1>4. QED
  BY <1>1, <1>2, <1>3 DEF CellsLeft

\* In any mode that has a table a cell brings the synchronising byte one cell nearer.
LEMMA CellAdvances ==
  ASSUME StreamIInv, Cell, factory => testMode # 0
  PROVE  sending' = Sync \/ CellsLeft' = CellsLeft - 1
<1>1. /\ bits \in 0 .. Bits /\ Bits \in Nat /\ DiagEnd \in Nat
      /\ BytesLeft * (Bits + 1) \in Nat
  BY CellsBounded, StreamAssumption DEF StreamIInv, StreamTypeOK
<1>2. CASE Shift
  <2>1. bits' = bits - 1 /\ index' = index
    BY <1>2 DEF Shift
  <2>2. BytesLeft' = BytesLeft
    BY <2>1 DEF BytesLeft
  <2>3. QED
    BY <1>1, <2>1, <2>2 DEF CellsLeft
<1>3. CASE Load
  <2>1. bits = 0 /\ bits' = Bits
    BY <1>3 DEF Load
  <2>2. CASE SentInTurn
    <3>1. index \in 0 .. DiagEnd - 1 /\ index' = index + 1
      BY <2>2 DEF SentInTurn
    <3>2. BytesLeft = BytesLeft' + 1 /\ BytesLeft' \in Nat
      BY <1>1, <3>1 DEF BytesLeft
    <3>3. BytesLeft * (Bits + 1) = BytesLeft' * (Bits + 1) + (Bits + 1)
          /\ BytesLeft' * (Bits + 1) \in Nat
      <4>1. /\ BytesLeft' * (Bits + 1) \in Nat
            /\ (BytesLeft' + 1) * (Bits + 1) = BytesLeft' * (Bits + 1) + (Bits + 1)
        <5>1. Bits + 1 \in Nat /\ BytesLeft' \in Nat
          BY <1>1, <3>2
        <5>2. QED
          BY <5>1, OneByteMore
      <4>2. QED
        BY <3>2, <4>1
    <3>4. /\ CellsLeft' = BytesLeft' * (Bits + 1) + Bits + 1
          /\ CellsLeft = BytesLeft * (Bits + 1) + 0 + 1
      BY <2>1 DEF CellsLeft
    <3>5. QED
      BY <1>1, <3>3, <3>4
  <2>3. CASE UNCHANGED <<index, held, sending>>
    <3>1. ~(LoadFactory /\ testMode = 0)
      BY DEF LoadFactory
    <3>2. SendsSync \/ index' = index + 1
      BY <1>3, <3>1 DEF Load, LoadFactory, LoadNormal, LoadDiagnostic, FactoryByte,
                        Sends, SendsSync
    <3>3. index' # index + 1
      BY <2>3, StreamAssumption DEF StreamIInv, StreamTypeOK
    <3>4. QED
      BY <3>2, <3>3 DEF SendsSync
  <2>4. QED
    BY <1>3, <2>2, <2>3, LoadSends DEF SyncInTurn
<1>4. QED
  BY <1>2, <1>3 DEF Cell

\* The factory interrupt and segment 3 never put it off: a change of mode ends the
\* frame, and the next load is of the synchronising byte.
LEMMA InterruptsLeave ==
  ASSUME StreamIInv, FactoryIrq \/ \E d \in BOOLEAN : Segment3(d)
  PROVE  CellsLeft' <= CellsLeft
<1>1. CellsLeft \in Nat \ {0}
  BY CellsBounded, StreamAssumption
<1>2. CASE UNCHANGED stream
  <2>1. index' = index /\ bits' = bits
    BY <1>2 DEF stream
  <2>2. CellsLeft' = CellsLeft
    BY <2>1 DEF CellsLeft, BytesLeft
  <2>3. QED
    BY <1>1, <2>2
<1>3. CASE bits' = 0 /\ index' = Restart
  <2>1. BytesLeft' = 0
    BY <1>3, StreamAssumption DEF BytesLeft
  <2>2. CellsLeft' = 1
    BY <1>3, <2>1, StreamAssumption DEF CellsLeft
  <2>3. QED
    BY <1>1, <2>2
<1>4. UNCHANGED stream \/ (bits' = 0 /\ index' = Restart)
  BY FactoryIrqWrites, StreamType DEF StreamIInv, Segment3
<1>5. QED
  BY <1>2, <1>3, <1>4

\* The safety half of SyncRecurs: in any mode with a table every cell sends the
\* synchronising byte or is one fewer to go, and neither the jumper's answer nor
\* the factory interrupt with its changes of mode puts it off; only a restart of
\* the stream begins anew.  A listener waits for (DiagEnd + 1) * (Bits + 1) cells
\* at most, 234 as built, however often table and mode change in between.
THEOREM SyncComesNearer ==
  StreamSpec =>
    [][/\ CellsLeft \in 1 .. (DiagEnd + 1) * (Bits + 1)
       /\ Cell /\ (factory => testMode # 0)
            => sending' = Sync \/ CellsLeft' = CellsLeft - 1
       /\ FactoryIrq \/ (\E d \in BOOLEAN : Segment3(d))
            => CellsLeft' <= CellsLeft]_streamVars
<1>1. StreamIInv =>
        [/\ CellsLeft \in 1 .. (DiagEnd + 1) * (Bits + 1)
         /\ Cell /\ (factory => testMode # 0)
              => sending' = Sync \/ CellsLeft' = CellsLeft - 1
         /\ FactoryIrq \/ (\E d \in BOOLEAN : Segment3(d))
              => CellsLeft' <= CellsLeft]_streamVars
  BY CellsBounded, CellAdvances, InterruptsLeave
<1>2. QED
  BY <1>1, StreamInvariance, PTL
=============================================================================
