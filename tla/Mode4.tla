-------------------------------- MODULE Mode4 --------------------------------
(***************************************************************************)
(* A serial tool's hold on the controls: the 8192-baud core copies an      *)
(* accepted frame to $0151.., the pass at the head of each IRQ opens or     *)
(* ends the Mode-4 session, and the one-second event ends it for a tool     *)
(* that has gone silent.                                                   *)
(*                                                                         *)
(* A frame refused for its device, length or checksum changes nothing that *)
(* is modelled; one that is answered with an address error is accepted.    *)
(***************************************************************************)
EXTENDS Integers

CONSTANTS
  Commands,  \* the entry commands of $0154 b6-4
  Timeout,   \* seconds of silence a session survives (30)
  Byte       \* values of a byte (256)

ASSUME TimeoutAssumption ==
  Timeout \in Nat /\ Byte \in Nat /\ Timeout + 1 < Byte

Modes  == 0 .. 4
NoFrame == [mode |-> 0, commands |-> {}]
Frames == [mode : Modes, commands : SUBSET Commands]

VARIABLES
  live,      \* neither the power-down latch nor the factory route is set
  lock,      \* $0046 b3: an 8192-baud frame has been accepted
  aldl,      \* $0035 b5: the diagnostic line asks for serial data
  active,    \* $0035 b3: the session's overrides are in force
  mode,      \* $0151
  commands,  \* $0154 b6-4
  age,       \* $0171
  last,      \* history: the last accepted frame
  spent,     \* history: its commands have been executed
  normal,    \* history: consumers have run without a session since then
  silent     \* history: one-second events since it, up to Timeout + 2

serial  == <<lock, mode, commands>>
history == <<last, spent, normal, silent>>
vars == <<live, lock, aldl, active, mode, commands, age, last, spent, normal, silent>>

-----------------------------------------------------------------------------
(* bua_sci115_receive, called between interrupts. *)

\* Mutant: the frame does not restart the timeout.
AcceptedMutant(m) ==
  /\ mode' = m /\ lock' = TRUE /\ silent' = 0
  /\ spent' = FALSE
  /\ UNCHANGED <<live, aldl, active, age, normal>>

Accepted(m) ==
  /\ mode' = m /\ lock' = TRUE /\ age' = 0 /\ silent' = 0
  /\ spent' = FALSE
  /\ UNCHANGED <<live, aldl, active, normal>>

\* The data of a Mode-3 frame, which are addresses, reach $0154 if it is long.
AcceptOther(m) ==
  /\ Accepted(m)
  /\ commands' \in {commands} \cup (IF m = 3 THEN SUBSET Commands ELSE {})
  /\ last' = [mode |-> m, commands |-> {}]

AcceptMode4(c) ==
  /\ Accepted(4)
  /\ commands' = c
  /\ last' = [mode |-> 4, commands |-> c]

Receive ==
  \/ \E m \in 0 .. 3 : AcceptOther(m)
  \/ \E c \in SUBSET Commands : AcceptMode4(c)

-----------------------------------------------------------------------------
(* irq_6p25ms: the pass over the mode, the one-second event, the consumers. *)

Interprets == lock \/ aldl

\* Mutant: the session's flag does not keep the commands from repeating.
EntersMutant ==
  /\ Interprets /\ mode = 4
  /\ active' = TRUE /\ spent' = TRUE

\* The commands asked for are executed; IacHoming, BlmStore and Diagnostics
\* say what each of them does.
Enters ==
  /\ Interprets /\ mode = 4 /\ ~active
  /\ active' = TRUE /\ spent' = TRUE

Exits ==
  /\ Interprets /\ mode # 4 /\ active
  /\ active' = FALSE /\ UNCHANGED spent

\* Mutant: only mode 0 ends a session.
StaysMutant ==
  /\ ~Interprets \/ (mode = 4 <=> active) \/ mode # 0
  /\ UNCHANGED <<active, spent>>

Stays ==
  /\ ~Interprets \/ (mode = 4 <=> active)
  /\ UNCHANGED <<active, spent>>

SilentFor(n) == IF n < Timeout + 2 THEN n ELSE Timeout + 2

\* Mutant: the seconds are counted only while no session is open.
SecondMutant ==
  /\ age' = IF active THEN age ELSE (age + 1) % Byte
  /\ mode' = IF age' > Timeout THEN 0 ELSE mode
  /\ silent' = SilentFor(silent + 1)

\* bua_mode4_timeout_step116.
Second ==
  /\ age' = (age + 1) % Byte
  /\ mode' = IF age' > Timeout THEN 0 ELSE mode
  /\ silent' = SilentFor(silent + 1)

\* Segment 3 samples the line, in the IRQs that reach it.
Line == aldl' = aldl \/ aldl' = FALSE \/ (aldl' = TRUE /\ ~lock)

\* The consumers find the session as the pass has left it.
Consumers ==
  /\ normal' = IF ~active' THEN TRUE ELSE IF active THEN normal ELSE FALSE
  /\ UNCHANGED <<live, lock, commands, last>>

Pass == Enters \/ Exits \/ Stays

Irq ==
  /\ live /\ Pass /\ Line /\ Consumers
  /\ UNCHANGED <<mode, age, silent>>

IrqSecond == live /\ Pass /\ Second /\ Line /\ Consumers

-----------------------------------------------------------------------------
(* Everything else. *)

\* Key-off latches the power-down.
Powerdown ==
  /\ live' = FALSE
  /\ UNCHANGED <<serial, aldl, active, age, history>>

\* $002E..$01B2 are cleared; the outcome may be the factory route.
PowerOn ==
  /\ live' \in BOOLEAN
  /\ lock' = FALSE /\ aldl' = FALSE /\ active' = FALSE
  /\ mode' = 0 /\ commands' = {} /\ age' = 0
  /\ last' = NoFrame /\ spent' = FALSE /\ normal' = TRUE /\ silent' = 0

Init ==
  /\ live = TRUE
  /\ lock = FALSE /\ aldl = FALSE /\ active = FALSE
  /\ mode = 0 /\ commands = {} /\ age = 0
  /\ last = NoFrame /\ spent = FALSE /\ normal = TRUE /\ silent = 0

Next == Receive \/ Irq \/ IrqSecond \/ Powerdown \/ PowerOn

\* The minor count reaches 160 again and again while interrupts run.
Fairness == WF_vars(IrqSecond)

Spec == Init /\ [][Next]_vars /\ Fairness

-----------------------------------------------------------------------------
(* Type invariant. *)

TypeOK ==
  /\ live \in BOOLEAN /\ lock \in BOOLEAN /\ aldl \in BOOLEAN /\ active \in BOOLEAN
  /\ mode \in Modes /\ commands \subseteq Commands /\ age \in 0 .. Byte - 1
  /\ last \in Frames /\ spent \in BOOLEAN /\ normal \in BOOLEAN
  /\ silent \in 0 .. Timeout + 2

(* Safety. *)

\* Consumers that find a session open find the bytes of a Mode-4 frame, the
\* last one accepted, no more than Timeout + 1 seconds ago: never the address
\* bytes of another mode, which share $0152.., and never an abandoned session.
OverridesAttended ==
  [][(Irq \/ IrqSecond) /\ active' =>
       /\ last.mode = 4 /\ commands = last.commands
       /\ silent' <= Timeout + 1]_vars

\* Commands are executed once for the frame that asked for them, and not twice
\* without normal operation in between, however often a tool repeats a frame.
CommandsOnce ==
  [][(Irq \/ IrqSecond) /\ Enters => ~spent /\ normal]_vars

\* A session ends only for a frame of another mode, for silence, or with the
\* power: a tool that repeats its frame in time keeps it.
AttendedStays ==
  [][active /\ ~active' => last.mode # 4 \/ silent > Timeout \/ PowerOn]_vars

(* Liveness. *)

\* A session whose tool goes silent ends, unless the interrupts stop.
AbandonedEnds ==
  <>[][~Receive]_vars /\ <>[]live => <>[]~active
=============================================================================
