------------------------------ MODULE DiagFlash ------------------------------
(***************************************************************************)
(* The field-service flasher: with the diagnostic line grounded and the    *)
(* engine stopped, segment D flashes code 12 and then every stored code,   *)
(* each three times, one step of the lamp per pass of 100 ms or slower.    *)
(*                                                                         *)
(* A code is named by its flash index 2..36, as $00BB holds it: the index  *)
(* runs through the bits of $0005..$0009 from the top bit of the first     *)
(* word down, and six indexes share a first digit.                         *)
(***************************************************************************)
EXTENDS Integers, FiniteSets

CONSTANTS
  Masked,  \* indexes the masks DIAG107_MASK_ERR1..5 let through
  Errors,  \* indexes of the codes that may be stored
  Blank,   \* passes before the first digit (28)
  Blink,   \* passes of the lamp on, and off (4)
  Gap      \* passes between the digits (8)

First   == 2         \* code 12
Last    == 36        \* the scan ends at $25
Indexes == First .. Last
Groups  == {10, 18, 26, 34}   \* where the scan loads the next error word
Byte    == 256

ASSUME FlashCodeAssumption == Masked \subseteq Indexes /\ Errors \subseteq Indexes

ASSUME CadenceAssumption ==
  /\ Blank \in Nat /\ Blink \in Nat \ {0} /\ Gap \in Nat \ {0}
  /\ Blink <= Blank /\ Gap <= Blank /\ Blank < Byte

VARIABLES
  grounded, \* $0035 b4: the diagnostic line is grounded
  turning,  \* $0034 b7: the engine runs
  errors,   \* $0005..$0009
  active,   \* $0042 b6: a sequence is in progress
  second,   \* $0042 b5: the second digit is being flashed
  lit,      \* $0042 b4: the lamp is lit
  repeats,  \* $0042 b1-0: displays of the code still to come
  tens,     \* $00B9
  units,    \* $00BA
  index,    \* $00BB
  word,     \* $00BC: its set bits, by the index at which each would come out
  cadence,  \* $00BD
  listed,   \* history: codes stored when the sequence began
  played,   \* history: displays each code has had in this sequence
  blinks    \* history: blinks of either digit in this display

control == <<active, second, lit, repeats>>
digits  == <<tens, units>>
scan    == <<index, word>>
history == <<listed, played, blinks>>
flashVars ==
  <<grounded, turning, errors, active, second, lit, repeats, tens, units,
    index, word, cadence, listed, played, blinks>>

NoBlinks == <<0, 0>>
NotPlayed == [c \in Indexes |-> 0]

-----------------------------------------------------------------------------
(* The scan over the error words: before a reload, the word at hand holds the  *)
(* bits not looked at yet and below them the carries shifted in.               *)

\* The error word whose top bit has this index, behind its mask.
WordAt(top) == {c \in errors \cap Masked : top <= c /\ c <= top + 7}

\* The carry of CMPB #$22, shifted in when the scan passes an index.
Carry(b) == b < 34 /\ b \notin Groups

\* Mutant: the third word is not loaded.
LoadsMutant(b) == {g \in Groups \ {18} : index < g /\ g <= b /\ b <= g + 7}

\* The reload the scan from $00BB has last made when it looks at b, if any.
Loads(b) == {g \in Groups : index < g /\ g <= b /\ b <= g + 7}

Carried(b) ==
  {d + 8 : d \in {d \in index + 1 .. b - 1 :
                    Carry(d) /\ \A g \in Loads(b) : g <= d}}

AtHand(b) ==
  (IF Loads(b) = {} THEN word ELSE UNION {WordAt(g) : g \in Loads(b)})
    \cup Carried(b)

\* $00BC when the scan stops at b.
Passed(b) ==
  {c \in AtHand(b) : c > b} \cup {d \in {b + 8} : Carry(b)}

Following == {b \in index + 1 .. Last : b \in AtHand(b)}

-----------------------------------------------------------------------------
(* Passes of segment D with the line grounded and the engine stopped. *)

Service == grounded /\ ~turning /\ UNCHANGED <<grounded, turning, errors>>

\* bua_diag_flash_digits_step109, with the control byte's repeats.
Show(code, more) ==
  /\ index' = code
  /\ tens' = ((code - 1) \div 6) + 1 /\ units' = ((code - 1) % 6) + 1
  /\ active' = TRUE /\ second' = FALSE /\ lit' = FALSE /\ repeats' = more
  /\ cadence' = Blank
  /\ blinks' = NoBlinks

\* Code 12 comes first, stored or not; the rest of the first word is loaded.
FlashBegins ==
  /\ Service /\ ~active
  /\ Show(First, 2)
  /\ word' = WordAt(First) \ {First}
  /\ listed' = errors /\ played' = NotPlayed

FlashWaits ==
  /\ Service /\ active /\ cadence # 1
  /\ cadence' = (cadence + Byte - 1) % Byte
  /\ UNCHANGED <<control, digits, scan, history>>

Due == Service /\ active /\ cadence = 1

LampGoesOff ==
  /\ Due /\ lit
  /\ lit' = FALSE /\ cadence' = Blink
  /\ UNCHANGED <<active, second, repeats, digits, scan, history>>

FirstDigitBlinks ==
  /\ Due /\ ~lit /\ ~second /\ tens # 0
  /\ tens' = tens - 1 /\ lit' = TRUE /\ cadence' = Blink
  /\ blinks' = <<blinks[1] + 1, blinks[2]>>
  /\ UNCHANGED <<active, second, repeats, units, scan, listed, played>>

FirstDigitEnds ==
  /\ Due /\ ~lit /\ ~second /\ tens = 0
  /\ second' = TRUE /\ cadence' = Gap
  /\ UNCHANGED <<active, lit, repeats, digits, scan, history>>

\* Mutant: the digit is counted down by the pass that puts the lamp out too.
SecondDigitMutant ==
  /\ Due /\ ~lit /\ second /\ units # 0
  /\ units' = (IF units = 1 THEN 0 ELSE units - 2) /\ lit' = TRUE /\ cadence' = Blink
  /\ blinks' = <<blinks[1], blinks[2] + 1>>
  /\ UNCHANGED <<active, second, repeats, tens, scan, listed, played>>

SecondDigitBlinks ==
  /\ Due /\ ~lit /\ second /\ units # 0
  /\ units' = units - 1 /\ lit' = TRUE /\ cadence' = Blink
  /\ blinks' = <<blinks[1], blinks[2] + 1>>
  /\ UNCHANGED <<active, second, repeats, tens, scan, listed, played>>

\* Both digits are out.
DisplayEnds ==
  /\ Due /\ ~lit /\ second /\ units = 0
  /\ played' = [played EXCEPT ![index] = @ + 1]
  /\ UNCHANGED listed

CodeRepeats ==
  /\ DisplayEnds /\ repeats # 0
  /\ Show(index, repeats - 1)
  /\ UNCHANGED word

\* Mutant: the next code is shown without its repeats.
NextCodeMutant ==
  /\ DisplayEnds /\ repeats = 0 /\ Following # {}
  /\ \E c \in Following : /\ \A d \in Following : c <= d
                          /\ Show(c, 0) /\ word' = Passed(c)

NextCode ==
  /\ DisplayEnds /\ repeats = 0 /\ Following # {}
  /\ \E c \in Following : /\ \A d \in Following : c <= d
                          /\ Show(c, 2) /\ word' = Passed(c)

FlashEnds ==
  /\ DisplayEnds /\ repeats = 0 /\ Following = {}
  /\ active' = FALSE /\ second' = FALSE /\ lit' = FALSE /\ repeats' = 0
  /\ cadence' = Last + 1
  /\ UNCHANGED <<digits, scan, blinks>>

FlashPass ==
  \/ FlashBegins \/ FlashWaits \/ LampGoesOff
  \/ FirstDigitBlinks \/ FirstDigitEnds \/ SecondDigitBlinks
  \/ CodeRepeats \/ NextCode \/ FlashEnds

-----------------------------------------------------------------------------
(* Everything else. *)

Dropped ==
  /\ active' = FALSE /\ second' = FALSE /\ lit' = FALSE /\ repeats' = 0

\* A pass with the line open or the engine running ends any sequence.  In it
\* the start counter of the front may clear the codes with the engine running,
\* and the logger store codes behind its masks with the line open.
OtherPass ==
  /\ ~grounded \/ turning
  /\ Dropped
  /\ \E kept \in SUBSET errors, new \in SUBSET (Errors \cap Masked) :
       /\ kept = errors \/ (turning /\ kept = {})
       /\ grounded => new = {}
       /\ errors' = kept \cup new
  /\ UNCHANGED <<grounded, turning, digits, scan, cadence, history>>

\* Segment 3 samples the line, the reference state starts the engine.
FlashInputs ==
  /\ grounded' \in BOOLEAN /\ turning' \in BOOLEAN
  /\ UNCHANGED <<errors, control, digits, scan, cadence, history>>

\* bua_mode4_scheduler_step116 clears the stored codes under a sequence.
FlashErrorReset ==
  /\ errors' = {}
  /\ UNCHANGED <<grounded, turning, control, digits, scan, cadence, history>>

\* $002E..$01B2 are cleared; the stored words are kept, or lost and code 51
\* added (see Diagnostics).
FlashPowerOn ==
  /\ grounded' = FALSE /\ turning' = FALSE
  /\ Dropped
  /\ tens' = 0 /\ units' = 0 /\ index' = 0 /\ word' = {} /\ cadence' = 0
  /\ errors' \in {kept \cup added :
                    kept \in {{}, errors}, added \in {{}, {25} \cap Errors}}
  /\ UNCHANGED history

FlashInit ==
  /\ grounded = FALSE /\ turning = FALSE /\ errors = {}
  /\ active = FALSE /\ second = FALSE /\ lit = FALSE /\ repeats = 0
  /\ tens = 0 /\ units = 0 /\ index = 0 /\ word = {} /\ cadence = 0
  /\ listed = {} /\ played = NotPlayed /\ blinks = NoBlinks

FlashNext == FlashPass \/ OtherPass \/ FlashInputs \/ FlashErrorReset \/ FlashPowerOn

\* Segment D runs in every major loop; each flash pass changes the state.
FlashFairness == WF_flashVars(FlashPass \/ OtherPass)

FlashSpec == FlashInit /\ [][FlashNext]_flashVars /\ FlashFairness

-----------------------------------------------------------------------------
(* Type invariant. *)

ControlOK ==
  /\ grounded \in BOOLEAN /\ turning \in BOOLEAN /\ errors \subseteq Errors
  /\ active \in BOOLEAN /\ second \in BOOLEAN /\ lit \in BOOLEAN
  /\ repeats \in 0 .. 2

\* A sequence in progress never waits for a count that has to wrap.
ScanOK ==
  /\ tens \in 0 .. 6 /\ units \in 0 .. 6
  /\ index \in Indexes \cup {0} /\ word \subseteq index + 1 .. index + 8
  /\ cadence \in 0 .. Byte - 1 /\ (active => cadence \in 1 .. Blank)

HistoryOK ==
  /\ listed \subseteq Errors /\ played \in [Indexes -> 0 .. 3]
  /\ blinks \in (0 .. 6) \X (0 .. 6)

FlashTypeOK == ControlOK /\ ScanOK /\ HistoryOK

(* Safety. *)

\* What the lamp has blinked when a display is over reads as the code it was
\* for: no blink is lost or doubled by a repeat, a change of digit, a code
\* whose digit is six, or a sequence begun over an abandoned one.
DisplayReadsAsCode ==
  active /\ second /\ units = 0 /\ ~lit =>
    /\ blinks[2] \in 1 .. 6
    /\ index = 6 * (blinks[1] - 1) + blinks[2]

\* No code is flashed that was not stored when the sequence began: the carries
\* shifted into the scanned word never come out of it as a code.
NoFalseCode == active => index = First \/ index \in listed \cap Masked

\* What a mechanic reads off the lamp is code 12 or a code that was stored.
FlashedTrue == DisplayReadsAsCode /\ NoFalseCode

\* A sequence that ends by itself has shown code 12 and every masked code that
\* is still stored exactly three times, whatever Mode 4 has cleared under it.
EveryCodeThreeTimes ==
  [][FlashEnds =>
       \A c \in {First} \cup (errors \cap Masked) : played'[c] = 3]_flashVars

(* Liveness. *)

\* A code that stays stored is flashed again and again while the line stays
\* grounded with the engine stopped.
KeepsFlashing ==
  \A c \in Masked \cap Errors :
    <>[](grounded /\ ~turning /\ c \in errors) => []<>(active /\ index = c)
=============================================================================
