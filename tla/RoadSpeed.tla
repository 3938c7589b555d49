------------------------------- MODULE RoadSpeed ------------------------------
(***************************************************************************)
(* The vehicle-speed input: the simulator's edge generator and its 16-bit  *)
(* capture register, the capture check of every timer interrupt, and the   *)
(* period that segment 2 makes of the last three captures.                 *)
(*                                                                         *)
(* Segment 2's division and filter turn the period into miles per hour;    *)
(* they are left out, so `report' is the period itself and 0 stands for a  *)
(* vehicle at rest.  Segment 2 may follow any interrupt.                   *)
(***************************************************************************)
EXTENDS Integers

CONSTANTS
  Ticks,       \* timer ticks of an interrupt (818)
  W,           \* values of the 16-bit capture timer (2^16)
  NoEdgeLimit, \* interrupts without an edge that mean standstill (160)
  Periods      \* periods of the edge generator that occur

VARIABLES
  now,     \* sim_vss_abs_ticks modulo W
  period,  \* sim_vss_period_ticks, 0 for no signal
  due,     \* ticks to sim_vss_next_edge
  reg,     \* sim_vss_capture_reg
  old, mid, new, \* VSS_TIME_OLD, _MID and _NEW
  moving,  \* $0034 b4
  noEdge,  \* VSS_NO_EDGE_COUNT
  report,  \* average period behind $0065
  fresh,   \* history: segment 2 has used the captures as they are
  since,   \* history: ticks since the last edge of the signal, at most W
  gaps     \* history: the last two times between captured edges; W - 1 at
           \* standstill, W for a time too long for the timer

signal == <<now, period, due, reg>>
times  == <<old, mid, new>>
vars   == <<signal, times, moving, noEdge, report, fresh, since, gaps>>

Least(a, b) == IF a < b THEN a ELSE b

Standstill == <<W - 1, W - 1>>

-----------------------------------------------------------------------------
(* The generator: sim_set_vss_mph and sim_advance_vss_6p25ms. *)

\* A change of speed keeps the phase of the edge that is due.
Rescaled(p) ==
  LET scaled == (2 * due * p + period) \div (2 * period)
  IN IF scaled = 0 THEN 1 ELSE scaled

SetSpeed(p) ==
  /\ period' = p
  /\ due' = IF p = 0 THEN 0 ELSE IF period = 0 THEN p ELSE Rescaled(p)
  /\ UNCHANGED <<now, reg, times, moving, noEdge, report, fresh, since, gaps>>

\* Edges of one interrupt: all but the last are overwritten in the register.
Edges == IF period = 0 \/ due > Ticks THEN 0 ELSE (Ticks - due) \div period + 1

LastEdge == due + (Edges - 1) * period

\* The time that ends with the edge this interrupt captures.
Gap == IF ~moving THEN W - 1 ELSE Least(since + LastEdge, W)

Advance ==
  /\ now' = (now + Ticks) % W
  /\ IF Edges = 0
     THEN /\ due' = (IF period = 0 THEN 0 ELSE due - Ticks)
          /\ since' = Least(since + Ticks, W)
          /\ UNCHANGED <<reg, gaps>>
     ELSE /\ reg' = (now + LastEdge) % W
          /\ due' = LastEdge + period - Ticks
          /\ since' = Ticks - LastEdge
          /\ gaps' = <<gaps[2], Gap>>
  /\ UNCHANGED period

-----------------------------------------------------------------------------
(* bua_vss_capture_check_6p25ms. *)

NoEdge ==
  /\ reg' = new
  /\ noEdge' = Least(noEdge + 1, NoEdgeLimit)
  /\ moving' = (moving /\ noEdge + 1 < NoEdgeLimit)
  /\ UNCHANGED times

\* The first edge after a standstill pretends that the two before it came a
\* whole timer period apart.
Edge ==
  /\ reg' # new
  /\ noEdge' = 0 /\ moving' = TRUE
  /\ new' = reg'
  /\ mid' = IF moving THEN new ELSE (reg' + 1) % W
  /\ old' = IF moving THEN mid ELSE (reg' + 2) % W

Irq ==
  /\ Advance
  /\ NoEdge \/ Edge
  /\ fresh' = FALSE
  /\ UNCHANGED report

-----------------------------------------------------------------------------
(* bua_major_seg2_vss. *)

Between(a, b) == (b - a) % W

\* Mutant: the sum of the two times loses its carry.
AverageMutant == ((Between(old, mid) + Between(mid, new)) % W) \div 2

Average == (Between(old, mid) + Between(mid, new)) \div 2

Segment2(ignOff) ==
  /\ ~ignOff
  /\ report' = IF noEdge >= NoEdgeLimit THEN 0 ELSE Average
  /\ fresh' = TRUE
  /\ UNCHANGED <<signal, times, moving, noEdge, since, gaps>>

\* Normal startup clears the captures; the register and the signal go on.
PowerOn ==
  /\ old' = 0 /\ mid' = 0 /\ new' = 0
  /\ moving' = FALSE /\ noEdge' = NoEdgeLimit
  /\ report' = 0 /\ fresh' = FALSE
  /\ gaps' = Standstill
  /\ UNCHANGED <<signal, since>>

Init ==
  /\ now = 0 /\ period = 0 /\ due = 0 /\ reg = 0
  /\ old = 0 /\ mid = 0 /\ new = 0
  /\ moving = FALSE /\ noEdge = NoEdgeLimit
  /\ report = 0 /\ fresh = FALSE
  /\ since = W /\ gaps = Standstill

Next ==
  \/ \E p \in Periods \cup {0} : SetSpeed(p)
  \/ Irq
  \/ \E ignOff \in BOOLEAN : Segment2(ignOff)
  \/ PowerOn

Spec == Init /\ [][Next]_vars

-----------------------------------------------------------------------------
(* Properties. *)

TypeOK ==
  /\ {now, reg, old, mid, new} \subseteq 0 .. W - 1
  /\ period \in Periods \cup {0} /\ due \in 0 .. W
  /\ moving \in BOOLEAN /\ fresh \in BOOLEAN
  /\ noEdge \in 0 .. NoEdgeLimit
  /\ report \in 0 .. W - 1 /\ since \in 0 .. W
  /\ gaps \in (0 .. W) \X (0 .. W)

\* What a time between two edges is sure to leave in the captures: a time longer
\* than a turn of the timer leaves its remainder, which may be nothing.
Sure(gap) == IF gap < W THEN gap ELSE 0

\* The period segment 2 works with is at least the mean of what the last two times
\* between captured edges are sure to leave.  So the speed is never above the real
\* one while both times were shorter than a turn of the timer: not across its wrap,
\* at the first edges after a standstill, or when several edges share an interrupt.
\* It may be when one was longer: a stop of one to two turns, or a stop of any
\* length in which power came back and the kept register passed for an edge.  Then
\* it reads at most twice what the other time says, until two shorter times have
\* followed; with two such stops in a row the code promises nothing.
SpeedIsBounded ==
  fresh /\ report # 0 => report >= (Sure(gaps[1]) + Sure(gaps[2])) \div 2
=============================================================================
