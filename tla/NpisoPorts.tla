----------------------------- MODULE NpisoPorts -----------------------------
(***************************************************************************)
(* wired/npiso_io.c: the NES, SNES and Virtual Boy ports, shift registers  *)
(* made of interrupts.  A latch starts a report over and each clock shows  *)
(* the next bit; three interrupt routines do so for pads and mice, for the *)
(* Famicom keyboard and for the SNES multitap.                             *)
(*                                                                         *)
(* A routine reads the pending interrupts when it starts and acknowledges  *)
(* exactly those when it ends: an edge of a line it is serving is lost.    *)
(* What a pin shows is named by its place in the report.  Turbo's frame    *)
(* counters are left out.                                                  *)
(***************************************************************************)
EXTENDS Integers

CONSTANTS
  NpBits,      \* bits of a byte, 8 in the code
  NpLoad,      \* NPISO_MULTITAP_2P_LOADTIME, 120 in the code
  NpWrap,      \* mt_load wraps here, 256 in the code
  NpClocks     \* bound: clocks between two latches; a keyboard's columns are bounded by 2

VARIABLES
  npKind,      \* the interrupt routine installed: "pads", "kb" or "tap5"
  npType,      \* dev_type of port 0; port 1 holds a pad
  npLatch,     \* the level of the latch line
  npSel,       \* the level of the select line the routine looks at
  npPend,      \* interrupts pending
  npIsr,       \* those the running routine serves, {} when none runs
  npCnt,       \* cnt, or idx and mask, as the number of bits shown
  npOut,       \* what the data lines of each port show
  npMouse,     \* mouse_speed and mouse_update
  npTap,       \* mt_mode and mt_load, and the pair latched
  npKb,        \* kb_column and the nibble shown
  npHist       \* history: clocks per port since the latch, ports whose bits slipped, a speed
               \* asked for, latches the buttons were held, the keyboard's place asked for

npVars == <<npKind, npType, npLatch, npSel, npPend, npIsr, npCnt, npOut, npMouse, npTap, npKb, npHist>>

Ports == 0 .. 1
L == 2          \* the latch line among the interrupts
S == 3          \* the select line
Blank == <<"blank">>
High == <<"high">>
FsId == 10
Ball == 11
Mouse == 12
Bit(src, n) == <<src, n \div NpBits, n % NpBits>>

(***************************************************************************)
(* What bit n of a report shows on a port's two lines.                     *)
(***************************************************************************)
\* Up to so many bytes of a source, then zeros.
Bytes(src, count, n) == IF n < count * NpBits THEN Bit(src, n) ELSE Blank

NesTap(p, n) ==
  CASE n < NpBits -> Bit(p, n)
    [] n < 2 * NpBits -> Bit(p + 2, n - NpBits)
    [] OTHER -> IF n < 3 * NpBits THEN Bit(FsId, n - 2 * NpBits) ELSE Blank

PadShown(p, n) ==
  CASE npType[p] = "fc" -> <<Bytes(p, 1, n), Blank>>
    [] npType[p] = "fc_tap" -> <<NesTap(p, n), Blank>>
    [] npType[p] = "fc_alt" -> <<Bytes(p, 1, n), Bytes(p + 2, 1, n)>>
    [] npType[p] = "ball" -> <<Blank, Bytes(Ball, 3, n)>>
    [] npType[p] = "sfc" -> <<Bytes(p, 2, n), Blank>>
    [] npType[p] = "mouse" -> <<Bytes(Mouse, 4, n), Blank>>

\* The multitap: pads 2 and 3 or, by the select line at the latch, 4 and 5. After
\* the first pair one blank bit, then the other pair.
TapShown(pair, n) ==
  LET two(a, k) == <<Bytes(a, 2, k), Bytes(a + 1, 2, k)>> IN
  IF pair = 3 \/ n <= 2 * NpBits THEN two(pair, n) ELSE two(3, n - 2 * NpBits - 1)

Shown(p, n) ==
  IF npKind = "tap5" /\ p = 1 /\ npTap.mode = 1 THEN TapShown(npTap.pair, n)
  ELSE IF npKind = "tap5" THEN <<Bytes(p, 2, n), High>>
  ELSE PadShown(p, n)

Init ==
  /\ npKind \in {"pads", "kb", "tap5"}
  /\ npType \in [Ports -> IF npKind = "pads" THEN {"fc", "fc_tap", "fc_alt", "ball", "sfc", "mouse"} ELSE {"sfc"}]
  /\ npType[1] = "sfc"
  /\ npLatch = FALSE /\ npSel = TRUE /\ npPend = {} /\ npIsr = {}
  /\ npCnt = [p \in Ports |-> 0] /\ npOut = [p \in Ports |-> <<Blank, Blank>>]
  /\ npMouse = [speed |-> 0, update |-> FALSE]
  /\ npTap = [mode |-> 1, load |-> 0, pair |-> 1]
  /\ npKb = [column |-> 0, nibble |-> <<0, 0>>]
  /\ npHist = [clocks |-> [p \in Ports |-> 0], slip |-> Ports, speed |-> FALSE, held |-> 0, key |-> <<0, 0>>]

(***************************************************************************)
(* The console.                                                            *)
(***************************************************************************)
\* Clocks still pending will be counted after the latch or taken for a request of
\* the mouse's next speed; a latch raised while the last one is served is lost.
LatchRise ==
  /\ ~npLatch /\ npLatch' = TRUE
  /\ npPend' = npPend \cup {L}
  /\ npHist' = [npHist EXCEPT !.clocks = [p \in Ports |-> 0],
       !.slip = IF L \in npPend THEN Ports ELSE (npPend \ npIsr) \cap Ports,
       !.speed = @ \/ 0 \in npPend,
       !.key = IF {L, S} \cap npPend = {} THEN <<0, 0>> ELSE Blank]
  /\ UNCHANGED <<npKind, npType, npSel, npIsr, npCnt, npOut, npMouse, npTap, npKb>>

LatchFall ==
  /\ npLatch /\ npLatch' = FALSE
  /\ UNCHANGED <<npKind, npType, npSel, npPend, npIsr, npCnt, npOut, npMouse, npTap, npKb, npHist>>

\* The port with the long reports goes through them, the other one is a disturbance.
Bound(p) == IF (npKind = "tap5") = (p = 1) THEN NpClocks ELSE 1

\* With the latch high a clock asks a mouse for its next speed.
Clock(p) ==
  /\ npHist.clocks[p] < Bound(p) /\ npCnt[p] <= Bound(p)
  /\ npLatch => npType[p] = "mouse"
  /\ npPend' = npPend \cup {p}
  /\ npHist' = [npHist EXCEPT !.clocks[p] = @ + 1, !.speed = @ \/ npLatch,
                  !.slip = IF p \in npPend \/ npLatch THEN @ \cup {p} ELSE @]
  /\ UNCHANGED <<npKind, npType, npLatch, npSel, npIsr, npCnt, npOut, npMouse, npTap, npKb>>

\* The keyboard's column goes up when the line has been high and falls again.
Asked(key, sel) ==
  IF key = Blank \/ S \in npPend THEN Blank
  ELSE IF sel THEN <<key[1], 1>> ELSE IF key[2] = 1 THEN <<key[1] + 1, 0>> ELSE key

Select ==
  /\ npKind \in {"kb", "tap5"} /\ ~npLatch
  /\ npKb.column < 2
  /\ npSel' = ~npSel
  /\ npPend' = IF npKind = "kb" THEN npPend \cup {S} ELSE npPend
  /\ npHist' = [npHist EXCEPT !.key =
       IF npKind # "kb" THEN @ ELSE IF L \in npPend THEN Blank ELSE Asked(@, ~npSel)]
  /\ UNCHANGED <<npKind, npType, npLatch, npIsr, npCnt, npOut, npMouse, npTap, npKb>>

(***************************************************************************)
(* The routines.                                                           *)
(***************************************************************************)
Loaded(held) == IF held THEN (npTap.load + 1) % NpWrap ELSE 0

\* 2p/5p Multitap Switch: player 2 holds four buttons, player 3 presses B.
TapSwitch(held, b3) ==
  LET load == Loaded(held)
      pair == IF npSel THEN 1 ELSE 3 IN
  IF npTap.mode = 0 THEN [npTap EXCEPT !.mode = IF b3 THEN 1 ELSE 0, !.pair = pair]
  ELSE [mode |-> IF held /\ load = NpLoad THEN 0 ELSE 1, load |-> load, pair |-> pair]

\* npiso_sfc_snes_5p_isr waits for the latch to fall, with line 1 low by which the
\* console knows the multitap.
Enter ==
  /\ npIsr = {} /\ npPend # {} /\ npIsr' = npPend
  /\ IF npKind = "tap5" /\ L \in npPend
     THEN \E held, b3 \in BOOLEAN :
            /\ npTap' = TapSwitch(held, b3)
            /\ npHist' = [npHist EXCEPT !.held = IF npTap.mode = 0 \/ ~held THEN 0
                                                 ELSE IF @ < NpLoad THEN @ + 1 ELSE @]
     ELSE UNCHANGED <<npTap, npHist>>
  /\ UNCHANGED <<npKind, npType, npLatch, npSel, npPend, npCnt, npOut, npMouse, npKb>>

\* Mutant of Acknowledged: every pending interrupt is.
AcknowledgedAll == {}

Acknowledged == npPend \ npIsr

\* Mutant of MouseAfter: mouse_update stays set.
MouseAfterStill(ask, apply) ==
  [update |-> npMouse.update \/ ask, speed |-> IF apply /\ npMouse.update THEN (npMouse.speed + 1) % 3 ELSE npMouse.speed]

MouseAfter(ask, apply) ==
  IF ask THEN [npMouse EXCEPT !.update = TRUE]
  ELSE IF apply /\ npMouse.update THEN [speed |-> (npMouse.speed + 1) % 3, update |-> FALSE]
  ELSE npMouse

\* npiso_isr and the latches and clocks of npiso_sfc_snes_5p_isr: bit 0 at a latch,
\* the next bit at a clock. A clock a mouse gets with the latch high shows nothing,
\* but counts.
PadsLeave ==
  LET base(p) == IF L \in npIsr THEN 1 ELSE npCnt[p]
      clocked(p) == p \in npIsr /\ (npKind = "tap5" => ~npLatch)
      speed(p) == npType[p] = "mouse" /\ npLatch IN
  /\ npCnt' = [p \in Ports |-> IF clocked(p) THEN base(p) + 1 ELSE base(p)]
  /\ npOut' = [p \in Ports |->
       IF clocked(p) /\ ~speed(p) THEN Shown(p, base(p))
       ELSE IF L \in npIsr THEN Shown(p, 0) ELSE npOut[p]]
  /\ npMouse' = IF 0 \in npIsr /\ npType[0] = "mouse"
                THEN MouseAfter(npLatch, base(0) < NpBits) ELSE npMouse
  /\ npHist' = [npHist EXCEPT !.speed = @ /\ npMouse'.speed = npMouse.speed]
  /\ UNCHANGED npKb

\* npiso_fc_kb_isr: the select line first, the latch after it.
KbLeave ==
  LET c == npKb.column
      col == CASE L \in npIsr -> [column |-> 0, nibble |-> <<0, 0>>]
               [] S \in npIsr /\ L \notin npIsr ->
                    IF npSel THEN [column |-> c + 1, nibble |-> <<c, 1>>] ELSE [npKb EXCEPT !.nibble = <<c, 0>>]
               [] OTHER -> npKb IN
  /\ npKb' = col
  /\ npCnt' = [p \in Ports |-> (IF L \in npIsr THEN 1 ELSE npCnt[p]) + (IF p \in npIsr THEN 1 ELSE 0)]
  /\ npOut' = [p \in Ports |-> IF npIsr \cap {p, L} # {} THEN <<Bytes(p + 1, 1, npCnt'[p] - 1), Blank>> ELSE npOut[p]]
  /\ UNCHANGED <<npMouse, npHist>>

Leave ==
  /\ npIsr # {}
  /\ npKind = "tap5" /\ npTap.mode = 1 /\ L \in npIsr => ~npLatch
  /\ IF npKind = "kb" THEN KbLeave ELSE PadsLeave
  /\ npIsr' = {} /\ npPend' = Acknowledged
  /\ UNCHANGED <<npKind, npType, npLatch, npSel, npTap>>

Next ==
  \/ LatchRise \/ LatchFall \/ Select
  \/ \E p \in Ports : Clock(p)
  \/ Enter \/ Leave

Spec == Init /\ [][Next]_npVars

(***************************************************************************)
(* Properties.                                                             *)
(***************************************************************************)
TypeOK ==
  /\ npPend \subseteq Ports \cup {L, S} /\ npIsr \subseteq npPend
  /\ npMouse \in [speed : 0 .. 2, update : BOOLEAN]
  /\ npTap \in [mode : 0 .. 1, load : 0 .. NpWrap - 1, pair : {1, 3}]
  /\ \A p \in Ports : npCnt[p] \in Nat

\* When the routine is done a port shows the bit the console's clocks stand at.
\* Bits slip when a clock comes with the last one unserved, when one is still
\* pending at the latch, and after a mouse's speed was asked for: until the next
\* latch, and in no other case.
BitAsked ==
  npPend = {} =>
    \A p \in Ports \ npHist.slip :
      npOut[p] = IF npKind = "kb" THEN <<Bytes(p + 1, 1, npHist.clocks[p]), Blank>>
                 ELSE Shown(p, npHist.clocks[p])

\* The Famicom keyboard's nibble is the one the console's edges lead to, unless it
\* was too quick for the routine.
KeyAsked == npKind = "kb" /\ npPend = {} /\ npHist.key # Blank => npKb.nibble = npHist.key

\* A mouse changes its speed only when asked to, and once.
Speed == npMouse'.speed # npMouse.speed => npHist.speed

\* Two-player mode is entered only after the buttons were held in NpLoad latches in
\* a row.
Switch == npTap.mode = 1 /\ npTap'.mode = 0 => npHist'.held >= NpLoad
=============================================================================
