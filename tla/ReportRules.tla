---------------------------- MODULE ReportRules ----------------------------
(***************************************************************************)
(* What the report conversions of adapter/wired have in common.            *)
(*                                                                         *)
(* A controller's report c is what the mapping leaves in ctrl_output: the  *)
(* buttons it maps (map_mask), those of them that are pressed (on), those  *)
(* with a turbo (turbo) and the axes with one (axisTurbo), the value of    *)
(* each axis, the port it feeds (index), and the description meta_init     *)
(* gave that port (desc, meta).  A port w is its wired_data: the wires     *)
(* that read as pressed (out), the buttons whose count mask is set (cnt),  *)
(* the code of each axis (ax), the keys a console's report holds (held),   *)
(* the flags that wait for a release (wait), and the settings a special    *)
(* action changes.                                                         *)
(*                                                                         *)
(* Polarity is left out: a wire of out reads as pressed, whether the       *)
(* console wants a 1 or a 0.                                               *)
(*                                                                         *)
(* First the tables: for each console, which of the 32 generic buttons     *)
(* (PAD_LX_LEFT = 0 ... PAD_RJ = 31, adapter.h) closes which wire of the   *)
(* port, and how an axis of the generic controller becomes the code the    *)
(* console reads.  Where a console scans its buttons in banks (a line it   *)
(* drives selects one) the wire is named with its bank.                    *)
(***************************************************************************)
EXTENDS Integers, Sequences, FiniteSets, TLC
LOCAL INSTANCE FiniteSetsExt
LOCAL INSTANCE SequencesExt

Dpad == 8 :> "LEFT" @@ 9 :> "RIGHT" @@ 10 :> "DOWN" @@ 11 :> "UP"
Bank(b, table) == [i \in DOMAIN table |-> <<b, table[i]>>]

\* The members of a mask of 32 bits, given as its two halves.
Bits(high, low) == {i \in 0..15 : (low \div 2^i) % 2 = 1}
                     \cup {i \in 16..31 : (high \div 2^(i - 16)) % 2 = 1}

\* An axis of the port: the values taken as they are (size_min, size_max), what is added to them
\* (neutral), and the first and the last code of the field they are written to.
Meta(min, max, neutral, first, last) ==
  [min |-> min, max |-> max, neutral |-> neutral, first |-> first, last |-> last]
Sticks(n, meta) == [i \in 0..(n - 1) |-> meta]

----------------------------------------------------------------------------
\* Nintendo 64 and GameCube

n64_btns_mask == Dpad @@ 4 :> "C_LEFT" @@ 5 :> "C_RIGHT" @@ 6 :> "C_DOWN" @@ 7 :> "C_UP"
  @@ 16 :> "B" @@ 17 :> "C_DOWN" @@ 18 :> "A" @@ 19 :> "C_LEFT" @@ 20 :> "START" @@ 24 :> "Z"
  @@ 25 :> "L" @@ 26 :> "C_UP" @@ 28 :> "Z" @@ 29 :> "R" @@ 30 :> "C_RIGHT"
n64_axes_meta == Sticks(2, Meta(-128, 127, 0, -128, 127))
n64_mouse_btns_mask == 24 :> "B" @@ 28 :> "A"

gc_btns_mask == Dpad @@ 16 :> "B" @@ 17 :> "X" @@ 18 :> "A" @@ 19 :> "Y" @@ 20 :> "START"
  @@ 25 :> "Z" @@ 26 :> "L" @@ 29 :> "Z" @@ 30 :> "R"
gc_btns_mask_alt == 16 :> "Y" @@ 17 :> "A" @@ 18 :> "B" @@ 19 :> "X" @@ gc_btns_mask
gc_axes_meta == Sticks(4, Meta(-128, 127, 128, 0, 255))
  @@ 4 :> Meta(0, 255, 32, 0, 255) @@ 5 :> Meta(0, 255, 32, 0, 255)

\* Wii classic controller
wiic_btns_mask == Dpad @@ 16 :> "Y" @@ 17 :> "A" @@ 18 :> "B" @@ 19 :> "X" @@ 20 :> "PLUS"
  @@ 21 :> "MINUS" @@ 22 :> "HOME" @@ 24 :> "L" @@ 25 :> "ZL" @@ 26 :> "L" @@ 28 :> "R"
  @@ 29 :> "ZR" @@ 30 :> "R"
wiic_axes_meta == Sticks(4, Meta(-128, 127, 128, 0, 255))
  @@ 4 :> Meta(0, 255, 22, 0, 255) @@ 5 :> Meta(0, 255, 22, 0, 255)

\* Saturn and Dreamcast
saturn_btns_mask == Dpad @@ 16 :> "A" @@ 17 :> "C" @@ 18 :> "B" @@ 19 :> "Y" @@ 20 :> "START"
  @@ 24 :> "L" @@ 25 :> "X" @@ 28 :> "R" @@ 29 :> "Z"
saturn_axes_meta == Sticks(2, Meta(-128, 127, 128, 0, 255))
  @@ 4 :> Meta(0, 255, 0, 0, 255) @@ 5 :> Meta(0, 255, 0, 0, 255)
sega_mouse_btns_mask == 16 :> "START" @@ 24 :> "C" @@ 27 :> "A" @@ 28 :> "B"

dc_btns_mask == Dpad @@ 12 :> "RD_LEFT" @@ 13 :> "RD_RIGHT" @@ 14 :> "RD_DOWN" @@ 15 :> "RD_UP"
  @@ 16 :> "X" @@ 17 :> "B" @@ 18 :> "A" @@ 19 :> "Y" @@ 20 :> "START" @@ 21 :> "D" @@ 25 :> "Z"
  @@ 29 :> "C"
dc_axes_meta == Sticks(4, Meta(-128, 127, 128, 0, 255))
  @@ 4 :> Meta(0, 255, 0, 0, 255) @@ 5 :> Meta(0, 255, 0, 0, 255)
dc_mouse_btns_mask == 24 :> "D" @@ 27 :> "Y" @@ 28 :> "X"

\* PlayStation: a button that reports pressure has an axis too
ps_btns_mask == Dpad @@ 16 :> "S" @@ 17 :> "C" @@ 18 :> "X" @@ 19 :> "T" @@ 20 :> "START"
  @@ 21 :> "SELECT" @@ 24 :> "L2" @@ 25 :> "L1" @@ 27 :> "L3" @@ 28 :> "R2" @@ 29 :> "R1"
  @@ 31 :> "R3"
ps_btns_idx == {8, 9, 10, 11, 16, 17, 18, 19, 24, 25, 28, 29}
ps_axes_meta == Sticks(4, Meta(-128, 127, 128, 0, 255))
  @@ [i \in 4..15 |-> Meta(0, 255, 0, 0, 255)]
ps_mouse_btns_mask == 24 :> "L1" @@ 28 :> "R1"

\* NES, SNES, Famicom and Virtual Boy
npiso_btns_mask == Dpad @@ 16 :> "Y" @@ 17 :> "A" @@ 18 :> "B" @@ 19 :> "X" @@ 20 :> "START"
  @@ 21 :> "SELECT" @@ 24 :> "L" @@ 25 :> "L" @@ 28 :> "R" @@ 29 :> "R"
npiso_vb_btns_mask == Dpad @@ 4 :> "RD_LEFT" @@ 5 :> "RD_RIGHT" @@ 6 :> "RD_DOWN" @@ 7 :> "RD_UP"
  @@ 16 :> "B" @@ 18 :> "A" @@ 20 :> "START" @@ 21 :> "SELECT" @@ 22 :> "START" @@ 23 :> "SELECT"
  @@ 24 :> "L" @@ 25 :> "L" @@ 28 :> "R" @@ 29 :> "R"
npiso_mouse_btns_mask == 24 :> "B" @@ 28 :> "Y"
npiso_trackball_btns_mask == 14 :> "DOWN" @@ 15 :> "UP" @@ 16 :> "LEFT" @@ 17 :> "RIGHT"
  @@ 24 :> "Y" @@ 27 :> "START" @@ 28 :> "B"

----------------------------------------------------------------------------
\* Mega Drive: TH high, TH low and the third reading of a pad with six buttons
genesis_btns_mask ==
  Bank(0, Dpad @@ 17 :> "C" @@ 18 :> "B")    \* DOWN and UP are in bank 1 as well
  @@ Bank(1, 16 :> "A" @@ 20 :> "START")
  @@ Bank(2, 19 :> "Y" @@ 21 :> "MODE" @@ 24 :> "X" @@ 25 :> "X" @@ 28 :> "Z" @@ 29 :> "Z")
genesis_twh_btns_mask == Dpad @@ 16 :> "A" @@ 17 :> "C" @@ 18 :> "B" @@ 19 :> "Y" @@ 20 :> "START"
  @@ 21 :> "MODE" @@ 24 :> "X" @@ 25 :> "X" @@ 28 :> "Z" @@ 29 :> "Z"

\* PC Engine and PC-FX
pce_btns_mask == Bank(0, Dpad) @@ Bank(1, 16 :> "II" @@ 18 :> "I" @@ 20 :> "RUN" @@ 21 :> "SL")
pce_6btns_btns_mask == Bank(0, Dpad)
  @@ Bank(1, 17 :> "I" @@ 18 :> "II" @@ 20 :> "RUN" @@ 21 :> "SL")
  @@ Bank(2, 16 :> "III" @@ 19 :> "V" @@ 24 :> "IV" @@ 25 :> "IV" @@ 28 :> "VI" @@ 29 :> "VI")
pce_mouse_btns_mask == 16 :> "SL" @@ 24 :> "I" @@ 27 :> "RUN" @@ 28 :> "II"
pcfx_btns_mask == Dpad @@ 16 :> "III" @@ 17 :> "I" @@ 18 :> "II" @@ 19 :> "V" @@ 20 :> "RUN"
  @@ 21 :> "SELECT" @@ 24 :> "IV" @@ 25 :> "IV" @@ 28 :> "VI" @@ 29 :> "VI"
pcfx_mouse_btns_mask == 24 :> "RIGHT" @@ 28 :> "LEFT"

\* 3DO
real_btns_mask == Dpad @@ 16 :> "A" @@ 17 :> "C" @@ 18 :> "B" @@ 20 :> "P" @@ 21 :> "X" @@ 24 :> "L"
  @@ 25 :> "L" @@ 28 :> "R" @@ 29 :> "R"
real_fs_btns_mask == 19 :> "T" @@ real_btns_mask
real_fs_axes_meta == [i \in {0, 1, 3} |-> Meta(-512, 511, 512, 0, 1023)]
real_mouse_btns_mask == 24 :> "RIGHT" @@ 27 :> "MIDDLE" @@ 28 :> "LEFT"

\* Jaguar: four rows, a wire of a row carries the fire buttons and three a keypad
jag_btns_mask ==
  Bank(0, Dpad @@ 17 :> "B1" @@ 21 :> "PAUSE")
  @@ Bank(1, 2 :> "D" @@ 4 :> "L" @@ 7 :> "R" @@ 18 :> "B1" @@ 24 :> "L" @@ 25 :> "D" @@ 27 :> "U")
  @@ Bank(2, 0 :> "D" @@ 3 :> "L" @@ 5 :> "R" @@ 16 :> "B1" @@ 19 :> "D" @@ 22 :> "U")
  @@ Bank(3, 1 :> "L" @@ 6 :> "R" @@ 20 :> "B1" @@ 28 :> "L" @@ 29 :> "D" @@ 31 :> "U")
jag_6d_btns_mask ==
  Bank(0, Dpad @@ 17 :> "B1" @@ 21 :> "PAUSE")
  @@ Bank(1, 12 :> "U" @@ 18 :> "B1" @@ 25 :> "L" @@ 26 :> "R" @@ 27 :> "D")
  @@ Bank(2, 13 :> "U" @@ 16 :> "B1" @@ 19 :> "D" @@ 22 :> "R" @@ 23 :> "L")
  @@ Bank(3, 14 :> "U" @@ 20 :> "B1" @@ 29 :> "L" @@ 30 :> "R" @@ 31 :> "D")
jag_6d_axes_meta == Sticks(4, Meta(-128, 127, 0, -128, 127))
  @@ 4 :> Meta(0, 255, 0, -128, 127) @@ 5 :> Meta(0, 255, 0, -128, 127)

\* CD-i
cdi_btns_mask == 16 :> "1" @@ 18 :> "2"
cdi_axes_meta == Sticks(2, Meta(-128, 127, 0, -128, 127))
cdi_mouse_btns_mask == 24 :> "2" @@ 28 :> "1"

\* JVS
jvs_btns_mask == Dpad @@ 16 :> "3" @@ 17 :> "2" @@ 18 :> "1" @@ 19 :> "4" @@ 20 :> "START"
  @@ 22 :> "SERVICE" @@ 24 :> "5" @@ 25 :> "7" @@ 27 :> "9" @@ 28 :> "6" @@ 29 :> "8" @@ 31 :> "10"
jvs_axes_meta == Sticks(2, Meta(-32768, 32767, 32768, 0, 65535))

\* XInput
gen_btns_mask == Dpad @@ 16 :> "X" @@ 17 :> "B" @@ 18 :> "A" @@ 19 :> "Y" @@ 20 :> "START"
  @@ 21 :> "BACK" @@ 22 :> "SYS" @@ 23 :> "MISC" @@ 25 :> "LB" @@ 27 :> "L3" @@ 29 :> "RB"
  @@ 31 :> "R3"
gen_axes_meta == Sticks(4, Meta(-32768, 32767, 0, -32768, 32767))
  @@ 4 :> Meta(0, 255, 0, 0, 255) @@ 5 :> Meta(0, 255, 0, 0, 255)

\* Parallel ports: a wire above pin 31 is in the second output register
para_1p_btns_mask == Dpad @@ 16 :> "RB_LEFT" @@ 17 :> "RB_RIGHT" @@ 18 :> "RB_DOWN" @@ 19 :> "RB_UP"
  @@ 20 :> "MM" @@ 21 :> "MS" @@ 22 :> "MT" @@ 24 :> "LM" @@ 25 :> "LM" @@ 28 :> "RM" @@ 29 :> "RM"
para_1p_high == {"MM", "RM"}
para_2p_btns_mask == Dpad @@ 16 :> "1" @@ 18 :> "2"
sea_btns_mask == para_1p_btns_mask
sea_high == {"MT"}

----------------------------------------------------------------------------
(* The rules.                                                              *)

Ids == 0..31    \* the 32 generic buttons

----------------------------------------------------------------------------
(* Axes and buttons are two names of one thing.                            *)

\* The buttons an axis stands for, and the one that carries its turbo.
axis_to_btn_mask(i) ==
  CASE i \in 0..1 -> {2 * i, 2 * i + 1, 2 * i + 12, 2 * i + 13}
    [] i \in 2..3 -> {2 * i, 2 * i + 1}
    [] i = 4 -> {24} [] i = 5 -> {28} [] i = 6 -> {25} [] i = 7 -> {29}
    [] i \in 8..11 -> {i}
    [] i \in 12..15 -> {i + 4}
axis_to_btn_id(i) == CHOOSE b \in axis_to_btn_mask(i) : \A d \in axis_to_btn_mask(i) : b <= d

\* The code of value v: cut to the range of the axis, or moved by its neutral point and cut to
\* the width of the field.
Code(m, v) ==
  IF v > m.max THEN m.last ELSE IF v < m.min THEN m.first
  ELSE m.first + ((v + m.neutral - m.first) % (m.last - m.first + 1))

\* The axes numbered in n: one whose buttons the controller maps and the port describes as an
\* axis takes the code of its value; each takes the controller's turbo.
AxesBy(code(_, _), n, desc, w, c) ==
  [w EXCEPT
    !.ax = [i \in DOMAIN @ |-> IF i \in n /\ axis_to_btn_mask(i) \cap desc \cap c.map # {}
                               THEN code(c.meta[i], c.axes[i]) ELSE @[i]],
    !.cnt = (@ \ {axis_to_btn_id(i) : i \in n}) \cup {axis_to_btn_id(i) : i \in n \cap c.axisTurbo}]
Axes(n, desc, w, c) == AxesBy(Code, n, desc, w, c)

----------------------------------------------------------------------------
(* The loop over the 32 buttons, in the forms the consoles have it.        *)

\* The wires a controller maps, those a pressed button closes, and the button that comes last.
Wires(table, buttons) == {table[i] : i \in buttons \cap DOMAIN table}
LastSource(table, wire, c) == Max({i \in c.map \cap DOMAIN table : table[i] = wire})

\* A pressed button takes its wire, and no released one that comes later gives it up.
Closed(table, w, c) == (w.out \ Wires(table, c.map)) \cup Wires(table, c.on)
Counted(w, c) == (w.cnt \ c.map) \cup (c.on \cap c.turbo)

\* Buttons that share a wire keep it for each other; a released button whose wire an earlier one
\* holds keeps its count.
Keep(table, w, c) ==
  LET Spared(i) == i \notin DOMAIN table \/ (\E j \in c.on \cap DOMAIN table : j < i /\ table[j] = table[i])
  IN [w EXCEPT !.out = Closed(table, w, c),
               !.cnt = {i \in @ : i \notin c.map \/ (i \notin c.on /\ Spared(i))} \cup (c.on \cap c.turbo)]

\* The same, where a released button always loses its count.
Banks(table, w, c) == [w EXCEPT !.out = Closed(table, w, c), !.cnt = Counted(w, c)]

\* The last button of a wire decides.
LastWins(table, w, c) ==
  (w.out \ Wires(table, c.map))
    \cup {x \in Wires(table, c.map) : LastSource(table, x, c) \in c.on}
Plain(table, w, c) == [w EXCEPT !.out = LastWins(table, w, c), !.cnt = Counted(w, c)]

\* A mouse has no turbo (its motion is the subject of MouseMotion).
Mouse(table, w, c) == [w EXCEPT !.out = LastWins(table, w, c)]

----------------------------------------------------------------------------
(* Special actions: on the release of a button; done is what w becomes.    *)
\* Mutant of AtRelease: the flag is not taken back, and every later report acts again.
AtReleaseAgain(w, c, id, flag, done) ==
  IF id \notin c.map THEN w
  ELSE IF id \in c.on THEN [w EXCEPT !.wait = @ \cup {flag}]
  ELSE IF flag \in w.wait THEN done
  ELSE w

AtRelease(w, c, id, flag, done) ==
  IF id \notin c.map THEN w
  ELSE IF id \in c.on THEN [w EXCEPT !.wait = @ \cup {flag}]
  ELSE IF flag \in w.wait THEN [done EXCEPT !.wait = @ \ {flag}]
  ELSE w

\* PAD_MT switches the port between pad and alternate pad, and asks for the reset that takes it up.
OtherMode(w) == [w EXCEPT !.mode = IF @ = "pad" THEN "alt" ELSE "pad", !.rst = TRUE]
ModeSwitch(w, c) == AtRelease(w, c, 22, "R1", OtherMode(w))

----------------------------------------------------------------------------
(* Keyboards whose report lists keys: the first n pressed ones that have a *)
(* code, in the order of their numbers.  (The scancodes of Saturn,         *)
(* PlayStation and CD-i go through the queue of KbMonitor.)                *)
FirstKeys(n, codes, w, c) ==
  LET keys == SetToSortSeq(c.on \cap codes, <)
  IN [w EXCEPT !.held = SubSeq(keys, 1, IF Len(keys) < n THEN Len(keys) ELSE n)]

\* A matrix: every key has its own wire.
Matrix(w, c) == [w EXCEPT !.out = c.on]

----------------------------------------------------------------------------
(* Turbo: a button whose count mask is set is hidden in the frames where   *)
(* the bits of its mask are clear (any: all of them, otherwise: one).      *)
Hides(pace, frame) ==
  /\ pace.bits # {}
  /\ IF pace.any THEN pace.bits \cap frame = {} ELSE ~(pace.bits \subseteq frame)

wired_gen_turbo_mask_btns(table, w, pace, frame) ==
  IF Hides(pace, frame) THEN Wires(table, w.cnt) ELSE {}
wired_gen_turbo_mask_axes8(n, w, pace, frame) ==
  IF Hides(pace, frame) THEN {i \in n : axis_to_btn_id(i) \in w.cnt} ELSE {}

----------------------------------------------------------------------------
(* A port after init_buffer: nothing pressed, every axis at rest.  What    *)
(* waits for a release, the counts and the settings stay.                  *)
Rest(w, meta) == [w EXCEPT !.out = {}, !.held = <<>>, !.ax = [i \in DOMAIN meta |-> meta[i].neutral]]

\* What meta_init gives a port: the buttons that are axes, and the axes.
Described(desc, meta) == [desc |-> desc, meta |-> meta]
NoAxes == [i \in {} |-> 0]
MouseAxes == Described(4..7, NoAxes)
Keyboard == Described({}, NoAxes)
=============================================================================
