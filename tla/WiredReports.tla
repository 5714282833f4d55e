---------------------------- MODULE WiredReports ----------------------------
(***************************************************************************)
(* One port of the adapter as reports come in (adapter.c, adapter_bridge   *)
(* and wired_from_generic), after the conversions themselves: two          *)
(* controllers may feed it, each mapping some of the buttons; each change  *)
(* of a button, an axis or a key is a report.  The driver reads the port   *)
(* in every frame with what the turbo hides, and a special action may ask  *)
(* for a reset of the buffers (sys_mgr_wired_reinit_task), which comes     *)
(* later.                                                                  *)
(*                                                                         *)
(* A run takes one system and mode, and looks at a few buttons: those of   *)
(* one wire, a special action's with one other, an axis', or some keys.    *)
(***************************************************************************)
EXTENDS ReportRules

CONSTANTS
  WrCoins,     \* bound: a JVS coin counter saturates here (at 16383 in the code)
  WrLines,     \* bound: entries of the GBA HD kit's menu (six in the code)
  WrKeys       \* bound: keys in a Dreamcast keyboard's report (six in the code)

VARIABLES
  wrSys,     \* the console
  wrCfg,     \* what is set up: mode, multitap, index of the port, what the controllers map
  wrOn,      \* the buttons each controller holds pressed
  wrVal,     \* the value of the axis
  wrPort,    \* wired_data of the port
  wrHist     \* the part of a special action made so far, and how often it was made in whole

wrVars == <<wrSys, wrCfg, wrOn, wrVal, wrPort, wrHist>>

Controllers == 1..2

----------------------------------------------------------------------------
(* The conversions, console by console: what meta_init says of a port in   *)
(* each mode, what init_buffer leaves in it, how a controller's report     *)
(* changes it, and what the turbo hides of it in a frame.  The operators   *)
(* have the names of the C functions.                                      *)

\* What a frame hides: wires that then read as released, axes that then read as at rest.
Masks(wires, axes) == [out |-> wires, ax |-> axes]
MaskOf(table, n, w, pace, frame) ==
  Masks(wired_gen_turbo_mask_btns(table, w, pace, frame),
        wired_gen_turbo_mask_axes8(n, w, pace, frame))

----------------------------------------------------------------------------
\* Nintendo 64: PAD_MT changes the accessory, PAD_MQ turns the bank of the memory card.
n64_desc == Bits(0, 15)
n64_meta_init(mode) ==
  CASE mode = "kb" -> Keyboard [] mode = "mouse" -> MouseAxes
    [] OTHER -> Described(n64_desc, n64_axes_meta)
n64_init_buffer(mode, w) == Rest(w, IF mode = "pad" THEN n64_axes_meta ELSE NoAxes)
OtherPak(w) == [w EXCEPT !.pak = IF @ = "mem" THEN "rumble" ELSE "mem"]
NextBank(w) == [w EXCEPT !.num = (@ + 1) % 4]
n64_ctrl_special_action(w, c) ==
  LET v == AtRelease(w, c, 22, "R1", OtherPak(w)) IN AtRelease(v, c, 23, "R2", NextBank(v))
n64_ctrl_from_generic(w, c) ==
  Axes(0..1, n64_desc, n64_ctrl_special_action(Keep(n64_btns_mask, w, c), c), c)
n64_mouse_from_generic(w, c) == Mouse(n64_mouse_btns_mask, w, c)
n64_kb_from_generic(codes, w, c) == FirstKeys(3, codes, w, c)
n64_from_generic(mode, codes, w, c) ==
  CASE mode = "kb" -> n64_kb_from_generic(codes, w, c)
    [] mode = "mouse" -> n64_mouse_from_generic(w, c)
    [] OTHER -> n64_ctrl_from_generic(w, c)
n64_gen_turbo_mask(w, pace, frame) == MaskOf(n64_btns_mask, 0..1, w, pace, frame)

\* GameCube: PAD_MS changes between the layout by position and the one by name, from the next
\* report on.
gc_desc == Bits(4352, 255)
gc_meta_init(mode) == IF mode = "kb" THEN Keyboard ELSE Described(gc_desc, gc_axes_meta)
gc_init_buffer(mode, w) == Rest(w, IF mode = "kb" THEN NoAxes ELSE gc_axes_meta)
gc_layout(w) == IF w.byName THEN gc_btns_mask_alt ELSE gc_btns_mask
OtherLayout(w) == [w EXCEPT !.byName = ~@]
gc_ctrl_special_action(w, c) == AtRelease(w, c, 21, "R1", OtherLayout(w))
gc_ctrl_from_generic(w, c) ==
  Axes(0..5, gc_desc, gc_ctrl_special_action(Keep(gc_layout(w), w, c), c), c)
gc_kb_from_generic(codes, w, c) == FirstKeys(3, codes, w, c)
gc_from_generic(mode, codes, w, c) ==
  IF mode = "kb" THEN gc_kb_from_generic(codes, w, c) ELSE gc_ctrl_from_generic(w, c)
gc_gen_turbo_mask(w, pace, frame) == MaskOf(gc_layout(w), 0..5, w, pace, frame)

\* Wii: on the Classic Pro the triggers are as the buttons are.
wii_meta_init(mode) ==
  Described(IF mode = "alt" THEN Bits(4352, 255) ELSE Bits(0, 255), wiic_axes_meta)
wii_init_buffer(w) == Rest(w, wiic_axes_meta)
ProTriggers(w) == [w EXCEPT !.ax[4] = IF "L" \in w.out THEN 248 ELSE 0,
                            !.ax[5] = IF "R" \in w.out THEN 248 ELSE 0]
wii_from_generic(mode, w, c) ==
  LET buttons == Keep(wiic_btns_mask, w, c)
  IN Axes(0..5, c.desc, IF mode = "pad" THEN ProTriggers(buttons) ELSE buttons, c)
wii_gen_turbo_mask(w, pace, frame) == MaskOf(wiic_btns_mask, 0..5, w, pace, frame)

\* NES, SNES, Famicom, Virtual Boy: on a VTAP board PAD_LJ drives the palette pin and PAD_RJ
\* turns the mode pin.
npiso_table(sys) == IF sys = "VBOY" THEN npiso_vb_btns_mask ELSE npiso_btns_mask
npiso_meta_init(mode) == IF mode = "mouse" THEN MouseAxes ELSE Keyboard
npiso_init_buffer(w) == Rest(w, NoAxes)
Palette(w, c) ==
  [w EXCEPT !.pins = IF 27 \notin c.map THEN @ ELSE IF 27 \in c.on THEN @ \ {"pal"} ELSE @ \cup {"pal"}]
TurnMode(w) == [w EXCEPT !.pins = IF "mode" \in @ THEN @ \ {"mode"} ELSE @ \cup {"mode"}]
npiso_vtap_gpio(w, c) ==
  LET v == Palette(w, c) IN AtRelease(v, c, 31, "R2", TurnMode(v))
npiso_ctrl_from_generic(sys, w, c) == Keep(npiso_table(sys), w, c)
npiso_mouse_from_generic(w, c) == Mouse(npiso_mouse_btns_mask, w, c)
npiso_trackball_from_generic(w, c) == Mouse(npiso_trackball_btns_mask, w, c)
npiso_kb_from_generic(w, c) == Matrix(w, c)
npiso_from_generic(sys, mode, w, c) ==
  CASE mode = "kb" -> npiso_kb_from_generic(w, c)
    [] mode = "mouse" -> IF sys = "SNES" THEN npiso_mouse_from_generic(w, c)
                         ELSE npiso_trackball_from_generic(w, c)
    [] OTHER -> IF sys = "VBOY" THEN npiso_vtap_gpio(npiso_ctrl_from_generic(sys, w, c), c)
                ELSE npiso_ctrl_from_generic(sys, w, c)
npiso_gen_turbo_mask(sys, w, pace, frame) == MaskOf(npiso_table(sys), {}, w, pace, frame)

----------------------------------------------------------------------------
\* Saturn: the 3D pad's triggers have a switch that closes above 8D and opens below 56; its two
\* buttons are then the axes' alone.  The keyboard shows a pad's buttons too.
saturn_3d_desc == Bits(4352, 15)
saturn_axes == {0, 1, 4, 5}
saturn_meta_init(mode) ==
  CASE mode = "kb" -> Keyboard [] mode = "mouse" -> MouseAxes
    [] mode = "alt" -> Described(saturn_3d_desc, saturn_axes_meta)
    [] OTHER -> Described({}, saturn_axes_meta)
saturn_init_buffer(mode, w) == Rest(w, IF mode \in {"kb", "mouse"} THEN NoAxes ELSE saturn_axes_meta)
saturn_ctrl_special_action(w, c) == ModeSwitch(w, c)
SaturnButtons(w, c) ==
  IF w.mode # "alt" THEN Plain(saturn_btns_mask, w, c)
  ELSE Plain(saturn_btns_mask, w, [c EXCEPT !.map = @ \ ({24, 28} \ c.on)])
TriggerSwitch(w, axis, wire) ==
  [w EXCEPT !.out = IF w.ax[axis] < 86 THEN @ \ {wire} ELSE IF w.ax[axis] > 141 THEN @ \cup {wire} ELSE @]
saturn_ctrl_from_generic(w, c) ==
  LET buttons == SaturnButtons(w, c)
      acted == saturn_ctrl_special_action(buttons, c)
  IN IF acted.mode # "alt" THEN acted
     ELSE TriggerSwitch(TriggerSwitch(Axes(saturn_axes, saturn_3d_desc, acted, c), 4, "L"), 5, "R")
saturn_mouse_from_generic(w, c) == Mouse(sega_mouse_btns_mask, w, c)
saturn_kb_from_generic(w, c) == Mouse(saturn_btns_mask, w, c)
saturn_from_generic(mode, w, c) ==
  CASE mode = "kb" -> saturn_kb_from_generic(w, c)
    [] mode = "mouse" -> saturn_mouse_from_generic(w, c)
    [] OTHER -> saturn_ctrl_from_generic(w, c)
saturn_gen_turbo_mask(w, pace, frame) == MaskOf(saturn_btns_mask, saturn_axes, w, pace, frame)

\* Dreamcast.  The keyboard's report keeps the keys that are still down in their places and puts
\* new ones behind them.
dc_desc == Bits(4352, 255)
dc_meta_init(mode) ==
  CASE mode = "kb" -> Keyboard [] mode = "mouse" -> Described(Bits(0, 49392), NoAxes)
    [] OTHER -> Described(dc_desc, dc_axes_meta)
dc_init_buffer(mode, w) == Rest(w, IF mode \in {"kb", "mouse"} THEN NoAxes ELSE dc_axes_meta)
dc_ctrl_special_action(w, c) == ModeSwitch(w, c)
dc_ctrl_from_generic(w, c) ==
  Axes(0..5, dc_desc, dc_ctrl_special_action(Plain(dc_btns_mask, w, c), c), c)
dc_mouse_from_generic(w, c) == Mouse(dc_mouse_btns_mask, w, c)
dc_kb_from_generic(n, codes, w, c) ==
  LET kept == SelectSeq(w.held, LAMBDA k : k \in c.on)
      fresh == {k \in c.on \cap c.map \cap codes : \A j \in DOMAIN kept : kept[j] # k}
  IN [w EXCEPT !.held = kept \o FirstKeys(n - Len(kept), fresh, w, c).held]
dc_from_generic(mode, n, codes, w, c) ==
  CASE mode = "kb" -> dc_kb_from_generic(n, codes, w, c)
    [] mode = "mouse" -> dc_mouse_from_generic(w, c)
    [] OTHER -> dc_ctrl_from_generic(w, c)
dc_gen_turbo_mask(w, pace, frame) == MaskOf(dc_btns_mask, 0..5, w, pace, frame)

\* Mega Drive: by port and multitap, a pad on the port's own lines (std), on the Team Player (twh)
\* or on EA's 4-Way Play (ea), whose ports all have the wires of the first and no turbo.  The
\* first two ports are set up together, whichever asks.
genesis_special_action(w, c) == ModeSwitch(w, c)
genesis_std_from_generic(w, c) == genesis_special_action(Banks(genesis_btns_mask, w, c), c)
genesis_twh_from_generic(w, c) == genesis_special_action(Keep(genesis_twh_btns_mask, w, c), c)
genesis_ea_from_generic(w, c) ==
  genesis_special_action([w EXCEPT !.out = Closed(genesis_btns_mask, w, c)], c)
genesis_kind(tap, index) ==
  CASE tap = "alt" /\ index < 4 -> "ea"
    [] index = 0 /\ tap \notin {"slot1", "dual"} -> "std"
    [] index = 1 /\ tap \notin {"slot2", "dual"} -> "std"
    [] OTHER -> "twh"
genesis_from_generic(mode, tap, w, c) ==
  CASE mode = "mouse" -> Mouse(sega_mouse_btns_mask, w, c)
    [] genesis_kind(tap, c.index) = "std" -> genesis_std_from_generic(w, c)
    [] genesis_kind(tap, c.index) = "ea" -> genesis_ea_from_generic(w, c)
    [] OTHER -> genesis_twh_from_generic(w, c)
genesis_meta_init(mode) == IF mode = "mouse" THEN MouseAxes ELSE Keyboard
genesis_init_buffer(w) == Rest(w, NoAxes)
genesis_gen_turbo_mask(w, pace, frame) == MaskOf(genesis_btns_mask, {}, w, pace, frame)
genesis_twh_gen_turbo_mask(w, pace, frame) == MaskOf(genesis_twh_btns_mask, {}, w, pace, frame)

----------------------------------------------------------------------------
\* PlayStation: the buttons that report pressure are axes; one that is pressed at all closes its
\* button, one at zero opens it.  PAD_MT is the ANALOG button.
ps_desc == Bits(13071, 4095)
ps_meta_init(mode) ==
  CASE mode = "kb" -> Keyboard [] mode = "mouse" -> MouseAxes
    [] OTHER -> Described(ps_desc, ps_axes_meta)
ps_init_buffer(mode, w) ==
  [Rest(w, IF mode \in {"kb", "mouse"} THEN NoAxes ELSE ps_axes_meta) EXCEPT !.pins = {}]
Analog(w, c) ==
  [w EXCEPT !.pins = IF 22 \notin c.map THEN @ ELSE IF 22 \in c.on THEN {"analog"} ELSE {}]
PressureButtons(w, c) ==
  LET told == {i \in 4..15 : axis_to_btn_mask(i) \cap ps_desc \cap c.map # {}}
      wires(n) == Wires(ps_btns_mask, {axis_to_btn_id(i) : i \in n})
  IN [w EXCEPT !.out = (@ \ wires({i \in told : w.ax[i] = 0})) \cup wires({i \in told : w.ax[i] # 0})]
ps_ctrl_from_generic(w, c) ==
  PressureButtons(Axes(0..15, ps_desc, Analog(Plain(ps_btns_mask, w, c), c), c), c)
ps_mouse_from_generic(w, c) == Mouse(ps_mouse_btns_mask, w, c)
ps_from_generic(mode, w, c) ==
  CASE mode = "kb" -> w [] mode = "mouse" -> ps_mouse_from_generic(w, c)
    [] OTHER -> ps_ctrl_from_generic(w, c)
ps_gen_turbo_mask(w, pace, frame) ==
  LET hidden == IF Hides(pace, frame) THEN w.cnt ELSE {}
  IN Masks(Wires(ps_btns_mask, hidden),
           {i \in 4..15 : axis_to_btn_id(i) \in hidden \cap ps_btns_idx}
             \cup wired_gen_turbo_mask_axes8(0..3, w, pace, frame))

\* 3DO: a pad, or a flight stick whose three axes have ten bits.
real_fs_desc == Bits(0, 207)
real_ctrl_special_action(w, c) == ModeSwitch(w, c)
real_meta_init(mode) ==
  CASE mode = "mouse" -> MouseAxes [] mode = "alt" -> Described(real_fs_desc, real_fs_axes_meta)
    [] OTHER -> Keyboard
real_init_buffer(mode, w) == Rest(w, IF mode = "alt" THEN real_fs_axes_meta ELSE NoAxes)
real_ctrl_from_generic(w, c) == real_ctrl_special_action(Keep(real_btns_mask, w, c), c)
NoTurboAxes(w, c) == [Axes({0, 1, 3}, real_fs_desc, w, c) EXCEPT !.cnt = w.cnt]
real_fs_from_generic(w, c) ==
  NoTurboAxes(real_ctrl_special_action(Keep(real_fs_btns_mask, w, c), c), c)
real_mouse_from_generic(w, c) == Mouse(real_mouse_btns_mask, w, c)
real_from_generic(mode, w, c) ==
  CASE mode = "mouse" -> real_mouse_from_generic(w, c)
    [] mode = "alt" -> real_fs_from_generic(w, c)
    [] OTHER -> real_ctrl_from_generic(w, c)
real_gen_turbo_mask(w, pace, frame) ==
  MaskOf(IF w.mode = "pad" THEN real_btns_mask ELSE real_fs_btns_mask, {}, w, pace, frame)

----------------------------------------------------------------------------
\* PC Engine: the first port's mode is every port's.
pce_table(w) == IF w.mode = "alt" THEN pce_6btns_btns_mask ELSE pce_btns_mask
pce_ctrl_special_action(w, c) == ModeSwitch(w, c)
pce_meta_init(mode) == IF mode = "mouse" THEN MouseAxes ELSE Keyboard
pce_init_buffer(w) == Rest(w, NoAxes)
pce_ctrl_from_generic(w, c) == pce_ctrl_special_action(Banks(pce_table(w), w, c), c)
pce_mouse_from_generic(w, c) == Mouse(pce_mouse_btns_mask, w, c)
pce_kb_from_generic(w, c) == Matrix(w, c)
pce_from_generic(mode, w, c) ==
  CASE mode = "kb" -> pce_kb_from_generic(w, c)
    [] mode = "mouse" -> pce_mouse_from_generic(w, c)
    [] OTHER -> pce_ctrl_from_generic(w, c)
pce_gen_turbo_mask(w, pace, frame) == MaskOf(pce_table(w), {}, w, pace, frame)

\* Jaguar: a pad, or Atari's six axis controller, where a button's count is never cleared.
jag_6d_desc == Bits(4352, 255)
jag_meta_init(mode) == IF mode = "alt" THEN Described(jag_6d_desc, jag_6d_axes_meta) ELSE Keyboard
jag_init_buffer(mode, w) == Rest(w, IF mode = "alt" THEN jag_6d_axes_meta ELSE NoAxes)
jag_ctrl_from_generic(w, c) == Banks(jag_btns_mask, w, c)
jag_6d_from_generic(w, c) ==
  LET buttons == [w EXCEPT !.out = LastWins(jag_6d_btns_mask, w, c),
                           !.cnt = (@ \ c.on) \cup (c.on \cap c.turbo)]
  IN [Axes(0..5, jag_6d_desc, buttons, c) EXCEPT !.cnt = buttons.cnt]
jag_from_generic(mode, w, c) ==
  IF mode = "alt" THEN jag_6d_from_generic(w, c) ELSE jag_ctrl_from_generic(w, c)
jag_gen_turbo_mask(w, pace, frame) ==
  MaskOf(IF w.mode = "alt" THEN jag_6d_btns_mask ELSE jag_btns_mask, {}, w, pace, frame)

----------------------------------------------------------------------------
\* CD-i: the axes go out as they are (CdiPort cuts them to its format).
cdi_desc == Bits(0, 15)
cdi_meta_init(mode) ==
  CASE mode = "kb" -> Keyboard [] mode = "mouse" -> MouseAxes [] OTHER -> Described(cdi_desc, cdi_axes_meta)
cdi_init_buffer(mode, w) == Rest(w, IF mode = "pad" THEN cdi_axes_meta ELSE NoAxes)
AsItIs(m, v) == v
cdi_ctrl_from_generic(w, c) == AxesBy(AsItIs, 0..1, cdi_desc, Plain(cdi_btns_mask, w, c), c)
cdi_mouse_from_generic(w, c) == Mouse(cdi_mouse_btns_mask, w, c)
cdi_from_generic(mode, w, c) ==
  CASE mode = "kb" -> w [] mode = "mouse" -> cdi_mouse_from_generic(w, c)
    [] OTHER -> cdi_ctrl_from_generic(w, c)
cdi_gen_turbo_mask(w, pace, frame) == MaskOf(cdi_btns_mask, 0..1, w, pace, frame)

\* PC-FX: PAD_LJ and PAD_RJ turn the two mode switches.
pcfx_meta_init(mode) == IF mode = "mouse" THEN MouseAxes ELSE Keyboard
pcfx_init_buffer(w) == Rest(w, NoAxes)
Turn(w, wire) == [w EXCEPT !.out = IF wire \in @ THEN @ \ {wire} ELSE @ \cup {wire}]
pcfx_ctrl_from_generic(w, c) ==
  LET kept == Keep(pcfx_btns_mask, w, c)
      one == AtRelease(kept, c, 27, "R1", Turn(kept, "MODE1"))
  IN AtRelease(one, c, 31, "R2", Turn(one, "MODE2"))
pcfx_mouse_from_generic(w, c) == Mouse(pcfx_mouse_btns_mask, w, c)
pcfx_from_generic(mode, w, c) ==
  IF mode = "mouse" THEN pcfx_mouse_from_generic(w, c) ELSE pcfx_ctrl_from_generic(w, c)
pcfx_gen_turbo_mask(w, pace, frame) == MaskOf(pcfx_btns_mask, {}, w, pace, frame)

\* JVS: PAD_MS drops a coin, PAD_MQ is the test switch.  A value out of range is cut without the
\* neutral point that is added to one in range.
jvs_desc == Bits(0, 15)
jvs_meta_init == Described(jvs_desc, jvs_axes_meta)
jvs_init_buffer(w) == [Rest(w, jvs_axes_meta) EXCEPT !.num = 0]
JvsCode(m, v) == IF v > m.max THEN 32767 ELSE IF v < m.min THEN 32768 ELSE Code(m, v)
AddCoin(w) == [w EXCEPT !.num = IF @ < WrCoins THEN @ + 1 ELSE @]
TestSwitch(w, c) ==
  [w EXCEPT !.pins = IF 23 \notin c.map THEN @ ELSE IF 23 \in c.on THEN {"test"} ELSE {}]
jvs_from_generic(w, c) ==
  LET kept == Keep(jvs_btns_mask, w, c)
  IN AxesBy(JvsCode, 0..1, jvs_desc,
            TestSwitch(AtRelease(kept, c, 21, "R1", AddCoin(kept)), c), c)
jvs_gen_turbo_mask(w, pace, frame) == MaskOf(jvs_btns_mask, 0..1, w, pace, frame)

\* XInput: up is positive on its sticks.  Its turbo is switched off.
gen_desc == Bits(4352, 255)
gen_meta_init == Described(gen_desc, gen_axes_meta)
gen_init_buffer(w) == Rest(w, gen_axes_meta)
gen_invert_axis(v) == IF v = -32768 THEN 32767 ELSE -v
InvertedCode(m, v) == gen_invert_axis(Code(m, v))
gen_from_generic(w, c) ==
  AxesBy(InvertedCode, {1, 3}, gen_desc,
         Axes({0, 2, 4, 5}, gen_desc, Plain(gen_btns_mask, w, c), c), c)
gen_gen_turbo_mask(w, pace, frame) == Masks({}, {})

----------------------------------------------------------------------------
\* Parallel ports: a report also drives the pins, with the turbo of the last frame (mask).
Drive(w) == [w EXCEPT !.pins = w.out \ w.mask]

\* One player.  A wire of the second output register is tested in the mask of the first, so that
\* a released button always opens it.
para_1p_meta_init == Keyboard
para_1p_init_buffer(w) == [Rest(w, NoAxes) EXCEPT !.mask = {}]
HighWires(table, high, w, c) ==
  [w EXCEPT !.out = {x \in Closed(table, w, c) : x \in high => x \in LastWins(table, w, c)},
            !.cnt = Counted(w, c)]
para_1p_from_generic(w, c) ==
  IF c.index < 1 THEN Drive(HighWires(para_1p_btns_mask, para_1p_high, w, c)) ELSE w
para_1p_gen_turbo_mask(w, pace, frame) == MaskOf(para_1p_btns_mask, {}, w, pace, frame)

\* Two players: the pins of the two ports are apart, and each report drives both.
para_2p_meta_init == Keyboard
para_2p_init_buffer(w) == [Rest(w, NoAxes) EXCEPT !.mask = {}]
para_2p_from_generic(w, c) == IF c.index < 2 THEN Drive(Plain(para_2p_btns_mask, w, c)) ELSE w
para_2p_gen_turbo_mask(w, pace, frame) == MaskOf(para_2p_btns_mask, {}, w, pace, frame)

\* The SEA board, with the menu of the GBA HD kit: PAD_MT opens it, and while it is open the pins
\* rest.  Line 0 is outside the menu, line n its entry n - 1.
sea_meta_init == Keyboard
sea_init_buffer(w) ==
  [Rest(w, NoAxes) EXCEPT !.mask = {}, !.osd = [w.osd EXCEPT !.line = 0, !.set = w.osd.saved]]
OpenMenu(w) == [w EXCEPT !.osd.line = 1]
menu_buttons == {8, 9, 10, 11, 16, 18, 20}
Step(n, skipped, dir) ==
  LET next == (n + dir) % 4 IN IF next = skipped THEN (next + dir) % 4 ELSE next
Change(set, line, dir) ==
  CASE line = 1 -> [set EXCEPT !.grid = Step(@, 2, dir)]
    [] line = 3 -> [set EXCEPT !.smooth = Step(@, 3, dir)]
    [] OTHER -> [set EXCEPT !.flags = IF line \in @ THEN @ \ {line} ELSE @ \cup {line}]
MenuButton(w) ==
  LET osd == w.osd
      button == osd.button
  IN [w EXCEPT !.osd =
       CASE button = 8 -> [osd EXCEPT !.set = Change(@, osd.line, -1)]
         [] button \in {9, 18} -> [osd EXCEPT !.set = Change(@, osd.line, 1)]
         [] button = 10 -> [osd EXCEPT !.line = IF @ < WrLines THEN @ + 1 ELSE @]
         [] button = 11 -> [osd EXCEPT !.line = IF @ > 1 THEN @ - 1 ELSE @]
         [] button = 16 -> [osd EXCEPT !.line = 0]
         [] button = 20 -> [osd EXCEPT !.line = 0, !.saved = osd.set]
         [] OTHER -> osd]
gbahd_osd(w, c) ==
  IF w.osd.line = 0
  THEN IF 22 \in c.on THEN [w EXCEPT !.wait = @ \cup {"R1"}]
       ELSE IF "R1" \in w.wait THEN OpenMenu([w EXCEPT !.wait = @ \ {"R1"}]) ELSE w
  ELSE IF c.on \cap menu_buttons # {}
       THEN IF "R1" \in w.wait THEN w
            ELSE [w EXCEPT !.wait = @ \cup {"R1"}, !.osd.button = CHOOSE i \in c.on : \A j \in c.on : i <= j]
       ELSE IF "R1" \in w.wait THEN MenuButton([w EXCEPT !.wait = @ \ {"R1"}]) ELSE w
sea_from_generic(w, c) ==
  LET buttons == HighWires(sea_btns_mask, sea_high, w, c)
  IN IF c.index >= 1 THEN w
     ELSE gbahd_osd(IF w.osd.line = 0 THEN Drive(buttons) ELSE buttons, c)
sea_gen_turbo_mask(w, pace, frame) == MaskOf(sea_btns_mask, {}, w, pace, frame)

\* What drives the frames of the parallel ports.
wired_para_turbo_mask_hdlr(sys, w, pace, frame) ==
  LET mask == CASE sys = "PARALLEL_1P" -> para_1p_gen_turbo_mask(w, pace, frame)
                [] sys = "PARALLEL_2P" -> para_2p_gen_turbo_mask(w, pace, frame)
                [] OTHER -> sea_gen_turbo_mask(w, pace, frame)
      masked == [w EXCEPT !.mask = mask.out]
  IN IF sys = "SEA" /\ w.osd.line # 0 THEN masked ELSE Drive(masked)

----------------------------------------------------------------------------
(* The tables of wired.c, by system.  n keys fit the report of a keyboard  *)
(* that lists them, and those in codes have a scancode there.              *)
parallel == {"PARALLEL_1P", "PARALLEL_2P", "SEA"}
npiso == {"NES", "SNES", "VBOY"}

wired_meta_init(sys, mode) ==
  CASE sys = "N64" -> n64_meta_init(mode) [] sys = "GC" -> gc_meta_init(mode)
    [] sys = "WII_EXT" -> wii_meta_init(mode) [] sys \in npiso -> npiso_meta_init(mode)
    [] sys = "SATURN" -> saturn_meta_init(mode) [] sys = "DC" -> dc_meta_init(mode)
    [] sys = "GENESIS" -> genesis_meta_init(mode) [] sys = "PSX" -> ps_meta_init(mode)
    [] sys = "3DO" -> real_meta_init(mode) [] sys = "PCE" -> pce_meta_init(mode)
    [] sys = "JAGUAR" -> jag_meta_init(mode) [] sys = "CDI" -> cdi_meta_init(mode)
    [] sys = "PCFX" -> pcfx_meta_init(mode) [] sys = "JVS" -> jvs_meta_init
    [] sys = "XINPUT" -> gen_meta_init [] sys = "PARALLEL_1P" -> para_1p_meta_init
    [] sys = "PARALLEL_2P" -> para_2p_meta_init [] sys = "SEA" -> sea_meta_init

wired_init_buffer(sys, mode, w) ==
  CASE sys = "N64" -> n64_init_buffer(mode, w) [] sys = "GC" -> gc_init_buffer(mode, w)
    [] sys = "WII_EXT" -> wii_init_buffer(w) [] sys \in npiso -> npiso_init_buffer(w)
    [] sys = "SATURN" -> saturn_init_buffer(mode, w) [] sys = "DC" -> dc_init_buffer(mode, w)
    [] sys = "GENESIS" -> genesis_init_buffer(w) [] sys = "PSX" -> ps_init_buffer(mode, w)
    [] sys = "3DO" -> real_init_buffer(mode, w) [] sys = "PCE" -> pce_init_buffer(w)
    [] sys = "JAGUAR" -> jag_init_buffer(mode, w) [] sys = "CDI" -> cdi_init_buffer(mode, w)
    [] sys = "PCFX" -> pcfx_init_buffer(w) [] sys = "JVS" -> jvs_init_buffer(w)
    [] sys = "XINPUT" -> gen_init_buffer(w) [] sys = "PARALLEL_1P" -> para_1p_init_buffer(w)
    [] sys = "PARALLEL_2P" -> para_2p_init_buffer(w) [] sys = "SEA" -> sea_init_buffer(w)

wired_from_generic(sys, tap, n, codes, w, c) ==
  CASE sys = "N64" -> n64_from_generic(w.mode, codes, w, c)
    [] sys = "GC" -> gc_from_generic(w.mode, codes, w, c)
    [] sys = "WII_EXT" -> wii_from_generic(w.mode, w, c)
    [] sys \in npiso -> npiso_from_generic(sys, w.mode, w, c)
    [] sys = "SATURN" -> saturn_from_generic(w.mode, w, c)
    [] sys = "DC" -> dc_from_generic(w.mode, n, codes, w, c)
    [] sys = "GENESIS" -> genesis_from_generic(w.mode, tap, w, c)
    [] sys = "PSX" -> ps_from_generic(w.mode, w, c) [] sys = "3DO" -> real_from_generic(w.mode, w, c)
    [] sys = "PCE" -> pce_from_generic(w.mode, w, c) [] sys = "JAGUAR" -> jag_from_generic(w.mode, w, c)
    [] sys = "CDI" -> cdi_from_generic(w.mode, w, c) [] sys = "PCFX" -> pcfx_from_generic(w.mode, w, c)
    [] sys = "JVS" -> jvs_from_generic(w, c) [] sys = "XINPUT" -> gen_from_generic(w, c)
    [] sys = "PARALLEL_1P" -> para_1p_from_generic(w, c)
    [] sys = "PARALLEL_2P" -> para_2p_from_generic(w, c) [] sys = "SEA" -> sea_from_generic(w, c)

\* What the drivers hide of a report in a frame (the Team Player's ports have wires of their own).
gen_turbo_mask(sys, tap, index, w, pace, frame) ==
  CASE sys = "N64" -> n64_gen_turbo_mask(w, pace, frame)
    [] sys = "GC" -> gc_gen_turbo_mask(w, pace, frame)
    [] sys = "WII_EXT" -> wii_gen_turbo_mask(w, pace, frame)
    [] sys \in npiso -> npiso_gen_turbo_mask(sys, w, pace, frame)
    [] sys = "SATURN" -> saturn_gen_turbo_mask(w, pace, frame)
    [] sys = "DC" -> dc_gen_turbo_mask(w, pace, frame)
    [] sys = "GENESIS" -> IF genesis_kind(tap, index) = "twh"
                          THEN genesis_twh_gen_turbo_mask(w, pace, frame)
                          ELSE genesis_gen_turbo_mask(w, pace, frame)
    [] sys = "PSX" -> ps_gen_turbo_mask(w, pace, frame)
    [] sys = "3DO" -> real_gen_turbo_mask(w, pace, frame)
    [] sys = "PCE" -> pce_gen_turbo_mask(w, pace, frame)
    [] sys = "JAGUAR" -> jag_gen_turbo_mask(w, pace, frame)
    [] sys = "CDI" -> cdi_gen_turbo_mask(w, pace, frame)
    [] sys = "PCFX" -> pcfx_gen_turbo_mask(w, pace, frame)
    [] sys = "JVS" -> jvs_gen_turbo_mask(w, pace, frame)
    [] sys = "XINPUT" -> gen_gen_turbo_mask(w, pace, frame)
    [] sys = "PARALLEL_1P" -> para_1p_gen_turbo_mask(w, pace, frame)
    [] sys = "PARALLEL_2P" -> para_2p_gen_turbo_mask(w, pace, frame)
    [] sys = "SEA" -> sea_gen_turbo_mask(w, pace, frame)

----------------------------------------------------------------------------
(* What a run looks at.                                                    *)

\* The wires of a pad, a mouse or a keyboard that shows some buttons.
TableOf(sys, mode, tap, index, byName) ==
  CASE mode = "mouse" ->
        (CASE sys = "N64" -> n64_mouse_btns_mask [] sys = "SNES" -> npiso_mouse_btns_mask
           [] sys = "NES" -> npiso_trackball_btns_mask [] sys \in {"SATURN", "GENESIS"} -> sega_mouse_btns_mask
           [] sys = "DC" -> dc_mouse_btns_mask [] sys = "PSX" -> ps_mouse_btns_mask
           [] sys = "3DO" -> real_mouse_btns_mask [] sys = "PCE" -> pce_mouse_btns_mask
           [] sys = "CDI" -> cdi_mouse_btns_mask [] sys = "PCFX" -> pcfx_mouse_btns_mask)
    [] sys = "N64" -> n64_btns_mask [] sys = "GC" -> IF byName THEN gc_btns_mask_alt ELSE gc_btns_mask
    [] sys = "WII_EXT" -> wiic_btns_mask [] sys \in npiso -> npiso_table(sys)
    [] sys = "SATURN" -> saturn_btns_mask [] sys = "DC" -> dc_btns_mask
    [] sys = "GENESIS" -> IF genesis_kind(tap, index) = "twh" THEN genesis_twh_btns_mask ELSE genesis_btns_mask
    [] sys = "PSX" -> ps_btns_mask [] sys = "3DO" -> IF mode = "alt" THEN real_fs_btns_mask ELSE real_btns_mask
    [] sys = "PCE" -> IF mode = "alt" THEN pce_6btns_btns_mask ELSE pce_btns_mask
    [] sys = "JAGUAR" -> IF mode = "alt" THEN jag_6d_btns_mask ELSE jag_btns_mask
    [] sys = "CDI" -> cdi_btns_mask [] sys = "PCFX" -> pcfx_btns_mask [] sys = "JVS" -> jvs_btns_mask
    [] sys = "XINPUT" -> gen_btns_mask [] sys \in {"PARALLEL_1P", "SEA"} -> para_1p_btns_mask
    [] sys = "PARALLEL_2P" -> para_2p_btns_mask

systems == {"N64", "GC", "WII_EXT", "SATURN", "DC", "GENESIS", "PSX", "3DO", "PCE", "JAGUAR", "CDI",
  "PCFX", "JVS", "XINPUT"} \cup npiso \cup parallel
alternate == {"WII_EXT", "SATURN", "3DO", "PCE", "JAGUAR"}    \* systems with a second pad
mice == {"N64", "SNES", "NES", "SATURN", "GENESIS", "DC", "PSX", "3DO", "PCE", "CDI", "PCFX"}
keyboards == {"N64", "GC", "DC", "NES", "PCE"}
switchers == {"SATURN", "DC", "GENESIS", "PCE", "3DO"}        \* systems where PAD_MT changes the mode
specials(sys) ==
  CASE sys = "N64" -> {22, 23} [] sys = "GC" -> {21} [] sys = "VBOY" -> {31} [] sys = "PCFX" -> {27, 31}
    [] sys = "JVS" -> {21} [] sys \in switchers -> {22} [] OTHER -> {}
modes(sys) == {"pad"} \cup (IF sys \in alternate THEN {"alt"} ELSE {})
                \cup (IF sys \in mice THEN {"mouse"} ELSE {})
                \cup (IF sys = "SATURN" THEN {"kb"} ELSE {})
taps(sys) == IF sys = "GENESIS" THEN {"none", "slot1", "alt"} ELSE {"none"}

Setup(mode, tap, map, press, turbo, axis, axisTurbo, pace) ==
  [mode |-> mode, tap |-> tap, index |-> 0, map |-> map, press |-> press, turbo |-> turbo,
   axis |-> axis, axisTurbo |-> axisTurbo, pace |-> pace]
Still == [any |-> FALSE, bits |-> {}]
Paces == {[any |-> FALSE, bits |-> {0, 1}], [any |-> TRUE, bits |-> {0, 1}]}

Sources(table, wire) == {i \in DOMAIN table : table[i] = wire}
Buttons(sys, mode, tap) ==
  LET table == TableOf(sys, mode, tap, 0, FALSE)
      desc == wired_meta_init(sys, mode).desc
  IN UNION {{Setup(mode, tap, <<fingers, second>>, fingers \ desc, turbo, -1, FALSE,
                   IF turbo = {} THEN Still ELSE pace) :
               second \in {{}, {CHOOSE i \in fingers : \A j \in fingers : j <= i}},
               turbo \in {{}, fingers, {CHOOSE i \in fingers : \A j \in fingers : j <= i}}, pace \in Paces} :
            fingers \in {Sources(table, table[i]) : i \in DOMAIN table}}
Specials(sys, mode, tap) ==
  {Setup(mode, tap, <<Ids \ wired_meta_init(sys, mode).desc, second>>, {s, 18}, {}, -1, FALSE, Still) :
     s \in specials(sys), second \in {{}, {18}}}
AxisPlays(sys, mode) ==
  {Setup(mode, "none", <<axis_to_btn_mask(a) \cap wired_meta_init(sys, mode).desc, {}>>, {}, {}, a, turbo,
         IF turbo THEN pace ELSE Still) :
     a \in {a \in 0..15 : /\ a \in DOMAIN wired_meta_init(sys, mode).meta
                          /\ axis_to_btn_mask(a) \cap wired_meta_init(sys, mode).desc # {}},
     turbo \in BOOLEAN, pace \in Paces}
KeyPlays(sys) ==
  {Setup("kb", "none", <<0..(WrKeys + 1), {}>>, 0..(WrKeys + 1), {}, -1, FALSE, Still)}
MenuPlays ==
  {Setup("pad", "none", <<menu_buttons \cup {22}, {}>>, press, {}, -1, FALSE, Still) :
     press \in {{10, 18, 22}, {8, 10, 11, 22}, {18, 20, 22}, {8, 16, 22}}}
Plays(sys) ==
  UNION {Buttons(sys, mode, tap) : mode \in modes(sys), tap \in taps(sys)}
  \cup UNION {Specials(sys, mode, tap) : mode \in modes(sys) \ {"mouse", "kb"}, tap \in taps(sys)}
  \cup UNION {AxisPlays(sys, mode) : mode \in modes(sys)}
  \cup (IF sys \in keyboards THEN KeyPlays(sys) ELSE {})
  \cup (IF sys = "SEA" THEN MenuPlays ELSE {})

\* The values of an axis: around the ends of its range, its middle and the trigger's switch.
Values(m) == {m.min - 1, m.min, 0, m.max, m.max + 1}
               \cup (IF m.min = 0 THEN {60, 100, 150, 240} ELSE {m.min \div 2, m.max \div 2})
codes == 0..WrKeys    \* the keys with a scancode; the last one has none

----------------------------------------------------------------------------
Blank(mode) ==
  [out |-> {}, cnt |-> {}, ax |-> NoAxes, held |-> <<>>, wait |-> {}, mode |-> mode, rst |-> FALSE,
   pak |-> "mem", num |-> 0, byName |-> FALSE, pins |-> {}, mask |-> {},
   osd |-> [line |-> 0, button |-> 0, set |-> [grid |-> 0, smooth |-> 0, flags |-> {}],
            saved |-> [grid |-> 0, smooth |-> 0, flags |-> {}]]]

Init ==
  /\ wrSys \in systems
  /\ wrCfg \in Plays(wrSys)
  /\ wrOn = [k \in Controllers |-> {}]
  /\ wrVal = 0
  /\ wrPort = wired_init_buffer(wrSys, wrCfg.mode, Blank(wrCfg.mode))
  /\ wrHist = [half |-> [s \in specials(wrSys) |-> FALSE], done |-> [s \in specials(wrSys) |-> 0]]

\* A controller's report as the mapping leaves it; the port is described anew for each.
Report(k, on, value) ==
  LET described == wired_meta_init(wrSys, wrPort.mode)
  IN [map |-> wrCfg.map[k], on |-> on \ described.desc, turbo |-> wrCfg.turbo, index |-> wrCfg.index,
      axes |-> [i \in 0..15 |-> IF i = wrCfg.axis /\ k = 1 THEN value ELSE 0],
      axisTurbo |-> IF k = 1 /\ wrCfg.axisTurbo /\ value # 0 THEN {wrCfg.axis} ELSE {},
      desc |-> described.desc, meta |-> described.meta]

\* History: which special buttons are half way through a press and a release, and how often one
\* went all the way (as far as the switch it turns counts).
Made(on) ==
  [half |-> [s \in DOMAIN wrHist.half |-> s \in on],
   done |-> [s \in DOMAIN wrHist.done |->
     IF wrHist.half[s] /\ s \notin on
     THEN IF wrSys = "JVS" THEN (IF wrHist.done[s] < WrCoins THEN wrHist.done[s] + 1 ELSE WrCoins)
          ELSE (wrHist.done[s] + 1) % 4
     ELSE wrHist.done[s]]]

Feed(k, on, value) ==
  /\ wrPort' = wired_from_generic(wrSys, wrCfg.tap, WrKeys, codes, wrPort, Report(k, on, value))
  /\ wrOn' = [wrOn EXCEPT ![k] = on]
  /\ wrVal' = value
  /\ wrHist' = IF k = 1 THEN Made(on) ELSE wrHist
  /\ UNCHANGED <<wrSys, wrCfg>>

Press(k, i) == i \notin wrOn[k] /\ Feed(k, wrOn[k] \cup {i}, wrVal)
Release(k, i) == i \in wrOn[k] /\ Feed(k, wrOn[k] \ {i}, wrVal)
Move(value) == value # wrVal /\ Feed(1, wrOn[1], value)

\* WIRED_RST: the buffers of every port are set up again.
Reset ==
  /\ wrPort.rst
  /\ wrPort' = [wired_init_buffer(wrSys, wrPort.mode, wrPort) EXCEPT !.rst = FALSE]
  /\ UNCHANGED <<wrSys, wrCfg, wrOn, wrVal, wrHist>>

\* A frame of the parallel ports' timer.
Frame(frame) ==
  /\ wrSys \in parallel
  /\ wrPort' = wired_para_turbo_mask_hdlr(wrSys, wrPort, wrCfg.pace, frame)
  /\ UNCHANGED <<wrSys, wrCfg, wrOn, wrVal, wrHist>>

Next ==
  \/ \E k \in Controllers : \E i \in wrCfg.press \cap wrCfg.map[k] : Press(k, i) \/ Release(k, i)
  \/ /\ wrCfg.axis # -1
     /\ \E v \in Values(wired_meta_init(wrSys, wrCfg.mode).meta[wrCfg.axis]) : Move(v)
  \/ Reset
  \/ \E frame \in SUBSET {0, 1} : Frame(frame)

Spec == Init /\ [][Next]_wrVars

(***************************************************************************)
(* Properties                                                              *)
(***************************************************************************)
Released == \A k \in Controllers : wrOn[k] = {}
Table(w) == TableOf(wrSys, IF w.mode = "kb" THEN wrCfg.mode ELSE w.mode, wrCfg.tap, wrCfg.index, w.byName)
AxisWires ==
  CASE wrSys = "PSX" -> Wires(ps_btns_mask, wired_meta_init(wrSys, wrPort.mode).desc)
    [] wrSys = "SATURN" -> {"L", "R"}
    [] OTHER -> {}
Switches == IF wrSys = "PCFX" THEN {"MODE1", "MODE2"} ELSE {}

TypeOK ==
  /\ wrSys \in systems /\ wrCfg \in Plays(wrSys)
  /\ \A k \in Controllers : wrOn[k] \subseteq wrCfg.press \cap wrCfg.map[k]
  /\ wrPort.cnt \subseteq Ids /\ wrPort.wait \subseteq {"R1", "R2"}
  /\ wrPort.mode \in {"pad", "alt", "mouse", "kb"} /\ wrPort.num \in 0..3
  /\ wrPort.osd.line \in 0..WrLines /\ wrPort.osd.set.grid \in {0, 1, 3} /\ wrPort.osd.set.smooth \in 0..2

\* Nothing sticks: once every button is released, by whichever of two controllers last, no wire
\* reads as pressed, but one an axis closes (and the matrix and mode switches, which are no
\* buttons).
NothingSticks ==
  wrPort.mode # "kb" /\ Released => wrPort.out \ Switches \subseteq AxisWires

\* A turbo ends with the buttons: none of the counts a report's buttons left stays, to blink the
\* next press of a button without one.  Not on the Jaguar's six axis controller, which never
\* clears a count.
TurboEnds ==
  /\ Released /\ wrCfg.axis = -1 /\ wrCfg.mode \notin {"mouse", "kb"}
  /\ ~(wrSys = "JAGUAR" /\ wrPort.mode = "alt")
  => wrPort.cnt \cap DOMAIN Table(wrPort) = {}

\* A wire held by buttons with a turbo alone is hidden in one frame and shown in another.  Not
\* where there is no turbo: on mice and keyboards, XInput, EA's ports, and on the Wii Classic
\* Pro's triggers, whose counts its axes overwrite.
Hidden(frame) == gen_turbo_mask(wrSys, wrCfg.tap, wrCfg.index, wrPort, wrCfg.pace, frame).out
HeldBy(wire) == {i \in wrOn[1] \cup wrOn[2] : i \in DOMAIN Table(wrPort) /\ Table(wrPort)[i] = wire}
NoTurbo ==
  \/ wrPort.mode \in {"mouse", "kb"}
  \/ wrSys = "XINPUT"
  \/ wrSys = "GENESIS" /\ wrCfg.tap = "alt"
  \/ wrSys = "WII_EXT" /\ wrPort.mode = "pad"
TurboBlinks ==
  \A x \in wrPort.out :
    ~NoTurbo /\ HeldBy(x) # {} /\ HeldBy(x) \subseteq wrCfg.turbo =>
      /\ \E frame \in SUBSET {0, 1} : x \in Hidden(frame)
      /\ \E frame \in SUBSET {0, 1} : x \notin Hidden(frame)

\* An axis at one end of its range has the code of that end, and at rest that of its neutral
\* point.  (JVS cuts a value beyond the range to the middle, XInput's vertical sticks are
\* upside down, and the CD-i's axes go out as they are.)
CodeOfAxis == wrPort.ax[wrCfg.axis]
AxisEnds ==
  wrCfg.axis # -1 /\ wrSys \notin {"JVS", "CDI"} /\ ~(wrSys = "XINPUT" /\ wrCfg.axis \in {1, 3}) =>
    LET m == wired_meta_init(wrSys, wrCfg.mode).meta[wrCfg.axis]
    IN /\ wrVal > m.max => CodeOfAxis = m.last
       /\ wrVal < m.min => CodeOfAxis = m.first
       /\ wrVal = 0 => CodeOfAxis = m.neutral

\* A special action is taken once for each time its button is pressed and released, whatever
\* reports come in between: the pak and its bank, the layout of the buttons, the mode, the pins
\* and switches, the coins.
Odd(s) == wrHist.done[s] % 2 = 1
SpecialOnce ==
  wrCfg.map[1] \cap specials(wrSys) = specials(wrSys) /\ wrCfg.press \cap specials(wrSys) # {} =>
    CASE wrSys = "N64" -> wrPort.pak = (IF Odd(22) THEN "rumble" ELSE "mem") /\ wrPort.num = wrHist.done[23]
      [] wrSys = "GC" -> wrPort.byName = Odd(21)
      [] wrSys = "VBOY" -> ("mode" \in wrPort.pins) = Odd(31)
      [] wrSys = "PCFX" -> ("MODE1" \in wrPort.out) = Odd(27) /\ ("MODE2" \in wrPort.out) = Odd(31)
      [] wrSys = "JVS" -> wrPort.num = wrHist.done[21]
      [] wrSys \in switchers -> (wrPort.mode = wrCfg.mode) = ~Odd(22)
      [] OTHER -> TRUE

\* After a report of controller k a wire it maps reads as pressed exactly when one of its buttons
\* of that wire is, and a wire it does not map reads as before.  Not on the triggers of the
\* Saturn's 3D pad, and not on the Parallel port's RM, of whose two buttons the one released
\* later in the table opens it while the other is held.
Opened(k) == wrSys = "PARALLEL_1P" /\ {28, 29} \subseteq wrCfg.map[k]
Shown(k) ==
  LET table == Table(wrPort)
      described == wired_meta_init(wrSys, wrPort.mode).desc
  IN \A x \in Wires(table, wrCfg.map[k] \ described) \ AxisWires :
       ~(Opened(k) /\ x = "RM") => (x \in wrPort'.out) = (x \in Wires(table, wrOn'[k]))
Kept(k) ==
  LET mine == Wires(Table(wrPort), wrCfg.map[k]) \cup AxisWires \cup Switches
  IN wrPort'.out \ mine = wrPort.out \ mine
ReportFrom(k) == \E i \in wrCfg.press \cap wrCfg.map[k] : Press(k, i) \/ Release(k, i)
ShownAsPressed ==
  wrPort.mode # "kb" => \A k \in Controllers : ReportFrom(k) => Shown(k) /\ Kept(k)

\* A larger value never gives a smaller code.  Not where adding the neutral point leaves the
\* field's width (the triggers of GameCube and Wii), where a trigger is read as a signed byte
\* (Jaguar), and on the axes AxisEnds leaves out.
Wraps ==
  \/ wrSys \in {"GC", "WII_EXT", "JAGUAR"} /\ wrCfg.axis > 3
  \/ wrSys = "JVS"
  \/ wrSys = "XINPUT" /\ wrCfg.axis \in {1, 3}
AxisInOrder ==
  wrCfg.axis # -1 /\ ~Wraps /\ wrVal' > wrVal => wrPort'.ax[wrCfg.axis] >= wrPort.ax[wrCfg.axis]

\* A key that is still held keeps its place before the keys that came later: the Dreamcast's
\* report drops no key for a newer one, lists none that is released, and has all that fit.
Before(s) == {w \in (0..(WrKeys + 1)) \X (0..(WrKeys + 1)) :
                \E a, b \in DOMAIN s : a < b /\ s[a] = w[1] /\ s[b] = w[2]}
InSeq(s) == {s[j] : j \in DOMAIN s}
KeysStay ==
  wrSys = "DC" /\ wrPort.mode = "kb" =>
    /\ InSeq(wrPort.held) \cap wrOn'[1] \subseteq InSeq(wrPort'.held)
    /\ InSeq(wrPort'.held) \subseteq wrOn'[1] \cap codes
    /\ Cardinality(InSeq(wrPort'.held)) =
         (IF Cardinality(wrOn'[1] \cap codes) < WrKeys THEN Cardinality(wrOn'[1] \cap codes) ELSE WrKeys)
    /\ {p \in Before(wrPort.held) : {p[1], p[2]} \subseteq wrOn'[1]} \subseteq Before(wrPort'.held)

\* While the menu of the SEA board is open its pins rest, and only START saves what was set.
MenuHolds ==
  /\ wrPort.osd.line # 0 /\ wrPort'.osd.line # 0 => wrPort'.pins = wrPort.pins
  /\ wrPort'.osd.saved # wrPort.osd.saved =>
       wrPort.osd.button = 20 /\ wrPort'.osd.line = 0 /\ wrPort'.osd.saved = wrPort.osd.set
=============================================================================
