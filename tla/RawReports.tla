----------------------------- MODULE RawReports -----------------------------
(***************************************************************************)
(* A controller's report and what the adapter hears in it: adapter/        *)
(* wireless/{sw,wii,ps,ps3,xbox}.c, bt_host_bridge (host.c) that passes it *)
(* on, and the handlers of hidp/{sw,ps}.c that see a controller change to  *)
(* another kind of report.                                                 *)
(*                                                                         *)
(* Each kind of report has a layout of its own, and most of the tables to  *)
(* read it are copied for the device by the first report that is read      *)
(* (BT_INIT): from then on they are as right as that report was typical.   *)
(* What the controller sends is external: its keys have a bit in each kind *)
(* of report (Controllers), its axes a place, and it rests a little off    *)
(* its centre.                                                             *)
(* Packing into bytes is left out; so are the ranges of the axes, which    *)
(* are Mapping's matter.                                                   *)
(***************************************************************************)
EXTENDS Controllers, FiniteSets

CONSTANT RrHeld      \* bound: keys held and axes pushed at once

VARIABLES
  rrPad,   \* the controller: name, keys held, axis pushed, how far off its centre it rests
  rrDev,   \* the adapter's bt_data and tables of it, and the device's calibration
  rrHeard, \* ctrl_data of the report just bridged
  rrBase   \* history: how the controller was when the report that set it up came

rrVars == <<rrPad, rrDev, rrHeard, rrBase>>

----------------------------------------------------------------------------
(* What is sent.                                                           *)

Rest == <<0, 0>>
By(pad, i) == IF pad.push[1] = i THEN pad.push[2] ELSE 0
C(pad) == Controller[pad.name]
Joycon(c) == c.sub \in {"left", "right"}
Trigger(i) == i >= 4
Full == 200                    \* a key pressed as hard as it goes

\* A Nintendo stick's value, and where it rests when the controller says it does.
sw_centre == 2048
RestsAt(pad) == sw_centre + pad.off

\* The axes and the sense of each place of a report (hid, ps4, ps5, ps3, xb1 and the Wii's layouts).
Places(pad, type, kind) ==
  CASE pad.name = "left" -> (1 :> <<0, -1>> @@ 0 :> <<1, 1>>)
    [] pad.name = "right" -> (3 :> <<0, 1>> @@ 2 :> <<1, -1>>)
    [] type = "ps" /\ kind # "ps5" ->
         (0 :> <<0, 1>> @@ 1 :> <<1, -1>> @@ 2 :> <<2, 1>> @@ 3 :> <<3, -1>> @@ 7 :> <<4, 1>> @@ 8 :> <<5, 1>>)
    [] type = "ps3" ->
         (0 :> <<0, 1>> @@ 1 :> <<1, -1>> @@ 2 :> <<2, 1>> @@ 3 :> <<3, -1>> @@ 12 :> <<4, 1>>
          @@ 13 :> <<5, 1>> @@ 14 :> <<6, 1>> @@ 15 :> <<7, 1>> @@ 11 :> <<8, 1>> @@ 9 :> <<9, 1>>
          @@ 10 :> <<10, 1>> @@ 8 :> <<11, 1>> @@ 19 :> <<12, 1>> @@ 17 :> <<13, 1>>
          @@ 18 :> <<14, 1>> @@ 16 :> <<15, 1>>)
    [] type \in {"ps", "xbox"} -> [p \in 0..5 |-> <<p, IF p \in {1, 3} THEN -1 ELSE 1>>]
    [] pad.name = "wiiu" \/ pad.layout = 8 ->
         [p \in 0..5 |-> <<CASE p = 1 -> 2 [] p = 2 -> 1 [] OTHER -> p, 1>>]
    [] OTHER -> [p \in 0..5 |-> <<p, 1>>]

\* The value at the middle of an axis.
Middle(pad, type, i) ==
  CASE type = "sw" \/ pad.name = "wiiu" -> sw_centre
    [] type = "xbox" -> IF Trigger(i) THEN 0 ELSE 32768
    [] pad.name \in {"classic", "classic pro"} /\ pad.layout = 6 ->
         IF Trigger(i) THEN 2 ELSE IF i < 2 THEN 32 ELSE 16
    [] pad.name \in {"classic", "classic pro"} -> IF Trigger(i) THEN 22 ELSE 128
    [] OTHER -> IF Trigger(i) THEN 0 ELSE 128

Squeeze(pad, i) == IF i \in pressure_axes /\ <<"btn", pressure_key[i]>> \in pad.held THEN Full ELSE 0
AxisSent(pad, type, kind, place) ==
  LET v == Middle(pad, type, place[1]) + pad.off + place[2] * By(pad, place[1]) + Squeeze(pad, place[1])
  IN IF type = "sw" /\ kind = "hid" /\ place[1] % 2 = 1 THEN 2 * sw_centre - v ELSE v
AxesSent(pad, type, kind, places) ==
  [p \in 0..19 |-> IF p \in DOMAIN places THEN AxisSent(pad, type, kind, places[p]) ELSE 0]

\* The hat: a Joy-Con's is its stick.
HatSent(pad, c) ==
  LET turned == {n \in 0..7 : <<"hat", n>> \in pad.held}
  IN IF Joycon(c)
     THEN CASE By(pad, 1) > 0 -> 0 [] By(pad, 0) > 0 -> 2 [] By(pad, 1) < 0 -> 4 [] By(pad, 0) < 0 -> 6
            [] OTHER -> 8
     ELSE IF turned = {} THEN 8 ELSE CHOOSE n \in turned : TRUE

BitsSent(pad, c, kind, where) ==
  LET keys == {n \in 0..31 : <<where, n>> \in pad.held}
      hat == IF Joycon(c) THEN 8 ELSE HatSent(pad, c)
  IN IF kind = "native"
     THEN {c.native[n + 1] : n \in keys} \cup (IF hat = 8 THEN {} ELSE hat_native[hat + 1])
     ELSE keys

\* Xbox pads and Hyperkin's count the hat's directions from 1.
Sent(pad, c, kind) ==
  [kind |-> kind, layout |-> pad.layout,
   btns |-> BitsSent(pad, c, kind, "btn"), core |-> BitsSent(pad, c, "", "core"),
   extra |-> BitsSent(pad, c, "", "extra"), guide |-> <<"guide", 0>> \in pad.held,
   hat |-> IF c.type = "xbox" \/ pad.name = "admiral" THEN (HatSent(pad, c) + 1) % 9 ELSE HatSent(pad, c),
   axes |-> AxesSent(pad, c.type, kind, Places(pad, c.type, kind))]

----------------------------------------------------------------------------
(* The adapter: tables of a device (bt_data), as the first report finds    *)
(* them or as they are copied.                                             *)

Rows(table, word) == {b \in Pad : table[b] \cap word # {}}
NoMap == [mask |-> {}, desc |-> {}, btns |-> [b \in Pad |-> {}], axes |-> <<>>, meta |-> <<>>]
Table(btns, mask, desc) == [NoMap EXCEPT !.btns = btns, !.mask = mask, !.desc = desc]

bt_type_update(dev, sub) == [dev EXCEPT !.sub = sub, !.cnt = 0, !.init = FALSE]

\* sw_pad_init: the tables; known says that the calibration was read, which the copy of
\* Nintendo's N64 controller (its HID report differs) does not let happen.
SwTables(sub, quirks, kind, known) ==
  CASE sub \in {"left", "right"} -> Table(sw_jc_btns_mask[kind], sw_jc_mask, sw_jc_desc(kind))
    [] sub = "gen" -> Table(sw_gen_btns_mask[kind], sw_gen_mask, sw_gen_desc)
    [] sub = "n64" -> Table(IF kind = "hid" /\ ~known THEN sw_brawler64_btns_mask ELSE sw_n64_btns_mask[kind],
                            sw_n64_mask, sw_n64_desc)
    [] sub = "admiral" -> Table(sw_admiral_btns_mask, sw_n64_mask, sw_n64_desc)
    [] OTHER -> Table(mapping_quirks_apply(Table(sw_pro_btns_mask[kind], {}, {}), quirks, "none").btns,
                      IF sub = "default" THEN sw_pro_mask ELSE sw_legacy_mask,
                      IF sub = "default" THEN sw_pro_desc ELSE {})

sw_pad_init(dev, c, kind) ==
  LET idx == IF Joycon(dev) THEN sw_jc_axes_idx ELSE sw_axes_idx
      neutral(i) == IF dev.known /\ dev.store[i] # 0 THEN dev.store[i] ELSE sw_centre
  IN [dev EXCEPT !.init = TRUE, !.map = SwTables(dev.sub, c.quirks, kind, dev.known),
                 !.pol = [i \in 0..3 |-> IF <<dev.sub, i>> \in {<<"left", 0>>, <<"right", 1>>} THEN 1 ELSE 0],
                 !.neutral = [i \in 0..3 |-> neutral(CHOOSE j \in 0..3 : idx[j] = i)],
                 !.cal = [i \in 0..3 |-> 0]]

\* xbox_pad_init, without the calibration.
XboxTables(sub) ==
  CASE sub = "adaptive" -> Table(xb1_dinput_btns_mask, xb1_adaptive_mask, xb1_desc)
    [] sub = "xinput" -> Table(xb1_btns_mask, xb1_mask, xb1_desc)
    [] sub = "xs" -> Table(xbox_xs_btns_mask, xbox_xs_mask, xb1_desc)
    [] OTHER -> Table(xb1_dinput_btns_mask, xb1_mask, xb1_desc)

----------------------------------------------------------------------------
(* What is heard: on, the generic buttons pressed, ax the values of the    *)
(* axes; got is the device as the report leaves it.                        *)

Nothing == <<>>
Got(dev, on, map, ax, pol) ==
  [dev |-> dev, heard |-> <<[on |-> on, mask |-> map.mask, desc |-> map.desc, ax |-> ax, pol |-> pol]>>]
NoAxes == [i \in {} |-> 0]

\* The report that finds no calibration is taken for the controller at rest.
Calibrated(dev, neutral, raw) ==
  IF dev.init THEN dev
  ELSE [dev EXCEPT !.init = TRUE, !.cal = [i \in DOMAIN neutral |-> neutral[i] - raw[i]]]
Values(dev, neutral, raw, n) == [i \in 0..(n - 1) |-> raw[i] - neutral[i] + dev.cal[i]]
Read(s, idx) == [i \in DOMAIN idx |-> s.axes[idx[i]]]
GotRead(dev, s, on, map, neutral, idx, n, pol) ==
  LET now == Calibrated(dev, neutral, Read(s, idx))
  IN Got(now, on, map, Values(now, neutral, Read(s, idx), n), pol)

sw_native_to_generic(dev, s) ==
  LET from == CASE dev.sub = "left" -> sw_jc_axes_idx [] dev.sub = "right" -> [i \in 0..3 |-> 3 - i]
                [] OTHER -> sw_axes_idx
  IN Got(dev, Rows(dev.map.btns, s.btns), dev.map, [i \in 0..3 |-> s.axes[from[i]] - dev.neutral[i]], dev.pol)

sw_hid_to_generic(dev, s) ==
  LET on == Rows(dev.map.btns, s.btns)
      hat == IF dev.sub = "admiral" THEN Hat((s.hat + 15) % 16) ELSE Hat(s.hat)
      value(i) == (IF i % 2 = 1 THEN 4096 - s.axes[i] ELSE s.axes[i]) - dev.neutral[i]
  IN IF Joycon(dev) THEN Got(dev, on \cup {b - 8 : b \in hat}, dev.map, NoAxes, dev.pol)
     ELSE Got(dev, on \cup hat, dev.map, [i \in 0..3 |-> value(i)], dev.pol)

sw_to_generic(dev, c, s) ==
  LET ready == IF dev.init THEN dev ELSE sw_pad_init(dev, c, s.kind)
  IN IF s.kind = "native" THEN sw_native_to_generic(ready, s) ELSE sw_hid_to_generic(ready, s)

wiimote_to_generic(dev, s) == Got(dev, Rows(wii_btns_mask, s.core), Table(wii_btns_mask, wii_mask, {}),
      NoAxes, upwards)

\* In an extension's word a key that is held is a 0.
Held0(word) == (0..31) \ word
Up(s) == (0..31) \ s.btns
wiin_to_generic(dev, s) ==
  GotRead(dev, s, Rows(wiin_core_btns_mask, s.core) \cup Rows(wiin_btns_mask, Held0(Up(s))),
          Table(wiin_btns_mask, wiin_mask, wiin_desc), wiin_axes_neutral, InOrder(2), 2, upwards)

\* The two layouts of a classic controller end at different places: where the long one has its
\* buttons the short one has nothing, and where the short one has them the long one has the
\* triggers (at rest, 0x16 each).
Word(s, layout) == IF s.layout = layout THEN Up(s) ELSE IF layout = 8 THEN {} ELSE {1, 2, 4, 9, 10, 12}
WrongLayout(s, long) == (Word(s, 8) # {}) # long
wiic_to_generic(dev, s, long) ==
  LET pro == dev.sub \in {"classic pro", "classic pro 8bit"}
      word == IF long THEN Word(s, 8) ELSE Word(s, 6)
      table == IF pro THEN Table(wiic_pro_btns_mask, wiic_pro_mask, wiic_pro_desc)
            ELSE Table(wiic_btns_mask, wiic_mask, wiic_desc)
      other == IF long THEN (IF pro THEN "classic pro" ELSE "classic") ELSE (IF pro THEN "classic pro 8bit"
            ELSE "classic 8bit")
  IN IF ~dev.init /\ WrongLayout(s, long) THEN [dev |-> bt_type_update(dev, other), heard |-> Nothing]
     ELSE GotRead(dev, s, Rows(wiic_core_btns_mask, s.core) \cup Rows(table.btns, Held0(word)), table,
                  IF long THEN wiic_8bit_axes_neutral ELSE wiic_axes_neutral,
                  IF long THEN wiic_8bit_axes_idx ELSE InOrder(6), 6, upwards)

wiiu_to_generic(dev, s) ==
  GotRead(dev, s, Rows(wiiu_btns_mask, Held0(Up(s))), Table(wiiu_btns_mask, wiiu_mask, wiiu_desc),
          wiiu_axes_neutral, wiiu_axes_idx, 4, upwards)

wii_to_generic(dev, s) ==
  CASE dev.sub = "nunchuk" -> wiin_to_generic(dev, s)
    [] dev.sub \in {"classic", "classic pro"} -> wiic_to_generic(dev, s, FALSE)
    [] dev.sub \in {"classic 8bit", "classic pro 8bit"} -> wiic_to_generic(dev, s, TRUE)
    [] dev.sub = "wiiu" -> wiiu_to_generic(dev, s)
    [] OTHER -> wiimote_to_generic(dev, s)

\* ps4_to_generic, ps5_to_generic and hid_to_generic read one table; their reports have the axes
\* in two orders, and the hat in the buttons' low bits.
PsToGeneric(dev, s, idx) ==
  GotRead(dev, s, Rows(ps4_btns_mask, s.btns) \cup Hat(s.hat), Table(ps4_btns_mask, ps4_mask, ps4_desc),
          ps4_axes_neutral, idx, 6, downwards)
ps_to_generic(dev, s) == PsToGeneric(dev, s, IF s.kind = "ps5" THEN ps5_axes_idx ELSE ps4_axes_idx)

\* For a PlayStation the keys that tell their pressure are read as axes.
ps3_to_generic(dev, s, system) ==
  LET pressure == system = "psx"
  IN GotRead(dev, s, Rows(ps3_btns_mask, s.btns) \cap (IF pressure THEN 20..31 ELSE 8..31),
             Table(ps3_btns_mask, ps3_mask, IF pressure THEN ps3_pressure_desc ELSE ps3_desc),
             ps3_axes_neutral, ps3_axes_idx, IF pressure THEN 16 ELSE 6, downwards)

\* The second report holds one key; it may be the first to come, and what is then taken for the
\* axes at rest lies beyond its end.
xbox_to_generic(dev, s) ==
  LET ready == IF dev.init THEN dev
               ELSE Calibrated([dev EXCEPT !.map = XboxTables(dev.sub)], xb1_axes_neutral, Read(s,
                     xb1_axes_idx))
      extra == IF dev.sub = "adaptive" THEN Rows(xb1_adaptive_btns_mask, s.extra) ELSE {}
      on == extra \cup Rows(ready.map.btns, s.btns) \cup Hat((s.hat + 15) % 16)
  IN IF s.kind = "guide" THEN Got(ready, IF s.guide THEN {PAD_MT}
        ELSE {}, [ready.map EXCEPT !.mask = xb1_mask2], NoAxes, downwards)
     ELSE Got(ready, on, ready.map, Values(ready, xb1_axes_neutral, Read(s, xb1_axes_idx), 6), downwards)

wireless_to_generic(dev, pad, s) ==
  LET c == C(pad)
  IN CASE c.type = "sw" -> sw_to_generic(dev, c, s) [] c.type = "wii" -> wii_to_generic(dev, s)
       [] c.type = "ps" -> ps_to_generic(dev, s) [] c.type = "ps3" -> ps3_to_generic(dev, s, pad.system)
       [] c.type = "xbox" -> xbox_to_generic(dev, s)

----------------------------------------------------------------------------
(* Behaviour.                                                              *)

\* The keys held whose pressure is read.
Squeezable(pad) == {k \in pad.held : pad.system = "psx" /\ \E i \in pressure_axes : k = <<"btn",
      pressure_key[i]>>}
NoBase == [push |-> Rest, held |-> {}, kind |-> "none", guesses |-> 0]

Init ==
  \E n \in DOMAIN Controller \ (Extensions \ {"remote"}), m \in {"blank", "written"}, left \in {0, 2100},
        y \in {"psx", "other"} :
    /\ (Controller[n].type # "sw" \/ Controller[n].kinds # Both) => m = "blank" /\ left = 0
    /\ n # "ds3" => y = "other"
    /\ rrPad = [name |-> n, held |-> {}, push |-> Rest, off |-> 3, layout |-> 6, memory |-> m, system |-> y]
    /\ rrDev = [sub |-> Controller[n].sub, report_type |-> "none", cnt |-> 0, init |-> FALSE, map |-> NoMap,
                pol |-> upwards, neutral |-> upwards, cal |-> NoAxes, known |-> FALSE,
                      store |-> [i \in 0..3 |-> left]]
    /\ rrHeard = Nothing /\ rrBase = NoBase

\* The player.
Turned(pad) == {k \in pad.held : k[1] = "hat"}
Hands(pad) == Cardinality(pad.held) + (IF pad.push = Rest THEN 0 ELSE 1)
Press(k) ==
  /\ k \in C(rrPad).keys \ rrPad.held /\ Hands(rrPad) < RrHeld
  /\ k[1] = "hat" => Turned(rrPad) = {}
  /\ rrPad' = [rrPad EXCEPT !.held = @ \cup {k}] /\ rrHeard' = Nothing /\ UNCHANGED <<rrDev, rrBase>>
Release(k) ==
  /\ k \in rrPad.held /\ rrPad' = [rrPad EXCEPT !.held = @ \ {k}] /\ rrHeard' = Nothing
        /\ UNCHANGED <<rrDev, rrBase>>
Push(i, v) ==
  /\ i \in C(rrPad).axes /\ (Trigger(i) => v > 0) /\ Hands(rrPad) < RrHeld /\ rrPad.push = Rest
  /\ rrPad' = [rrPad EXCEPT !.push = <<i, v>>] /\ rrHeard' = Nothing /\ UNCHANGED <<rrDev, rrBase>>
LetGo ==
  /\ rrPad.push # Rest /\ rrPad' = [rrPad EXCEPT !.push = Rest] /\ rrHeard' = Nothing
        /\ UNCHANGED <<rrDev, rrBase>>

\* The extension of a Wii remote is changed; the remote is silent until its type was read
\* (WiiExt), told to be of the one or the other layout.
Plugs(n, layout, long) ==
  /\ rrPad.name \in Extensions /\ n \in Extensions \ {rrPad.name}
  /\ n \notin {"classic", "classic pro"} => layout = 6 /\ ~long
  /\ rrPad' = [rrPad EXCEPT !.name = n, !.layout = layout, !.push = Rest, !.held = @ \cap Core]
  /\ rrDev' = bt_type_update(rrDev, IF long THEN n \o " 8bit" ELSE Controller[n].sub)
  /\ rrHeard' = Nothing /\ rrBase' = NoBase

\* The answer to the last read of a Switch controller's memory (hidp/sw.c): one that holds no
\* calibration leaves what the slot's last controller stored.
Calibrates ==
  /\ C(rrPad).type = "sw" /\ C(rrPad).kinds = Both /\ ~rrDev.known
  /\ LET sticks == IF rrDev.sub = "default" THEN 0..3 ELSE 0..1
         told == [i \in 0..3 |-> IF rrPad.memory = "written" /\ i \in sticks THEN RestsAt(rrPad)
               ELSE rrDev.store[i]]
     IN rrDev' = [bt_type_update(rrDev, rrDev.sub) EXCEPT !.known = TRUE, !.store = told]
  /\ rrHeard' = Nothing /\ rrBase' = NoBase /\ UNCHANGED rrPad

\* Mutant of ReportType: the kind of the reports changes and the tables stay.
KeepsTables(dev, c, kind) == [dev EXCEPT !.report_type = kind]

\* A report of another kind than the last (hidp/sw.c, hidp/ps.c).
ReportType(dev, c, kind) ==
  IF c.type \notin {"sw", "ps"} \/ kind = dev.report_type THEN dev
  ELSE LET sub == CASE c.type = "sw" -> dev.sub [] kind = "ps5" -> "ps5" [] OTHER -> "default"
       IN [bt_type_update(dev, sub) EXCEPT !.report_type = kind]

\* bt_host_bridge drops the first two reports, in which not all is set yet; what lies beyond a
\* short report may be anything, here the report before or zeros.
bt_host_bridge(dev, pad, s) ==
  LET reads == dev.init \/ dev.cnt > 1
      got == IF reads THEN wireless_to_generic(dev, pad, s) ELSE [dev |-> dev, heard |-> Nothing]
  IN [got EXCEPT !.dev.cnt = IF @ > 1 THEN @ ELSE @ + 1]

\* The device as the report leaves it, and what is heard.
Bridged(kind, zeros) ==
  bt_host_bridge(ReportType(rrDev, C(rrPad), kind), rrPad,
                 [Sent(rrPad, C(rrPad), kind) EXCEPT !.axes = IF zeros THEN [p \in 0..19 |-> 0] ELSE @])

Report(kind, zeros) ==
  /\ kind \in C(rrPad).kinds /\ (zeros => kind = "guide")
  /\ \E got \in {Bridged(kind, zeros)} :
       /\ rrDev' = got.dev
       /\ rrHeard' = IF got.heard = Nothing THEN Nothing ELSE Append(got.heard, kind)
       /\ rrBase' =
            CASE got.dev.sub # rrDev.sub /\ rrPad.name \in Extensions -> [rrBase EXCEPT !.guesses = @ + 1]
              [] ~got.dev.init -> [NoBase EXCEPT !.guesses = rrBase.guesses]
              [] rrDev.init /\ rrDev.report_type = got.dev.report_type -> rrBase
              [] OTHER -> [rrBase EXCEPT !.push = rrPad.push, !.held = Squeezable(rrPad), !.kind = kind]
  /\ UNCHANGED rrPad

Next ==
  \/ \E k \in Keys : Press(k) \/ Release(k)
  \/ \E i \in 0..5, v \in {-10, 10} : Push(i, v)
  \/ LetGo
  \/ \E n \in Extensions, layout \in {6, 8}, long \in BOOLEAN : Plugs(n, layout, long)
  \/ Calibrates
  \/ \E kind \in Kinds, zeros \in BOOLEAN : Report(kind, zeros)

Spec == Init /\ [][Next]_rrVars

----------------------------------------------------------------------------
(* Properties.                                                             *)

Heard == rrHeard # Nothing
In == rrHeard[1]
Kind == rrHeard[2]
c0 == C(rrPad)

TypeOK ==
  /\ rrPad.name \in DOMAIN Controller /\ rrPad.held \subseteq c0.keys /\ Hands(rrPad) <= RrHeld
  /\ rrPad.push \in {Rest} \cup (c0.axes \X {-10, 10})
  /\ rrDev.cnt \in 0..2 /\ rrDev.init \in BOOLEAN /\ rrDev.known \in BOOLEAN
  /\ Heard => In.on \subseteq Pad

\* What the keys mean: as the controller's own report tells it when it is set up.
ext_btns_mask(name) ==
  CASE name = "nunchuk" -> wiin_btns_mask [] name = "classic" -> wiic_btns_mask
    [] name = "classic pro" -> wiic_pro_btns_mask [] OTHER -> wiiu_btns_mask
core_btns_mask(name) ==
  CASE name = "remote" -> wii_btns_mask [] name = "nunchuk" -> wiin_core_btns_mask
    [] OTHER -> wiic_core_btns_mask
MeantOf(pad, c, kind) ==
  LET bits(where) == BitsSent(pad, c, kind, where)
  IN (IF Joycon(c) \/ kind = "native" THEN {} ELSE Hat(HatSent(pad, c)))
     \cup CASE c.type = "sw" -> Rows(SwTables(c.sub, c.quirks, kind, c.kinds = Both).btns, bits("btn"))
            [] c.type = "wii" -> Rows(ext_btns_mask(pad.name), bits("btn"))
                                   \cup Rows(core_btns_mask(pad.name), bits("core"))
            [] c.type = "ps" -> Rows(ps4_btns_mask, bits("btn"))
            [] c.type = "ps3" -> Rows(ps3_btns_mask, bits("btn"))
            [] c.type = "xbox" -> Rows(XboxTables(c.sub).btns, bits("btn"))
                                    \cup Rows(xb1_adaptive_btns_mask, bits("extra"))
Meant(keys) == MeantOf([rrPad EXCEPT !.held = keys], c0, IF c0.kinds = Both THEN "native" ELSE "hid")

\* The buttons that the stick of a Joy-Con presses in its HID report.
StickKeys == {b \in 0..3 : In.ax = NoAxes /\ Joycon(c0)}
\* The keys that a pressure makes heard.
Squeezed == {b \in Pad : \E i \in pressure_axes \cap DOMAIN In.ax : In.ax[i] > 0
      /\ ps3_btns_mask[b] = {pressure_key[i]}}

\* The two reports of a Joy-Con have L and ZL changed over; the key next to an unread
\* calibration is the N64 controller taken for its copy.
Known ==
  /\ (Joycon(c0) /\ Kind = "hid") => rrPad.held \cap Btn({14, 15}) = {}
  /\ (rrPad.name = "n64" /\ Kind = "hid") => rrDev.known
\* What is held is heard, nothing else is, no two keys as one, and whatever the report and
\* however the controller changed from one kind of report to the other: the table in use is the
\* one of the report it reads (sw.c:284, hidp/sw.c:451, wii.c:332).  A key of a DualShock 3 that
\* was held when it was set up stays unheard (ps3.c:122).
HeardAsHeld ==
  (Heard /\ Known) =>
    /\ IF Kind = "guide" THEN In.on = (IF Guide \subseteq rrPad.held THEN {PAD_MT} ELSE {})
       ELSE (In.on \ StickKeys) \cup Squeezed
              = Meant(rrPad.held) \ (IF pressure_axes \subseteq DOMAIN In.ax THEN Meant(rrBase.held) \ In.on ELSE {})
    /\ \A k, l \in rrPad.held : k # l => Meant({k}) \cap Meant({l}) = {}

\* An axis is heard as far from its rest as the player has pushed it, whichever way round its
\* report counts: from where it was when the controller was set up, or from where a Nintendo
\* controller says it rests (wii.c:276, ps.c:140, xbox.c:190, sw.c:363).  Not so when the Xbox
\* key's report was the first (xbox.c:208), or when a Switch controller that holds no calibration
\* takes the slot of one that did (hidp/sw.c:322).
Inherited == \E i \in 0..1 : rrDev.store[i] \notin {0, RestsAt(rrPad)}
Sense(i) == 1 - 2 * In.pol[i]
RestHeard(i) ==
  CASE c0.type # "sw" -> -By(rrBase, i)
    [] rrDev.known /\ rrPad.memory = "written" -> 0
    [] OTHER -> Sense(i) * rrPad.off
AxesAsPushed ==
  (Heard /\ rrBase.kind # "guide" /\ ~(rrDev.known /\ Inherited)) =>
    \A i \in c0.axes \cap DOMAIN In.ax : Sense(i) * In.ax[i] = By(rrPad, i) + RestHeard(i)

\* What is heard is among the buttons the mapping is told the controller has, and its axes are
\* told as axes (sw.c:320, wii.c:319, ps3.c:104, xbox.c:208): the mapping leaves out the rest, of
\* which there is the one key of Retro Fighters' copy of the N64 controller (sw.c:273).
Sides(i) == IF i < 4 THEN {2 * i, 2 * i + 1} ELSE {IF i = 4 THEN PAD_LM ELSE PAD_RM}
NothingLost ==
  (Heard /\ Known) =>
    /\ In.on \ (IF rrPad.name = "brawler64" THEN {PAD_MS} ELSE {}) \subseteq In.mask
    /\ In.desc \cap In.on \subseteq {PAD_LS, PAD_RS}
    /\ \A i \in c0.axes \cap DOMAIN In.ax : Sides(i) \subseteq In.mask \cap In.desc

\* The adapter corrects the layout it takes a classic controller to have at most once, and then
\* reads it (wii.c:333, 397).
GuessedOnce == rrBase.guesses <= 1
=============================================================================
