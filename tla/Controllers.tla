---------------------------- MODULE Controllers ----------------------------
(***************************************************************************)
(* The controllers, as the conversion of their reports finds them.         *)
(*                                                                         *)
(* First the tables of adapter/wireless: for each controller, the bits of  *)
(* its report that press each of the 32 generic buttons (PAD_LX_LEFT = 0   *)
(* ... PAD_RJ = 31, adapter.h), the generic buttons it has (mask), and     *)
(* those of them that are sides of its axes (desc).                        *)
(*                                                                         *)
(* Then mapping_quirks.c: what is changed in a controller's tables         *)
(* because its name or its vendor says that it labels or wires its buttons *)
(* otherwise.  A mapping has the generic buttons (mask), those that are    *)
(* sides of axes (desc), the bits that press each (btns), and for each     *)
(* axis the field of the report it is read from (axes, NONE when there is  *)
(* none) and what is known of it (meta).                                   *)
(***************************************************************************)
EXTENDS Integers, Sequences, TLC
LOCAL INSTANCE SequencesExt
LOCAL INSTANCE FiniteSetsExt

Pad == 0..31

\* The members of a mask of 32 bits, given as its two halves.
Bits(high, low) == {i \in 0..15 : (low \div 2^i) % 2 = 1}
                     \cup {i \in 16..31 : (high \div 2^(i - 16)) % 2 = 1}

\* The table whose rows, the first of them for generic button first, are listed.
From(first, rows) == [b \in Pad |-> IF b - first + 1 \in DOMAIN rows THEN rows[b - first + 1] ELSE {}]

\* A hat points at one of eight directions, or at none.
hat_to_ld_btns == <<{11}, {9, 11}, {9}, {9, 10}, {10}, {8, 10}, {8}, {8, 11}>>
Hat(value) == IF value + 1 \in DOMAIN hat_to_ld_btns THEN hat_to_ld_btns[value + 1] ELSE {}

----------------------------------------------------------------------------
\* Switch controllers: what they send when just connected ("hid", report 0x3F) and after their
\* set-up ("native", report 0x30).
sw_pro_mask == Bits(65535, 4095)
sw_pro_desc == Bits(0, 255)
sw_legacy_mask == Bits(65535, 3840)
sw_pro_btns_mask ==
  [hid    |-> From(16, <<{2}, {1}, {0}, {3}, {9}, {8}, {12}, {13}, {6}, {4}, {}, {10}, {7, 15}, {5}, {}, {11}>>),
   native |-> From(8, <<{27}, {26}, {24}, {25}, {}, {}, {}, {}, {8}, {11}, {10}, {9}, {17}, {16}, {20}, {21},
                      {31}, {30}, {13, 29}, {19}, {15}, {14}, {12, 28}, {18}>>)]

sw_jc_mask == Bits(15167, 15)
sw_jc_desc(kind) == IF kind = "hid" THEN {} ELSE Bits(0, 15)
sw_jc_btns_mask ==
  [hid    |-> From(16, <<{2}, {1}, {0}, {3}, {9, 13}, {8, 12}, {}, {}, {4}, {14}, {}, {10, 11}, {5}, {15}>>),
   native |-> From(16, <<{10, 25}, {9, 24}, {11, 27}, {8, 26}, {17, 21}, {16, 20}, {}, {},
                       {13, 29}, {15, 31}, {}, {18, 19}, {12, 28}, {14, 30}>>)]

sw_gen_mask == Bits(8959, 3840)
sw_gen_desc == Bits(0, 15)
sw_gen_btns_mask ==
  [hid    |-> From(16, <<{1}, {5}, {0}, {2}, {9}, {7}, {12}, {13}, {}, {6}, {}, {}, {}, {4}>>),
   native |-> From(8, <<{27}, {26}, {24}, {25}, {}, {}, {}, {}, {11}, {14}, {10}, {8}, {17}, {15}, {20}, {21},
                      {}, {9}, {}, {}, {}, {30}>>)]

sw_n64_mask == Bits(13269, 4095)
sw_n64_desc == Bits(0, 15)
sw_n64_btns_mask ==
  [hid    |-> From(4, <<{3}, {8}, {7}, {2}, {}, {}, {}, {}, {}, {}, {}, {}, {0}, {}, {1}, {}, {9}, {}, {12}, {13},
                      {6}, {4}, {}, {}, {10}, {5}>>),
   native |-> From(4, <<{9}, {16}, {15}, {8}, {27}, {26}, {24}, {25}, {}, {}, {}, {}, {10}, {}, {11}, {}, {17}, {},
                      {20}, {21}, {31}, {30}, {}, {}, {19}, {14}>>)]
sw_admiral_btns_mask ==
  From(4, <<{8}, {11}, {13}, {12}, {}, {}, {}, {}, {}, {}, {}, {}, {0}, {}, {1}, {}, {9}, {}, {}, {},
            {14}, {4}, {}, {}, {}, {5}>>)
sw_brawler64_btns_mask ==
  From(4, <<{3}, {10}, {2}, {11}, {}, {}, {}, {}, {}, {}, {}, {}, {1}, {}, {0}, {}, {9}, {8}, {12}, {13},
            {6}, {4}, {}, {}, {7}, {5}>>)

----------------------------------------------------------------------------
\* Wii: the remote, what is plugged in it, and the Wii U Pro controller.
wii_mask == Bits(127, 3840)
wii_btns_mask == From(8, <<{3}, {2}, {0}, {1}, {}, {}, {}, {}, {9}, {10}, {8}, {11}, {4}, {12}, {15}>>)
wiin_mask == Bits(4983, 3855)
wiin_desc == Bits(0, 15)
wiin_btns_mask == From(24, <<{0}, {1}>>)
wiin_core_btns_mask ==
  From(8, <<{0}, {1}, {2}, {3}, {}, {}, {}, {}, {9}, {8}, {11}, {}, {4}, {12}, {15}, {}, {}, {}, {}, {}, {10}>>)
wiic_mask == Bits(65535, 65535)
wiic_desc == Bits(4352, 255)
wiic_btns_mask ==
  From(8, <<{9}, {7}, {6}, {8}, {}, {}, {}, {}, {13}, {12}, {14}, {11}, {2}, {4}, {3}, {},
            {}, {15}, {5}, {}, {}, {10}, {1}>>)
wiic_pro_mask == Bits(48127, 65535)
wiic_pro_desc == Bits(0, 255)
wiic_pro_btns_mask ==
  From(8, <<{9}, {7}, {6}, {8}, {}, {}, {}, {}, {13}, {12}, {14}, {11}, {2}, {4}, {3}, {},
            {15}, {5}, {}, {}, {10}, {1}>>)
wiic_core_btns_mask ==
  From(12, <<{3}, {2}, {0}, {1}, {}, {}, {}, {}, {}, {}, {}, {10}, {}, {}, {}, {9}, {}, {}, {}, {8}>>)
wiiu_mask == Bits(47999, 4095)
wiiu_desc == Bits(0, 255)
wiiu_btns_mask ==
  From(8, <<{9}, {7}, {6}, {8}, {}, {}, {}, {}, {13}, {12}, {14}, {11}, {2}, {4}, {3}, {},
            {15}, {5}, {}, {17}, {10}, {1}, {}, {16}>>)

----------------------------------------------------------------------------
\* PlayStation
ps4_mask == Bits(48127, 4095)
ps4_desc == Bits(4352, 255)
ps4_btns_mask == From(16, <<{4}, {6}, {5}, {7}, {13}, {12}, {16}, {17}, {}, {8}, {}, {14}, {}, {9}, {}, {15}>>)
ps3_mask == Bits(47999, 4095)
ps3_desc == Bits(4352, 255)
ps3_pressure_desc == Bits(13071, 4095)
ps3_btns_mask ==
  From(8, <<{15}, {13}, {14}, {12}, {}, {}, {}, {}, {23}, {21}, {22}, {20}, {11}, {8}, {24}, {},
            {}, {18}, {}, {9}, {}, {19}, {}, {10}>>)

\* Xbox
xb1_mask == Bits(47935, 4095)
xb1_mask2 == {22}
xbox_xs_mask == Bits(48127, 4095)
xb1_adaptive_mask == Bits(47935, 65535)
xb1_desc == Bits(4352, 255)
xb1_btns_mask == From(16, <<{2}, {1}, {0}, {3}, {7}, {6}, {}, {}, {}, {4}, {}, {8}, {}, {5}, {}, {9}>>)
xb1_dinput_btns_mask ==
  From(16, <<{3}, {1}, {0}, {4}, {11}, {16}, {}, {}, {}, {6}, {}, {13}, {}, {7}, {}, {14}>>)
xb1_adaptive_btns_mask == From(12, <<{3}, {2}, {1}, {0}>>)
xbox_xs_btns_mask ==
  From(16, <<{3}, {1}, {0}, {4}, {11}, {10}, {12}, {16}, {}, {6}, {}, {13}, {}, {7}, {}, {14}>>)

----------------------------------------------------------------------------
\* The axes' neutral values, the places they are read from, and those that count downwards.
Pairs(a, b, c) == [i \in 0..5 |-> IF i < 2 THEN a ELSE IF i < 4 THEN b ELSE c]
wiin_axes_neutral == [i \in 0..1 |-> 128]
wiic_axes_neutral == Pairs(32, 16, 2)
wiic_8bit_axes_neutral == Pairs(128, 128, 22)
wiiu_axes_neutral == [i \in 0..3 |-> 2048]
ps4_axes_neutral == Pairs(128, 128, 0)
ps3_axes_neutral == [i \in 0..15 |-> IF i < 4 THEN 128 ELSE 0]
xb1_axes_neutral == Pairs(32768, 32768, 0)

InOrder(n) == [i \in 0..(n - 1) |-> i]
wiic_8bit_axes_idx == [InOrder(6) EXCEPT ![1] = 2, ![2] = 1]
wiiu_axes_idx == [InOrder(4) EXCEPT ![1] = 2, ![2] = 1]
ps4_axes_idx == [InOrder(6) EXCEPT ![4] = 7, ![5] = 8]
ps5_axes_idx == InOrder(6)
ps3_axes_idx ==
  [i \in 0..15 |-> <<0, 1, 2, 3, 12, 13, 14, 15, 11, 9, 10, 8, 19, 17, 18, 16>>[i + 1]]
xb1_axes_idx == InOrder(6)
downwards == [i \in 0..15 |-> IF i \in {1, 3} THEN 1 ELSE 0]
upwards == [i \in 0..15 |-> 0]
sw_axes_idx == [i \in 0..3 |-> i]
sw_jc_axes_idx == (0 :> 1 @@ 1 :> 0 @@ 2 :> 3 @@ 3 :> 2)

----------------------------------------------------------------------------
\* The quirks.
NONE == -1

\* The generic buttons and axes a quirk names (adapter.h).
PAD_RX_LEFT == 4
PAD_RX_RIGHT == 5
PAD_RY_DOWN == 6
PAD_RY_UP == 7
PAD_LD_LEFT == 8
PAD_LD_RIGHT == 9
PAD_LD_DOWN == 10
PAD_LD_UP == 11
PAD_RD_LEFT == 12
PAD_RB_LEFT == 16
PAD_RB_RIGHT == 17
PAD_RB_DOWN == 18
PAD_RB_UP == 19
PAD_MM == 20
PAD_MS == 21
PAD_MT == 22
PAD_MQ == 23
PAD_LM == 24
PAD_LS == 25
PAD_LT == 26
PAD_LJ == 27
PAD_RM == 28
PAD_RS == 29
PAD_RT == 30
PAD_RJ == 31
TRIG_L == 4
TRIG_R == 5
TRIG_RS == 7
BTN_RIGHT == 13

With(map, btns) == [map EXCEPT !.btns = btns @@ @]
MovedAxis(map, to, from) == [map EXCEPT !.axes[to] = map.axes[from], !.meta[to] = map.meta[from]]
NoAxis(map, i) == [map EXCEPT !.axes[i] = NONE]
None(ids) == [b \in ids |-> {}]

face_btns_invert(map) ==
  With(map, PAD_RB_LEFT :> map.btns[PAD_RB_UP] @@ PAD_RB_UP :> map.btns[PAD_RB_LEFT]
            @@ PAD_RB_DOWN :> map.btns[PAD_RB_RIGHT] @@ PAD_RB_RIGHT :> map.btns[PAD_RB_DOWN])

face_btns_rotate_right(map) ==
  With(map, PAD_RB_UP :> map.btns[PAD_RB_LEFT] @@ PAD_RB_LEFT :> map.btns[PAD_RB_DOWN]
            @@ PAD_RB_DOWN :> map.btns[PAD_RB_RIGHT] @@ PAD_RB_RIGHT :> map.btns[PAD_RB_UP])

\* The fourth face button gives way to a trigger.
face_btns_trigger_to_6buttons(map) ==
  LET faced == With([map EXCEPT !.desc = Bits(8194, 255)],
                    PAD_LM :> map.btns[PAD_RB_LEFT] @@ PAD_RB_LEFT :> map.btns[PAD_RB_DOWN]
                          @@ PAD_RB_DOWN :> map.btns[PAD_RB_RIGHT]
                    @@ PAD_RB_RIGHT :> {})
      left == NoAxis(MovedAxis(faced, TRIG_RS, TRIG_L), TRIG_L)
  IN NoAxis(MovedAxis(left, BTN_RIGHT, TRIG_R), TRIG_R)

face_btns_trigger_to_8buttons(map) ==
  LET faced == With([map EXCEPT !.desc = Bits(4098, 255)],
                    PAD_LM :> map.btns[PAD_LS] @@ PAD_LS :> map.btns[PAD_RB_LEFT]
                          @@ PAD_RB_LEFT :> map.btns[PAD_RB_DOWN]
                    @@ PAD_RB_DOWN :> map.btns[PAD_RB_RIGHT] @@ PAD_RB_RIGHT :> {})
      right == MovedAxis(faced, BTN_RIGHT, TRIG_R)
  IN NoAxis(MovedAxis(right, TRIG_R, TRIG_L), TRIG_L)

trigger_pri_sec_invert(map) ==
  With([map EXCEPT !.desc = @ \ {PAD_LM, PAD_RM}],
       PAD_LM :> map.btns[PAD_LS] @@ PAD_LS :> map.btns[PAD_LM] @@ PAD_RM :> map.btns[PAD_RS]
             @@ PAD_RS :> map.btns[PAD_RM])

n64_8bitdo(map) ==
  With([map EXCEPT !.mask = Bits(8981, 4095), !.desc = Bits(0, 15)],
       PAD_RY_UP :> {8} @@ PAD_RX_RIGHT :> {9} @@ PAD_RY_DOWN :> map.btns[PAD_RB_LEFT]
             @@ PAD_RX_LEFT :> map.btns[PAD_RB_UP]
       @@ PAD_LM :> map.btns[PAD_MS] @@ PAD_RB_LEFT :> map.btns[PAD_RB_RIGHT]
             @@ None({PAD_RB_RIGHT, PAD_RB_UP, PAD_MS, PAD_RT}))

n64_8bitdo_mk(map) ==
  With([map EXCEPT !.mask = Bits(13141, 4095), !.desc = Bits(0, 255)],
       PAD_RB_LEFT :> {1} @@ PAD_RB_RIGHT :> {} @@ PAD_MT :> {12} @@ PAD_LM :> {8} @@ PAD_RM :> {9})

m30_8bitdo(map) == face_btns_trigger_to_8buttons(map)

saturn_diy_8bitdo(map) ==
  With(map, PAD_LS :> map.btns[PAD_RB_LEFT] @@ PAD_RB_LEFT :> map.btns[PAD_RB_DOWN]
        @@ PAD_RB_DOWN :> map.btns[PAD_RB_RIGHT]
            @@ PAD_RB_RIGHT :> map.btns[PAD_RS] @@ PAD_RS :> map.btns[PAD_LS])

gc_diy_8bitdo(map) ==
  With([map EXCEPT !.mask = Bits(65311, 4095), !.desc = Bits(4352, 255)],
       PAD_RB_LEFT :> map.btns[PAD_RB_RIGHT] @@ PAD_RB_RIGHT :> map.btns[PAD_RB_LEFT]
             @@ PAD_RS :> map.btns[PAD_MS]
       @@ PAD_LT :> {8} @@ PAD_RT :> {9} @@ None({PAD_MS, PAD_LM, PAD_RM, PAD_LS}))

gc_gbros_8bitdo(map) ==
  With([map EXCEPT !.mask = Bits(65375, 4095), !.desc = Bits(4352, 255)],
       PAD_LT :> map.btns[PAD_LS] @@ PAD_RT :> map.btns[PAD_RS] @@ PAD_RS :> map.btns[PAD_MS]
             @@ None({PAD_MS, PAD_LM, PAD_RM, PAD_LS}))

n64_bluen64(map) ==
  With([map EXCEPT !.mask = Bits(8981, 4095), !.desc = Bits(0, 255)],
       PAD_RB_LEFT :> map.btns[PAD_RB_RIGHT] @@ PAD_RX_LEFT :> {3} @@ PAD_RY_DOWN :> {4} @@ PAD_LM :> {8}
             @@ PAD_MM :> {5})

rf_warrior(map) ==
  With([map EXCEPT !.mask = Bits(13183, 4095), !.desc = Bits(0, 255)],
       PAD_RB_LEFT :> {1} @@ PAD_RB_RIGHT :> {2} @@ PAD_LM :> {4} @@ PAD_RM :> {5} @@ PAD_RS :> {6}
             @@ None({PAD_LS, PAD_MS}))

\* These two have tables of their own.
stadia(map) ==
  [map EXCEPT !.mask = Bits(48127, 8191), !.desc = Bits(4352, 255),
              !.btns = PAD_RD_LEFT :> {0} @@ From(PAD_RB_LEFT, <<{12}, {13}, {14}, {11}, {5}, {6}, {4}, {1},
                                                         {}, {10}, {}, {8}, {}, {9}, {}, {7}>>)]
ouya(map) ==
  [map EXCEPT !.mask = Bits(47903, 4095), !.desc = Bits(4352, 255),
              !.btns = From(PAD_LD_LEFT, <<{10}, {11}, {9}, {8}, {}, {}, {}, {}, {1}, {3}, {0}, {2}, {14},
                    {}, {}, {},
                                       {}, {4}, {}, {6}, {}, {5}, {}, {7}>>)]

\* In the order the program tries them; a name may stand for two.  Google's Stadia is known by its
\* vendor's numbers too, and the eight buttons are for Microsoft's alone.
Quirk == <<"INVERT", "ROTATE_RIGHT", "6BUTTONS", "8BUTTONS", "PRI_SEC_INVERT", "N64", "N64_MK", "M30", "SATURN",
           "BLUEN64", "RF_WARRIOR", "STADIA", "OUYA", "GC", "GBROS">>

Changed(quirk, map) ==
  CASE quirk = "INVERT"         -> face_btns_invert(map)
    [] quirk = "ROTATE_RIGHT"   -> face_btns_rotate_right(map)
    [] quirk = "6BUTTONS"       -> face_btns_trigger_to_6buttons(map)
    [] quirk = "8BUTTONS"       -> face_btns_trigger_to_8buttons(map)
    [] quirk = "PRI_SEC_INVERT" -> trigger_pri_sec_invert(map)
    [] quirk = "N64"            -> n64_8bitdo(map)
    [] quirk = "N64_MK"         -> n64_8bitdo_mk(map)
    [] quirk = "M30"            -> m30_8bitdo(map)
    [] quirk = "SATURN"         -> saturn_diy_8bitdo(map)
    [] quirk = "BLUEN64"        -> n64_bluen64(map)
    [] quirk = "RF_WARRIOR"     -> rf_warrior(map)
    [] quirk = "STADIA"         -> stadia(map)
    [] quirk = "OUYA"           -> ouya(map)
    [] quirk = "GC"             -> gc_diy_8bitdo(map)
    [] quirk = "GBROS"          -> gc_gbros_8bitdo(map)

mapping_quirks_apply_pnp(map, vendor) == IF vendor = "stadia" THEN stadia(map) ELSE map

mapping_quirks_apply(map, quirks, vendor) ==
  FoldLeft(LAMBDA m, q : IF q \in quirks /\ (q = "8BUTTONS" => vendor = "microsoft") THEN Changed(q, m) ELSE m,
           mapping_quirks_apply_pnp(map, vendor), Quirk)

(***************************************************************************)
(* Some of the controllers the adapter knows, as it finds them (external   *)
(* to the program, from the tables and handlers that expect them): the     *)
(* type and subtype they are given (hidp.c), the quirks their names bring, *)
(* their keys, the kinds of report they send, and the axes they have.      *)
(***************************************************************************)
\* The bit of each key in Nintendo's native report; the key is named by its bit in the HID report.
pro_native == <<10, 11, 8, 9, 30, 14, 31, 15, 16, 17, 19, 18, 20, 21, NONE, 15>>
gen_native == [pro_native EXCEPT ![7] = 9]
\* Joy-Cons are held sideways: what points right on the left one is its lower button.
left_native == <<27, 24, 25, 26, 29, 28, NONE, NONE, 16, NONE, 19, NONE, NONE, 21, 30, 31>>
right_native == <<11, 9, 10, 8, 13, 12, NONE, NONE, NONE, 17, NONE, 18, 20, NONE, 14, 15>>
hat_native == <<{25}, {25, 26}, {26}, {24, 26}, {24}, {24, 27}, {27}, {25, 27}>>

Btn(bits) == {<<"btn", n>> : n \in bits}
HatKeys == {<<"hat", n>> : n \in 0..7}
Core == {<<"core", n>> : n \in (0..15) \ {5, 6, 7, 13, 14}}
Extra == {<<"extra", n>> : n \in 0..3}
Guide == {<<"guide", 0>>}

Switch(sub, quirks, keys, native, kinds, axes) ==
  [type |-> "sw", sub |-> sub, quirks |-> quirks, keys |-> keys, native |-> native, kinds |-> kinds,
        axes |-> axes]
Other(type, sub, keys, kinds, axes) ==
  [type |-> type, sub |-> sub, quirks |-> {}, keys |-> keys, native |-> <<>>, kinds |-> kinds, axes |-> axes]
Both == {"hid", "native"}

Controller ==
  "pro"      :> Switch("default", {}, Btn(0..13) \cup HatKeys, pro_native, Both, 0..3)
  @@ "snes"  :> Switch("snes", {"PRI_SEC_INVERT"}, Btn({0, 1, 2, 3, 4, 5, 6, 8, 9, 15})
        \cup HatKeys, pro_native, Both, {})
  @@ "nes"   :> Switch("nes", {"ROTATE_RIGHT", "PRI_SEC_INVERT"}, Btn({0, 1, 4, 5, 8, 9})
        \cup HatKeys, pro_native, Both, {})
  @@ "left"  :> Switch("left", {}, Btn({0, 1, 2, 3, 4, 5, 8, 10, 13, 14, 15}), left_native, Both, 0..1)
  @@ "right" :> Switch("right", {}, Btn({0, 1, 2, 3, 4, 5, 9, 11, 12, 14, 15}), right_native, Both, 0..1)
  @@ "gen"   :> Switch("gen", {}, Btn({0, 1, 2, 4, 5, 6, 7, 9, 12, 13}) \cup HatKeys, gen_native, Both, {})
  @@ "n64"   :> Switch("n64", {}, Btn((0..10) \cup {12, 13}) \cup HatKeys, pro_native, Both, 0..1)
  @@ "brawler64" :> Switch("n64", {}, Btn(0..13) \cup HatKeys, pro_native, {"hid"}, 0..1)
  @@ "admiral" :> Switch("admiral", {}, Btn({0, 1, 4, 5, 8, 9, 11, 12, 13, 14})
        \cup HatKeys, pro_native, {"hid"}, 0..1)
  @@ "remote" :> Other("wii", "default", Core, {"ext"}, {})
  @@ "nunchuk" :> Other("wii", "nunchuk", Core \cup Btn(0..1), {"ext"}, 0..1)
  @@ "classic" :> Other("wii", "classic", Core \cup Btn(1..15), {"ext"}, 0..5)
  @@ "classic pro" :> Other("wii", "classic pro", Core \cup Btn(1..15), {"ext"}, 0..3)
  @@ "wiiu"  :> Other("wii", "wiiu", Btn(1..17), {"ext"}, 0..3)
  @@ "ds3"   :> Other("ps3", "default", Btn((8..24) \ {16, 17}), {"ps3"}, 0..5)
  @@ "ds4"   :> Other("ps", "default", Btn(4..17) \cup HatKeys, {"hid", "ps4"}, 0..5)
  @@ "dualsense" :> Other("ps", "ps5", Btn(4..17) \cup HatKeys, {"hid", "ps5"}, 0..5)
  @@ "xinput" :> Other("xbox", "xinput", Btn(0..9) \cup HatKeys \cup Guide, {"xb1", "guide"}, 0..5)
  @@ "dinput" :> Other("xbox", "default", Btn({0, 1, 3, 4, 6, 7, 11, 13, 14, 16}) \cup HatKeys
        \cup Guide, {"xb1", "guide"}, 0..5)
  @@ "adaptive" :> Other("xbox", "adaptive", Btn({0, 1, 3, 4, 6, 7, 11, 13, 14, 16}) \cup HatKeys
        \cup Extra \cup Guide,
                         {"xb1", "guide"}, 0..5)
  @@ "series" :> Other("xbox", "xs", Btn({0, 1, 3, 4, 6, 7, 10, 11, 12, 13, 14, 16})
        \cup HatKeys, {"xb1"}, 0..5)

Extensions == {"remote", "nunchuk", "classic", "classic pro"}

\* The keys of a DualShock 3 that tell how hard they are pressed, by the axis that does.
pressure_key == 6 :> 18 @@ 7 :> 19 @@ 8 :> 15 @@ 9 :> 13 @@ 10 :> 14 @@ 11 :> 12 @@ 12 :> 23 @@ 13 :> 21
      @@ 14 :> 22 @@ 15 :> 20
pressure_axes == DOMAIN pressure_key

Kinds == UNION {Controller[n].kinds : n \in DOMAIN Controller}
Keys == UNION {Controller[n].keys : n \in DOMAIN Controller}

----------------------------------------------------------------------------
(* The devices.                                                            *)

\* A field of a report: so many elements of one size, and the usages that go with them; of a run
\* only the first and the last are named.  A bare field relies on what the field before it said.
Field(page, us, size, n, lo, hi) ==
  [page |-> page, us |-> us, last |-> 0, size |-> size, n |-> n, lo |-> lo, hi |-> hi, flags |-> 2,
   main |-> "input", bare |-> FALSE, first |-> <<>>]
Each(page, us, size, lo, hi) == Field(page, us, size, Len(us), lo, hi)
Run(page, from, to) == [Field(page, <<from>>, 1, to - from + 1, 0, 1) EXCEPT !.last = to]
Slots(n) == [Field(7, <<0>>, 8, n, 0, 255) EXCEPT !.last = 255, !.flags = 0]
Fill(bits) == [Field(0, <<>>, 1, bits, 0, 1) EXCEPT !.flags = 3]
Out(field) == [field EXCEPT !.main = "output"]
Moves(field) == [field EXCEPT !.flags = 6]
Bare(field) == [field EXCEPT !.bare = TRUE]
After(items, field) == [field EXCEPT !.first = items]

Items(f) ==
  f.first
  \o (IF f.bare THEN <<>> ELSE <<<<"page", f.page>>, <<"min", f.lo>>, <<"max", f.hi>>, <<"size", f.size>>,
                                 <<"cnt", f.n>>>>)
  \o [i \in DOMAIN f.us |-> <<IF f.us[i] > 255 THEN "usage16" ELSE "usage", f.us[i]>>]
  \o (IF f.last > 0 THEN <<<<"umax", f.last>>>> ELSE <<>>) \o <<<<f.main, f.flags>>>>
Described(reports) ==
  FlattenSeq([r \in DOMAIN reports |->
    (IF reports[r].id = 0 THEN <<>> ELSE <<<<<<"id", reports[r].id>>>>>>)
    \o [f \in DOMAIN reports[r].fields |-> Items(reports[r].fields[f])]])
R(id, fields) == [id |-> id, fields |-> fields]

X_Y == <<48, 49>>
Z_Rz == <<50, 53>>
Rx_Ry == <<51, 52>>
Hat1 == Each(1, <<57>>, 4, 1, 8)
Pedals == <<Each(2, <<197>>, 8, 0, 255), Bare(Each(2, <<196>>, 8, 0, 255))>>
Mods == Run(7, 224, 231)
\* Their axes, by usage: the sticks, then the left trigger and the right one.
Sticks(z) == 48 :> 0 @@ 49 :> 1 @@ z[1] :> 2 @@ z[2] :> 3
Triggers(l, r) == l :> 4 @@ r :> 5
\* What the buttons are for, in their order: A, B, C, X, Y, Z, LB, RB, L, R, SELECT, START, MENU, LJ, RJ
\* and five more (tests/device_data/hid.py).
Dinput == <<18, 17, 30, 16, 19, 26, 25, 29, 24, 28, 21, 20, 22, 27, 31, 23, 12, 13, 14, 15>>
Xinput == <<18, 17, 16, 19, 25, 29, 21, 20, 27, 31>>
Gc == <<18, 16, 0, 17, 19, 0, 0, 0, 26, 30, 29, 20>>
Mouse == <<28, 24, 27, 16, 17>>
Consumer == 64 :> PAD_MM @@ 178 :> PAD_MQ @@ 547 :> PAD_MT @@ 548 :> PAD_MS

Btns(usages) == {<<9, u>> : u \in usages}
Hats(dirs) == {<<0, n>> : n \in dirs}
Typed(usages) == {<<7, u>> : u \in usages}
D(reports, keys, axes, means) ==
  [reports |-> reports, keys |-> keys, axes |-> axes, means |-> means, quirks |-> {}, vid |-> "none",
   rests |-> 1, motors |-> {}]

Device ==
  "dual stick" :> D(<<R(0, <<Each(1, X_Y, 8, 0, 255), Run(9, 1, 32)>>)>>, Btns({1, 4, 20, 21}), 48 :> 0
        @@ 49 :> 1, Dinput)
  @@ "driving" :>
       D(<<R(1, <<Each(1, X_Y, 8, 0, 255), Each(1, Z_Rz, 4, 0, 15)>> \o Pedals
                \o <<Hat1, After(<<<<"push">>>>, Fill(4)), After(<<<<"pop">>>>, Run(9, 1, 16))>>)>>,
         Btns({1, 2, 16}) \cup Hats({0, 3}), Sticks(Z_Rz) @@ Triggers(197, 196), Dinput)
  @@ "flydigi" :>
       [D(<<R(1, <<Each(1, X_Y \o Z_Rz, 8, -128, 127), Each(1, <<64, 65, 66, 67>>, 8, 0, 255), Hat1,
                  Each(9, <<1, 2, 4, 5, 7, 8, 9, 10, 11, 12, 14, 15>>, 1, 0, 1), Fill(8)>> \o Pedals)>>,
         Btns({1, 4, 15}) \cup Hats({2}), Sticks(Z_Rz) @@ Triggers(197, 196), Dinput)
       EXCEPT !.rests = -1]
  @@ "atari" :>
       [D(<<R(1, [i \in 1..8 |-> Each(9, <<<<1, 2, 4, 5, 7, 8, 14, 15>>[i]>>, 1, 0, 1)]
                 \o <<Each(12, <<548, 64, 547>>, 1, 0, 1), Fill(1), Hat1, Each(1, X_Y \o Z_Rz, 16, -32767,
                       32767),
                      Each(2, <<197>>, 10, 0, 1023), Fill(6), Each(2, <<196>>, 10, 0, 1023), Fill(6),
                      Out(Field(2, <<0>>, 8, 8, 0, 255))>>),
            R(2, <<Each(6, <<32>>, 8, 0, 255)>>)>>,
          Btns({1, 15}) \cup {<<12, 64>>, <<12, 547>>} \cup Hats({7}), Sticks(Z_Rz)
                @@ Triggers(197, 196), Dinput)
       EXCEPT !.vid = "atari", !.motors = {1, 5}]
  @@ "gamecube" :>
       [D(<<R(1, <<Each(1, X_Y \o Z_Rz, 8, 0, 255)>> \o Pedals \o <<Hat1, Run(9, 1, 12)>>)>>,
          Btns({1, 2, 9, 11, 12}), Sticks(Z_Rz) @@ Triggers(197, 196), Gc)
       EXCEPT !.quirks = {"GC"}, !.motors = {2, 3}]
  @@ "xinput" :>
       D(<<R(1, <<Each(1, X_Y \o Rx_Ry, 16, 0, 65535), Each(1, Z_Rz, 16, 0, 1023), Hat1, Fill(4), Run(9, 1, 10)>>),
           R(2, <<Each(1, <<133>>, 1, 0, 1), Fill(7)>>),
           R(3, <<Out(Each(15, <<151>>, 4, 0, 1)), Out(Fill(4)), Out(Field(15, <<112>>, 8, 4, 0, 100)),
                  Out(Each(15, <<80, 167, 124>>, 8, 0, 255))>>)>>,
         Btns({2, 10}) \cup Hats({4}) \cup {<<1, 133>>}, Sticks(Rx_Ry) @@ Triggers(50, 53), Xinput)
  @@ "two reports" :>
       [D(<<R(1, <<Each(1, X_Y, 8, 0, 255), Run(9, 1, 4), Fill(4)>>), R(2, <<Run(9, 5, 8), Fill(4)>>),
              R(3, <<Out(Each(15, <<151>>, 4, 0, 1)), Out(Fill(4)), Out(Each(15, <<112, 112>>, 8, 0, 255)),
                     Out(Each(15, <<80>>, 16, 0, 4095))>>)>>,
            Btns({1, 2, 5, 8}), 48 :> 0 @@ 49 :> 1, Dinput)
          EXCEPT !.motors = {2, 3}]
  @@ "keyboard" :>
       D(<<R(1, <<Mods, Fill(8), Out(Run(8, 1, 5)), Out(Fill(3)), Slots(6)>>),
           R(2, <<Each(12, <<433, 547, 430, 64>>, 1, 0, 1), Fill(4)>>),
           R(3, <<After(<<<<"unknown">>>>, Each(1, X_Y, 8, 0, 255))>>)>>,
         Typed({4, 40, 99, 224, 230}), <<>>, <<>>)
  @@ "all keys" :>
       D(<<R(1, <<Mods, Fill(8), Slots(6)>>), R(2, <<Mods, Run(7, 0, 127)>>)>>,
         Typed({4, 40, 82, 99, 225}), <<>>, <<>>)
  @@ "mouse" :>
       D(<<R(1, <<Run(9, 1, 5), Fill(3), Moves(Each(1, X_Y, 12, -2047, 2047)),
                  Moves(Each(1, <<56>>, 8, -127, 127))>>)>>,
         Btns(1..5), 48 :> 2 @@ 49 :> 3 @@ 56 :> 1, Mouse)

----------------------------------------------------------------------------
(* The parser.                                                             *)

REPORT_MAX_USAGE == 24
HID_STACK_MAX == 4
Tags == {"input", "output"}
Types == {"KB", "MOUSE", "PAD", "RUMBLE"}

Collections ==
  1 :> ({1, 2, 58, 128} \cup 4..9) @@ 2 :> (1..12 \cup 32..37) @@ 3 :> 1..10 @@ 4 :> {1, 2, 3, 4, 56}
  @@ 5 :> {1, 2, 3, 32, 50, 55, 57} @@ 12 :> (1..6 \cup {54, 128, 135, 186, 241})
  @@ 15 :> {1, 33, 37, 87, 88, 89, 90, 95, 102, 104, 107, 110, 115, 116, 119, 120, 125, 127, 133, 137, 139,
            144, 145, 146, 149, 150, 168, 171}
hid_usage_is_collection(page, usage) == page \in DOMAIN Collections /\ usage \in Collections[page]
hid_usage_is_used(page, usage) ==
  \/ page = 1 /\ usage \in 48..57 \cup {133}
  \/ page = 2 /\ usage \in {196, 197}
  \/ page = 7
  \/ page = 9 /\ usage <= 20
  \/ page = 12 /\ usage \in {64, 178, 547, 548}
  \/ page = 15 /\ usage \in {80, 112, 124, 151, 167}

\* The first usage that settles the type of a report does; else the last that suggests one.
Settles(u) ==
  CASE u.page = 1 /\ u.usage \in {48, 49} -> IF (u.flags \div 4) % 2 = 1 THEN "MOUSE" ELSE "PAD"
    [] u.page = 1 /\ u.usage = 57 -> "PAD"
    [] u.page = 1 /\ u.usage = 133 -> "MOUSE"
    [] u.page = 15 /\ u.usage \in 149..156 \cup {80, 112, 124, 167} -> "RUMBLE"
    [] OTHER -> "none"
Suggests(u) == CASE u.page = 7 -> "KB" [] u.page = 9 -> "PAD" [] OTHER -> "none"
hid_report_fingerprint(uses) ==
  LET settle == {k \in DOMAIN uses : Settles(uses[k]) # "none"}
      suggest == {k \in DOMAIN uses : Suggests(uses[k]) # "none"}
  IN CASE settle # {} -> Settles(uses[Min(settle)])
       [] settle = {} /\ suggest # {} -> Suggests(uses[Max(suggest)])
       [] OTHER -> "none"

Usage(page, usage, last, flags, off, size, lo, hi) ==
  [page |-> page, usage |-> usage, last |-> last, flags |-> flags, off |-> off, size |-> size, lo |-> lo, hi |-> hi]

\* Atari's controllers do not say what the bytes of their rumble report are for.
hid_patch_report(vid, report) ==
  LET bytes(n) == [i \in 1..n |-> Usage(15, <<112, 80, 167, 124>>[((i - 1) % 4) + 1], 0, 0, 8 * (i - 1), 8, 0, 255)]
  IN CASE vid \in {"atari", "atari classic"} /\ report.id = 1 /\ report.tag = "output" ->
            [report EXCEPT !.uses = bytes(IF vid = "atari" THEN 8 ELSE 4)]
       [] OTHER -> report

\* The parser: what stands (stack, at), the usages listed since the last field (usages, of which
\* count are new; blank fills the rest), and for each direction the report so far.
Standing == [page |-> 0, min |-> 0, max |-> 0, umax |-> 0, size |-> 0, cnt |-> 0]
NoUses == [tag \in Tags |-> <<>>]
NoBits == [tag \in Tags |-> 0]
Start == [stack |-> [d \in 1..HID_STACK_MAX |-> Standing], at |-> 1, usages |-> <<>>, count |-> 0, blank |-> 0,
          id |-> 0, uses |-> NoUses, bits |-> NoBits, done |-> <<>>, stopped |-> FALSE]

Listed(p, i) == IF i <= Len(p.usages) THEN p.usages[i] ELSE p.blank
Lists(p, usage) ==
  IF p.count >= REPORT_MAX_USAGE THEN p
  ELSE [p EXCEPT !.count = @ + 1,
                 !.usages = IF p.count < Len(@) THEN [@ EXCEPT ![p.count + 1] = usage] ELSE Append(@, usage)]

\* One usage for several bits is a field of its own, in pieces of at most 32 bits.
Merged(p, g) == p.count = 1 /\ g.size = 1 /\ g.cnt > 1
Pieces(n) == (n + 31) \div 32
Piece(p, g, off, flags, j) ==
  Usage(g.page, Listed(p, 1) + 32 * j, g.umax, flags, off + 32 * j,
        CASE Pieces(g.cnt) = 1 -> g.cnt [] j = Pieces(g.cnt) - 1 -> g.cnt % 32 [] OTHER -> 32, g.min, g.max)
Element(p, g, off, flags, i) ==
  Usage(g.page, Listed(p, IF p.count = 1 THEN 1 ELSE i), g.umax, flags, off + (i - 1) * g.size, g.size, g.min, g.max)
Usages(p, g, off, flags) ==
  IF Merged(p, g)
  THEN IF hid_usage_is_used(g.page, Listed(p, 1))
       THEN [j \in 1..Pieces(g.cnt) |-> Piece(p, g, off, flags, j - 1)] ELSE <<>>
  ELSE LET used == SelectSeq([i \in 1..g.cnt |-> i], LAMBDA i : hid_usage_is_used(g.page, Listed(p, i)))
       IN [k \in DOMAIN used |-> Element(p, g, off, flags, used[k])]

\* An item that lays a field out.
Lays(p, g, tag, flags) ==
  LET skipped == flags % 2 = 1 \/ g.page = 255 \/ Listed(p, 1) = 255 \/ Len(p.uses[tag]) >= REPORT_MAX_USAGE
      more == IF skipped THEN <<>> ELSE Usages(p, g, p.bits[tag], flags)
  IN [p EXCEPT !.uses[tag] = @ \o more, !.bits[tag] = @ + g.size * g.cnt, !.usages = <<>>, !.count = 0,
               !.blank = 65535]

\* The reports of an id end with it: the one that comes in, then the one that goes out.
Ends(p, vid) ==
  LET ended(tag) ==
        IF p.id = 0 \/ p.bits[tag] = 0 THEN <<>>
        ELSE LET report == hid_patch_report(vid, [id |-> p.id, tag |-> tag, uses |-> p.uses[tag]])
             IN <<[id |-> p.id, tag |-> tag, uses |-> report.uses, type |-> hid_report_fingerprint(report.uses)]>>
  IN [p EXCEPT !.done = @ \o ended("input") \o ended("output")]

Takes(p, item, vid) ==
  LET g == p.stack[p.at]
  IN CASE item[1] \in DOMAIN g -> [p EXCEPT !.stack[p.at][item[1]] = item[2]]
       [] item[1] = "usage" -> IF hid_usage_is_collection(g.page, item[2]) THEN p ELSE Lists(p, item[2])
       [] item[1] = "usage16" -> Lists(p, item[2])
       [] item[1] \in Tags -> Lays(p, g, item[1], item[2])
       [] item[1] = "feature" -> [p EXCEPT !.count = 0]
       [] item[1] = "id" -> [Ends(p, vid) EXCEPT !.id = item[2], !.uses = NoUses, !.bits = NoBits]
       [] item[1] = "push" ->
            IF p.at < HID_STACK_MAX THEN [p EXCEPT !.stack[p.at + 1] = g, !.at = @ + 1] ELSE p
       [] item[1] = "pop" -> IF p.at > 1 THEN [p EXCEPT !.at = @ - 1] ELSE p
       [] item[1] = "unknown" -> [p EXCEPT !.stopped = TRUE]
       [] OTHER -> p

\* A description is read item by item (here a field's items at a time).  Where no id was given, the
\* one report is 1; an item that is not known leaves the rest unread,
\* and the report it was in with it.
Parsed(fields, vid) ==
  LET Reads(p, items) == FoldLeft(LAMBDA q, item : IF q.stopped THEN q ELSE Takes(q, item, vid), p, items)
      read == FoldLeft(LAMBDA p, items : IF p.stopped THEN p ELSE Reads(p, items), Start, fields)
      named == IF read.done = <<>> /\ read.id = 0 THEN [read EXCEPT !.id = 1] ELSE read
  IN IF read.stopped THEN read.done ELSE Ends(named, vid).done

\* What the parser makes of each device's description.
Descriptions == [n \in DOMAIN Device |-> Parsed(Described(Device[n].reports), Device[n].vid)]
=============================================================================
