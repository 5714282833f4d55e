------------------------------ MODULE HidPads ------------------------------
(***************************************************************************)
(* Controllers, keyboards and mice that describe their own reports: the    *)
(* description that the parser (Controllers) has read, the tables that the *)
(* first report of each type has made from it and the reading of reports   *)
(* with them (adapter/wireless/hid_generic.c), from bt_host_bridge         *)
(* (host.c) that passes a report on to the rumble that goes back.          *)
(*                                                                         *)
(* The reports parsed and some of the tables (hid_report_meta) belong to   *)
(* the slot and outlive the device that was in it; the others are cleared  *)
(* with the device (bt_host_reset_dev).  The devices are external: what    *)
(* they describe, where their controls then are, and what these are for.   *)
(* A report is the set of its bits that are 1.  How far an axis goes       *)
(* (abs_max, abs_min) and what pulls it back are left out.                 *)
(***************************************************************************)
EXTENDS Controllers, FiniteSets
LOCAL INSTANCE SequencesExt
LOCAL INSTANCE FiniteSetsExt

CONSTANTS
  HpHeld,     \* bound: controls held and pushed at once
  HpDevices   \* bound: devices that come into the slot

VARIABLES
  hpPad,    \* the device: its name, the controls held, the axis pushed, how far off it rests
  hpDev,    \* the slot: bt_data, the reports parsed and devices_meta
  hpHeard,  \* the report just read: ctrl_data, its type and id
  hpHist    \* history: whose reports made the tables, the axis pushed then, the devices so far

hpVars == <<hpPad, hpDev, hpHeard, hpHist>>

----------------------------------------------------------------------------
(* What a device sends.                                                    *)

\* Where the controls are: each element of a field that is not filling, with the bit it starts at.
Before(fields, f, main) ==
  MapThenSumSet(LAMBDA g : fields[g].size * fields[g].n, {g \in 1..(f - 1) : fields[g].main = main})
Elements(fields, main) ==
  UNION {{[page |-> fields[f].page, slot |-> e, size |-> fields[f].size,
           lo |-> fields[f].lo, hi |-> fields[f].hi,
           usage |-> IF fields[f].last = 0 THEN fields[f].us[e] ELSE fields[f].us[1] + e - 1,
           array |-> fields[f].flags = 0, off |-> Before(fields, f, main) + (e - 1) * fields[f].size] :
            e \in 1..(IF fields[f].last = 0 THEN Len(fields[f].us) ELSE fields[f].n)} :
         f \in {f \in DOMAIN fields : fields[f].main = main /\ fields[f].flags # 3}}

Rest == <<0, 0>>
Dev(pad) == Device[pad.name]
Number(report) == IF report.id = 0 THEN 1 ELSE report.id
Signed(x) == x.lo < 0
Relative(pad) == pad.name = "mouse"
Trigger(i) == i \in {TRIG_L, TRIG_R}
Down(i) == i \in {1, 3}
By(pad, i) == IF pad.push[1] = i THEN pad.push[2] ELSE 0

\* What an element of a report holds, from what is held and pushed.  Up is less, on a stick.
Mods8 == 224..231
Slotted(pad) == SetToSortSeq({k[2] : k \in {k \in pad.held : k[1] = 7 /\ k[2] \notin Mods8}}, <)
AxisHeld(pad, i, x) ==
  LET middle == IF Signed(x) THEN 0 ELSE (x.hi + 1) \div 2
      rest == CASE Relative(pad) -> 0 [] Trigger(i) -> x.lo [] OTHER -> middle + Dev(pad).rests
  IN rest + (IF Down(i) THEN -By(pad, i) ELSE By(pad, i))
Holds(pad, x) ==
  CASE x.page = 1 /\ x.usage = 57 ->
         IF \E n \in 0..7 : <<0, n>> \in pad.held
         THEN x.lo + (CHOOSE n \in 0..7 : <<0, n>> \in pad.held) ELSE x.lo + 8
    [] x.page \in {1, 2} /\ x.usage \in DOMAIN Dev(pad).axes -> AxisHeld(pad, Dev(pad).axes[x.usage], x)
    [] x.array -> IF x.slot \in DOMAIN Slotted(pad) THEN Slotted(pad)[x.slot] ELSE 0
    [] OTHER -> IF <<x.page, x.usage>> \in pad.held THEN 1 ELSE 0
BitsOf(value, size) == {b \in 0..(size - 1) : (value \div 2^b) % 2 = 1}
Sent(pad, id) ==
  UNION {{x.off + b : b \in BitsOf(Holds(pad, x), x.size)} :
           x \in UNION {Elements(r.fields, "input") : r \in {r \in Range(Dev(pad).reports) : Number(r) = id}}}

----------------------------------------------------------------------------
(* The slot.                                                               *)

\* Of the reports of a type that go out the first is the one that is used.
hid_parser(dev, reports) ==
  LET keeps(d, r) == IF r.type # "none" /\ r.tag = "output" /\ d.rep[r.type].id = 0
                     THEN [d EXCEPT !.rep[r.type] = r] ELSE d
  IN FoldLeft(keeps, [dev EXCEPT !.parsed = reports], reports)

Incoming(dev, id) == SelectSeq(dev.parsed, LAMBDA r : r.id = id /\ r.tag = "input")
hid_parser_load_report(dev, id) ==
  FoldLeft(LAMBDA d, r : IF r.type = "none" THEN d ELSE [d EXCEPT !.rep[r.type] = r], dev, Incoming(dev, id))

----------------------------------------------------------------------------
(* The tables that the first report of a type has made.                    *)

NoMap == [mask |-> {}, desc |-> {}, btns |-> [b \in Pad |-> {}], axes |-> [i \in 0..15 |-> NONE],
          meta |-> [i \in 0..15 |-> [neutral |-> 0, polarity |-> 0]]]
NoReport == [id |-> 0, tag |-> "input", uses |-> <<>>, type |-> "none"]
Anew(map) == [map EXCEPT !.axes = NoMap.axes]

\* The keys of a keyboard by their usage, and its modifiers; the numbers are those of adapter.h.
hid_kb_key_to_generic ==
  <<0, 0, 0, 0, 0, 32, 33, 1, 18, 19, 34, 35, 36, 37, 38, 39, 40, 41, 42, 43, 16, 17, 2, 44, 45, 46, 3, 29,
    47, 25, 48, 49, 50, 51, 52, 53, 54, 55, 56, 57, 21, 20, 58, 59, 31, 60, 61, 62, 63, 64, 23, 65, 66, 67,
    68, 69, 70, 71, 72, 73, 74, 75, 76, 77, 78, 79, 80, 81, 82, 83, 84, 85, 86, 87, 88, 89, 90, 91, 92,
    9, 8, 10, 11, 93, 94, 95, 96, 97, 98, 99, 100, 101, 102, 103, 104, 105, 106, 107, 108, 109>>
hid_kb_bitfield_to_generic == <<26, 30, 110, 22, 111, 112, 113, 114>>
KeyOf(usage) == hid_kb_key_to_generic[usage + 1]

\* The generic keys that keyboards have, their modifiers among them.
kb_mask == Bits(59135, 3855) \cup 32..114

Places(uses, set) == SelectSeq([k \in DOMAIN uses |-> k], LAMBDA k : k \in set)
IsMods(u) == u.page = 7 /\ u.usage \in 224..231
hid_kb_init(dev) ==
  LET uses == dev.rep["KB"].uses
      mods == {k \in DOMAIN uses : IsMods(uses[k])}
      keys == Places(uses, {k \in DOMAIN uses : uses[k].page = 7} \ mods)
      map == [dev.map["KB"] EXCEPT
                !.axes = [i \in 0..15 |-> IF i < 6 /\ i + 1 \in DOMAIN keys THEN keys[i + 1] ELSE NONE],
                !.mask = @ \cup kb_mask]
  IN [dev EXCEPT !.map["KB"] = map, !.init = @ \cup {"KB"},
                 !.meta["KB"] = [@ EXCEPT !.btn = IF mods = {} THEN NONE ELSE Max(mods),
                                          !.kb = @ \/ \E k \in DOMAIN uses : uses[k].usage \in 1..223]]

\* An axis: the field it is read from, its rest and its sense (Y and the wheel count down).
Sides(i) == IF i < 4 THEN {2 * i, 2 * i + 1} ELSE {IF i = TRIG_L THEN PAD_LM ELSE PAD_RM}
WithAxis(map, i, k, sides, neutral) ==
  [map EXCEPT !.mask = @ \cup sides, !.desc = @ \cup sides, !.axes[i] = k, !.meta[i].neutral = neutral,
              !.meta[i].polarity = IF Down(i) THEN 1 ELSE @]
WithBtn(map, b, bits) == [map EXCEPT !.mask = @ \cup {b}, !.btns[b] = bits]

\* Of a mouse as many buttons are read as there are, or as the report has fields of that size: the
\* loop over a field's bits looks at the size of the field that has the bit's number.
MouseBtn(n) == CASE n = 0 -> 28 [] n = 1 -> 24 [] n = 2 -> 27 [] n = 7 -> 29 [] OTHER -> 13 + n
MouseBtns(uses) ==
  {n \in 0..31 : \A i \in 0..n : i + 1 \in DOMAIN uses /\ i < uses[i + 1].size}
MouseAxis == 48 :> 2 @@ 49 :> 3 @@ 56 :> 1
MouseUse(i) == CHOOSE u \in DOMAIN MouseAxis : MouseAxis[u] = i
MouseSides == 48 :> {4, 5} @@ 49 :> {6, 7} @@ 56 :> {14, 15}
hid_mouse_init(dev) ==
  LET uses == dev.rep["MOUSE"].uses
      takes(m, k) ==
        LET u == uses[k]
        IN CASE u.page = 1 /\ u.usage \in DOMAIN MouseAxis ->
                  [m EXCEPT !.map = WithAxis(@, MouseAxis[u.usage], k, MouseSides[u.usage], 0)]
             [] u.page = 1 /\ u.usage = 133 -> [m EXCEPT !.btn = k, !.map = WithBtn(@, PAD_MT, {0})]
             [] u.page = 9 ->
                  [m EXCEPT !.btn = k, !.map.mask = @ \cup {MouseBtn(n) : n \in MouseBtns(uses)},
                            !.map.btns = [b \in Pad |-> @[b] \cup {n \in MouseBtns(uses) : MouseBtn(n) = b}]]
             [] OTHER -> m
      made == FoldLeft(takes, [map |-> Anew(dev.map["MOUSE"]), btn |-> NONE], [k \in DOMAIN uses |-> k])
  IN [dev EXCEPT !.map["MOUSE"] = made.map, !.meta["MOUSE"].btn = made.btn, !.init = @ \cup {"MOUSE"}]

\* Z and Rz are the right stick where Z follows X and Y; else Rx and Ry are, and Z and Rz triggers.
Codes(uses) == [k \in DOMAIN uses |-> <<uses[k].page, uses[k].usage>>]
z_is_joy(uses) ==
  \E k \in 1..(Len(uses) - 2) : SubSeq(Codes(uses), k, k + 2) = <<<<1, 48>>, <<1, 49>>, <<1, 50>>>>
btns_is_xinput(uses) ==
  /\ Codes(uses) = <<<<1, 48>>, <<1, 49>>, <<1, 51>>, <<1, 52>>, <<1, 50>>, <<1, 53>>, <<1, 57>>, <<9, 1>>>>
  /\ uses[8].last = 10
PadAxis(u, joy) ==
  CASE u.page = 1 /\ u.usage \in 48..49 -> u.usage - 48
    [] u.page = 1 /\ u.usage = 50 -> IF joy THEN 2 ELSE TRIG_L
    [] u.page = 1 /\ u.usage = 51 -> IF joy THEN TRIG_L ELSE 2
    [] u.page = 1 /\ u.usage = 52 -> IF joy THEN TRIG_R ELSE 3
    [] u.page = 1 /\ u.usage = 53 -> IF joy THEN 3 ELSE TRIG_R
    [] u.page = 2 /\ u.usage = 196 -> TRIG_R
    [] u.page = 2 /\ u.usage = 197 -> TRIG_L
    [] OTHER -> NONE
Neutral(i, u) == IF Trigger(i) THEN u.lo ELSE IF u.lo >= 0 THEN (u.hi \div 2) + 1 ELSE 0
PadAxes(map, uses) ==
  LET takes(m, k) ==
        LET i == PadAxis(uses[k], z_is_joy(uses))
        IN CASE i # NONE -> WithAxis(m, i, k, Sides(i), Neutral(i, uses[k]))
             [] uses[k].page = 1 /\ uses[k].usage = 57 -> [m EXCEPT !.mask = @ \cup PAD_LD_LEFT..PAD_LD_UP]
             [] OTHER -> m
  IN FoldLeft(takes, map, [k \in DOMAIN uses |-> k])

hid_pad_default_btns_idx ==
  <<PAD_RB_DOWN, PAD_RB_RIGHT, PAD_RT, PAD_RB_LEFT, PAD_RB_UP, PAD_LT, PAD_LS, PAD_RS, PAD_LM, PAD_RM,
    PAD_MS, PAD_MM, PAD_MT, PAD_LJ, PAD_RJ, PAD_MQ, PAD_RD_LEFT, 13, 14, 15>>
hid_pad_xinput_btns_idx ==
  <<PAD_RB_DOWN, PAD_RB_RIGHT, PAD_RB_LEFT, PAD_RB_UP, PAD_LS, PAD_RS, PAD_MS, PAD_MM, PAD_LJ, PAD_RJ>>
consumer_btns == 64 :> PAD_MM @@ 178 :> PAD_MQ @@ 547 :> PAD_MT @@ 548 :> PAD_MS

\* The fields of a page that follow each other from its first one on, and the bit they end at.
First(uses, page) ==
  LET on == {k \in DOMAIN uses : uses[k].page = page} IN IF on = {} THEN NONE ELSE Min(on)
Together(uses, page) ==
  LET first == First(uses, page)
  IN IF first = NONE THEN {} ELSE {k \in first..Len(uses) : \A j \in first..k : uses[j].page = page}
EndOf(uses, page) == LET last == uses[Max(Together(uses, page))] IN last.off + last.size

\* The buttons are read as one field, which starts where the first of them does and is wide enough
\* for all: at is the field, from the bit their numbers count from.
PadBtns(map, uses, from) ==
  LET idx == IF btns_is_xinput(uses) THEN hid_pad_xinput_btns_idx ELSE hid_pad_default_btns_idx
      button(n) == IF n \in DOMAIN idx THEN idx[n] ELSE 0
      bit(m, k, j) == WithBtn(m, button(uses[k].usage + j), {uses[k].off - from + j})
      field(m, k) == IF uses[k].usage = 0 THEN m
                     ELSE FoldLeft(LAMBDA n, j : bit(n, k, j - 1), m, [j \in 1..uses[k].size |-> j])
      consumer(m, k) == WithBtn(m, consumer_btns[uses[k].usage], {uses[k].off - from})
  IN FoldLeft(consumer, FoldLeft(field, map, Places(uses, Together(uses, 9))),
              Places(uses, Together(uses, 12)))

hid_pad_init(dev) ==
  LET uses == dev.rep["PAD"].uses
      btn == First(uses, 9)
      cbtn == First(uses, 12)
      at == IF btn # NONE THEN btn ELSE cbtn
      from == uses[IF btn # NONE /\ cbtn # NONE THEN Min({btn, cbtn}) ELSE at].off
      ends == {EndOf(uses, page) : page \in {page \in {9, 12} : First(uses, page) # NONE}}
      hats == {k \in DOMAIN uses : uses[k].page = 1 /\ uses[k].usage = 57}
      axes == PadAxes(Anew(dev.map["PAD"]), uses)
  IN [dev EXCEPT !.map["PAD"] = IF at = NONE THEN axes ELSE PadBtns(axes, uses, from),
                 !.rep["PAD"].uses = IF at = NONE THEN @ ELSE [@ EXCEPT ![at].size = Max(ends) - from],
                 !.meta["PAD"] = [@ EXCEPT !.btn = at, !.hat = IF hats = {} THEN NONE ELSE Max(hats)]]

----------------------------------------------------------------------------
(* A report is read.                                                       *)

\* A field of a report, read as a word of 32 bits from the byte it starts in.
Bits32(s, u) == {b \in 0..(Min({u.size, 32 - (u.off % 8)}) - 1) : u.off + b \in s}
Value(s, u) == MapThenSumSet(LAMBDA b : 2^b, Bits32(s, u))
SignedValue(s, u) == IF u.size - 1 \in Bits32(s, u) THEN Value(s, u) - 2^u.size ELSE Value(s, u)
Pressed(map, bits) == {b \in Pad : map.btns[b] \cap bits # {}}

Nothing == <<>>
Got(dev, type, id, on, ax) ==
  [dev |-> dev, heard |-> [type |-> type, id |-> id, on |-> on, ax |-> ax, mask |-> dev.map[type].mask,
                           desc |-> dev.map[type].desc,
                           pol |-> [i \in DOMAIN ax |-> dev.map[type].meta[i].polarity]]]

\* The axes are those read as keys: a bitmap each where one was seen in the slot, else a key each.
hid_kb_to_generic(dev, id, s) ==
  LET uses == dev.rep["KB"].uses
      meta == dev.meta["KB"]
      fields == {uses[dev.map["KB"].axes[i]] : i \in {i \in 0..15 : dev.map["KB"].axes[i] # NONE}}
      mods == IF meta.btn = NONE THEN {} ELSE Bits32(s, uses[meta.btn]) \cap 0..7
      keys == IF meta.kb THEN UNION {{u.usage + b : b \in Bits32(s, u)} : u \in fields}
              ELSE {Value(s, u) : u \in fields} \cap 4..99
  IN Got(dev, "KB", id, {hid_kb_bitfield_to_generic[b + 1] : b \in mods} \cup {KeyOf(k) : k \in keys}, <<>>)

hid_mouse_to_generic(dev, id, s) ==
  LET uses == dev.rep["MOUSE"].uses
      map == dev.map["MOUSE"]
      btn == dev.meta["MOUSE"].btn
      read == {i \in 0..5 : map.axes[i] # NONE}
  IN Got(dev, "MOUSE", id, IF btn = NONE THEN {} ELSE Pressed(map, Bits32(s, uses[btn])),
         [i \in read |-> SignedValue(s, uses[map.axes[i]])])

\* The report that finds a pad not set up is taken for the pad at rest.
hid_pad_to_generic(dev, id, s) ==
  LET uses == dev.rep["PAD"].uses
      map == dev.map["PAD"]
      meta == dev.meta["PAD"]
      read == {i \in 0..15 : map.axes[i] # NONE}
      use(i) == uses[map.axes[i]]
      cal == IF "PAD" \in dev.init THEN dev.cal
             ELSE [i \in read |-> map.meta[i].neutral - Value(s, use(i))] @@ dev.cal
      hat == IF meta.hat = NONE THEN {} ELSE Hat((Value(s, uses[meta.hat]) - uses[meta.hat].lo) % 16)
      from(i) == IF use(i).lo >= 0 THEN Value(s, use(i)) - map.meta[i].neutral ELSE SignedValue(s, use(i))
  IN Got([dev EXCEPT !.cal = cal, !.init = @ \cup {"PAD"}], "PAD", id,
         hat \cup (IF meta.btn = NONE THEN {} ELSE Pressed(map, Bits32(s, uses[meta.btn]))),
         [i \in read |-> from(i) + cal[i]])

Quirky(dev, quirks) == [dev EXCEPT !.map["PAD"] = mapping_quirks_apply(@, quirks, dev.vid)]
hid_to_generic(dev, type, id, s, quirks) ==
  LET loaded == hid_parser_load_report(dev, id)
      set == type \in dev.init
  IN CASE type = "KB" -> hid_kb_to_generic(IF set THEN dev ELSE hid_kb_init(loaded), id, s)
       [] type = "MOUSE" -> hid_mouse_to_generic(IF set THEN dev ELSE hid_mouse_init(loaded), id, s)
       [] type = "PAD" -> hid_pad_to_generic(IF set THEN dev ELSE Quirky(hid_pad_init(loaded), quirks), id, s)
       [] OTHER -> [dev |-> dev, heard |-> Nothing]

\* A report that was not described, or that is for nothing known, is dropped; one of another id
\* than the table's has the table made again; the first two are not read.
bt_host_bridge(dev, id, s, quirks) ==
  LET known == Incoming(dev, id)
      type == IF known = <<>> THEN "none" ELSE known[1].type
      mine == IF id # dev.rep[type].id THEN [dev EXCEPT !.init = @ \ {type}] ELSE dev
      got == IF type \in mine.init \/ mine.cnt > 1 THEN hid_to_generic(mine, type, id, s, quirks)
             ELSE [dev |-> mine, heard |-> Nothing]
  IN IF type = "none" THEN [dev |-> dev, heard |-> Nothing]
     ELSE [got EXCEPT !.dev.cnt = IF @ > 1 THEN @ ELSE @ + 1]

\* The rumble that the game turned on or off, as the bytes of the report that goes out: each usage
\* has bytes of its own, in the order of the description, and the motors are strong and weak in turn.
Strength == [lf |-> 128, hf |-> 64]
Enables(u) == u.usage = 151 /\ u.hi = 1 /\ u.size = 4
Bytes(u) == (u.size + 7) \div 8
OutValue(u, on, motor) ==
  CASE Enables(u) -> 3
    [] u.usage = 167 -> u.lo
    [] u.usage \in {80, 124} -> IF on THEN u.hi ELSE u.lo
    [] OTHER -> IF on THEN (u.hi * motor) \div 255 ELSE u.lo
Motors(uses) == {k \in DOMAIN uses : uses[k].usage \in {112, 151} /\ ~Enables(uses[k])}
hid_fb_from_generic(dev, quirks, on) ==
  LET report == dev.rep["RUMBLE"]
      uses == SelectSeq(report.uses, LAMBDA u : u.usage \in {80, 112, 124, 151, 167})
      motor(k) == IF Cardinality({j \in Motors(uses) : j < k}) % 2 = 0 THEN Strength.lf ELSE Strength.hf
      values == [k \in DOMAIN uses |-> <<OutValue(uses[k], on, motor(k)), Bytes(uses[k])>>]
      power == IF on THEN Strength ELSE [lf |-> 0, hf |-> 0]
  IN IF "GC" \in quirks THEN [id |-> 165, out |-> <<<<219, 1>>, <<power.lf, 1>>, <<power.hf, 1>>>>]
     ELSE [id |-> report.id, out |-> values]

\* Without an id or a byte nothing is sent.
bt_hid_cmd_generic_rumble(rumble) == IF rumble.id = 0 \/ rumble.out = <<>> THEN Nothing ELSE <<rumble>>
----------------------------------------------------------------------------
(* Actions.                                                                *)

\* The devices that come after a device, where both are read with tables of the same kind.
Comes ==
  "dual stick" :> {"driving"} @@ "two reports" :> {"dual stick"} @@ "keyboard" :> {"all keys"}
  @@ "all keys" :> {"keyboard"} @@ "mouse" :> {"xinput"} @@ "xinput" :> {"mouse"} @@ "atari" :> {"gamecube"}

NewBase == [read |-> [t \in Types |-> {}], push |-> Rest, told |-> FALSE, came |-> 1, from |-> "none"]
Cleared(dev, vid) ==
  [dev EXCEPT !.rep = [t \in Types |-> NoReport], !.map = [t \in Types |-> NoMap], !.init = {},
              !.cal = [i \in 0..15 |-> 0], !.cnt = 0, !.vid = vid]

Init ==
  \E n \in DOMAIN Device :
    /\ hpPad = [name |-> n, held |-> {}, push |-> Rest]
    /\ hpDev = Cleared([parsed |-> <<>>, meta |-> [t \in Types |-> [btn |-> 0, hat |-> 0, kb |-> FALSE]],
                        rep |-> 0, map |-> 0, init |-> 0, cal |-> 0, cnt |-> 0, vid |-> 0], Device[n].vid)
    /\ hpHeard = Nothing /\ hpHist = NewBase

\* The player.
Hands(pad) == Cardinality(pad.held) + (IF pad.push = Rest THEN 0 ELSE 1)
Handles(pad) == hpPad' = pad /\ hpHeard' = Nothing /\ UNCHANGED <<hpDev, hpHist>>
Press(k) ==
  /\ k \in Dev(hpPad).keys \ hpPad.held /\ Hands(hpPad) < HpHeld
  /\ k[1] = 0 => \A l \in hpPad.held : l[1] # 0
  /\ Handles([hpPad EXCEPT !.held = @ \cup {k}])
Release(k) == k \in hpPad.held /\ Handles([hpPad EXCEPT !.held = @ \ {k}])
Push(i, v) ==
  /\ i \in Range(Dev(hpPad).axes) /\ (Trigger(i) => v > 0) /\ Hands(hpPad) < HpHeld /\ hpPad.push = Rest
  /\ Handles([hpPad EXCEPT !.push = <<i, v>>])
LetGo == hpPad.push # Rest /\ Handles([hpPad EXCEPT !.push = Rest])

\* The device's description arrives whole (sdp.c, att_hid.c; HidLink, AttChain).
Describes ==
  /\ ~hpHist.told
  /\ hpDev' = hid_parser(hpDev, Descriptions[hpPad.name])
  /\ hpHist' = [hpHist EXCEPT !.told = TRUE, !.from = hpPad.name]
  /\ hpHeard' = Nothing /\ UNCHANGED hpPad

Report(id) ==
  /\ id \in {Number(r) : r \in Range(Dev(hpPad).reports)}
  /\ \E got \in {bt_host_bridge(hpDev, id, Sent(hpPad, id), Dev(hpPad).quirks)} :
       LET type == IF got.heard = Nothing THEN "none" ELSE got.heard.type
           anew == type # "none" /\ (type \notin hpDev.init \/ hpDev.rep[type].id # id)
       IN /\ hpDev' = got.dev /\ hpHeard' = got.heard
          /\ hpHist' = IF ~anew THEN hpHist
                       ELSE [hpHist EXCEPT !.read[type] = (IF type = "KB" THEN {} ELSE @) \cup {<<hpHist.from, id>>},
                                           !.push = IF type = "PAD" THEN hpPad.push ELSE @]
  /\ UNCHANGED hpPad

\* The game turns the rumble on or off (FbFeedback).
Rumble(on) ==
  /\ hpHeard' = [type |-> "RUMBLE", on |-> on,
                 out |-> bt_hid_cmd_generic_rumble(hid_fb_from_generic(hpDev, Dev(hpPad).quirks, on))]
  /\ UNCHANGED <<hpPad, hpDev, hpHist>>

\* The device goes, its slot is cleared and another comes.
Replaced(n) ==
  /\ hpPad.name \in DOMAIN Comes /\ n \in Comes[hpPad.name] /\ hpHist.came < HpDevices
  /\ hpPad' = [name |-> n, held |-> {}, push |-> Rest]
  /\ hpDev' = Cleared(hpDev, Device[n].vid)
  /\ hpHist' = [NewBase EXCEPT !.came = hpHist.came + 1, !.from = hpHist.from]
  /\ hpHeard' = Nothing

Next ==
  \/ \E k \in UNION {Device[n].keys : n \in DOMAIN Device} : Press(k) \/ Release(k)
  \/ \E i \in 0..5, v \in {-3, 3} : Push(i, v)
  \/ LetGo \/ Describes
  \/ \E id \in 1..3 : Report(id)
  \/ \E on \in BOOLEAN : Rumble(on)
  \/ \E n \in DOMAIN Device : Replaced(n)

Spec == Init /\ [][Next]_hpVars

----------------------------------------------------------------------------
(* Properties.                                                             *)

Heard == hpHeard # Nothing /\ hpHeard.type # "RUMBLE"
Felt == hpHeard # Nothing /\ hpHeard.type = "RUMBLE"
Here == Dev(hpPad)
Elems == UNION {Elements(r.fields, "input") : r \in {r \in Range(Here.reports) : Number(r) = hpHeard.id}}

\* The tables are of the report that was read: made when the device's own description had been read,
\* and those of buttons for it alone.  A report that comes before its description is read with the
\* former device's, whose tables stay if the ids agree (host.c:795); and where buttons come in two
\* reports each adds its own to those of the other (hid_generic.c:582, btns_mask is not cleared).
Own == hpHist.read[hpHeard.type] = {<<hpPad.name, hpHeard.id>>}

\* What is held is in this report, and is read.  Of a bitmap of keys the last piece has no size where
\* its length is a multiple of 32 (hid_parser.c:517), and the table of a mouse's buttons names the
\* fifth bit for another (hid_generic.c:264).
Bitmap == \E x \in Elems : x.page = 7 /\ ~x.array /\ x.usage \in 1..223
Told(k) ==
  \E x \in Elems : \/ <<x.page, x.usage>> = k
                   \/ k[1] = 0 /\ x.page = 1 /\ x.usage = 57
                   \/ k[1] = 7 /\ x.page = 7 /\ x.array
Unread(k) == (Bitmap /\ k[1] = 7 /\ k[2] \in 96..223) \/ (Relative(hpPad) /\ k = <<9, 5>>)
Meant(k) ==
  CASE k[1] = 0 -> Hat(k[2])
    [] k[1] = 1 -> {PAD_MT}
    [] k[1] = 9 -> IF k[2] \in DOMAIN Here.means THEN {Here.means[k[2]]} ELSE {}
    [] k[1] = 12 -> {Consumer[k[2]]}
    [] k[1] = 7 /\ k[2] \in Mods8 -> {hid_kb_bitfield_to_generic[k[2] - 223]}
    [] OTHER -> {KeyOf(k[2])}

\* The axes that the report tells of, which of them with a sign, and how far one was pushed when
\* the tables were made.
AxisUses(i) == {x \in Elems : x.page \in {1, 2} /\ x.usage \in DOMAIN Here.axes /\ Here.axes[x.usage] = i}
AxesTold == {i \in 0..5 : AxisUses(i) # {}}
Sense(i) == 1 - 2 * hpHeard.pol[i]
Shown(i, pushed) == IF Down(i) THEN -pushed ELSE pushed
First0(i) == IF hpHeard.type = "PAD" /\ hpHist.push[1] = i THEN hpHist.push[2] ELSE 0

\* The slot holds what its reports can leave in it: counts and types of hid_generic.c's tables, and
\* what a report is heard to press is a generic button or key.
TypeOK ==
  /\ hpPad.name \in DOMAIN Device /\ hpPad.held \subseteq Here.keys /\ Hands(hpPad) <= HpHeld
  /\ hpDev.cnt \in 0..2 /\ hpDev.init \subseteq Types /\ hpHist.came \in 1..HpDevices
  /\ Heard => (hpHeard.on \subseteq 0..127 /\ DOMAIN hpHeard.ax \subseteq 0..15)

\* A report is heard to press what the player holds, and nothing else: the buttons, the hat and the
\* keys that the description places in it, wherever fields of other sizes, constants, pieces and
\* other reports put them (hid_pad_to_generic, hid_kb_to_generic, hid_mouse_to_generic).  Keys that
\* come one by one are not looked for once a bitmap was seen in the slot (hid_generic.c:107).
HeardAsHeld ==
  (Heard /\ Own /\ (hpHeard.type = "KB" /\ hpDev.meta["KB"].kb => Bitmap)) =>
    hpHeard.on = UNION {Meant(k) : k \in {k \in hpPad.held : Told(k) /\ ~Unread(k)}}

\* An axis is read as far and to the side as it is pushed, counted from where a pad's was when its
\* tables were made, whatever its width, sign and rest are (hid_pad_to_generic); a mouse's is the
\* motion itself.  A signed axis that was below its middle then is calibrated by its value without
\* the sign (hid_generic.c:699).
AxesAsPushed ==
  (Heard /\ Own /\ hpHeard.type # "KB") =>
    \A i \in AxesTold :
      LET below == /\ hpHeard.type = "PAD" /\ ~Trigger(i) /\ \E x \in AxisUses(i) : Signed(x)
                   /\ Here.rests + Shown(i, First0(i)) < 0
      IN /\ i \in DOMAIN hpHeard.ax
         /\ ~below => Sense(i) * hpHeard.ax[i] = By(hpPad, i) - First0(i)

\* Whatever a report can press or push is in the masks that tell the mapping what the controller
\* has (hid_pad_init, hid_kb_init, hid_mouse_init): else it would be heard and never mapped.
NothingLost ==
  (Heard /\ Own) =>
    /\ hpHeard.on \subseteq hpHeard.mask
    /\ hpHeard.type # "KB" =>
         \A i \in AxesTold :
           (IF hpHeard.type = "MOUSE" THEN MouseSides[MouseUse(i)] ELSE Sides(i))
             \subseteq hpHeard.mask \cap hpHeard.desc

\* The bytes of the rumble that goes out, and those of the report that the device described.
Flat(out) ==
  FlattenSeq([k \in DOMAIN out |-> [j \in 1..out[k][2] |-> (out[k][1] \div 256^(j - 1)) % 256]])
OutBits(r) == Before(r.fields, Len(r.fields) + 1, "output")

\* A pad that can rumble gets a report of the id and length it described, in which the bytes of its
\* motors are on as the game asked (hid_fb_from_generic); one that cannot gets none.  Where one usage
\* stands for several bytes the parser keeps the first only (hid_parser.c:494 looks at usage i, not
\* at the last one named), so what goes out is short: "xinput" is such a description.
FeltAsSent ==
  (Felt /\ hpPad.name # "xinput") =>
    IF hpHist.told /\ Here.motors # {}
    THEN LET sent == hpHeard.out[1]
             bytes == Flat(sent.out)
         IN /\ hpHeard.out # <<>>
            /\ \A m \in Here.motors : m \in DOMAIN bytes /\ (bytes[m] > 0) = hpHeard.on
            /\ \/ "GC" \in Here.quirks
               \/ \E r \in Range(Here.reports) : r.id = sent.id /\ Len(bytes) * 8 = OutBits(r)
    ELSE "GC" \in Here.quirks \/ hpHeard.out = <<>>

=============================================================================
