------------------------------ MODULE Mapping ------------------------------
(***************************************************************************)
(* What becomes of a controller's report (adapter.c, adapter_bridge): the  *)
(* list of mappings of the configuration takes each button and each half   *)
(* of an axis to one or more of a port's, several sources may meet on one  *)
(* axis, and the buttons above 117 make up the macros (macro.c).           *)
(*                                                                         *)
(* A report is made anew from the controller's state, and the ports it     *)
(* feeds are described anew for it, so what stays from one report to the   *)
(* next is: the ranges of the source's axes, which grow when a value lies  *)
(* beyond them, the macros whose chord is held, and the mode a macro       *)
(* changes.  Some controllers send a second report that holds one button   *)
(* only (xbox.c, report 2).                                                *)
(*                                                                         *)
(* Scales and percentages are computed in 32-bit floats and cut; here they *)
(* are exact, and the values of Moves are such that both agree.            *)
(***************************************************************************)
EXTENDS ReportRules
LOCAL INSTANCE FiniteSetsExt
LOCAL INSTANCE SequencesExt

CONSTANT MpCommands    \* bound: commands of a macro given to the system manager, chords left

VARIABLES
  mpMap,     \* config.in_cfg[].map_cfg of the controller
  mpSource,  \* the controller: buttons held, values of its axes, and their ranges as learned
  mpOut,     \* ctrl_output as the last report left it, and the ports that were told
  mpMacro,   \* macros: the chords flagged, the mode of the port, the commands given
  mpHist     \* the chord of the report before, the chords left since the start

mpVars == <<mpMap, mpSource, mpOut, mpMacro, mpHist>>

Size(x) == IF x < 0 THEN -x ELSE x

----------------------------------------------------------------------------
(* Buttons and axes.                                                       *)

AXIS_NONE == -1
btn_id_to_axis(b) ==
  LET axes == {i \in 0..15 : b \in axis_to_btn_mask(i)} IN IF axes = {} THEN AXIS_NONE ELSE Max(axes)

\* The side of the axis a button stands for.
low_sides == {0, 2, 4, 6, 12, 14}
btn_sign(polarity, b) == IF (b \in low_sides) = (polarity = 1) THEN 1 ELSE -1

\* A port's axis and a button that is pressed on it, or a button of its own.
Still == [value |-> 0, cnt |-> 0]
Empty(ids) == [on |-> {}, cnt |-> [b \in {} |-> 0], map |-> {}, ax |-> [i \in 0..15 |-> Still]]

----------------------------------------------------------------------------
(* One mapping: e is its entry, out the port's ctrl_output (desc says      *)
(* which of the port's buttons, mask, are axes; meta their ranges).        *)

Stronger(ax, value, turbo) ==
  IF Size(value) > Size(ax.value) THEN [value |-> value, cnt |-> turbo] ELSE ax

Pressed(out, e) ==
  [out EXCEPT !.on = @ \cup {e.dst}, !.cnt = (e.dst :> e.turbo) @@ @]
Pushed(out, port, e, value) ==
  LET i == btn_id_to_axis(e.dst)
  IN [out EXCEPT !.ax[i] = Stronger(@, btn_sign(port.meta[i].polarity, e.dst) * value, e.turbo)]

\* How far the port's axis goes on the side of the button.
Reach(port, e) ==
  LET i == btn_id_to_axis(e.dst)
  IN IF btn_sign(port.meta[i].polarity, e.dst) > 0 THEN port.meta[i].abs_max ELSE port.meta[i].abs_min

\* The range of an axis of the source after a value on one of its sides.
Learn(m, side, size) ==
  IF side > 0 THEN [m EXCEPT !.abs_max = IF size > @ THEN size ELSE @]
              ELSE [m EXCEPT !.abs_min = IF size > @ THEN size ELSE @]

\* The distance from the dead zone, on the port's scale or as it is.
Scaled(e, port, size, range, deadzone) ==
  LET most == IF e.algo = "LINEAR" THEN Reach(port, e) * e.perc_max ELSE (range - deadzone) * e.perc_max
  IN ((size - deadzone) * most) \div ((range - deadzone) * 100)

adapter_map_from_axis(e, port, in, out) ==
  LET i == btn_id_to_axis(e.src)
      value == in.ax[i]
      side == btn_sign(in.meta[i].polarity, e.src)
      learned == Learn(in.meta[i], side, Size(value))
      range == IF side > 0 THEN learned.abs_max ELSE learned.abs_min
      deadzone == (e.perc_deadzone * range) \div 10000 + learned.deadzone
      flagged == [out EXCEPT !.map = @ \cup {e.dst}]
  IN IF i = AXIS_NONE \/ e.dst \notin port.mask THEN [in |-> in, out |-> out]
     ELSE IF side * value < 0 THEN [in |-> in, out |-> flagged]
     ELSE [in |-> [in EXCEPT !.meta[i] = learned],
           out |-> IF e.dst \in port.desc
                   THEN IF Size(value) > deadzone
                        THEN Pushed(flagged, port, e, Scaled(e, port, Size(value), range, deadzone))
                        ELSE flagged
                   ELSE IF Size(value) >= (e.perc_threshold * range) \div 100
                        THEN Pressed(flagged, e) ELSE flagged]

adapter_map_from_btn(e, port, in, out) ==
  LET flagged == [out EXCEPT !.map = @ \cup {e.dst}]
  IN IF e.dst \notin port.mask THEN out
     ELSE IF e.src \notin in.on THEN flagged
     ELSE IF e.dst \in port.desc
          THEN Pushed(flagged, port, e, (Reach(port, e) * e.perc_max) \div 100)
          ELSE Pressed(flagged, e)

----------------------------------------------------------------------------
(* A report: in is what the controller's conversion left in ctrl_input.    *)

\* What the list has made so far: the learned ranges, the ports, those to be told.
Added(done, id, made) ==
  [in |-> made.in, out |-> [done.out EXCEPT ![id] = made.out], told |-> done.told \cup {id}]
MapOne(ports, done, e) ==
  IF e.src \notin done.in.mask THEN done
  ELSE IF e.src \in done.in.desc
       THEN IF btn_id_to_axis(e.src) = AXIS_NONE THEN done
            ELSE Added(done, e.id, adapter_map_from_axis(e, ports[e.id], done.in, done.out[e.id]))
       ELSE [done EXCEPT !.out[e.id] = adapter_map_from_btn(e, ports[e.id], done.in, @), !.told = @ \cup {e.id}]

adapter_mapping(map, ports, in) ==
  FoldLeft(LAMBDA done, e : MapOne(ports, done, e),
           [in |-> in, out |-> [p \in DOMAIN ports |-> Empty({})], told |-> {}], map)

----------------------------------------------------------------------------
(* Macros (macro.c): the buttons of a chord, what is asked of the system   *)
(* manager when the chord is left, and the mode the port takes for it.     *)
combos == 118..127
base == {118, 119, 120}
macros ==
  "SYS_RESET" :> base \cup {122} @@ "BT_INQUIRY" :> base \cup {123} @@ "SYS_POWER_OFF" :> base \cup {124}
  @@ "FACTORY_RESET" :> base \cup {121, 125} @@ "DEEP_SLEEP" :> base \cup {121, 126}
  @@ "WIRED_RST" :> base \cup {127}

update_cfg_mode(mode) == 1 - (mode % 2)

sys_macro_hdl(m, value) ==
  LET left == {x \in m.flags : macros[x] # value}
  IN [flags |-> (m.flags \ left) \cup {x \in DOMAIN macros : macros[x] = value},
      mode |-> IF "WIRED_RST" \in left THEN update_cfg_mode(m.mode) ELSE m.mode,
      given |-> [x \in DOMAIN macros |-> m.given[x] + (IF x \in left THEN 1 ELSE 0)]]

----------------------------------------------------------------------------
(* The instance: a controller with a stick, a trigger and some buttons,    *)
(* and two ports.                                                          *)
Ports == 1..2
stick == 0
trigger == 5
Axis(max, min) == [abs_max |-> max, abs_min |-> min, polarity |-> 0, deadzone |-> 0]
port_axes == (stick :> Axis(80, 60))
ctrl_ports == [p \in Ports |-> [mask |-> {0, 1, 9, 16} \cup combos, desc |-> {0, 1}, meta |-> port_axes]]

\* config.in_cfg[].map_cfg: from and to which button, of which port, and how.
Entry(src, dst, id, perc_max, turbo, algo) ==
  [src |-> src, dst |-> dst, id |-> id, perc_max |-> perc_max, perc_threshold |-> 50, perc_deadzone |-> 200,
   turbo |-> turbo, algo |-> algo]
entries ==
  {Entry(1, 1, 1, 100, 0, "LINEAR"), Entry(0, 0, 1, 50, 0, "LINEAR"), Entry(1, 9, 1, 100, 3, "LINEAR"),
   Entry(1, 1, 1, 50, 4, "NONE"), Entry(28, 1, 1, 100, 1, "LINEAR"), Entry(18, 1, 1, 50, 2, "LINEAR"),
   Entry(16, 0, 1, 100, 0, "LINEAR"), Entry(18, 16, 2, 100, 3, "LINEAR"), Entry(22, 16, 1, 100, 0, "LINEAR"),
   Entry(16, 16, 1, 100, 0, "LINEAR")}
\* The chords' buttons; in the second list the button of the second report takes part.
chords(first) ==
  <<Entry(24, 118, 1, 100, 0, "LINEAR"), Entry(29, 119, 1, 100, 0, "LINEAR"), Entry(20, 120, 1, 100, 0,
        "LINEAR"),
    Entry(first, 122, 1, 100, 0, "LINEAR"), Entry(21, 127, 1, 100, 0, "LINEAR")>>
\* The orders of two or three mappings to one axis, and pairs that share buttons of the ports.
Lists == {<<a>> : a \in entries}
           \cup {l \in [1..3 -> {e \in entries : e.dst = 1}] : l[1] # l[2] /\ l[2] # l[3] /\ l[1] # l[3]}
           \cup {l \in [1..2 -> {e \in entries : e.dst \in {9, 16}}] : l[1] # l[2]}
           \cup {chords(16), chords(22)}

\* The values of the axes, from rest to beyond the range the controller has at first.
Moves(i) == IF i = stick THEN {-120, -50, 0, 2, 50, 100, 120} ELSE {0, 51, 102}
source_axes == stick :> Axis(100, 100) @@ trigger :> Axis(102, 0)

\* What the controller's reports hold: all but the button of the second one, or that one alone.
InMain(s, b) == ~(s.second /\ b = 22)
Report(s, kind) ==
  IF kind = "main"
  THEN [mask |-> {b \in Ids : InMain(s, b)}, desc |-> {0, 1, 28}, meta |-> s.meta,
        on |-> {b \in s.held : InMain(s, b)}, ax |-> s.ax]
  ELSE [mask |-> {22}, desc |-> {0, 1, 28}, meta |-> s.meta, on |-> s.held \cap {22},
        ax |-> [i \in DOMAIN s.ax |-> 0]]

Used == {mpMap[k].src : k \in DOMAIN mpMap}

Init ==
  /\ mpMap \in Lists
  /\ \E second \in BOOLEAN :
       /\ second => 22 \in Used
       /\ mpSource = [held |-> {}, ax |-> [i \in {stick, trigger} |-> 0], meta |-> source_axes,
             second |-> second]
  /\ mpOut = [out |-> [p \in Ports |-> Empty({})], told |-> {}]
  /\ \E mode \in IF 127 \in {mpMap[k].dst : k \in DOMAIN mpMap} THEN {0, 1, 3} ELSE {0} :
       /\ mpMacro = [flags |-> {}, mode |-> mode, given |-> [x \in DOMAIN macros |-> 0]]
       /\ mpHist = [wire |-> [p \in Ports |-> {}], left |-> [x \in DOMAIN macros |-> 0], first |-> mode]

\* History: the ports' buttons as the reports leave them, and the chords the player has left.
Chord(held) == {mpMap[k].dst : k \in {k \in DOMAIN mpMap : mpMap[k].src \in held /\ mpMap[k].dst \in combos}}
Wire(wire, made) ==
  [p \in Ports |-> IF p \in made.told THEN (wire[p] \ made.out[p].map) \cup made.out[p].on ELSE wire[p]]

\* adapter_bridge.
Bridge(s, kind) ==
  \E made \in {adapter_mapping(mpMap, ctrl_ports, Report(s, kind))} :
     /\ mpOut' = [out |-> made.out, told |-> made.told]
     /\ mpSource' = [s EXCEPT !.meta = made.in.meta]
     /\ mpMacro' = sys_macro_hdl(mpMacro, made.out[1].on \cap (96..127))
     /\ mpHist' = [mpHist EXCEPT
          !.wire = Wire(@, made),
          !.left = [x \in DOMAIN macros |->
            @[x] + (IF macros[x] = Chord(mpSource.held) /\ macros[x] # Chord(s.held) THEN 1 ELSE 0)]]
     /\ \A x \in DOMAIN macros : mpMacro'.given[x] <= MpCommands /\ mpHist'.left[x] <= MpCommands
     /\ UNCHANGED mpMap

Press(b) ==
  /\ b \in Used \ mpSource.held
  /\ Bridge([mpSource EXCEPT !.held = @ \cup {b}], IF InMain(mpSource, b) THEN "main" ELSE "second")
Release(b) ==
  /\ b \in mpSource.held
  /\ Bridge([mpSource EXCEPT !.held = @ \ {b}], IF InMain(mpSource, b) THEN "main" ELSE "second")
Move(i, v) ==
  /\ v # mpSource.ax[i]
  /\ Bridge([mpSource EXCEPT !.ax[i] = v], "main")

\* The controller reports though nothing has changed.
Again == Bridge(mpSource, "main")

Buttons == {16, 18, 20, 21, 22, 24, 29}
Next ==
  \/ \E b \in Buttons : Press(b) \/ Release(b)
  \/ \E i \in {stick, trigger} :
       /\ Used \cap axis_to_btn_mask(i) # {}
       /\ \E v \in Moves(i) : Move(i, v)
  \/ Again

Spec == Init /\ [][Next]_mpVars

----------------------------------------------------------------------------
TypeOK ==
  /\ mpMap \in Lists
  /\ mpSource.held \subseteq Buttons
  /\ \A i \in {stick, trigger} : mpSource.ax[i] \in Moves(i) /\ mpSource.meta[i].abs_max \in 0..120
  /\ \A p \in Ports : mpOut.out[p].on \subseteq ctrl_ports[p].mask /\ mpOut.out[p].on \subseteq mpOut.out[p].map
  /\ mpOut.told \subseteq Ports
  /\ mpMacro.mode \in 0..3 /\ mpMacro.flags \subseteq DOMAIN macros

\* What one mapping makes of the last report by itself.
Alone(e, kind) == adapter_mapping(<<e>>, ctrl_ports, Report(mpSource, kind)).out[e.id]
Kinds == IF mpSource.second THEN {"main", "second"} ELSE {"main"}
Listed == {mpMap[k] : k \in DOMAIN mpMap}

(* However the mappings that meet on an axis of a port are ordered, it     *)
(* takes the value of the strongest of them, and when several are as       *)
(* strong the turbo of the first; its other buttons are pressed when one   *)
(* of their sources asks for it (adapter_map_from_axis and                 *)
(* adapter_map_from_btn compare with the axis they share, and the range    *)
(* one of them learns is the range of the next).                           *)
StrongestWins ==
  \E kind \in Kinds : \A p \in Ports :
    \E alone \in {[k \in {k \in DOMAIN mpMap : mpMap[k].id = p} |-> Alone(mpMap[k], kind)]} :
    LET out == mpOut.out[p]
        pull == [k \in DOMAIN alone |-> alone[k].ax[stick]]
    IN /\ out.on = UNION {alone[k].on : k \in DOMAIN alone}
       /\ \A k \in DOMAIN pull : Size(pull[k].value) <= Size(out.ax[stick].value)
       /\ out.ax[stick] # Still =>
            \E k \in DOMAIN pull : /\ pull[k] = out.ax[stick]
                                   /\ \A j \in DOMAIN pull : j < k => Size(pull[j].value) < Size(pull[k].value)

(* A source pushed to the end of the range learned so far pushes the port's *)
(* axis to the percentage set up for it, and no value takes it further     *)
(* (adapter_map_from_axis, the scale of LINEAR; the range grows before it  *)
(* is used).                                                               *)
FullTravel ==
  \A e \in Listed :
    LET made == Alone(e, "main").ax[stick].value
        full == (Reach(ctrl_ports[e.id], e) * e.perc_max) \div 100
        i == btn_id_to_axis(e.src)
        side == btn_sign(0, e.src)
        range == IF side > 0 THEN mpSource.meta[i].abs_max ELSE mpSource.meta[i].abs_min
    IN e.algo = "LINEAR" /\ e.dst \in {0, 1} =>
         /\ Size(made) <= full
         /\ e.src \in {0, 1, 28} /\ side * mpSource.ax[i] = range => Size(made) = full
         /\ e.src \notin {0, 1, 28} /\ e.src \in mpSource.held /\ InMain(mpSource, e.src) => Size(made) = full

(* A button of a port is down as long as one of its sources is, whichever  *)
(* reports came in between: every report flags what it could have pressed, *)
(* so that what it does not press is released, and only that (map_mask in  *)
(* adapter_map_from_btn).  A button with sources in both reports of a      *)
(* controller is left to the last one.                                     *)
NothingSticks ==
  \A p \in Ports, b \in {9, 16} :
    LET mine == {e \in Listed : e.id = p /\ e.dst = b}
        split == \E e, f \in mine : InMain(mpSource, e.src) # InMain(mpSource, f.src)
    IN ~split => (b \in mpHist.wire[p] <=> \E e \in mine, kind \in Kinds : b \in Alone(e, kind).on)

(* Each time the player leaves a chord its command is given once, and only *)
(* then, and the mode of the port is one of the two pads as often as it    *)
(* was asked to change (check_macro compares the whole set of buttons, so  *)
(* that a chord of four does not stand for a chord of three).  A           *)
(* controller whose chord is spread over two reports gives the command at  *)
(* every second report that comes with the chord held.                     *)
OncePerChord ==
  ~mpSource.second =>
    /\ mpMacro.given = mpHist.left
    /\ mpMacro.flags = {x \in DOMAIN macros : macros[x] = Chord(mpSource.held)}
    /\ LET n == mpHist.left["WIRED_RST"]
       IN mpMacro.mode = IF n = 0 THEN mpHist.first ELSE (mpHist.first + n) % 2

=============================================================================
