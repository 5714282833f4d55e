------------------------------- MODULE PsPort -------------------------------
(***************************************************************************)
(* wired/ps_spi.c: one PlayStation port, a pad, a special device or a      *)
(* multitap.  The console clocks a frame byte by byte (spi_isr) and ends   *)
(* it by releasing the select line (packet_end).                           *)
(*                                                                         *)
(* Of a frame the model keeps the bytes the port decides on: 0 the address,*)
(* 1 the command, 2 the multitap flag, 3 the first byte of the argument.   *)
(* A multitap's frame has the command of slot 0 in 3 and its argument in 5,*)
(* those of slot 1 in 11 and 13.  A single pad's frame is over after nine  *)
(* bytes at most, so it does not reach slot 1: the two buffers keep what   *)
(* earlier, longer frames left in them.                                    *)
(***************************************************************************)
EXTENDS Integers

CONSTANT PsFrames   \* bound: frames the console sends, at most one of them cut short

VARIABLES
  psRoot,                  \* root_dev_type: "pad", "special", "tap"
  psTap,                   \* mt_state
  psIdx,                   \* idx: the next byte of the frame
  psValid,                 \* valid
  psOn,                    \* trans_inten: bytes of this frame are still looked at
  psAct,                   \* active_rx_buf
  psRx,                    \* rx_buf
  psId, psPend,            \* dev_id, pend_dev_id per slot: 0x41, 0x73, 0x79, 0xF3 (config), 0x53
  psLed,                   \* the LED per slot
  psMot,                   \* rumble_r_state, rumble_l_state: the mode a motor was mapped in, "none"
  psBtn,                   \* analog_btn per slot
  psFresh,                 \* history: buffers with a whole frame that was not carried out yet
  psShort,                 \* history: buffers whose last frame was a single pad's
  psHist,                  \* history: what happened so far, see below
  psFrames                 \* counter of the bound

psPort == <<psRoot, psTap, psIdx, psValid, psOn, psAct, psRx>>
psDev  == <<psId, psPend, psLed, psMot, psBtn>>
psVars == <<psPort, psDev, psFresh, psShort, psHist, psFrames>>

Slots == 0 .. 1
End   == 14

Tapped == psRoot = "tap" /\ psTap

\* The next of these bytes in this frame, End when it has come whole.  (In a single
\* pad's frame nothing is decided on bytes 4 to 8.)
After(i) ==
  CASE i < 3            -> i + 1
    [] i = 3 /\ Tapped  -> 5
    [] i = 5            -> 11
    [] i = 11           -> 13
    [] OTHER            -> End

Init ==
  /\ psRoot \in {"pad", "special", "tap"}
  /\ psTap = (psRoot = "tap")
  /\ psIdx = 0 /\ psValid = FALSE /\ psOn = TRUE /\ psAct = 0
  /\ psRx = [b \in 0 .. 1 |-> [i \in {1, 2, 3, 5, 11, 13} |->
              IF i \in {1, 3, 11} THEN "42" ELSE IF i = 2 THEN "01" ELSE "00"]]
  /\ psId = [s \in Slots |-> IF psRoot = "special" THEN "53" ELSE "41"]
  /\ psPend = [s \in Slots |-> "41"]
  /\ psLed = [s \in Slots |-> FALSE] /\ psBtn = [s \in Slots |-> FALSE]
  /\ psMot = [s \in Slots |-> "none"]
  /\ psFresh = {} /\ psShort = {} /\ psHist = {} /\ psFrames = 0

(***************************************************************************)
(* spi_isr: byte b of the frame has been clocked in.                       *)
(***************************************************************************)
Bytes(i) ==
  CASE i = 0  -> {"01", "other"}
    [] i = 1  -> IF Tapped THEN {"42"}
                 ELSE IF psRoot = "pad" THEN {"42", "43", "44", "4D", "4F"} ELSE {"42", "43"}
    [] i = 2  -> IF psRoot = "tap" THEN {"00", "01"} ELSE {"00"}
    [] i = 3  -> IF Tapped THEN {"42"}
                 ELSE IF psRx[psAct][1] \in {"4D", "4F"} THEN {"00", "FF"} ELSE {"00", "01"}
    [] i = 11 -> {"42", "43"}
    [] i = 13 -> {"00", "01"}
    [] OTHER  -> {"00"}

Stored(b) == IF psIdx = 0 THEN psRx ELSE [psRx EXCEPT ![psAct][psIdx] = b]

\* A special device answers a poll only.
Refused(b) == psIdx = 1 /\ psRoot = "special" /\ b # "42"
\* The multitap is spoken to as a single pad: switched off, the frame dropped.
TapOff == psIdx = 3 /\ Tapped /\ psRx[psAct][2] = "00"

Byte(b) ==
  /\ psOn /\ psIdx < End /\ psFrames < PsFrames
  /\ psRx' = Stored(b)
  /\ LET on == ~(psIdx = 0 /\ b # "01") /\ ~Refused(b) /\ ~TapOff IN
     /\ psOn' = on
     /\ psValid' = (on /\ (psValid \/ psIdx = 0))
     /\ psIdx' = IF on THEN After(psIdx) ELSE psIdx
     /\ psTap' = (psTap /\ ~TapOff)
     /\ psFresh' = IF on /\ After(psIdx) = End THEN psFresh \cup {psAct} ELSE psFresh
  /\ UNCHANGED <<psRoot, psAct, psDev, psShort, psHist, psFrames>>

ByteIn == \E b \in Bytes(psIdx) : Byte(b)

(***************************************************************************)
(* packet_end for a slot: ps_analog_btn_hdlr, then ps_cmd_req_hdlr, on the *)
(* slot's state d = [id, pend, led, mot, btn].                             *)
(***************************************************************************)
analog_btn_hdlr(d, down) ==
  IF d.id \notin {"41", "73"} THEN d
  ELSE IF down THEN [d EXCEPT !.btn = TRUE]
  ELSE IF ~d.btn THEN d
  ELSE [d EXCEPT !.btn = FALSE, !.mot = "none", !.led = (d.id = "41"),
                  !.id = IF d.id = "41" THEN "73" ELSE "41"]

\* 0x43 outside and inside the configuration mode.
Enter(d)    == [d EXCEPT !.pend = d.id, !.id = "F3"]
Leave(d)    == [d EXCEPT !.id = d.pend]
Config43(d, arg) == IF arg # "01" THEN Leave(d) ELSE IF d.id # "F3" THEN Enter(d) ELSE d

\* 0x44 switches the mode, 0x4D maps the motors (a byte 00 or 01 of the argument, here its
\* first), 0x4F describes what is reported, with the pressures (bits of FF) or without.
Configured(d, cmd, arg) ==
  CASE cmd = "44" -> [d EXCEPT !.pend = IF arg = "01" THEN "73" ELSE "41", !.led = (arg = "01"),
                               !.mot = "none"]
    [] cmd = "4D" -> [d EXCEPT !.mot = IF arg \in {"00", "01"} THEN d.pend ELSE "none"]
    [] cmd = "4F" -> [d EXCEPT !.pend = IF arg = "FF" THEN "79" ELSE "73"]
    [] OTHER -> d

\* Mutant of cmd_req_hdlr: entering the configuration mode twice is not caught.
cmd_req_hdlrTwice(d, cmd, arg) ==
  IF cmd = "43" THEN IF arg # "01" THEN Leave(d) ELSE Enter(d)
  ELSE IF d.id = "F3" THEN Configured(d, cmd, arg) ELSE d

\* Mutant of cmd_req_hdlr: the mode is switched outside the configuration mode too.
cmd_req_hdlrAnyMode(d, cmd, arg) ==
  IF cmd = "43" THEN Config43(d, arg) ELSE Configured(d, cmd, arg)

\* (0x42 hands the motors' strengths on and changes nothing here.)
cmd_req_hdlr(d, cmd, arg) ==
  IF cmd = "43" THEN Config43(d, arg)
  ELSE IF d.id = "F3" THEN Configured(d, cmd, arg) ELSE d

\* The buffer whose requests are carried out: a multitap's are one frame old,
\* the answers to them went out in the frame that ends now.
ReqBuf == IF Tapped THEN 1 - psAct ELSE psAct

ReqCmd(s) == IF Tapped THEN psRx[ReqBuf][3 + 8 * s] ELSE psRx[ReqBuf][1]
ReqArg(s) == IF Tapped THEN psRx[ReqBuf][5 + 8 * s] ELSE psRx[ReqBuf][3]
Served    == IF Tapped THEN Slots ELSE {0}
Acts(s)   == ReqCmd(s) \in {"43", "44", "4D", "4F"}
Slot(s)   ==
  [id |-> psId[s], pend |-> psPend[s], led |-> psLed[s], mot |-> psMot[s], btn |-> psBtn[s]]

\* The request of a slot behind the multitap, in a buffer whose last frame was too short for it.
LeftOver(s) == Tapped /\ s # 0 /\ ReqBuf \in psShort

\* The analog button held at the end of a frame, on a port without multitap.
Presses == {[s \in Served |-> held] : held \in IF Tapped THEN {FALSE} ELSE BOOLEAN}

\* The console lets go of a frame before the last byte the port decides on.
Cut == psValid /\ psIdx < End

\* The frame was for this port (port->valid).
Ours == psValid

\* The buffers change places after a frame for the port.
NextAct == IF Ours THEN 1 - psAct ELSE psAct

PacketEnd ==
  /\ psIdx > 0 \/ ~psOn
  /\ psFrames < PsFrames /\ psFrames' = psFrames + 1
  /\ Cut => "aborted" \notin psHist
  /\ psIdx' = 0 /\ psOn' = TRUE /\ psValid' = FALSE /\ psAct' = NextAct
  /\ \/ ~Ours /\ UNCHANGED <<psTap, psDev, psFresh, psShort, psHist>>
     \/ /\ Ours
        /\ \E down \in Presses :
             LET b == [s \in Slots |->
                        IF s \in Served THEN analog_btn_hdlr(Slot(s), down[s]) ELSE Slot(s)]
                 d == [s \in Slots |->
                        IF s \in Served THEN cmd_req_hdlr(b[s], ReqCmd(s), ReqArg(s)) ELSE b[s]]
                 Asks(c, s) == s \in Served /\ ReqCmd(s) = c
                 Old == {s \in Served : Acts(s) /\ ReqBuf \notin psFresh}
             IN /\ psId' = [s \in Slots |-> d[s].id]
                /\ psPend' = [s \in Slots |-> d[s].pend]
                /\ psLed' = [s \in Slots |-> d[s].led]
                /\ psMot' = [s \in Slots |-> d[s].mot]
                /\ psBtn' = [s \in Slots |-> d[s].btn]
                /\ psHist' = psHist
                     \cup (IF Cut THEN {"aborted"} ELSE {})
                     \cup (IF \E s \in Old : ~LeftOver(s) THEN {"stale"} ELSE {})
                     \cup (IF \E s \in Old : LeftOver(s) THEN {"left over"} ELSE {})
                     \cup (IF \E s \in Slots : Asks("43", s) /\ ReqArg(s) # "01" /\ b[s].id # "F3"
                           THEN {"stray exit"} ELSE {})
                     \cup (IF \E s \in Slots : Asks("4F", s) /\ b[s].id = "F3" /\ b[s].pend = "41"
                           THEN {"described"} ELSE {})
        /\ psTap' = IF psRoot = "tap" THEN psRx[psAct][2] # "00" ELSE psTap
        /\ psFresh' = psFresh \ {ReqBuf}
        /\ psShort' = IF Tapped THEN psShort \ {psAct} ELSE psShort \cup {psAct}
  /\ UNCHANGED <<psRoot, psRx>>

Next == ByteIn \/ PacketEnd

Spec == Init /\ [][Next]_psVars

(***************************************************************************)
(* Properties.                                                             *)
(***************************************************************************)
Ids == {"41", "73", "79", "53"}

TypeOK ==
  /\ psTap \in BOOLEAN /\ psIdx \in {0, 1, 2, 3, 5, 11, 13, End}
  /\ psValid \in BOOLEAN /\ psOn \in BOOLEAN /\ psAct \in 0 .. 1
  /\ psId \in [Slots -> Ids \cup {"F3"}] /\ psPend \in [Slots -> Ids]
  /\ psLed \in [Slots -> BOOLEAN] /\ psBtn \in [Slots -> BOOLEAN]
  /\ psMot \in [Slots -> Ids \cup {"none"}]
  /\ psFresh \subseteq 0 .. 1 /\ psShort \subseteq 0 .. 1 /\ psFrames \in 0 .. PsFrames

\* A request with an effect is carried out once, from a frame received whole (for a multitap: the
\* frame before), whatever the mode is switched between.  Old bytes act again in two cases only:
\* after a frame the console cut short, and ("left over") for a slot behind the multitap, in the
\* first frames after single-pad ones, which do not reach that slot's bytes.
OnceFromWholeFrame == "stale" \in psHist => "aborted" \in psHist

\* The LED follows the mode a pad reports or returns to after its configuration, unless the
\* console left a configuration mode it was not in, or described a digital pad with 0x4F, which
\* makes it an analog one and leaves the LED off.  The motors are only driven by a mapping made
\* in the mode in force, digital or analog, but for that same 0x4F.
PadMode(s) == IF psId[s] = "F3" THEN psPend[s] ELSE psId[s]
FollowsMode ==
  psRoot # "special" => \A s \in Slots :
    /\ psHist \cap {"stray exit", "described"} = {} => (psLed[s] <=> PadMode(s) \in {"73", "79"})
    /\ "described" \notin psHist /\ psMot[s] # "none" => ((psMot[s] = "41") <=> (PadMode(s) = "41"))
=============================================================================
