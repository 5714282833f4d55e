------------------------------ MODULE RowPorts ------------------------------
(***************************************************************************)
(* wired/jag_io.c and wired/pce_io.c: loops of core 1 that answer a change *)
(* of the console's select lines with a row of a pad's report.  The        *)
(* Jaguar's lines name the row; the PC Engine has one select line and an   *)
(* output enable whose interrupt starts the pads over.                     *)
(*                                                                         *)
(* The interrupt may fall between any two steps of the loop.  Core 0 is    *)
(* held from the first change until the lines rest for POLL_TIMEOUT, but a *)
(* report it was converting goes to the Jaguar's pins directly.            *)
(***************************************************************************)
EXTENDS Integers, Sequences

VARIABLES
  rpSys,      \* the loop and the maps installed
  rpLine,     \* the Jaguar's row lines, or the select line as 0 or 1
  rpSeen,     \* cur_in1
  rpPc,       \* "watch", "count" (before ++cycle is stored) or "show" (before GPIO.out)
  rpTmp,      \* what the loop holds between two steps
  rpOut,      \* the row on the pins
  rpStall,    \* lock: core 0 is asked to stop, and whether it has
  rpBank,     \* bank of each socket
  rpCount,    \* cycle, frame_cnt and mouse_cnt
  rpForce,    \* the row jag_io_force_update has read and not written yet
  rpHist      \* history: the bank or pad the console's steps lead to, whether it was too
              \* quick for the loop or overwritten, the bank each socket's scan began with

rpVars == <<rpSys, rpLine, rpSeen, rpPc, rpTmp, rpOut, rpStall, rpBank, rpCount, rpForce, rpHist>>

None == <<>>
Jag == rpSys \in {"jag", "jag_6d", "jag_6d_tt"}
Least(a, b) == IF a < b THEN a ELSE b

(***************************************************************************)
(* The Jaguar's tables.                                                    *)
(***************************************************************************)
socket_idx == <<1, 1, 1, 1, 2, 2, 2, 0, 2, 3, 3, 0, 3, 0, 0, 3>>
row_idx    == <<0, 1, 2, 3, 0, 1, 2, 3, 3, 0, 1, 2, 2, 1, 0, 3>>
Socket(i) == socket_idx[i + 1]
Row(i) == row_idx[i + 1]
Lines == {14, 13, 11, 7, 0}                \* the rows of one socket, one of another

AllSet == <<9, 9>>
map_std_tt(bank, i) == <<Socket(i), Row(i)>>
map_6d(bank, i) ==
  CASE Socket(i) = 0 -> <<0, Row(i)>>
    [] Socket(i) = 1 -> <<0, 4 * (bank + 1) + Row(i)>>
    [] OTHER -> AllSet
map_6d_tt(bank, i) == <<Socket(i), 4 * (bank + 1) + Row(i)>>

Cell(bank, i) ==
  CASE rpSys = "jag" -> map_std_tt(bank, i)
    [] rpSys = "jag_6d" -> map_6d(bank, i)
    [] rpSys = "jag_6d_tt" -> map_6d_tt(bank, i)

NextBank(i) == IF Row(i) = 3 THEN [rpBank EXCEPT ![Socket(i)] = (@ + 1) % 3] ELSE rpBank

(***************************************************************************)
(* The PC Engine's rows: <<pad, row>>, axes or scan codes.                 *)
(***************************************************************************)
Pads == CASE rpSys = "pce_tap" -> 4 [] rpSys = "pce_tap6" -> 4 [] OTHER -> 0
Cycles == IF rpSys = "pce_kb" THEN 17 ELSE 4
Clear == <<8, 8>>
Axis(n) == <<7, n>>

Word(count, level) ==
  LET pad == Least(count.cycle, Pads)
      odd == rpSys = "pce_tap6" /\ count.frame = 1 IN
  CASE rpSys = "pce" -> <<0, 1 - level>>
    [] rpSys \in {"pce_tap", "pce_tap6"} ->
         IF level = 1 THEN IF odd THEN Clear ELSE <<pad, 0>>
         ELSE <<pad, IF odd THEN 2 ELSE 1>>
    [] rpSys = "pce_mouse" -> IF level = 0 THEN <<0, 2>> ELSE IF count.mouse > 0 THEN Axis(count.mouse - 1) ELSE rpOut
    [] rpSys = "pce_kb" -> <<count.cycle, level>>

Init ==
  /\ rpSys \in {"jag", "jag_6d", "jag_6d_tt", "pce", "pce_tap", "pce_tap6", "pce_mouse", "pce_kb"}
  /\ rpLine = 1 /\ rpSeen = 1 /\ rpPc = "watch" /\ rpTmp = None /\ rpOut = Clear
  /\ rpStall = [lock |-> FALSE, held |-> FALSE]
  /\ rpBank = [s \in 0 .. 3 |-> 0]
  /\ rpCount = [cycle |-> 0, frame |-> 0, mouse |-> 0]
  /\ rpForce = None
  /\ rpHist = [want |-> [cycle |-> 0, frame |-> 0, mouse |-> 0], off |-> TRUE,
               scan |-> [s \in 0 .. 3 |-> None]]

Quiet == rpPc = "watch" /\ rpLine = rpSeen

(***************************************************************************)
(* The console.                                                            *)
(***************************************************************************)
Move(l) ==
  /\ Jag /\ l # rpLine /\ rpLine' = l
  /\ rpHist' = IF Quiet THEN [rpHist EXCEPT !.off = FALSE]
               ELSE [rpHist EXCEPT !.off = TRUE, !.scan = [s \in 0 .. 3 |-> None]]
  /\ UNCHANGED <<rpSys, rpSeen, rpPc, rpTmp, rpOut, rpStall, rpBank, rpCount, rpForce>>

Select ==
  /\ ~Jag /\ rpLine' = 1 - rpLine
  /\ rpHist' = [rpHist EXCEPT !.off = @ \/ ~Quiet,
       !.want.cycle = IF rpLine = 0 /\ rpSys \notin {"pce"} THEN Least(@ + 1, Cycles) ELSE @]
  /\ UNCHANGED <<rpSys, rpSeen, rpPc, rpTmp, rpOut, rpStall, rpBank, rpCount, rpForce>>

Started(count) ==
  [cycle |-> 0, frame |-> IF rpSys \in {"pce_tap6", "pce_mouse"} THEN 1 - count.frame ELSE count.frame,
   mouse |-> IF rpSys = "pce_mouse" THEN count.mouse + 1 ELSE 0]

\* pce_mt_oe_isr, pce_6btns_oe_isr, pce_mouse_oe_isr, pce_kb_oe_isr, between two
\* steps of the loop. A fifth pulse of a mouse reads beyond axes and is left out.
OutputEnable ==
  /\ rpSys \in {"pce_tap", "pce_tap6", "pce_mouse", "pce_kb"} /\ rpCount.mouse < 4
  /\ rpCount' = Started(rpCount)
  /\ rpOut' = Word(rpCount', rpLine)
  /\ rpHist' = [rpHist EXCEPT !.off = ~Quiet,
       !.want = [cycle |-> 0, frame |-> IF rpSys \in {"pce_tap6", "pce_mouse"} THEN 1 - @.frame ELSE @.frame,
                 mouse |-> IF rpSys = "pce_mouse" THEN @.mouse + 1 ELSE 0]]
  /\ UNCHANGED <<rpSys, rpLine, rpSeen, rpPc, rpTmp, rpStall, rpBank, rpForce>>

(***************************************************************************)
(* The loops: jag_ctrl_task, pce_ctrl_task, pce_mt_task, pce_mouse_task,   *)
(* pce_kb_task.                                                            *)
(***************************************************************************)
\* What the last row of a scan in order began with.
Scanned(i, bank) ==
  [rpHist.scan EXCEPT ![Socket(i)] = IF Row(i) = 0 THEN <<0, bank>> ELSE IF @ = None THEN @ ELSE
                       IF @[1] = Row(i) - 1 THEN <<Row(i), @[2]>> ELSE None]

Change ==
  /\ rpPc = "watch" /\ rpLine # rpSeen
  /\ rpSeen' = rpLine
  /\ rpStall' = [rpStall EXCEPT !.lock = TRUE]
  /\ IF ~Jag /\ rpLine = 1 /\ rpSys # "pce" THEN rpPc' = "count" /\ rpTmp' = <<rpCount.cycle>>
     ELSE rpPc' = "show" /\ rpTmp' = IF Jag THEN <<rpLine>> ELSE Word(rpCount, rpLine)
  /\ UNCHANGED <<rpSys, rpLine, rpOut, rpBank, rpCount, rpForce, rpHist>>

Count ==
  /\ rpPc = "count" /\ rpPc' = "show"
  /\ rpCount' = [rpCount EXCEPT !.cycle = Least(rpTmp[1] + 1, Cycles)]
  /\ rpTmp' = Word(rpCount', rpSeen)
  /\ UNCHANGED <<rpSys, rpLine, rpSeen, rpOut, rpStall, rpBank, rpForce, rpHist>>

Show ==
  /\ rpPc = "show" /\ rpPc' = "watch" /\ rpTmp' = None
  /\ LET i == rpTmp[1] IN
     IF Jag
     THEN /\ rpOut' = Cell(rpBank[Socket(i)], i)
          /\ rpBank' = NextBank(i)
          /\ rpHist' = [rpHist EXCEPT !.scan = Scanned(i, rpBank[Socket(i)])]
     ELSE rpOut' = rpTmp /\ UNCHANGED <<rpBank, rpHist>>
  /\ UNCHANGED <<rpSys, rpLine, rpSeen, rpStall, rpCount, rpForce>>

\* POLL_TIMEOUT samples without a change: the mouse's axes start over.
Rest ==
  /\ Quiet /\ rpStall.lock
  /\ rpStall' = [lock |-> FALSE, held |-> FALSE]
  /\ rpCount' = [rpCount EXCEPT !.mouse = 0]
  /\ rpHist' = [rpHist EXCEPT !.want.mouse = 0]
  /\ UNCHANGED <<rpSys, rpLine, rpSeen, rpPc, rpTmp, rpOut, rpBank, rpForce>>

\* Core 0 takes the interrupt of core0_stall_start.
Hold ==
  /\ rpStall.lock /\ ~rpStall.held
  /\ rpStall' = [rpStall EXCEPT !.held = TRUE]
  /\ UNCHANGED <<rpSys, rpLine, rpSeen, rpPc, rpTmp, rpOut, rpBank, rpCount, rpForce, rpHist>>

\* jag_io_force_update: the row is chosen in one step and put out in another.
ForceRead ==
  /\ Jag /\ ~rpStall.held /\ rpForce = None
  /\ rpForce' = Cell(rpBank[Socket(rpLine)], rpLine)
  /\ UNCHANGED <<rpSys, rpLine, rpSeen, rpPc, rpTmp, rpOut, rpStall, rpBank, rpCount, rpHist>>

ForceWrite ==
  /\ ~rpStall.held /\ rpForce # None
  /\ rpOut' = rpForce /\ rpForce' = None
  /\ rpHist' = [rpHist EXCEPT !.off = @ \/ (rpPc = "watch" /\ rpForce # rpOut)]
  /\ UNCHANGED <<rpSys, rpLine, rpSeen, rpPc, rpTmp, rpStall, rpBank, rpCount>>

Next ==
  \/ \E l \in Lines : Move(l)
  \/ Select \/ OutputEnable \/ Change \/ Count \/ Show \/ Rest \/ Hold \/ ForceRead \/ ForceWrite

Spec == Init /\ [][Next]_rpVars

(***************************************************************************)
(* Properties.                                                             *)
(***************************************************************************)
TypeOK ==
  /\ rpPc \in {"watch", "count", "show"}
  /\ rpBank \in [0 .. 3 -> 0 .. 2] /\ rpCount \in [cycle : 0 .. 17, frame : 0 .. 1, mouse : 0 .. 4]
  /\ rpStall.held => rpStall.lock

\* The four rows a console scans in order are of one bank: a six-button report is
\* never put together from two banks, whatever the other socket's rows do between.
Scan ==
  rpPc = "show" /\ rpPc' = "watch" /\ Jag =>
    LET i == rpTmp[1]
        now == rpHist'.scan[Socket(i)] IN
    now # None /\ now[1] > 0 => rpOut' = Cell(now[2], i)

\* The PC Engine's multitap shows the pad the console's edges lead to, counted from
\* the last output enable: except when the console was too quick for the loop, or
\* the enable fell between two of its steps, which leaves the pads out of step
\* until the next one.
PadAsked ==
  Quiet /\ ~rpHist.off /\ ~Jag /\ rpSys # "pce_mouse" => rpOut = Word(rpHist.want, rpLine)
=============================================================================
