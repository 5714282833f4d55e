------------------------------ MODULE NsiPorts ------------------------------
(***************************************************************************)
(* wired/nsi.c: the controller ports of the N64 and the GameCube, served   *)
(* by an interrupt handler of core 1 while core 0 changes the              *)
(* configuration (buttons of adapter/wired/n64.c, the configuration        *)
(* service) and writes the reports (gc_ctrl_from_generic).                 *)
(*                                                                         *)
(* The console has to be told when a pak is exchanged or another bank of   *)
(* the memory card put in: for a while it is told that the slot is empty,  *)
(* then that the pak has changed, once.                                    *)
(***************************************************************************)
EXTENDS Integers

CONSTANTS
  NsiUpdate,    \* the 0x20 frames a slot appears empty
  NsiChanges    \* bound: changes of the configuration

VARIABLES
  nsiSys,       \* system_id: "N64" or "GC"
  nsiCfg,       \* config: banksel, and acc_mode and dev_mode of each port
  nsiPak,       \* ctrl_init, ctrl_mem_banksel, ctrl_acc_mode, ctrl_acc_update
  nsiRum,       \* last_rumble, rumble_state
  nsiTrig,      \* gc_l_trig_prev_state of port 0; the right one is like it
  nsiCmd,       \* the frame the handler is at: port and command, or none
  nsiOut,       \* GameCube: output[0] of port 0, and the copies of it in core 1
                \* (the read half of &= ~0x20) and core 0 (map_tmp), if any
  nsiHist,      \* history: what the console knows and was promised
  nsiCount      \* counter of the bound

nsiVars == <<nsiSys, nsiCfg, nsiPak, nsiRum, nsiTrig, nsiCmd, nsiOut, nsiHist, nsiCount>>

Ports == 0 .. 1
None  == <<>>       \* the console believes in no pak
Idle  == "idle"
AccModes == {"NONE", "RUMBLE", "MEM"}

Init ==
  /\ nsiSys \in {"N64", "GC"}
  /\ nsiCfg = [bank |-> 0, acc |-> [p \in Ports |-> "MEM"], dev |-> [p \in Ports |-> "PAD"]]
  /\ nsiPak = [init |-> FALSE, bank |-> 0, acc |-> [p \in Ports |-> "NONE"], update |-> [p \in Ports |-> 0]]
  /\ nsiRum = [last |-> [p \in Ports |-> 0], state |-> [p \in Ports |-> 0]]
  /\ nsiTrig = 0
  /\ nsiCmd = [port |-> 0, cmd |-> Idle]
  /\ nsiOut = [byte |-> [origin |-> TRUE, btn |-> FALSE], core1 |-> {}, core0 |-> {}]
  /\ nsiHist = [seen |-> [p \in Ports |-> None], asked |-> [p \in Ports |-> 0], sent |-> [p \in Ports |-> 0],
                lost |-> {}, switched |-> {}, stray |-> FALSE, raced |-> FALSE, analog |-> 0, early |-> FALSE,
                btn |-> FALSE, torn |-> FALSE]
  /\ nsiCount = 0

(***************************************************************************)
(* Core 0: the buttons and the configuration service change config, which  *)
(* the handler reads more than once for a frame.                           *)
(***************************************************************************)
Pak(p) == <<nsiPak.bank, nsiPak.acc[p]>>

Configure ==
  /\ nsiCount < NsiChanges /\ nsiCount' = nsiCount + 1
  /\ \/ nsiSys = "N64" /\ nsiCfg' = [nsiCfg EXCEPT !.bank = 1 - @] /\ UNCHANGED nsiHist
     \/ \E p \in Ports, a \in AccModes :
          /\ a # nsiCfg.acc[p] /\ nsiCfg' = [nsiCfg EXCEPT !.acc[p] = a]
          /\ nsiHist' = [nsiHist EXCEPT !.raced = @ \/ nsiCmd = [port |-> p, cmd |-> "write"],
                                        !.switched = @ \cup {p}]
     \/ \E d \in {"PAD", "MOUSE"} :
          d # nsiCfg.dev[1] /\ nsiCfg' = [nsiCfg EXCEPT !.dev[1] = d] /\ UNCHANGED nsiHist
  /\ UNCHANGED <<nsiSys, nsiPak, nsiRum, nsiTrig, nsiCmd, nsiOut>>

(***************************************************************************)
(* n64_isr, RX end: first the check whether a pak change is to be flagged. *)
(***************************************************************************)
\* Mutant of Flagged: a change of the bank is flagged to the port that asks only.
FlaggedOne(p) ==
  IF nsiCfg.bank # nsiPak.bank THEN [nsiPak EXCEPT !.update[p] = NsiUpdate, !.bank = nsiCfg.bank]
  ELSE IF nsiCfg.acc[p] # nsiPak.acc[p]
  THEN [nsiPak EXCEPT !.update[p] = NsiUpdate, !.acc[p] = nsiCfg.acc[p]]
  ELSE nsiPak

Flagged(p) ==
  IF nsiCfg.bank # nsiPak.bank
  THEN [nsiPak EXCEPT !.update = [q \in Ports |-> NsiUpdate], !.bank = nsiCfg.bank]
  ELSE IF nsiCfg.acc[p] # nsiPak.acc[p]
  THEN [nsiPak EXCEPT !.update[p] = NsiUpdate, !.acc[p] = nsiCfg.acc[p]]
  ELSE nsiPak

N64Frame(p, cmd) ==
  /\ nsiSys = "N64" /\ nsiCmd.cmd = Idle
  /\ nsiCmd' = [port |-> p, cmd |-> cmd]
  /\ nsiPak' = IF nsiPak.init THEN Flagged(p)
               ELSE [nsiPak EXCEPT !.init = TRUE, !.bank = nsiCfg.bank, !.acc = nsiCfg.acc]
  /\ UNCHANGED <<nsiSys, nsiCfg, nsiRum, nsiTrig, nsiOut, nsiHist, nsiCount>>

Serves(cmd) == nsiCmd.cmd = cmd
Done == nsiCmd' = [port |-> 0, cmd |-> Idle]

\* n64_kb_cmd_hdlr, n64_mouse_cmd_hdlr: no slot, nothing kept; for any other
\* port the commands are n64_pad_cmd_hdlr's.
N64Other == 
  /\ nsiSys = "N64" /\ ~Serves(Idle) /\ nsiCfg.dev[nsiCmd.port] # "PAD"
  /\ Done /\ UNCHANGED <<nsiSys, nsiCfg, nsiPak, nsiRum, nsiTrig, nsiOut, nsiHist, nsiCount>>

Pad(cmd) == nsiSys = "N64" /\ Serves(cmd) /\ nsiCfg.dev[nsiCmd.port] = "PAD" /\ Done

\* 0x01
N64Poll ==
  /\ Pad("poll")
  /\ nsiPak' = [nsiPak EXCEPT !.update[nsiCmd.port] = IF @ > 1 THEN @ - 1 ELSE @]
  /\ UNCHANGED <<nsiSys, nsiCfg, nsiRum, nsiTrig, nsiOut, nsiHist, nsiCount>>

\* 0x00, 0xFF: the console takes note of what it is told about the slot.
N64Status ==
  /\ Pad("status")
  /\ LET p == nsiCmd.port  left == nsiPak.update[p] IN
     IF nsiCfg.acc[p] = "NONE"
     THEN UNCHANGED nsiPak /\ nsiHist' = [nsiHist EXCEPT !.seen[p] = None]
     ELSE /\ nsiPak' = [nsiPak EXCEPT !.update[p] = IF @ > 0 THEN @ - 1 ELSE @]
          /\ nsiHist' = [nsiHist EXCEPT !.seen[p] =
               IF left > 1 THEN None ELSE IF left = 1 \/ @ = None THEN Pak(p) ELSE @]
  /\ UNCHANGED <<nsiSys, nsiCfg, nsiRum, nsiTrig, nsiOut, nsiCount>>

Rumbles(p, v, accepted) ==
  IF nsiRum.last[p] = v
  THEN [last |-> nsiRum.last, sent |-> nsiHist.sent, lost |-> nsiHist.lost]
  ELSE [last |-> [nsiRum.last EXCEPT ![p] = v],
        sent |-> IF accepted THEN [nsiHist.sent EXCEPT ![p] = v] ELSE nsiHist.sent,
        lost |-> IF accepted THEN nsiHist.lost \ {p} ELSE nsiHist.lost \cup {p}]

\* h is the history but for the motor.
Motor(p, v, h) ==
  \/ /\ nsiCfg.acc[p] # "RUMBLE"
     /\ nsiHist' = [h EXCEPT !.asked[p] = v] /\ UNCHANGED nsiRum
  \/ \E accepted \in BOOLEAN :
       LET r == Rumbles(p, v, accepted) IN
       /\ nsiCfg.acc[p] = "RUMBLE"
       /\ nsiRum' = [nsiRum EXCEPT !.last = r.last]
       /\ nsiHist' = [h EXCEPT !.asked[p] = v, !.sent = r.sent, !.lost = r.lost, !.switched = @ \ {p}]

\* 0x03 to 0xC000 (the motor), 0x8001 (the pak's identity, which 0x02 reads
\* back) or the memory, which goes to the bank in ctrl_mem_banksel.
N64Write ==
  /\ Pad("write")
  /\ LET p == nsiCmd.port IN
     \/ \E v \in 0 .. 1 : Motor(p, v, nsiHist)
     \/ \E v \in 0 .. 1 : /\ p = 0 /\ nsiCfg.acc[p] = "RUMBLE"    \* port 0's stands for all
                          /\ nsiRum' = [nsiRum EXCEPT !.state[p] = v] /\ UNCHANGED nsiHist
     \/ /\ nsiCfg.acc[p] = "MEM"
        /\ nsiHist' = [nsiHist EXCEPT !.stray =
             @ \/ (nsiHist.seen[p] \notin {None, <<nsiPak.bank, "MEM">>} /\ nsiPak.update[p] = 0)]
        /\ UNCHANGED nsiRum
  /\ UNCHANGED <<nsiSys, nsiCfg, nsiPak, nsiTrig, nsiOut, nsiCount>>

(***************************************************************************)
(* gc_isr, gc_pad_cmd_hdlr, port 0: 0x40 and 0x43 with the motor bit v.    *)
(***************************************************************************)
Analog(far) == IF far THEN (IF nsiTrig < 2 THEN nsiTrig + 1 ELSE nsiTrig) ELSE 0

\* The digital state of the trigger is masked until nsiTrig says otherwise.
GcPoll(v, far) ==
  /\ nsiSys = "GC" /\ nsiOut.core1 = {}
  /\ nsiTrig' = Analog(far)
  /\ Motor(0, v, [nsiHist EXCEPT !.analog = IF far THEN (IF @ < 2 THEN @ + 1 ELSE @) ELSE 0,
                                  !.early = @ \/ (nsiTrig = 2 /\ nsiHist.analog < 2)])
  /\ UNCHANGED <<nsiSys, nsiCfg, nsiPak, nsiCmd, nsiOut, nsiCount>>

\* 0x41, 0x42: output[0] &= ~0x20, a load ...
GcOriginLoad ==
  /\ nsiSys = "GC" /\ nsiOut.core1 = {}
  /\ nsiOut' = [nsiOut EXCEPT !.core1 = {nsiOut.byte}]
  /\ nsiHist' = [nsiHist EXCEPT !.torn = @ \/ nsiOut.core0 # {}]
  /\ UNCHANGED <<nsiSys, nsiCfg, nsiPak, nsiRum, nsiTrig, nsiCmd, nsiCount>>

GcOriginStore ==
  /\ nsiSys = "GC" /\ nsiOut.core1 # {}
  /\ \E b \in nsiOut.core1 :
       nsiOut' = [nsiOut EXCEPT !.byte = [b EXCEPT !.origin = FALSE], !.core1 = {}]
  /\ UNCHANGED <<nsiSys, nsiCfg, nsiPak, nsiRum, nsiTrig, nsiCmd, nsiHist, nsiCount>>

\* gc_ctrl_from_generic on core 0 copies the report ...
GcReportCopy ==
  /\ nsiSys = "GC" /\ nsiOut.core0 = {}
  /\ nsiOut' = [nsiOut EXCEPT !.core0 = {nsiOut.byte}]
  /\ nsiHist' = [nsiHist EXCEPT !.torn = nsiOut.core1 # {}]
  /\ UNCHANGED <<nsiSys, nsiCfg, nsiPak, nsiRum, nsiTrig, nsiCmd, nsiCount>>

\* ... and writes it back with the buttons of the controller.
GcReportWrite ==
  /\ nsiSys = "GC" /\ nsiOut.core0 # {}
  /\ \E btn \in BOOLEAN, b \in nsiOut.core0 :
       /\ nsiOut' = [nsiOut EXCEPT !.byte = [b EXCEPT !.btn = btn], !.core0 = {}]
       /\ nsiHist' = [nsiHist EXCEPT !.btn = btn]
  /\ UNCHANGED <<nsiSys, nsiCfg, nsiPak, nsiRum, nsiTrig, nsiCmd, nsiCount>>

Next ==
  \/ Configure
  \/ \E p \in Ports, cmd \in {"poll", "status", "write"} : N64Frame(p, cmd)
  \/ N64Other \/ N64Poll \/ N64Status \/ N64Write
  \/ \E v \in 0 .. 1, far \in BOOLEAN : GcPoll(v, far)
  \/ GcOriginLoad \/ GcOriginStore \/ GcReportCopy \/ GcReportWrite

Spec == Init /\ [][Next]_nsiVars

(***************************************************************************)
(* Properties.                                                             *)
(***************************************************************************)
TypeOK ==
  /\ nsiPak.acc \in [Ports -> AccModes] /\ nsiPak.bank \in 0 .. 1
  /\ nsiPak.update \in [Ports -> 0 .. NsiUpdate]
  /\ nsiRum \in [last : [Ports -> 0 .. 1], state : [Ports -> 0 .. 1]]
  /\ nsiTrig \in 0 .. 2

\* Whatever bank and pak a console believes in its slot is what the port
\* serves, or the console is about to be told: no change is ever swallowed by
\* a later one, by another port's or by the frames that are not status requests.
PakChangeTold ==
  \A p \in Ports :
    nsiHist.seen[p] \in {None, Pak(p)} \/ nsiPak.update[p] > 0

\* The memory written is the one the console believes in or is about to be told
\* of, unless core 0 put the pak in between the check and the write of a frame.
WritesWhereSeen == nsiHist.stray => nsiHist.raced

\* The controller does what the console last asked of its motor, unless a
\* message was refused or the rumble pak taken out since.
RumbleFollows ==
  \A p \in Ports : nsiCfg.acc[p] = "RUMBLE" /\ p \notin nsiHist.lost \cup nsiHist.switched => nsiHist.sent[p] = nsiHist.asked[p]

\* The game never sees a trigger's digital bit before two frames have had its analog
\* part: "Delay Digital trigger state until analog part is set at least 2 frames".
TriggerDelayed == ~nsiHist.early

\* The buttons the GameCube reads are those of the last report, unless that was
\* written while the other core had the byte in hand.
LastReportStands == ~nsiHist.torn /\ nsiOut.core0 = {} => nsiOut.byte.btn = nsiHist.btn
=============================================================================
