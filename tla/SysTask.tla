------------------------------- MODULE SysTask -------------------------------
(***************************************************************************)
(* sys_mgr_task of main/system/manager.c: the boot button with its hold    *)
(* times and its quick double press, the commands other tasks queue, and   *)
(* the console's power, against the button, the console's own switch and   *)
(* the Bluetooth callback.  While the button is held the task does nothing *)
(* else.  (wired_port_hdl, the other part of a turn, is PortMap.)          *)
(*                                                                         *)
(* Times are turns of 10 ms loops; a turn that is not the 32nd goes around *)
(* power_on_hdl.  The console obeys the power pins.                        *)
(***************************************************************************)
EXTENDS Integers, Sequences, FiniteSets

CONSTANTS
  SyThres,     \* sw_io0_hold_thres_ms / 10, the three thresholds
  SyErase,     \* 3000: turns of the hold that ask for the other firmware
  SyInhibit,   \* INHIBIT_CNT
  SyQueue,     \* commands cmd_q_hdl holds
  SyChanges    \* bound: presses, switches, connections and commands

VARIABLES
  syExt,       \* hw_config.external_adapter
  syPower,     \* the console is on
  syBtn,       \* the boot button is down
  syPc,        \* where the task is: "btn", "hold", "cmd", "pass", "quiet", "sleep"
  syHold,      \* hold_cnt
  syState,     \* state of the hold: thresholds passed
  syQdp,       \* check_qdp
  syInh,       \* inhibit_cnt
  syFw,        \* factory_reset
  syCurr,      \* power_on_hdl's curr: the power it saw last
  syCmds,      \* cmd_q_hdl
  syDev,       \* the controller: "none", "found", "ready"
  syAsked,     \* its disconnection has been asked for
  syInq,       \* inquiry_state
  syOver,      \* inquiry_override
  syCall,      \* the callback is between the override's test and inquiry_state
  syNew,       \* history: the controller was found after power_on_hdl saw the console go off
  syWoke,      \* history: what switched the console on last
  sySince,     \* history: turns since the last short press, where it counts
  syLong,      \* history: the longest hold since power-up, and before this press
  syOdd,       \* history: "erased": the firmware was, "off": a press switched the
               \* console off, both unasked; "late": the callback started an inquiry
               \* after the override was set
  syCount      \* changes so far

syVars == <<syExt, syPower, syBtn, syPc, syHold, syState, syQdp, syInh, syFw, syCurr,
            syCmds, syDev, syAsked, syInq, syOver, syCall, syNew, syWoke, sySince,
            syLong, syOdd, syCount>>
btnVars == <<syHold, syState, syQdp, syInh, syFw, sySince, syLong>>
btVars == <<syDev, syAsked, syInq, syOver, syCall, syNew>>

Cmds == {"reset", "on", "off", "inquiry", "factory", "sleep", "restart"}
Long == [now |-> FALSE, before |-> FALSE]

Init ==
  /\ syExt \in BOOLEAN
  /\ syPower \in BOOLEAN
  /\ syExt => syPower
  /\ syBtn = FALSE
  /\ syPc = "btn"
  /\ syHold = 0 /\ syState = 0 /\ syQdp = FALSE /\ syInh = 0 /\ syFw = FALSE
  /\ syCurr = FALSE
  /\ syCmds = <<>>
  /\ syDev = "none" /\ syAsked = FALSE
  /\ syInq = FALSE /\ syOver = FALSE /\ syCall = FALSE
  /\ syNew = TRUE
  /\ syWoke = "none"
  /\ sySince = SyInhibit + 1
  /\ syLong = Long
  /\ syOdd = {}
  /\ syCount = 0

Change == syCount < SyChanges /\ syCount' = syCount + 1

(***************************************************************************)
(* Around the task.                                                        *)
(***************************************************************************)
Button ==
  /\ Change
  /\ syBtn' = ~syBtn
  /\ UNCHANGED <<syExt, syPower, syPc, btnVars, syCurr, syCmds, btVars, syWoke, syOdd>>

\* The console's own switch; an external adapter takes it to be on.
Switch ==
  /\ Change
  /\ ~syExt
  /\ syPower' = ~syPower
  /\ syWoke' = IF syPower THEN syWoke ELSE "switch"
  /\ UNCHANGED <<syExt, syBtn, syPc, btnVars, syCurr, syCmds, btVars, syOdd>>

\* sys_mgr_cmd waits while the queue is full.
Command(c) ==
  /\ Change
  /\ Len(syCmds) < SyQueue
  /\ syCmds' = Append(syCmds, c)
  /\ UNCHANGED <<syExt, syPower, syBtn, syPc, btnVars, syCurr, btVars, syWoke, syOdd>>

Found ==
  /\ Change
  /\ syDev = "none"
  /\ syDev' = "found"
  /\ syNew' = TRUE
  /\ UNCHANGED <<syExt, syPower, syBtn, syPc, btnVars, syCurr, syCmds, syAsked, syInq, syOver,
                 syCall, syWoke, syOdd>>

DevReady ==
  /\ syDev = "found"
  /\ syDev' = "ready"
  /\ UNCHANGED <<syExt, syPower, syBtn, syPc, btnVars, syCurr, syCmds, syAsked, syInq, syOver,
                 syCall, syNew, syWoke, syOdd, syCount>>

\* A disconnection, asked for or not.
Gone ==
  /\ syDev # "none"
  /\ IF syAsked THEN UNCHANGED syCount ELSE Change
  /\ syDev' = "none"
  /\ syAsked' = FALSE
  /\ UNCHANGED <<syExt, syPower, syBtn, syPc, btnVars, syCurr, syCmds, syInq, syOver, syCall,
                 syNew, syWoke, syOdd>>

\* bt_hci_start_inquiry in the callback, where the task may come in between ...
CallTests ==
  /\ Change
  /\ ~syOver /\ ~syCall
  /\ syCall' = TRUE
  /\ UNCHANGED <<syExt, syPower, syBtn, syPc, btnVars, syCurr, syCmds, syDev, syAsked, syInq,
                 syOver, syNew, syWoke, syOdd>>

\* ... and bt_hci_stop_inquiry.
CallEnds ==
  /\ IF syCall THEN UNCHANGED syCount ELSE Change
  /\ syInq' = syCall
  /\ syCall' = FALSE
  /\ syOdd' = IF syCall /\ syOver THEN syOdd \cup {"late"} ELSE syOdd
  /\ UNCHANGED <<syExt, syPower, syBtn, syPc, btnVars, syCurr, syCmds, syDev, syAsked, syOver,
                 syNew, syWoke>>

(***************************************************************************)
(* The functions of the task.                                              *)
(***************************************************************************)
\* bt_host_disconnect_all
DisconnectAll == syAsked' = (syAsked \/ syDev # "none")

PowerOn(by) ==
  /\ syPower' = TRUE
  /\ syWoke' = IF syPower THEN syWoke ELSE by

PowerOff == DisconnectAll /\ syPower' = syExt

StartInquiry == syInq' = (syInq \/ ~syOver)
ToggleInquiry == IF syInq THEN syInq' = FALSE ELSE StartInquiry

\* esp_restart: every variable of the firmware is as at power-up.  The controllers are gone.
Restart ==
  /\ syPc' = "btn"
  /\ syHold' = 0 /\ syState' = 0 /\ syQdp' = FALSE /\ syInh' = 0 /\ syFw' = FALSE
  /\ syCurr' = FALSE
  /\ syCmds' = <<>>
  /\ syDev' = "none" /\ syAsked' = FALSE
  /\ syInq' = FALSE /\ syOver' = FALSE /\ syCall' = FALSE
  /\ syNew' = TRUE
  /\ sySince' = SyInhibit + 1
  /\ syLong' = Long
  /\ UNCHANGED <<syPower, syWoke>>

\* sys_mgr_factory_reset: the configuration is erased and, if factory_reset is
\* set, the choice of the firmware too.
FactoryReset ==
  /\ syOdd' = IF syFw /\ ~syLong.now /\ ~syLong.before THEN syOdd \cup {"erased"} ELSE syOdd
  /\ Restart

(***************************************************************************)
(* boot_btn_hdl.                                                           *)
(***************************************************************************)
\* Mutant of Double: a second press switches off whatever the first one did.
DoubleAny == syPower /\ syBtn

Double == syQdp /\ syPower /\ syBtn

\* inhibit_cnt runs down; meanwhile only a quick double press counts.
Inhibited ==
  /\ syPc = "btn"
  /\ syInh > 0
  /\ syInh' = syInh - 1
  /\ syPc' = "cmd"
  /\ sySince' = IF sySince > SyInhibit THEN sySince ELSE sySince + 1
  /\ IF Double
     THEN /\ PowerOff
          /\ syQdp' = FALSE
          /\ syOdd' = IF sySince > SyInhibit THEN syOdd \cup {"off"} ELSE syOdd
     ELSE UNCHANGED <<syQdp, syAsked, syPower, syOdd>>
  /\ UNCHANGED <<syExt, syBtn, syHold, syState, syFw, syLong, syCurr, syCmds, syDev, syInq,
                 syOver, syCall, syNew, syWoke, syCount>>

ButtonTurn ==
  /\ syPc = "btn"
  /\ syInh = 0
  /\ syQdp' = FALSE
  /\ syHold' = 0 /\ syState' = 0
  /\ syPc' = IF syBtn THEN "hold" ELSE "cmd"
  /\ syLong' = [now |-> FALSE, before |-> syLong.before \/ syLong.now]
  /\ UNCHANGED <<syExt, syPower, syBtn, syInh, syFw, sySince, syCurr, syCmds, btVars, syWoke,
                 syOdd, syCount>>

AsksErase(hold) == hold = SyErase

HoldTurn ==
  LET hold == syHold + 1 IN
  /\ syPc = "hold"
  /\ syBtn
  /\ hold <= SyErase
  /\ syHold' = hold
  /\ syState' = Cardinality({thres \in SyThres : hold > thres})
  /\ syFw' = (syFw \/ AsksErase(hold))
  /\ syLong' = [syLong EXCEPT !.now = @ \/ hold = SyErase]
  /\ UNCHANGED <<syExt, syPower, syBtn, syPc, syQdp, syInh, sySince, syCurr, syCmds, btVars,
                 syWoke, syOdd, syCount>>

\* What a press does depends on its length and on the console's power.
Pressed(press) ==
  IF syPower /\ press >= 3 THEN FactoryReset
  ELSE /\ syPc' = "cmd"
       /\ syInh' = SyInhibit
       /\ syQdp' = (syPower /\ press = 0)
       /\ sySince' = IF syPower /\ press = 0 THEN 0 ELSE SyInhibit + 1
       /\ IF ~syPower
          THEN PowerOn("button") /\ UNCHANGED <<syInq, syAsked>>
          ELSE /\ UNCHANGED <<syPower, syWoke>>
               /\ CASE press = 0 -> UNCHANGED <<syInq, syAsked>>
                    [] press = 1 -> IF syInq THEN syInq' = FALSE /\ UNCHANGED syAsked
                                    ELSE DisconnectAll /\ UNCHANGED syInq
                    [] press = 2 -> StartInquiry /\ UNCHANGED syAsked
       /\ UNCHANGED <<syHold, syState, syFw, syLong, syCurr, syCmds, syDev, syOver, syCall, syNew,
                      syOdd>>

\* The button is let go; an external adapter has no short press.
LetGo ==
  /\ syPc = "hold"
  /\ ~syBtn
  /\ Pressed(IF syExt THEN syState + 1 ELSE syState)
  /\ UNCHANGED <<syExt, syBtn, syCount>>

(***************************************************************************)
(* The rest of a turn.                                                     *)
(***************************************************************************)
NoCommand ==
  /\ syPc = "cmd"
  /\ syCmds = <<>>
  /\ syPc' = "pass"
  /\ UNCHANGED <<syExt, syPower, syBtn, btnVars, syCurr, syCmds, btVars, syWoke, syOdd, syCount>>

\* One command of the queue.
Execute ==
  LET c == Head(syCmds) IN
  /\ syPc = "cmd"
  /\ syCmds # <<>>
  /\ IF c = "factory" THEN FactoryReset
     ELSE IF c = "restart" THEN Restart /\ UNCHANGED syOdd
     ELSE /\ syCmds' = Tail(syCmds)
          /\ syPc' = IF c = "sleep" THEN "sleep" ELSE "pass"
          /\ IF c = "off" THEN PowerOff ELSE IF c = "on" THEN syPower' = TRUE /\ UNCHANGED syAsked
             ELSE UNCHANGED <<syPower, syAsked>>
          /\ syWoke' = IF c = "on" /\ ~syPower THEN "command" ELSE syWoke
          /\ IF c = "inquiry" THEN ToggleInquiry ELSE UNCHANGED syInq
          /\ UNCHANGED <<btnVars, syCurr, syDev, syOver, syCall, syNew, syOdd>>
  /\ UNCHANGED <<syExt, syBtn, syCount>>

NoPass ==
  /\ syPc = "pass"
  /\ syPc' = "btn"
  /\ UNCHANGED <<syExt, syPower, syBtn, btnVars, syCurr, syCmds, btVars, syWoke, syOdd, syCount>>

\* power_on_hdl with the console on: inquiry is allowed again and, with no
\* controller (and no wired one: empty), running.
PassOn ==
  /\ syPc = "pass" /\ ~syExt /\ syPower
  /\ syPc' = "btn"
  /\ syCurr' = TRUE
  /\ syOver' = FALSE
  /\ \E empty \in BOOLEAN : syInq' = (syInq \/ (syDev = "none" /\ empty))
  /\ UNCHANGED <<syExt, syPower, syBtn, btnVars, syCmds, syDev, syAsked, syCall, syNew, syWoke,
                 syOdd, syCount>>

WentOff == syCurr

\* The console has gone off: its controllers are disconnected.
PassOff ==
  /\ syPc = "pass" /\ ~syExt /\ ~syPower
  /\ WentOff \/ syDev # "ready"
  /\ syPc' = "quiet"
  /\ syCurr' = FALSE
  /\ syOver' = TRUE
  /\ IF WentOff THEN DisconnectAll ELSE UNCHANGED syAsked
  /\ syNew' = IF syCurr THEN FALSE ELSE syNew
  /\ UNCHANGED <<syExt, syPower, syBtn, btnVars, syCmds, syDev, syInq, syCall, syWoke, syOdd,
                 syCount>>

\* The console was off already and a controller is ready: it is switched on.
PassWakes ==
  /\ syPc = "pass" /\ ~syExt /\ ~syPower
  /\ ~WentOff /\ syDev = "ready"
  /\ syPc' = "btn"
  /\ syCurr' = FALSE
  /\ syOver' = FALSE
  /\ PowerOn(IF syAsked THEN "leaving" ELSE IF syNew THEN "new" ELSE "old")
  /\ UNCHANGED <<syExt, syBtn, btnVars, syCmds, syDev, syAsked, syInq, syCall, syNew, syOdd,
                 syCount>>

\* "Make sure no inquiry while power off"
Quiet ==
  /\ syPc = "quiet"
  /\ syPc' = "btn"
  /\ syInq' = FALSE
  /\ syOdd' = syOdd \ {"late"}
  /\ UNCHANGED <<syExt, syPower, syBtn, btnVars, syCurr, syCmds, syDev, syAsked, syOver, syCall,
                 syNew, syWoke, syCount>>

Next ==
  \/ Button \/ Switch \/ Found \/ DevReady \/ Gone \/ CallTests \/ CallEnds
  \/ \E c \in Cmds : Command(c)
  \/ Inhibited \/ ButtonTurn \/ HoldTurn \/ LetGo
  \/ NoCommand \/ Execute \/ NoPass \/ PassOn \/ PassOff \/ PassWakes \/ Quiet

Spec == Init /\ [][Next]_syVars

(***************************************************************************)
(* Properties.                                                             *)
(***************************************************************************)
Flags ==
  /\ syExt \in BOOLEAN /\ syPower \in BOOLEAN /\ syBtn \in BOOLEAN /\ syQdp \in BOOLEAN
  /\ syFw \in BOOLEAN /\ syCurr \in BOOLEAN /\ syAsked \in BOOLEAN
  /\ syInq \in BOOLEAN /\ syOver \in BOOLEAN /\ syCall \in BOOLEAN
  /\ syPc \in {"btn", "hold", "cmd", "pass", "quiet", "sleep"}
  /\ syDev \in {"none", "found", "ready"}
  /\ syLong \in [now : BOOLEAN, before : BOOLEAN]

Numbers ==
  /\ syHold \in 0 .. SyErase /\ syState \in 0 .. 3 /\ syInh \in 0 .. SyInhibit
  /\ syCmds \in Seq(Cmds) /\ Len(syCmds) <= SyQueue
  /\ sySince \in Nat

\* Type invariant: the state of a hold keeps to the three thresholds.
TypeOK == Flags /\ Numbers

\* The other firmware is chosen only after a hold of 30 s since power-up: by
\* that press, or (factory_reset is never taken back) by any later factory
\* reset, be it the button's or a command, once such a hold found the console
\* off and switched it on.
ErasedOnHold == "erased" \notin syOdd

\* The button switches a running console off only as the second of two quick
\* presses, of which the first reset it, within the time the button is inhibited.
OffOnDouble == "off" \notin syOdd

\* "Make sure no inquiry while power off" (manager.c:260): from the pass that
\* saw the console off no inquiry runs, unless the callback had passed the
\* test of the override before it was set; the next pass ends that one.
QuietWhenOff == syOver /\ syPc # "quiet" /\ "late" \notin syOdd => ~syInq

\* A controller that was there when the console went off does not switch it on
\* again: only one found since then does, or one whose disconnection, asked for
\* by the pass that saw the console go off, is not over when the next one runs.
StaysOff == syWoke # "old"

(***************************************************************************)
(* The inductive invariant.                                                *)
(***************************************************************************)
\* The first of two presses, the time that has gone by since and inhibit_cnt add up.
Quick == syQdp => sySince + syInh = SyInhibit

\* factory_reset is set by such a hold only; who was there when the console went off is gone or on
\* the way out.
Causes ==
  /\ ErasedOnHold /\ OffOnDouble /\ QuietWhenOff /\ StaysOff
  /\ syFw => syLong.now \/ syLong.before
  /\ ~syNew => syDev = "none" \/ syAsked

Ind == TypeOK /\ Quick /\ Causes
=============================================================================
