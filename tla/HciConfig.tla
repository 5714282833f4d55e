------------------------------ MODULE HciConfig ------------------------------
(***************************************************************************)
(* bluetooth/hci.c: the commands of the table bt_hci_config, which set the *)
(* Bluetooth controller up one after the other, each sent when the one     *)
(* before is answered.                                                     *)
(*                                                                         *)
(* The answer is recognised by its opcode only, so that a command that is  *)
(* sent for another reason (advertising switched off when a controller     *)
(* connects, the scan switched when the inquiry starts) drives the table   *)
(* as well.  A command that fails is sent again, and after MaxRetry        *)
(* failures in a row everything starts over with a reset of the            *)
(* controller, which drops the links without a word.  A command the        *)
(* controller does not know counts as done: the table goes on without it.  *)
(***************************************************************************)
EXTENDS Integers, Sequences, FiniteSets

CONSTANTS
  NumSteps,    \* entries of bt_hci_config; the first resets, the last starts the inquiry
  ClearStep,   \* the entries with an effect the properties are about: LE_CLEAR_WL,
  ListStep,    \* bt_hci_load_le_accept_list,
  ScanStep,    \* write_scan_enable: peers may page us from here on,
  AdvStep,     \* le_set_adv_enable
  Optional,    \* the entries whose commands a controller may not know
  NumKeys,     \* LE peers whose keys are stored
  MaxRetry,    \* BT_MAX_RETRY
  MaxLinks,    \* slots of the device table
  MaxFail,     \* bound: commands answered with an error
  MaxPeer      \* bound: links that come up or are lost

Last  == NumSteps - 1
Steps == 0 .. Last
Keys  == 0 .. NumKeys - 1

ASSUME StepsAssumption ==
  /\ NumSteps \in Nat
  /\ {ClearStep, ListStep, ScanStep, AdvStep} \subseteq 1 .. NumSteps - 2
  /\ ClearStep < ListStep /\ ListStep < ScanStep /\ ScanStep < AdvStep
  /\ Optional \subseteq 1 .. NumSteps - 2
ASSUME CountsAssumption ==
  /\ NumKeys \in Nat /\ MaxRetry \in Nat \ {0} /\ MaxLinks \in Nat
  /\ MaxFail \in Nat /\ MaxPeer \in Nat

VARIABLES
  conf,        \* bt_config_state, counted up to NumSteps
  retry,       \* bt_hci_pkt_retry
  nextKey,     \* static index of bt_host_get_next_accept_le_bdaddr, holes skipped
  active,      \* slots of bt_dev in use
  cmds, evts,  \* commands to, and events from the controller, in order
  applied,     \* the controller: entries of the table in force,
  list,        \*   its accept list,
  adv,         \*   whether it advertises,
  links,       \*   the links that are up,
  unknown,     \*   the entries whose commands it does not know
  fail, peer,  \* counters of the bounds
  doubled,     \* history: an answer that is not the table's drove the table
  resets,      \* history: the table was started over
  listFail,    \* history: a peer was refused by the accept list
  lateFail     \* history: a command failed that nobody sends again

tableVars == <<conf, retry, nextKey>>
ctrlVars  == <<applied, list, adv, links, unknown>>
histVars  == <<doubled, resets, listFail, lateFail>>
vars == <<tableVars, active, cmds, evts, ctrlVars, fail, peer, histVars>>

Cmd(op, n, table) == [op |-> op, n |-> n, table |-> table]
Step(n)   == Cmd("step", n, TRUE)
Listed(k) == Cmd("list", k, TRUE)
AdvOn     == Cmd("adv_on", 0, FALSE)
AdvOff    == Cmd("adv_off", 0, FALSE)
LeScan    == Cmd("le_scan", 0, FALSE)
Inquiry   == Cmd("inquiry", 0, FALSE)

\* bt_hci_start_inquiry: scan off, its parameters, scan on, periodic inquiry,
\* or nothing while the manager's override is set (LinkTable says when).
start_inquiry == {<<LeScan, LeScan, LeScan, Inquiry>>, <<>>}

Init ==
  /\ conf = 0 /\ retry = 0 /\ nextKey = 0 /\ active = 0
  /\ cmds = <<Step(0)>> /\ evts = <<>>
  /\ applied = {} /\ list = {} /\ adv = FALSE /\ links = 0
  /\ unknown \in SUBSET Optional
  /\ fail = 0 /\ peer = 0
  /\ doubled = FALSE /\ resets = FALSE /\ listFail = FALSE /\ lateFail = FALSE

(***************************************************************************)
(* bt_hci_q_conf: the command of entry c is sent.  Loading the accept list *)
(* takes the next stored peer, or goes on to the next entry.               *)
(***************************************************************************)
\* Mutant of MoreKeys: the last stored peer is forgotten.
MoreKeysShort == nextKey + 1 < NumKeys

MoreKeys == nextKey < NumKeys

AddNextKey ==
  /\ MoreKeys
  /\ nextKey' = nextKey + 1
  /\ cmds' = Append(cmds, Listed(nextKey))

Enter(c, r) ==
  \/ /\ c < Last /\ c # ListStep
     /\ conf' = c /\ retry' = r
     /\ cmds' = Append(cmds, Step(c))
     /\ UNCHANGED nextKey
  \/ /\ c = ListStep /\ AddNextKey
     /\ conf' = c /\ retry' = r
  \/ /\ c = ListStep /\ ~MoreKeys
     /\ conf' = c + 1 /\ retry' = 0
     /\ cmds' = Append(cmds, Step(c + 1))
     /\ UNCHANGED nextKey
  \/ /\ c = Last
     /\ conf' = c /\ retry' = r
     /\ \E s \in start_inquiry : cmds' = cmds \o s
     /\ UNCHANGED nextKey
  \/ /\ c > Last
     /\ conf' = NumSteps /\ retry' = r
     /\ UNCHANGED <<cmds, nextKey>>

(***************************************************************************)
(* bt_hci_evt_hdlr, BT_HCI_EVT_CMD_COMPLETE.                               *)
(***************************************************************************)
Takes(k, e) ==
  /\ evts # <<>> /\ e = Head(evts) /\ e.e = k
  /\ evts' = Tail(evts)
  /\ UNCHANGED <<ctrlVars, fail, peer>>

\* Whose answer drives the table.
Drives(e) == doubled' = (doubled \/ (~e.table /\ conf < Last))

\* Mutant of CmdFailed: the limit is compared with the count before this failure.
CmdFailedOneMore(e) ==
  /\ Takes("failed", e)
  /\ IF retry > MaxRetry THEN Enter(0, 0) ELSE Enter(conf, retry + 1)
  /\ resets' = (resets \/ retry > MaxRetry)
  /\ Drives(e)
  /\ listFail' = (listFail \/ e.op = "list")
  /\ lateFail' = (lateFail \/ ~e.table)
  /\ UNCHANGED active

\* Mutant of CmdFailed: the command that failed is not sent again.
CmdFailedGoesOn(e) ==
  /\ Takes("failed", e)
  /\ IF retry + 1 > MaxRetry THEN Enter(0, 0) ELSE Enter(conf + 1, retry + 1)
  /\ resets' = (resets \/ retry + 1 > MaxRetry)
  /\ Drives(e)
  /\ listFail' = (listFail \/ e.op = "list")
  /\ lateFail' = (lateFail \/ ~e.table)
  /\ UNCHANGED active

\* Mutant of CmdFailed: bt_hci_init sets the state back but sends no command.
CmdFailedSilent(e) ==
  /\ Takes("failed", e)
  /\ \/ /\ retry + 1 > MaxRetry
        /\ conf' = 0 /\ retry' = 0 /\ UNCHANGED <<cmds, nextKey>>
     \/ retry + 1 <= MaxRetry /\ Enter(conf, retry + 1)
  /\ resets' = (resets \/ retry + 1 > MaxRetry)
  /\ Drives(e)
  /\ listFail' = (listFail \/ e.op = "list")
  /\ lateFail' = (lateFail \/ ~e.table)
  /\ UNCHANGED active

CmdFailed(e) ==
  /\ Takes("failed", e)
  /\ IF retry + 1 > MaxRetry THEN Enter(0, 0) ELSE Enter(conf, retry + 1)
  /\ resets' = (resets \/ retry + 1 > MaxRetry)
  /\ Drives(e)
  /\ listFail' = (listFail \/ e.op = "list")
  /\ lateFail' = (lateFail \/ ~e.table)
  /\ UNCHANGED active

CmdDone(e) ==
  /\ Takes("done", e)
  /\ \/ e.op = "list" /\ AddNextKey /\ UNCHANGED <<conf, retry>>
     \/ (e.op # "list" \/ ~MoreKeys) /\ Enter(conf + 1, 0)
  /\ Drives(e)
  /\ UNCHANGED <<active, resets, listFail, lateFail>>

\* BT_HCI_EVT_CONN_COMPLETE and BT_HCI_EVT_DISCONN_COMPLETE, as far as they
\* switch advertising and the inquiry (the rest is in LinkTable).
Connected(e) ==
  /\ Takes("up", e)
  /\ active' = active + 1
  /\ cmds' = Append(cmds, AdvOff)
  /\ UNCHANGED <<tableVars, histVars>>

\* Mutant of Disconnected: advertising is only switched on with the inquiry.
DisconnectedQuiet(e) ==
  /\ Takes("down", e)
  /\ active' = active - 1
  /\ \E s \in start_inquiry : cmds' = IF active' = 0 THEN cmds \o s ELSE cmds
  /\ UNCHANGED <<tableVars, histVars>>

Disconnected(e) ==
  /\ Takes("down", e)
  /\ active' = active - 1
  /\ \E s \in start_inquiry :
       cmds' = IF active' = 0 THEN cmds \o s \o <<AdvOn>> ELSE cmds
  /\ UNCHANGED <<tableVars, histVars>>

Handler ==
  \E e \in {evts[i] : i \in DOMAIN evts} :
    CmdFailed(e) \/ CmdDone(e) \/ Connected(e) \/ Disconnected(e)

(***************************************************************************)
(* The controller: commands in order, each answered.  The handlers do      *)
(* nothing on the answer to the inquiry command: none is given.  A command *)
(* it does not know is refused with BT_HCI_ERR_UNKNOWN_CMD, which the      *)
(* handler takes as done.                                                  *)
(***************************************************************************)
Answer(m, how) == evts' = Append(evts, [e |-> how, op |-> m.op, table |-> m.table])

Resets(m) == m.op = "step" /\ m.n = 0

\* The entry of the table that sends the same command, none for the inquiry's.
Entry(m) ==
  CASE m.op = "step" -> m.n
    [] m.op = "list" -> ListStep
    [] m.op \in {"adv_on", "adv_off"} -> AdvStep
    [] OTHER -> 0
Understood(m) == Entry(m) \notin unknown

Execute(m) ==
  /\ applied' = IF Resets(m) THEN {0} ELSE IF m.op = "step" THEN applied \cup {m.n} ELSE applied
  /\ list' = CASE Resets(m) \/ (m.op = "step" /\ m.n = ClearStep) -> {}
               [] m.op = "list" -> list \cup {m.n}
               [] OTHER -> list
  /\ adv' = CASE Resets(m) \/ m.op = "adv_off" -> FALSE
              [] m.op = "adv_on" \/ (m.op = "step" /\ m.n = AdvStep) -> TRUE
              [] OTHER -> adv
  /\ links' = IF Resets(m) THEN 0 ELSE links
  /\ UNCHANGED unknown

CtrlCommand ==
  /\ cmds # <<>> /\ cmds' = Tail(cmds)
  /\ LET m == Head(cmds) IN
     \/ m.op = "inquiry" /\ UNCHANGED <<evts, ctrlVars, fail>>
     \/ m.op # "inquiry" /\ Understood(m) /\ Execute(m) /\ Answer(m, "done") /\ UNCHANGED fail
     \/ m.op # "inquiry" /\ ~Understood(m) /\ Answer(m, "done") /\ UNCHANGED <<ctrlVars, fail>>
     \/ m.op # "inquiry" /\ Understood(m) /\ fail < MaxFail /\ fail' = fail + 1
        /\ Answer(m, "failed") /\ UNCHANGED ctrlVars
  /\ UNCHANGED <<tableVars, active, peer, histVars>>

\* A peer's page ends in a link once page scan is on; a link is lost.
PeerUp ==
  /\ peer < MaxPeer /\ peer' = peer + 1
  /\ ScanStep \in applied /\ links < MaxLinks /\ active < MaxLinks
  /\ \A i \in DOMAIN evts : evts[i].e # "up"
  /\ links' = links + 1
  /\ evts' = Append(evts, [e |-> "up"])
  /\ UNCHANGED <<tableVars, active, cmds, applied, list, adv, unknown, fail, histVars>>

PeerDown ==
  /\ peer < MaxPeer /\ peer' = peer + 1
  /\ links > 0 /\ links' = links - 1
  /\ evts' = Append(evts, [e |-> "down"])
  /\ UNCHANGED <<tableVars, active, cmds, applied, list, adv, unknown, fail, histVars>>

Next == Handler \/ CtrlCommand \/ PeerUp \/ PeerDown

Spec == Init /\ [][Next]_vars

\* The controller answers every command, and its callback runs.
FairSpec == Spec /\ WF_vars(Handler) /\ WF_vars(CtrlCommand)

(***************************************************************************)
(* Properties.                                                             *)
(***************************************************************************)
TypeOK ==
  /\ conf \in 0 .. NumSteps /\ retry \in 0 .. MaxRetry /\ nextKey \in 0 .. NumKeys
  /\ active \in 0 .. MaxLinks /\ links \in 0 .. MaxLinks
  /\ applied \subseteq Steps /\ list \subseteq Keys /\ adv \in BOOLEAN
  /\ unknown \subseteq Optional
  /\ fail \in 0 .. MaxFail /\ peer \in 0 .. MaxPeer
  /\ {doubled, resets, listFail, lateFail} \subseteq BOOLEAN

SetUp == conf >= Last
Settled == cmds = <<>> /\ evts = <<>>

\* When the table is done every entry of it that the controller knows is in
\* force.  An entry that failed is only lost if an answer of some other command
\* drove the table, so that the one that failed was not the one sent again.
AllApplied ==
  SetUp /\ ~doubled => ((Steps \ {ListStep, Last}) \ unknown) \subseteq applied

\* Every stored LE peer may reconnect once the table is done, unless the
\* controller does not know the command or refused a peer, or the table was
\* started over: the position among the stored peers is not set back for the
\* second pass.
AcceptListWhole ==
  SetUp /\ ~doubled /\ ~resets /\ ~listFail /\ ListStep \notin unknown => list = Keys

\* With nobody connected the configuration service can be reached: the
\* controller advertises, unless the command for it failed and was not repeated
\* or is not known, or a stray answer disturbed the table.
ReachableAlone ==
  SetUp /\ Settled /\ active = 0 /\ ~lateFail /\ ~doubled /\ AdvStep \notin unknown => adv

\* The controller is set up in the end, however its answers fall.
SetUpDone == <>[]SetUp
=============================================================================
