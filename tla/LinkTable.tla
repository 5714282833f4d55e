------------------------------ MODULE LinkTable ------------------------------
(***************************************************************************)
(* The BR/EDR links: the device table of bluetooth/host.c (bt_dev), the    *)
(* event handlers of bluetooth/hci.c that fill and empty it, the inquiry   *)
(* they start and stop, and the buttons and the power management of        *)
(* system/manager.c that act on both: while the console is off, an         *)
(* override keeps the inquiry from starting.                               *)
(*                                                                         *)
(* The handlers run in the controller's callback, one event at a time.     *)
(* They answer with commands, which reach the controller through a FIFO    *)
(* (txq_hdl, emptied by bt_tx_task); the manager's task queues commands    *)
(* too, and the callback may preempt it anywhere.  The controller is       *)
(* modelled from HCI: it refuses a command that does not fit its state     *)
(* with a Command Status, which the firmware only prints.                  *)
(***************************************************************************)
EXTENDS Integers, Sequences

CONSTANTS
  NumDevs,     \* BT_MAX_DEV
  Addrs,       \* peers, by bdaddr
  Handles,     \* connection handles of the controller; 0 is none of them
  MaxRetry,    \* BT_MAX_RETRY
  InquiryMax,  \* BT_INQUIRY_MAX
  NoAddr,
  MaxPeer,     \* bound: inquiry results, incoming pages and lost links
  MaxFail,     \* bound: pages, accepts and name requests that fail
  MaxSys       \* bound: button presses and passes of power_on_hdl

Slots == 0 .. NumDevs - 1

\* States of a peer's link in the controller, besides a handle.
NoLink   == -1
Paging   == -2
Incoming == -3

ASSUME DevsAssumption == NumDevs \in Nat \ {0}
ASSUME HandlesAssumption == Handles \subseteq Nat \ {0}
ASSUME AddrAssumption == NoAddr \notin Addrs
ASSUME CountsAssumption ==
  MaxRetry \in Nat \ {0} /\ InquiryMax \in Nat /\ MaxPeer \in Nat /\ MaxFail \in Nat /\ MaxSys \in Nat

VARIABLES
  dev,         \* bt_dev: flags DEVICE_FOUND and PAGE, remote_bdaddr, acl_handle, pkt_retry
  nb_inquiry,  \* bt_nb_inquiry, counted up to InquiryMax + 1
  inquiry_state,
  cmds, evts,  \* commands to, and events from the controller, in order
  link,        \* the controller's view of a peer: NoLink, Paging, Incoming or a handle
  inquiring,   \* the controller is in periodic inquiry
  sys, sysi,   \* sys_mgr_task: "idle", in the middle of "stop" or "start", in the "loop"
               \* of bt_host_disconnect_all ("kick" where power_on_hdl calls it), and the
               \* loop's slot; power_on_hdl before it looks at inquiry_state ("check"), and
               \* before it sets the override ("off")
  override,    \* inquiry_override
  curr,        \* power_on_hdl's curr: the console's power as it saw it last
  peer, fail, press,  \* counters of the bounds
  dropped,     \* history: peers whose slot was reset while the link is up
  astray,      \* history: peers that once had an attempt under way that no slot waits for
  stopped,     \* history: the manager stopped the inquiry, or the override refused to
               \* start it; nothing has started it since
  crossed      \* history: a handler switched the inquiry while the manager was doing so

hostVars == <<dev, nb_inquiry, inquiry_state>>
ctrlVars == <<link, inquiring>>
sysVars  == <<sys, sysi, override, curr, press>>
leftVars == <<dropped, astray>>
histVars == <<leftVars, stopped, crossed>>
vars == <<hostVars, cmds, evts, ctrlVars, sysVars, peer, fail, histVars>>

FreeDev == [found |-> FALSE, page |-> FALSE, addr |-> NoAddr, handle |-> 0, retry |-> 0]

\* bt_hci_config ends with bt_hci_start_inquiry_cfg_check (INQ_AUTO), which the
\* override refuses where the console has been found off before.
Init ==
  /\ dev = [s \in Slots |-> FreeDev]
  /\ override \in BOOLEAN /\ curr \in BOOLEAN /\ ~(override /\ curr)
  /\ nb_inquiry = 0 /\ inquiry_state = ~override
  /\ cmds = (IF override THEN <<>> ELSE <<[c |-> "inquiry"]>>) /\ evts = <<>>
  /\ link = [a \in Addrs |-> NoLink] /\ inquiring = FALSE
  /\ sys = "idle" /\ sysi = 0
  /\ peer = 0 /\ fail = 0 /\ press = 0
  /\ dropped = {} /\ astray = {} /\ stopped = override /\ crossed = FALSE

(***************************************************************************)
(* Lookups of the table: the first slot that fits, if any.                 *)
(***************************************************************************)
First(S) == CHOOSE s \in S : \A t \in S : s <= t

\* Mutant of WithAddr: a slot counts once it has a handle.
WithAddrConnected(a) == {s \in Slots : dev[s].found /\ dev[s].addr = a /\ dev[s].handle # 0}

WithAddr(a)   == {s \in Slots : dev[s].found /\ dev[s].addr = a}

\* Mutant of WithHandle: the links of our own pages are overlooked.
WithHandlePaged(h) == {s \in Slots : dev[s].found /\ dev[s].page /\ dev[s].handle = h}

WithHandle(h) == {s \in Slots : dev[s].found /\ dev[s].handle = h}

New           == {s \in Slots : ~dev[s].found}
Active(d)     == \E s \in Slots : d[s].found

Connect(a) == [c |-> "connect", addr |-> a]
Accept(a)  == [c |-> "accept", addr |-> a]
Name(a)    == [c |-> "name", addr |-> a]
Disc(h)    == [c |-> "disc", handle |-> h]
InquiryOn  == [c |-> "inquiry"]
InquiryOff == [c |-> "exit_inquiry"]

(***************************************************************************)
(* A handler starts the inquiry, stops it, or only queues commands.        *)
(***************************************************************************)
Crossing == crossed' = (crossed \/ sys \in {"stop", "start"})

start_inquiry ==
  \/ /\ ~override
     /\ inquiry_state' = TRUE /\ nb_inquiry' = 0
     /\ cmds' = Append(cmds, InquiryOn)
     /\ stopped' = FALSE /\ Crossing
  \/ /\ override
     /\ stopped' = TRUE
     /\ UNCHANGED <<inquiry_state, nb_inquiry, cmds, crossed>>

\* Mutant of stop_inquiry: inquiry_state is forgotten.
stop_inquiryUntold ==
  /\ cmds' = Append(cmds, InquiryOff)
  /\ Crossing
  /\ UNCHANGED <<inquiry_state, stopped>>

stop_inquiry ==
  /\ inquiry_state' = FALSE
  /\ cmds' = Append(cmds, InquiryOff)
  /\ Crossing
  /\ UNCHANGED stopped

\* Mutant of no_inquiry: the handler's commands are lost on the way to txq_hdl.
no_inquiryLost(more) == UNCHANGED <<cmds, inquiry_state, stopped, crossed>>

no_inquiry(more) ==
  /\ cmds' = cmds \o more
  /\ UNCHANGED <<inquiry_state, stopped, crossed>>

\* bt_host_reset_dev(slot s), then "if no device is active, start the inquiry"
reset_dev(s) ==
  /\ dev' = [dev EXCEPT ![s] = FreeDev]
  /\ \/ Active(dev') /\ no_inquiry(<<>>) /\ UNCHANGED nb_inquiry
     \/ ~Active(dev') /\ start_inquiry

(***************************************************************************)
(* The event handlers of bt_hci_evt_hdlr.                                  *)
(***************************************************************************)
\* The event of kind k at the head of evts is handled.
Takes(k, e) ==
  /\ evts # <<>> /\ e = Head(evts) /\ e.e = k
  /\ evts' = Tail(evts)
  /\ UNCHANGED <<ctrlVars, sysVars, peer, fail>>

\* BT_HCI_EVT_INQUIRY_COMPLETE
InquiryComplete(e) ==
  /\ Takes("inquiry_complete", e)
  /\ nb_inquiry' = IF nb_inquiry > InquiryMax THEN nb_inquiry ELSE nb_inquiry + 1
  /\ IF Active(dev) /\ nb_inquiry' > InquiryMax THEN stop_inquiry ELSE no_inquiry(<<>>)
  /\ UNCHANGED <<dev, leftVars>>

\* BT_HCI_EVT_INQUIRY_RESULT, BT_HCI_EVT_CONN_REQUEST: a peer that has no slot
\* gets one, if one is free; a peer that has one is left to it.
NewDev(e, page, cmd) ==
  /\ IF WithAddr(e.addr) = {} /\ New # {}
     THEN /\ dev' = [dev EXCEPT ![First(New)] =
                       [found |-> TRUE, page |-> page, addr |-> e.addr, handle |-> 0, retry |-> 0]]
          /\ no_inquiry(<<cmd>>)
     ELSE UNCHANGED dev /\ no_inquiry(<<>>)
  /\ UNCHANGED <<nb_inquiry, leftVars>>

InquiryResult(e) == Takes("inquiry_result", e) /\ NewDev(e, FALSE, Connect(e.addr))
ConnRequest(e)   == Takes("conn_request", e) /\ NewDev(e, TRUE, Accept(e.addr))

\* Mutant of MayRetry: one more.
MayRetryOnce(s) == dev[s].retry < MaxRetry

\* pkt_retry, once incremented, is below BT_MAX_RETRY.
MayRetry(s) == dev[s].retry + 1 < MaxRetry

\* "dev NULL!": the handlers below then do nothing.
Unknown == UNCHANGED <<hostVars, cmds, histVars>>

\* BT_HCI_EVT_CONN_COMPLETE
ConnComplete(e) ==
  /\ Takes("conn_complete", e)
  /\ LET s == First(WithAddr(e.addr)) IN
     \/ WithAddr(e.addr) = {} /\ Unknown
     \/ /\ WithAddr(e.addr) # {} /\ e.ok
        /\ nb_inquiry' = InquiryMax
        /\ dev' = [dev EXCEPT ![s].handle = e.handle, ![s].retry = 0]
        /\ no_inquiry(<<Name(e.addr)>>)
        /\ UNCHANGED leftVars
     \/ /\ WithAddr(e.addr) # {} /\ ~e.ok
        /\ IF ~dev[s].page /\ MayRetry(s)
           THEN /\ dev' = [dev EXCEPT ![s].retry = @ + 1]
                /\ no_inquiry(<<Connect(e.addr)>>)
                /\ UNCHANGED nb_inquiry
           ELSE reset_dev(s)
        /\ UNCHANGED leftVars

\* Slot s of peer a is reset; the link it has, or the attempt it waits for, is not ended.
LeavesLink(s, a) ==
  \/ dev[s].handle # 0 /\ dropped' = dropped \cup {a} /\ UNCHANGED astray
  \/ dev[s].handle = 0 /\ astray' = astray \cup {a} /\ UNCHANGED dropped

\* BT_HCI_EVT_REMOTE_NAME_REQ_COMPLETE.  After MaxRetry failures the slot is
\* reset; no command to end the link is sent.
NameComplete(e) ==
  /\ Takes("name_complete", e)
  /\ LET s == First(WithAddr(e.addr)) IN
     \/ WithAddr(e.addr) = {} /\ Unknown
     \/ /\ WithAddr(e.addr) # {} /\ e.ok
        /\ stop_inquiry
        /\ UNCHANGED <<dev, nb_inquiry, leftVars>>
     \/ /\ WithAddr(e.addr) # {} /\ ~e.ok
        /\ IF MayRetry(s)
           THEN /\ dev' = [dev EXCEPT ![s].retry = @ + 1]
                /\ no_inquiry(<<Name(e.addr)>>)
                /\ UNCHANGED <<nb_inquiry, leftVars>>
           ELSE reset_dev(s) /\ LeavesLink(s, e.addr)

\* BT_HCI_EVT_DISCONN_COMPLETE
DisconnComplete(e) ==
  /\ Takes("disconn_complete", e)
  /\ \/ WithHandle(e.handle) = {} /\ UNCHANGED <<hostVars, cmds, stopped, crossed>>
     \/ WithHandle(e.handle) # {} /\ reset_dev(First(WithHandle(e.handle)))
  /\ dropped' = dropped \ {e.addr} /\ UNCHANGED astray

Handler ==
  \E e \in {evts[i] : i \in DOMAIN evts} :
    \/ InquiryComplete(e) \/ InquiryResult(e) \/ ConnRequest(e)
    \/ ConnComplete(e) \/ NameComplete(e) \/ DisconnComplete(e)

(***************************************************************************)
(* sys_mgr_task.  Starting and stopping the inquiry is preempted between   *)
(* the commands and the assignment of inquiry_state.                       *)
(***************************************************************************)
\* A button, or a pass of power_on_hdl.
Press ==
  /\ sys = "idle" /\ press < MaxSys
  /\ press' = press + 1
  /\ UNCHANGED <<sysi, dev, nb_inquiry, evts, ctrlVars, peer, fail, leftVars, crossed>>

StopBegins == cmds' = Append(cmds, InquiryOff) /\ stopped' = TRUE /\ sys' = "stop"

PressStop ==
  /\ Press /\ inquiry_state
  /\ StopBegins
  /\ UNCHANGED <<inquiry_state, override, curr>>

PressDisconnect ==
  /\ Press /\ ~inquiry_state
  /\ sys' = "loop"
  /\ UNCHANGED <<inquiry_state, cmds, stopped, override, curr>>

\* The override refuses this one too.
PressStart ==
  /\ Press /\ ~override
  /\ inquiry_state' = TRUE
  /\ sys' = "start"
  /\ UNCHANGED <<cmds, stopped, override, curr>>

\* power_on_hdl, the console is on.  With no device in the table, and no wired
\* controller either, the inquiry is to run.
PassOn ==
  /\ Press
  /\ curr' = TRUE /\ override' = FALSE
  /\ \/ sys' = "idle"
     \/ ~Active(dev) /\ sys' = "check"
  /\ UNCHANGED <<inquiry_state, cmds, stopped>>

\* "Make sure no inquiry while power off"
Silence ==
  /\ override' = TRUE
  /\ \/ inquiry_state /\ StopBegins
     \/ ~inquiry_state /\ sys' = "idle" /\ UNCHANGED <<cmds, stopped>>
  /\ UNCHANGED inquiry_state

\* power_on_hdl, the console is off.  The first time the controllers are
\* disconnected; later a controller that is ready switches the console on.
PassOff ==
  /\ Press
  /\ curr' = FALSE
  /\ \/ curr /\ sys' = "kick" /\ UNCHANGED <<inquiry_state, cmds, stopped, override>>
     \/ ~curr /\ Silence
     \/ /\ ~curr /\ Active(dev)
        /\ override' = FALSE /\ sys' = "idle"
        /\ UNCHANGED <<inquiry_state, cmds, stopped>>

\* The steps left of what a press or a pass began.
SysSame == UNCHANGED <<dev, evts, ctrlVars, curr, press, peer, fail, leftVars, crossed>>

SysStopped ==
  /\ sys = "stop"
  /\ inquiry_state' = FALSE /\ sys' = "idle"
  /\ SysSame /\ UNCHANGED <<sysi, override, nb_inquiry, cmds, stopped>>

SysStarted ==
  /\ sys = "start"
  /\ nb_inquiry' = 0 /\ cmds' = Append(cmds, InquiryOn) /\ stopped' = FALSE
  /\ sys' = "idle"
  /\ SysSame /\ UNCHANGED <<sysi, override, inquiry_state>>

\* "if (!bt_hci_get_inquiry()) bt_hci_start_inquiry()"
SysCheck ==
  /\ sys = "check"
  /\ sys' = IF inquiry_state THEN "idle" ELSE "start"
  /\ inquiry_state' = TRUE
  /\ SysSame /\ UNCHANGED <<sysi, override, nb_inquiry, cmds, stopped>>

\* One turn of bt_host_disconnect_all's loop.
SysDisconnect ==
  /\ sys \in {"loop", "kick"}
  /\ cmds' = IF dev[sysi].found THEN Append(cmds, Disc(dev[sysi].handle)) ELSE cmds
  /\ IF sysi = NumDevs - 1
     THEN sysi' = 0 /\ sys' = IF sys = "kick" THEN "off" ELSE "idle"
     ELSE sysi' = sysi + 1 /\ UNCHANGED sys
  /\ SysSame /\ UNCHANGED <<override, inquiry_state, nb_inquiry, stopped>>

SysOff ==
  /\ sys = "off"
  /\ Silence
  /\ SysSame /\ UNCHANGED <<sysi, nb_inquiry>>

SysStep == SysStopped \/ SysStarted \/ SysCheck \/ SysDisconnect \/ SysOff

(***************************************************************************)
(* The controller.                                                         *)
(***************************************************************************)
ConnEvent(a, ok, h) == [e |-> "conn_complete", addr |-> a, ok |-> ok, handle |-> h]
NameEvent(a, ok)    == [e |-> "name_complete", addr |-> a, ok |-> ok]
DiscEvent(a, h)     == [e |-> "disconn_complete", addr |-> a, handle |-> h]

Up(a) == link[a] \in Handles
FreeHandles == Handles \ {link[a] : a \in Addrs}
Emits(e) == evts' = Append(evts, e)
CtrlOnly == UNCHANGED <<hostVars, cmds, sysVars, dropped, stopped, crossed>>

\* The link to a comes up, or the attempt fails.
LinkUp(a) ==
  /\ \E h \in FreeHandles : link' = [link EXCEPT ![a] = h] /\ Emits(ConnEvent(a, TRUE, h))
  /\ UNCHANGED fail

LinkFails(a) ==
  /\ fail < MaxFail /\ fail' = fail + 1
  /\ link' = [link EXCEPT ![a] = NoLink]
  /\ Emits(ConnEvent(a, FALSE, 0))

\* The first command of the queue.  Refused means: no event follows.
Refused == UNCHANGED <<evts, link, inquiring, fail>>

CtrlCommand ==
  /\ cmds # <<>> /\ cmds' = Tail(cmds)
  /\ LET m == Head(cmds) IN
     \/ m.c = "inquiry" /\ inquiring' = TRUE /\ UNCHANGED <<evts, link, fail>>
     \/ m.c = "exit_inquiry" /\ inquiring' = FALSE /\ UNCHANGED <<evts, link, fail>>
     \/ /\ m.c = "connect"
        /\ \/ link[m.addr] = NoLink /\ link' = [link EXCEPT ![m.addr] = Paging]
              /\ UNCHANGED <<evts, inquiring, fail>>
           \/ link[m.addr] # NoLink /\ Refused
     \/ /\ m.c = "accept"
        /\ \/ link[m.addr] = Incoming /\ (LinkUp(m.addr) \/ LinkFails(m.addr)) /\ UNCHANGED inquiring
           \/ link[m.addr] # Incoming /\ Refused
     \/ /\ m.c = "name"
        /\ \/ Up(m.addr) /\ Emits(NameEvent(m.addr, TRUE)) /\ UNCHANGED fail
           \/ fail < MaxFail /\ fail' = fail + 1 /\ Emits(NameEvent(m.addr, FALSE))
           \/ ~Up(m.addr) /\ Emits(NameEvent(m.addr, FALSE)) /\ UNCHANGED fail
        /\ UNCHANGED <<link, inquiring>>
     \/ /\ m.c = "disc"
        /\ \/ \E a \in Addrs : link[a] = m.handle /\ link' = [link EXCEPT ![a] = NoLink]
                               /\ Emits(DiscEvent(a, m.handle))
              /\ UNCHANGED <<inquiring, fail>>
           \/ (\A a \in Addrs : link[a] # m.handle) /\ Refused
  /\ UNCHANGED <<hostVars, sysVars, peer, histVars>>

\* A page of ours ends, or the host did not accept a peer's in time.
CtrlPaged(a) ==
  /\ \/ link[a] = Paging /\ (LinkUp(a) \/ LinkFails(a)) /\ UNCHANGED astray
     \/ link[a] = Incoming /\ link' = [link EXCEPT ![a] = NoLink]
        /\ Emits(ConnEvent(a, FALSE, 0)) /\ astray' = astray \cup {a} /\ UNCHANGED fail
  /\ CtrlOnly /\ UNCHANGED <<inquiring, peer>>

\* A peer is discovered, pages us, or its link is lost.
PeerActs(a) ==
  /\ peer < MaxPeer /\ peer' = peer + 1
  /\ \/ inquiring /\ link[a] = NoLink /\ Emits([e |-> "inquiry_result", addr |-> a]) /\ UNCHANGED link
     \/ link[a] = NoLink /\ link' = [link EXCEPT ![a] = Incoming]
        /\ Emits([e |-> "conn_request", addr |-> a])
     \/ Up(a) /\ link' = [link EXCEPT ![a] = NoLink] /\ Emits(DiscEvent(a, link[a]))
  /\ CtrlOnly /\ UNCHANGED <<inquiring, fail, astray>>

\* A period of the inquiry ends (of the many, those that can still matter).
CtrlPeriod ==
  /\ inquiring /\ evts = <<>> /\ nb_inquiry <= InquiryMax
  /\ Emits([e |-> "inquiry_complete"])
  /\ CtrlOnly /\ UNCHANGED <<ctrlVars, peer, fail, astray>>

Next ==
  \/ Handler
  \/ PressStop \/ PressDisconnect \/ PressStart \/ PassOn \/ PassOff \/ SysStep
  \/ CtrlCommand \/ CtrlPeriod
  \/ \E a \in Addrs : CtrlPaged(a) \/ PeerActs(a)

Spec == Init /\ [][Next]_vars

\* The tasks run, the controller takes commands and ends every attempt; no
\* peer has to do anything and no button has to be pressed.
FairSpec ==
  /\ Spec
  /\ WF_vars(Handler) /\ WF_vars(SysStep) /\ WF_vars(CtrlCommand)
  /\ \A a \in Addrs : WF_vars(CtrlPaged(a))

(***************************************************************************)
(* Properties.                                                             *)
(***************************************************************************)
TypeOK ==
  /\ dev \in [Slots -> [found : BOOLEAN, page : BOOLEAN, addr : Addrs \cup {NoAddr},
                        handle : Handles \cup {0}, retry : 0 .. MaxRetry - 1]]
  /\ nb_inquiry \in 0 .. InquiryMax + 1 /\ inquiry_state \in BOOLEAN
  /\ link \in [Addrs -> {NoLink, Paging, Incoming} \cup Handles] /\ inquiring \in BOOLEAN
  /\ sys \in {"idle", "stop", "start", "loop", "kick", "check", "off"} /\ sysi \in Slots
  /\ override \in BOOLEAN /\ curr \in BOOLEAN
  /\ peer \in 0 .. MaxPeer /\ fail \in 0 .. MaxFail /\ press \in 0 .. MaxSys
  /\ dropped \subseteq Addrs /\ astray \subseteq Addrs /\ stopped \in BOOLEAN /\ crossed \in BOOLEAN

EventsOf(a, kinds) == \E i \in DOMAIN evts : evts[i].e \in kinds /\ evts[i].addr = a
CommandsOf(a, kinds) == \E i \in DOMAIN cmds : cmds[i].c \in kinds /\ cmds[i].addr = a

\* A peer has one slot and a handle has one slot, so that the lookups, which
\* take the first that fits, are not ambiguous.
OneSlotEach ==
  \A s, t \in Slots : s # t /\ dev[s].found /\ dev[t].found =>
    /\ dev[s].addr # dev[t].addr
    /\ dev[s].handle # 0 => dev[s].handle # dev[t].handle

\* A slot in use is not leaked: its link is up, or an attempt to bring it up is
\* under way, or an event that will decide on the slot is.
SlotAlive ==
  \A s \in Slots : dev[s].found =>
    LET a == dev[s].addr IN
    \/ link[a] = dev[s].handle
    \/ link[a] \in {Paging, Incoming}
    \/ EventsOf(a, {"conn_complete", "disconn_complete"})
    \/ CommandsOf(a, {"connect", "accept"})

\* A link that is up has its slot, or is about to have it.  It outlives the slot
\* in these cases only: the peer's name could not be had (no command ends the
\* link), or the slots once lost count of the attempts to connect to the peer.
\* Then two of them are under way where one slot waits.  It happens when a page
\* of the peer expires unanswered, which counts as a failure of the firmware's own
\* attempt, and when the failed name requests of links that have ended since
\* reset the slot of the next attempt.
LinkHasSlot ==
  \A a \in Addrs : Up(a) =>
    \/ a \in dropped \/ a \in astray
    \/ \E s \in Slots : dev[s].found /\ dev[s].addr = a /\ dev[s].handle = link[a]
    \/ /\ EventsOf(a, {"conn_complete"})
       /\ WithAddr(a) # {} \/ EventsOf(a, {"conn_request", "inquiry_result"})

\* Slots and links go together.
SlotsFollowLinks == SlotAlive /\ LinkHasSlot

\* Nobody has to press a button to connect the next controller: with no device
\* in the table the controller inquires, or is told to, unless the manager stopped
\* it or the override of a console that was off refused it and nothing has started
\* it since.
LastInquiry ==
  LET I == {i \in DOMAIN cmds : cmds[i].c \in {"inquiry", "exit_inquiry"}}
  IN IF I = {} THEN inquiring
     ELSE cmds[CHOOSE i \in I : \A j \in I : j <= i].c = "inquiry"
NeverDeaf == ~Active(dev) => LastInquiry \/ stopped \/ sys = "start"

\* ... inquiry_state, which tells the buttons what to do, is what the controller does, ...
InquiryStateHonest == sys \notin {"stop", "start"} /\ ~crossed => inquiry_state = LastInquiry

\* ... and under the override the controller is not left inquiring, whatever the
\* handlers find of the devices that were disconnected.
SilentWhenOff == override /\ ~crossed => ~LastInquiry
InquiryKept == NeverDeaf /\ InquiryStateHonest /\ SilentWhenOff

\* A slot does not wait for its link for ever.
SlotDecided ==
  \A s \in Slots : (dev[s].found /\ dev[s].handle = 0) ~> (~dev[s].found \/ dev[s].handle # 0)
=============================================================================
