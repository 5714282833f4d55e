------------------------------ MODULE HidLink ------------------------------
(***************************************************************************)
(* One slot of bt_dev[] from the connection of a BR/EDR controller to the  *)
(* end of its initialisation: hci.c's events after CONN_COMPLETE, the      *)
(* signalling of l2cap.c, the two service searches of sdp.c, bt_hid_init   *)
(* of hidp.c and the housekeeping of bt_host_task.                         *)
(*                                                                         *)
(* All but the last run in the Bluetooth callback; bt_host_task runs on    *)
(* its own and reads the slot between two events, and a controller's init  *)
(* timer calls back with a pointer to the slot, whoever holds it by then.  *)
(* Peers follow each other in the slot.  hlOdd names what is unusual about *)
(* the present one: a property that needs a circumstance to hold names it. *)
(***************************************************************************)
EXTENDS Integers, Sequences, FiniteSets

CONSTANTS
  HlKinds,   \* what the peers are by their names
  HlPeers,   \* how many peers follow each other in the slot
  HlConf,    \* how often a peer configures a channel
  HlRetry    \* BT_MAX_RETRY

VARIABLES
  hlPeer,    \* the peer in the slot: its number, what it is, who connected, whether it is up
  hlDev,     \* struct bt_dev: flags, type, sdp_state, pkt_retry
  hlOwes,    \* what the controller has been asked and not answered yet
  hlChan,    \* the channels: closed, asked for or in configuration, and what is to come
  hlReq,     \* the service searches sent and not answered
  hlData,    \* sdp_data and pnp_data: the searches whose answers were stored
  hlHost,    \* bt_host_task: where it is, and the type it noted
  hlTimers,  \* the init timers that run: for which peer
  hlInits,   \* the types bt_hid_init ran for since the peer came
  hlOdd      \* what is unusual about this peer

hlVars == <<hlPeer, hlDev, hlOwes, hlChan, hlReq, hlData, hlHost, hlTimers, hlInits, hlOdd>>

Channels == {"ctrl", "intr", "sdp"}
Closed == [st |-> "closed", reqs |-> 0, rsp |-> FALSE]
NoDev == [flags |-> {}, type |-> "none", sdp |-> 0, retry |-> 0]
NoData == [sdp |-> {}, pnp |-> {}]
NoPeer == [n |-> 0, kind |-> "none", page |-> FALSE, up |-> FALSE]

Init ==
  /\ hlPeer = NoPeer /\ hlDev = NoDev /\ hlOwes = {} /\ hlChan = [c \in Channels |-> Closed]
  /\ hlReq = <<>> /\ hlData = NoData /\ hlHost = <<"idle", "none">>
  /\ hlTimers = {} /\ hlInits = <<>> /\ hlOdd = {}

Found == "found" \in hlDev.flags

\* bt_host_reset_dev, and what is over with the link.  The timers run on.
Cleared == NoDev
Reset(dev) ==
  /\ hlDev' = dev
  /\ hlOwes' = {} /\ hlChan' = [c \in Channels |-> Closed] /\ hlReq' = <<>>
  /\ hlData' = NoData /\ hlInits' = <<>>

\* A peer is found by the inquiry, or asks for a connection itself.
Finds(kind, page) ==
  /\ ~Found /\ hlPeer.n < HlPeers
  /\ hlPeer' = [n |-> hlPeer.n + 1, kind |-> kind, page |-> page, up |-> FALSE]
  /\ Reset([Cleared EXCEPT !.flags = @ \cup {"found"} \cup (IF page THEN {"page"} ELSE {}),
                           !.type = "generic"])
  /\ hlOdd' = IF hlHost[1] = "idle" THEN {} ELSE {"late"}
  /\ UNCHANGED <<hlHost, hlTimers>>

\* BT_HCI_EVT_CONN_COMPLETE: the name is asked for first.
Connects ==
  /\ Found /\ ~hlPeer.up
  /\ hlPeer' = [hlPeer EXCEPT !.up = TRUE] /\ hlOwes' = {"name"}
  /\ UNCHANGED <<hlDev, hlChan, hlReq, hlData, hlHost, hlTimers, hlInits, hlOdd>>

\* The link ends, or does not come up: the slot is free again.
Drops ==
  /\ Found /\ Reset(Cleared) /\ hlPeer' = [hlPeer EXCEPT !.up = FALSE]
  /\ hlOdd' = IF hlHost[1] = "idle" THEN {} ELSE {"late"}
  /\ UNCHANGED <<hlHost, hlTimers>>

\* bt_hid_init: the table by type.  Some types are ready at once, the others start a timer.
AtOnce == {"generic", "wii", "xbox"}
HidInit(dev) ==
  /\ hlInits' = Append(hlInits, dev.type)
  /\ IF dev.type \in AtOnce
       THEN hlDev' = [dev EXCEPT !.flags = @ \cup {"done"}] /\ UNCHANGED hlTimers
       ELSE hlDev' = dev /\ hlTimers' = hlTimers \cup {hlPeer.n}

\* BT_HCI_EVT_REMOTE_NAME_REQ_COMPLETE.
Typed(dev) == [dev EXCEPT !.type = hlPeer.kind]
NameKnown ==
  /\ hlDev' = Typed(hlDev)
  /\ hlOwes' = (hlOwes \ {"name"})
       \cup (IF hlDev'.type \in {"generic", "sw"} THEN {"features"} ELSE {})
       \cup (IF hlPeer.page THEN {} ELSE {"auth"})
  /\ hlOdd' = hlOdd \cup (IF "ready" \in hlDev.flags THEN {"early"} ELSE {})
  /\ UNCHANGED <<hlPeer, hlChan, hlReq, hlData, hlHost, hlTimers, hlInits>>
NameRefused ==
  IF hlDev.retry + 1 < HlRetry
    THEN /\ hlDev' = [hlDev EXCEPT !.retry = @ + 1]
         /\ UNCHANGED <<hlPeer, hlOwes, hlChan, hlReq, hlData, hlHost, hlTimers, hlInits, hlOdd>>
    ELSE Drops
Name == "name" \in hlOwes /\ (NameKnown \/ NameRefused)

\* BT_HCI_EVT_REMOTE_FEATURES: whether the peer can encrypt.
Features(encrypts) ==
  /\ "features" \in hlOwes /\ hlOwes' = hlOwes \ {"features"}
  /\ hlDev' = IF encrypts THEN [hlDev EXCEPT !.flags = @ \cup {"encryption"}] ELSE hlDev
  /\ hlOdd' = hlOdd \cup (IF "auth" \in hlOwes THEN {} ELSE {"featuresLast"})
  /\ UNCHANGED <<hlPeer, hlChan, hlReq, hlData, hlHost, hlTimers, hlInits>>

Asked(c) == IF hlChan[c].st = "closed" THEN [hlChan EXCEPT ![c].st = "asked"] ELSE hlChan

\* BT_HCI_EVT_AUTH_COMPLETE: a failure is only printed.
Encrypts == IF "encryption" \in hlDev.flags THEN {"encrypted"} ELSE {}
AuthOk ==
  /\ hlDev' = [hlDev EXCEPT !.flags = @ \cup Encrypts] /\ hlChan' = Asked("ctrl")
AuthRefused == UNCHANGED <<hlDev, hlChan>>
Auth ==
  /\ "auth" \in hlOwes /\ hlOwes' = hlOwes \ {"auth"}
  /\ AuthOk \/ AuthRefused
  /\ UNCHANGED <<hlPeer, hlReq, hlData, hlHost, hlTimers, hlInits, hlOdd>>

\* BT_L2CAP_CONN_RSP: the peer takes the channel, and the adapter configures it.
Configuring == [st |-> "conf", reqs |-> 0, rsp |-> TRUE]
ConnRsp(c) ==
  /\ hlChan[c].st = "asked" /\ hlChan' = [hlChan EXCEPT ![c] = Configuring]
  /\ UNCHANGED <<hlPeer, hlDev, hlOwes, hlReq, hlData, hlHost, hlTimers, hlInits, hlOdd>>

Configured(c) == hlChan[c].st = "conf" /\ hlChan[c].reqs > 0 /\ ~hlChan[c].rsp

\* BT_L2CAP_CONN_REQ: a peer that connected opens its channels, control first.
ConnReq(c) ==
  /\ hlPeer.up /\ hlPeer.page /\ hlChan[c].st = "closed"
  /\ (c = "ctrl" \/ (c = "intr" /\ Configured("ctrl")))
  /\ hlChan' = [hlChan EXCEPT ![c] = Configuring]
  /\ UNCHANGED <<hlPeer, hlDev, hlOwes, hlReq, hlData, hlHost, hlTimers, hlInits, hlOdd>>

\* What follows a message of a channel's configuration: the second of them ends it.
Pending(c) == c \in hlDev.flags
Ctrl(chan) ==
  /\ IF hlPeer.page THEN hlDev' = hlDev /\ hlChan' = chan
     ELSE IF ~Pending("ctrl")
       THEN hlDev' = [hlDev EXCEPT !.flags = @ \cup {"ctrl"}] /\ hlChan' = chan
       ELSE /\ hlDev' = hlDev
            /\ hlChan' = IF chan["intr"].st = "closed" THEN [chan EXCEPT !["intr"].st = "asked"] ELSE chan
  /\ UNCHANGED <<hlReq, hlTimers, hlInits>>
Intr(chan) ==
  /\ IF ~Pending("intr")
       THEN /\ hlDev' = [hlDev EXCEPT !.flags = @ \cup {"intr"}] /\ hlChan' = chan
            /\ UNCHANGED <<hlTimers, hlInits>>
       ELSE /\ HidInit([hlDev EXCEPT !.flags = @ \cup {"ready"}])
            /\ hlChan' = IF chan["sdp"].st = "closed" THEN [chan EXCEPT !["sdp"].st = "asked"] ELSE chan
  /\ UNCHANGED hlReq
Sdp(chan) ==
  /\ hlChan' = chan
  /\ IF ~Pending("sdp")
       THEN hlDev' = [hlDev EXCEPT !.flags = @ \cup {"sdp"}] /\ UNCHANGED hlReq
       ELSE hlDev' = hlDev /\ hlReq' = Append(hlReq, <<"search", 1>>)
  /\ UNCHANGED <<hlTimers, hlInits>>
Counted(c, chan) ==
  /\ CASE c = "ctrl" -> Ctrl(chan) [] c = "intr" -> Intr(chan) [] c = "sdp" -> Sdp(chan)
  /\ UNCHANGED <<hlPeer, hlOwes, hlData, hlHost>>

\* BT_L2CAP_CONF_REQ and BT_L2CAP_CONF_RSP.
ConfReq(c) ==
  /\ hlChan[c].st = "conf" /\ hlChan[c].reqs < HlConf
  /\ Counted(c, [hlChan EXCEPT ![c].reqs = @ + 1])
  /\ hlOdd' = hlOdd \cup (IF hlChan[c].reqs > 0 THEN {"again"} ELSE {})
ConfRsp(c) ==
  /\ hlChan[c].rsp /\ Counted(c, [hlChan EXCEPT ![c].rsp = FALSE])
  /\ UNCHANGED hlOdd

\* BT_SDP_SVC_SEARCH_ATTR_RSP: the answer to the oldest search, whole or to be continued, is
\* taken for what sdp_state says it is.
SearchEnds == [req |-> <<<<"pnp", 1>>>>, flag |-> {}]
SdpRsp(whole) ==
  /\ hlReq # <<>> /\ (whole \/ Head(hlReq)[2] > 0)
  /\ LET of == Head(hlReq)[1]
         now == IF hlDev.sdp = 0 THEN "search" ELSE "pnp"
     IN /\ hlData' = IF hlDev.sdp = 0 THEN [hlData EXCEPT !.sdp = @ \cup {of}]
                                      ELSE [hlData EXCEPT !.pnp = @ \cup {of}]
        /\ IF ~whole
             THEN hlReq' = Append(Tail(hlReq), <<now, 0>>) /\ hlDev' = hlDev
           ELSE IF hlDev.sdp = 0
             THEN /\ hlReq' = Tail(hlReq) \o SearchEnds.req
                  /\ hlDev' = [hlDev EXCEPT !.sdp = 1, !.flags = @ \cup SearchEnds.flag]
             ELSE hlReq' = Tail(hlReq) /\ hlDev' = [hlDev EXCEPT !.flags = @ \cup {"sdp_data"}]
  /\ UNCHANGED <<hlPeer, hlOwes, hlChan, hlHost, hlTimers, hlInits, hlOdd>>

\* bt_host_task: finds the data, parses it, initialises again if the type has changed meanwhile.
HostFinds ==
  /\ hlHost[1] = "idle" /\ {"found", "sdp_data"} \subseteq hlDev.flags
  /\ hlHost' = <<"parse", hlDev.type>>
  /\ UNCHANGED <<hlPeer, hlDev, hlOwes, hlChan, hlReq, hlData, hlTimers, hlInits, hlOdd>>
HostParses ==
  /\ hlHost[1] = "parse" /\ hlHost' = <<"parsed", hlHost[2]>> /\ hlData' = NoData
  /\ UNCHANGED <<hlPeer, hlDev, hlOwes, hlChan, hlReq, hlTimers, hlInits, hlOdd>>
HostEnds ==
  /\ hlHost[1] = "parsed" /\ hlHost' = <<"idle", "none">>
  /\ LET dev == [hlDev EXCEPT !.flags = @ \ {"sdp_data"}]
     IN IF hlHost[2] # hlDev.type /\ hlDev.type # "none" /\ "ready" \in hlDev.flags
          THEN HidInit(dev) ELSE hlDev' = dev /\ UNCHANGED <<hlTimers, hlInits>>
  /\ UNCHANGED <<hlPeer, hlOwes, hlChan, hlReq, hlData, hlOdd>>

\* The callback of an init timer: the slot is marked initialised, whose ever it is.
TimerFires(n) ==
  /\ hlTimers' = hlTimers \ {n}
  /\ hlDev' = [hlDev EXCEPT !.flags = @ \cup {"done"}]
  /\ hlOdd' = hlOdd \cup (IF Found /\ n # hlPeer.n THEN {"stale"} ELSE {})
  /\ UNCHANGED <<hlPeer, hlOwes, hlChan, hlReq, hlData, hlHost, hlInits>>

Next ==
  \/ \E kind \in HlKinds, page \in BOOLEAN : Finds(kind, page)
  \/ Connects \/ Drops \/ Name \/ Auth
  \/ \E encrypts \in BOOLEAN : Features(encrypts)
  \/ \E c \in Channels : ConnRsp(c) \/ ConnReq(c) \/ ConfReq(c) \/ ConfRsp(c)
  \/ \E whole \in BOOLEAN : SdpRsp(whole)
  \/ HostFinds \/ HostParses \/ HostEnds
  \/ \E n \in hlTimers : TimerFires(n)

Spec == Init /\ [][Next]_hlVars

TypeOK ==
  /\ hlPeer.n \in 0..HlPeers /\ hlDev.sdp \in 0..1 /\ hlDev.retry \in 0..(HlRetry - 1)
  /\ hlOwes \subseteq {"name", "features", "auth"}
  /\ hlHost[1] \in {"idle", "parse", "parsed"} /\ hlTimers \subseteq 1..HlPeers

\* Once a controller's interrupt channel is ready and its name known, the init that ran last is
\* the one for what it is (hidp.c:101, by the type hidp.c:93 sets from the name).  Unless the
\* channel was ready before the name came: then it was initialised as a generic one, and again
\* only if the name came while its descriptor was being parsed.
RightInit ==
  ("ready" \in hlDev.flags /\ "name" \notin hlOwes /\ "early" \notin hlOdd)
     => hlInits[Len(hlInits)] = hlPeer.kind

\* A controller is initialised once (l2cap.c:281, 333; host.c:302), unless it configures its
\* channels again, is ready before its name is known, or came while the task still held the type
\* of the peer before it.
InitOnce == hlOdd \cap {"again", "early", "late"} = {} => Len(hlInits) <= 1

\* What bt_host_task parses is the whole of both answers, and of the peer in the slot (sdp.c:318,
\* host.c:297): the vendor and product are looked for in the answer to the PnP search and the
\* report descriptor in the answer to the other.  Unless the slot was reset after the task had
\* looked, or the peer configured its channel again and a second search ran beside the first.
ParsesWhole ==
  (hlHost[1] = "parse" /\ hlOdd \cap {"late", "again"} = {} /\ Found)
     => hlData = [sdp |-> {"search"}, pnp |-> {"pnp"}]

\* Rumble and LEDs go only to a controller bt_hid_init has run for (host.c:275 looks at the
\* flag), unless the timer of a peer that held the slot before set it.
DoneIsInitialised == (Found /\ "done" \in hlDev.flags /\ "stale" \notin hlOdd) => hlInits # <<>>

\* A controller the adapter connects to has its control channel configured both ways before the
\* interrupt channel is asked for (l2cap.c:263, 315: two messages are counted, of either kind).
ControlFirst ==
  (Found /\ ~hlPeer.page /\ hlChan["intr"].st # "closed" /\ "again" \notin hlOdd) => Configured("ctrl")

\* On a connection the adapter made, a peer that can encrypt is asked to before its first channel
\* (hci.c:1491), unless its features came after the authentication had ended.
EncryptedIfOffered ==
  (Found /\ ~hlPeer.page /\ "encryption" \in hlDev.flags /\ hlChan["ctrl"].st # "closed"
     /\ "featuresLast" \notin hlOdd) => "encrypted" \in hlDev.flags

(***************************************************************************)
(* What is inductive.  Of a channel's configuration two messages count,    *)
(* and the flag of the first is not up before one has come; the interrupt  *)
(* channel's second makes the slot ready and initialises it, and only then *)
(* the service searches begin, which go through their stages one by one.   *)
(***************************************************************************)
Kinds == HlKinds \cup {"generic", "none"}
Flags == {"found", "page", "encryption", "encrypted", "ctrl", "intr", "sdp", "ready", "done", "sdp_data"}
Searches == {"search", "pnp"}

Types ==
  /\ hlPeer \in [n : Nat, kind : Kinds, page : BOOLEAN, up : BOOLEAN]
  /\ hlDev \in [flags : SUBSET Flags, type : Kinds, sdp : {0, 1}, retry : Nat]
  /\ hlOwes \subseteq {"name", "features", "auth"}
  /\ hlChan \in [Channels -> [st : {"closed", "asked", "conf"}, reqs : Nat, rsp : BOOLEAN]]
  /\ hlReq \in Seq(Searches \X {0, 1})
  /\ hlData \in [sdp : SUBSET Searches, pnp : SUBSET Searches]
  /\ hlHost \in {"idle", "parse", "parsed"} \X Kinds
  /\ hlTimers \subseteq Nat /\ hlInits \in Seq(Kinds)
  /\ hlOdd \subseteq {"late", "early", "again", "featuresLast", "stale"}

Ready == "ready" \in hlDev.flags
Linked ==
  /\ hlPeer.up => Found
  /\ ~hlPeer.up => hlOwes = {} /\ ~Ready /\ \A c \in Channels : hlChan[c].st = "closed"
  /\ hlPeer.up /\ "name" \notin hlOwes => hlDev.type = hlPeer.kind

Messages(c) == hlChan[c].st = "conf" /\ (hlChan[c].reqs > 0 \/ ~hlChan[c].rsp)
Counts ==
  \A c \in Channels :
    /\ hlChan[c].st # "conf" => hlChan[c].reqs = 0 /\ ~hlChan[c].rsp
    /\ Pending(c) => Messages(c)
Behind ==
  /\ hlChan["sdp"].st # "closed" => Ready
  /\ hlReq # <<>> => Ready
  /\ "sdp_data" \in hlDev.flags => Ready
InOrder == "again" \notin hlOdd => ((Ready => Configured("intr")) /\ ControlFirst)

Initialised ==
  /\ Ready <=> hlInits # <<>>
  /\ \A n \in hlTimers : n <= hlPeer.n /\ (n = hlPeer.n /\ Found => Ready)
  /\ RightInit /\ InitOnce /\ DoneIsInitialised

Noted ==
  (hlHost[1] # "idle" /\ "late" \notin hlOdd)
     => "sdp_data" \in hlDev.flags /\ ("early" \notin hlOdd => hlHost[2] = hlDev.type)

AtSearch == hlDev.sdp = 0 /\ hlReq \in {<<<<"search", 1>>>>, <<<<"search", 0>>>>} /\ hlData.pnp = {}
              /\ hlData.sdp \subseteq {"search"}
AtPnp == hlDev.sdp = 1 /\ hlReq \in {<<<<"pnp", 1>>>>, <<<<"pnp", 0>>>>} /\ hlData.pnp \subseteq {"pnp"}
           /\ hlData.sdp = {"search"}
Whole == hlData = [sdp |-> {"search"}, pnp |-> {"pnp"}]
Stage ==
  \/ hlHost[1] = "idle" /\ hlDev.sdp = 0 /\ hlReq = <<>> /\ hlData = NoData /\ "sdp_data" \notin hlDev.flags
  \/ /\ Configured("sdp")
     /\ \/ hlHost[1] = "idle" /\ "sdp_data" \notin hlDev.flags /\ (AtSearch \/ AtPnp)
        \/ /\ hlDev.sdp = 1 /\ hlReq = <<>>
           /\ \/ hlHost[1] = "idle" /\ "sdp_data" \notin hlDev.flags
              \/ hlHost[1] \in {"idle", "parse"} /\ "sdp_data" \in hlDev.flags /\ Whole
              \/ hlHost[1] = "parsed"
Staged == hlOdd \cap {"late", "again"} = {} => Stage

Offered ==
  /\ ~({"name", "auth"} \subseteq hlOwes)
  /\ (~hlPeer.page /\ hlOwes \cap {"name", "auth"} # {}) => hlChan["ctrl"].st = "closed"
  /\ EncryptedIfOffered

Ind == Types /\ Linked /\ Counts /\ Behind /\ InOrder /\ Initialised /\ Noted /\ Staged /\ Offered
============================================================================
