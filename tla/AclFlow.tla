------------------------------- MODULE AclFlow -------------------------------
(***************************************************************************)
(* Packets between the host and the controller (main/bluetooth/host.c).    *)
(* Receiving: bt_host_acl_hdlr puts L2CAP packets together again that the  *)
(* controller delivers in several ACL fragments, in the one frag_buf of    *)
(* all links.  Sending: bt_tx_task takes the queued packets, one for each  *)
(* time the controller says it is ready; a packet 0xFF is a pause.         *)
(***************************************************************************)
EXTENDS Integers, Sequences

CONSTANTS
  AfLinks,     \* links up
  AfParts,     \* fragments a packet may have
  AfPackets,   \* bound: packets received
  AfSends,     \* bound: packets sent
  AfQueue      \* packets txq_hdl holds

VARIABLES
  afWire,      \* each link's packet on its way: [id, total, sent, alone], total = 0 if none
  afBuf,       \* frag_buf up to frag_offset: fragments <<packet, number>>
  afSize,      \* frag_size
  afGot,       \* the fragment handled last: [alone, want, got], packets as fragments
  afIds,       \* packets received so far
  afTxq,       \* txq_hdl: "pause" and packets by number
  afReady,     \* BT_CTRL_READY
  afHas,       \* packets the controller has taken and not yet said it is ready after
  afSent,      \* history: packets in the order the controller got them
  afSends      \* packets queued so far

afVars == <<afWire, afBuf, afSize, afGot, afIds, afTxq, afReady, afHas, afSent, afSends>>
rxVars == <<afWire, afBuf, afSize, afGot, afIds>>
txVars == <<afTxq, afReady, afHas, afSent, afSends>>

NoPacket == [id |-> 0, total |-> 0, sent |-> 0, alone |-> TRUE]
Whole(id, total) == [k \in 1 .. total |-> <<id, k>>]

Init ==
  /\ afWire = [l \in AfLinks |-> NoPacket]
  /\ afBuf = <<>> /\ afSize = 0
  /\ afGot = [alone |-> FALSE, want |-> <<>>, got |-> <<>>]
  /\ afIds = 0
  /\ afTxq = <<>>
  /\ afReady = FALSE
  /\ afHas = 0
  /\ afSent = <<>>
  /\ afSends = 0

\* Packets of the other links on their way in fragments are not alone any more.
Disturbed(l) ==
  [m \in AfLinks |-> IF m # l /\ afWire[m].total > 0
                     THEN [afWire[m] EXCEPT !.alone = FALSE] ELSE afWire[m]]

\* A packet in one fragment: the buffer is not touched.
Single(l) ==
  /\ afWire[l].total = 0
  /\ afIds < AfPackets
  /\ afIds' = afIds + 1
  /\ afGot' = [alone |-> TRUE, want |-> Whole(afIds', 1), got |-> Whole(afIds', 1)]
  /\ UNCHANGED <<afWire, afBuf, afSize, txVars>>

\* Mutant of Started: the fragment is appended to what the buffer holds.
StartedLate(frag) == Append(afBuf, frag)

Started(frag) == <<frag>>

\* The first of several fragments: the buffer starts over.
Start(l) ==
  /\ afWire[l].total = 0
  /\ afIds < AfPackets
  /\ \E total \in 2 .. AfParts :
       /\ afIds' = afIds + 1
       /\ afWire' = [Disturbed(l) EXCEPT ![l] =
            [id |-> afIds', total |-> total, sent |-> 1,
             alone |-> \A m \in AfLinks : afWire[m].total = 0]]
       /\ afBuf' = Started(<<afIds', 1>>)
       /\ afSize' = total
  /\ afGot' = [alone |-> FALSE, want |-> <<>>, got |-> <<>>]
  /\ UNCHANGED txVars

\* A continuation, of whichever link: appended, and the packet is handled, for
\* the link of this fragment, as soon as the buffer has frag_size.
Continue(l) ==
  LET w == afWire[l]
      buf == Append(afBuf, <<w.id, w.sent + 1>>)
      last == w.sent + 1 = w.total
  IN
  /\ w.total > w.sent
  /\ afBuf' = buf
  /\ afWire' = [Disturbed(l) EXCEPT ![l] = IF last THEN NoPacket ELSE [w EXCEPT !.sent = @ + 1]]
  /\ afGot' = [alone |-> w.alone,
               want |-> IF last THEN Whole(w.id, w.total) ELSE <<>>,
               got |-> IF Len(buf) < afSize THEN <<>> ELSE SubSeq(buf, 1, afSize)]
  /\ UNCHANGED <<afSize, afIds, txVars>>

(***************************************************************************)
(* bt_host_txq_add and bt_tx_task.                                         *)
(***************************************************************************)
\* A task queues a packet, or a pause (bt_host_q_wait_pkt); it waits for room.
Queue ==
  /\ afSends < AfSends
  /\ Len(afTxq) < AfQueue
  /\ afSends' = afSends + 1
  /\ \E p \in {0, afSends'} : afTxq' = Append(afTxq, p)
  /\ UNCHANGED <<rxVars, afReady, afHas, afSent>>

Pause ==
  /\ afReady
  /\ afTxq # <<>> /\ Head(afTxq) = 0
  /\ afTxq' = Tail(afTxq)
  /\ UNCHANGED <<rxVars, afReady, afHas, afSent, afSends>>

\* The flag goes down before the packet is handed over, so that the callback's answer stands.
Sent == afReady' = FALSE

Send ==
  /\ afReady
  /\ afTxq # <<>> /\ Head(afTxq) # 0
  /\ Sent
  /\ afHas' = afHas + 1
  /\ afSent' = Append(afSent, Head(afTxq))
  /\ afTxq' = Tail(afTxq)
  /\ UNCHANGED <<rxVars, afSends>>

\* bt_host_tx_pkt_ready, once after power-up and once for each packet.
ControllerReady ==
  /\ afHas > 0 \/ (afSent = <<>> /\ ~afReady)
  /\ afReady' = TRUE
  /\ afHas' = IF afHas > 0 THEN afHas - 1 ELSE 0
  /\ UNCHANGED <<rxVars, afTxq, afSent, afSends>>

Next ==
  \/ \E l \in AfLinks : Single(l) \/ Start(l) \/ Continue(l)
  \/ Queue \/ Pause \/ Send \/ ControllerReady

Spec == Init /\ [][Next]_afVars

(***************************************************************************)
(* Properties.                                                             *)
(***************************************************************************)
\* Type invariant.
TypeOK ==
  /\ \A l \in AfLinks : afWire[l].sent \in 0 .. AfParts - 1 /\ afWire[l].total \in 0 .. AfParts
  /\ Len(afBuf) <= AfParts * AfPackets
  /\ afSize \in 0 .. AfParts
  /\ afIds \in 0 .. AfPackets
  /\ Len(afTxq) <= AfQueue
  /\ afReady \in BOOLEAN
  /\ afHas \in 0 .. 1

\* bt_host_acl_hdlr hands on a packet that came in fragments when its last one
\* is there, whole, and nothing before, whatever the buffer held from earlier
\* packets and whatever single packets came between, as long as no other link's
\* fragments did: they share the buffer.
WholeIfAlone == afGot.alone => afGot.got = afGot.want

\* The controller is never given a packet before it is ready for it, and gets
\* them in the order they were queued.
OneAtATime ==
  /\ afHas <= 1
  /\ afReady => afHas = 0
  /\ \A i, j \in DOMAIN afSent : i < j => afSent[i] < afSent[j]
=============================================================================
