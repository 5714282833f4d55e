------------------------------ MODULE SmpPair ------------------------------
(***************************************************************************)
(* Pairing of LE controllers: the handler of smp.c, the random numbers and *)
(* encryptions it asks the Bluetooth controller for (hci.c), and the key   *)
(* that a peer leaves for its next connection (host.c).                    *)
(*                                                                         *)
(* The answers of LE_RAND and LE_ENCRYPT do not say who asked: two queues  *)
(* of callbacks, shared by all devices, are taken to be in step with the   *)
(* commands.  A command that the controller refuses leaves its callback in *)
(* the queue, and a device that is reset leaves its own there too.         *)
(*                                                                         *)
(* A value is what it was made from: <<1, r>> is c1 over the random r, the *)
(* half of it <<0, r>>, and <<2, r>> the key that s1 makes.                *)
(***************************************************************************)
EXTENDS Integers, Sequences, FiniteSets

CONSTANTS
  SpDevs,    \* slots of bt_dev[] that LE peers get, one address each
  SpDist,    \* what the peers ask to distribute: sets of "enc", "id", "sign"
  SpLinks,   \* connections, of all slots
  SpCap      \* entries that fit into randq and encryptq

VARIABLES
  spDev,     \* struct bt_dev: rand, ltk, rdist, ldist, and what was done on this link
  spPeer,    \* what the peer waits for and got, and whether its key was just refused
  spSent,    \* messages to the peer that it has not taken
  spRandQ, spEncQ,   \* randq, encryptq: device and callback
  spCmds,    \* LE_RAND and LE_ENCRYPT commands the controller has not answered
  spRnd,     \* random numbers given so far
  spKeys,    \* bt_host_le_link_keys of the address: none, without its ident, whole
  spLinks,   \* connections so far
  spOdd      \* "refused": a command failed (one does); "stale": a device was reset with callbacks queued

spVars == <<spDev, spPeer, spSent, spRandQ, spEncQ, spCmds, spRnd, spKeys, spLinks, spOdd>>

NoRand == <<0, 0>>
Free == [rand |-> NoRand, ltk |-> <<3, NoRand>>, rdist |-> {}, ldist |-> {},
         enc |-> FALSE, inits |-> 0, gave |-> {}, fresh |-> FALSE]
Gone == [wait |-> "off", conf |-> <<3, NoRand>>, rand |-> NoRand,
         bad |-> FALSE]

Init ==
  /\ spDev = [d \in SpDevs |-> Free] /\ spPeer = [d \in SpDevs |-> Gone]
  /\ spSent = [d \in SpDevs |-> <<>>] /\ spRandQ = <<>> /\ spEncQ = <<>>
  /\ spCmds = <<>> /\ spRnd = 0 /\ spKeys = [d \in SpDevs |-> "none"]
  /\ spLinks = 0 /\ spOdd = {}

Up(d) == spPeer[d].wait # "off"

\* bt_smp_cmd: what is sent for a slot without a link goes nowhere.
Sends(d, m) == IF Up(d) THEN [spSent EXCEPT ![d] = Append(@, m)] ELSE spSent

\* BT_HCI_EVT_LE_CONN_COMPLETE: encryption with the stored key, or pairing.
Connect(d) ==
  /\ ~Up(d) /\ spLinks < SpLinks /\ spLinks' = spLinks + 1
  /\ IF spKeys[d] = "none"
       THEN /\ spSent' = [spSent EXCEPT ![d] = <<[m |-> "req", v |-> <<3, NoRand>>]>>]
            /\ spPeer' = [spPeer EXCEPT ![d].wait = "req"]
       ELSE /\ spSent' = [spSent EXCEPT ![d] = <<[m |-> "stored", v |-> <<3, NoRand>>]>>]
            /\ spPeer' = [spPeer EXCEPT ![d].wait = "stored"]
  /\ spDev' = [spDev EXCEPT ![d].fresh = spKeys[d] = "none"]
  /\ UNCHANGED <<spRandQ, spEncQ, spCmds, spRnd, spKeys, spOdd>>

\* The link is gone: bt_host_reset_dev; the callbacks stay queued.
Queued(d) == \E q \in {spRandQ, spEncQ} : \E i \in DOMAIN q : q[i][1] = d
Drop(d) ==
  /\ Up(d)
  /\ spDev' = [spDev EXCEPT ![d] = Free] /\ spPeer' = [spPeer EXCEPT ![d] = Gone]
  /\ spSent' = [spSent EXCEPT ![d] = <<>>]
  /\ spOdd' = spOdd \cup (IF Queued(d) THEN {"stale"} ELSE {})
  /\ UNCHANGED <<spRandQ, spEncQ, spCmds, spRnd, spKeys, spLinks>>

Takes(d, what) ==
  spPeer[d].wait = what /\ spSent[d] # <<>> /\ Head(spSent[d]).m = what
Rest(d) == [spSent EXCEPT ![d] = Tail(@)]

\* Mutant of Halves: the half that completes the number comes first.
HalvesSwapped(d) == <<<<d, "complete">>, <<d, "half">>>>

\* The two calls of BT_SMP_CMD_PAIRING_RSP.
Halves(d) == <<<<d, "half">>, <<d, "complete">>>>

\* bt_hci_get_random, twice: each call that finds the queue full does nothing.
AskRandom(d) ==
  LET fits == IF SpCap - Len(spRandQ) < 2 THEN SpCap - Len(spRandQ) ELSE 2 IN
  /\ spRandQ' = spRandQ \o SubSeq(Halves(d), 1, fits)
  /\ spCmds' = spCmds \o SubSeq(<<<<"rand", <<3, NoRand>>>>, <<"rand", <<3, NoRand>>>>>>, 1, fits)

\* BT_SMP_CMD_PAIRING_RSP.
PairingRsp(d, rdist) ==
  /\ Takes(d, "req")
  /\ spDev' = [spDev EXCEPT ![d].rdist = rdist, ![d].ldist = {"id"}]
  /\ spPeer' = [spPeer EXCEPT ![d].wait = "confirm"] /\ spSent' = Rest(d)
  /\ AskRandom(d)
  /\ UNCHANGED <<spEncQ, spRnd, spKeys, spLinks, spOdd>>

\* bt_hci_get_encrypt.
AskEncrypt(d, cb, text) ==
  IF Len(spEncQ) < SpCap
    THEN spEncQ' = Append(spEncQ, <<d, cb>>) /\ spCmds' = Append(Tail(spCmds), <<"enc", text>>)
    ELSE spEncQ' = spEncQ /\ spCmds' = Tail(spCmds)

\* bt_hci_get_random_context.
RandTaken == IF spRandQ = <<>> THEN <<>> ELSE Tail(spRandQ)

\* BT_HCI_EVT_CMD_COMPLETE of LE_RAND: bt_smp_mrand_half, bt_smp_mrand_complete and c1's first part.
RandDone ==
  /\ spCmds # <<>> /\ Head(spCmds)[1] = "rand"
  /\ spRnd' = spRnd + 1 /\ spRandQ' = RandTaken
  /\ IF spRandQ = <<>> THEN spCmds' = Tail(spCmds) /\ UNCHANGED <<spDev, spEncQ>> ELSE
     LET d == Head(spRandQ)[1] IN
     IF Head(spRandQ)[2] = "half"
       THEN /\ spDev' = [spDev EXCEPT ![d].rand = <<spRnd', @[2]>>]
            /\ spCmds' = Tail(spCmds) /\ UNCHANGED spEncQ
       ELSE /\ spDev' = [spDev EXCEPT ![d].rand = <<@[1], spRnd'>>]
            /\ AskEncrypt(d, "half", <<0, spDev'[d].rand>>)
  /\ UNCHANGED <<spPeer, spSent, spKeys, spLinks, spOdd>>

\* c1's second part is over what the first one gave.
Second(v) == IF v[1] = 0 THEN <<1, v[2]>> ELSE <<3, NoRand>>

\* bt_hci_get_encrypt_context.
EncTaken == IF spEncQ = <<>> THEN <<>> ELSE Tail(spEncQ)

\* ... of LE_ENCRYPT: bt_smp_confirm_half, bt_smp_confirm_complete, bt_smp_stk_complete.
EncDone ==
  /\ spCmds # <<>> /\ Head(spCmds)[1] = "enc"
  /\ IF spEncQ = <<>> THEN spCmds' = Tail(spCmds) /\ UNCHANGED <<spDev, spEncQ, spSent>> ELSE
     LET d == Head(spEncQ)[1]
         v == Head(spCmds)[2] IN
     /\ spDev' = [spDev EXCEPT ![d].ltk = v]
     /\ CASE Head(spEncQ)[2] = "half" ->
               /\ spEncQ' = Append(EncTaken, <<d, "complete">>)
               /\ spCmds' = Append(Tail(spCmds), <<"enc", Second(v)>>) /\ UNCHANGED spSent
          [] Head(spEncQ)[2] = "complete" ->
               /\ spSent' = Sends(d, [m |-> "confirm", v |-> v])
               /\ spEncQ' = EncTaken /\ spCmds' = Tail(spCmds)
          [] OTHER ->
               /\ spSent' = Sends(d, [m |-> "key", v |-> v])
               /\ spEncQ' = EncTaken /\ spCmds' = Tail(spCmds)
  /\ UNCHANGED <<spPeer, spRandQ, spRnd, spKeys, spLinks, spOdd>>

\* The controller refuses the command: the event's error branch does not know the opcodes.
Refused ==
  /\ spCmds # <<>> /\ "refused" \notin spOdd
  /\ spCmds' = Tail(spCmds) /\ spOdd' = spOdd \cup {"refused"}
  /\ UNCHANGED <<spDev, spPeer, spSent, spRandQ, spEncQ, spRnd, spKeys, spLinks>>

\* BT_SMP_CMD_PAIRING_CONFIRM.
PairingConfirm(d) ==
  /\ Takes(d, "confirm")
  /\ spPeer' = [spPeer EXCEPT ![d].wait = "random", ![d].conf = Head(spSent[d]).v]
  /\ spSent' = [spSent EXCEPT ![d] = Append(Tail(@), [m |-> "random", v |-> <<3, spDev[d].rand>>])]
  /\ UNCHANGED <<spDev, spRandQ, spEncQ, spCmds, spRnd, spKeys, spLinks, spOdd>>

\* The keys of the peer are there.
NoneLeft(dev) == dev.rdist = {}

\* bt_smp_key_distribution: the adapter's own keys, and on to the reports.
Distributed(dev) ==
  [dev EXCEPT !.inits = @ + 1,
              !.gave = @ \cup {IF dev.enc THEN k ELSE k \o " in clear" : k \in dev.ldist}]

\* The peer's check of the confirm value against the random number.
Agrees(d) == spPeer[d].conf = <<1, Head(spSent[d]).v[2]>>

\* BT_SMP_CMD_PAIRING_RANDOM: the peer's number, with s1 over both and the keys of a peer
\* that has none to give.
PairingRandom(d) ==
  /\ Takes(d, "random") /\ Agrees(d)
  /\ spPeer' = [spPeer EXCEPT ![d].wait = "key", ![d].rand = Head(spSent[d]).v[2]]
  /\ spSent' = Rest(d)
  /\ IF Len(spEncQ) < SpCap
       THEN /\ spEncQ' = Append(spEncQ, <<d, "stk">>)
            /\ spCmds' = Append(spCmds, <<"enc", <<2, spDev[d].rand>>>>)
       ELSE UNCHANGED <<spEncQ, spCmds>>
  /\ spDev' = IF NoneLeft(spDev[d]) THEN [spDev EXCEPT ![d] = Distributed(@)] ELSE spDev
  /\ UNCHANGED <<spRandQ, spRnd, spKeys, spLinks, spOdd>>

\* BT_SMP_CMD_PAIRING_FAIL, or a message the peer does not expect: the link stays as it is.
Fails(d) ==
  /\ spSent[d] # <<>> /\ spPeer[d].wait \notin {"failed", "off"}
  /\ Head(spSent[d]).m # spPeer[d].wait \/ (Head(spSent[d]).m = "random" /\ ~Agrees(d))
  /\ spPeer' = [spPeer EXCEPT ![d].wait = "failed"] /\ spSent' = [spSent EXCEPT ![d] = <<>>]
  /\ UNCHANGED <<spDev, spRandQ, spEncQ, spCmds, spRnd, spKeys, spLinks, spOdd>>

\* BT_HCI_EVT_ENCRYPT_CHANGE: the link is encrypted, and bt_att_hid_init starts.
Begins(dev) == [dev EXCEPT !.enc = TRUE, !.inits = @ + 1]
Same(d) ==
  CASE Head(spSent[d]).m = "key" -> Head(spSent[d]).v = <<2, spPeer[d].rand>>
    [] OTHER -> spKeys[d] = "whole"
Encrypted(d) ==
  /\ (Takes(d, "key") \/ Takes(d, "stored")) /\ Same(d)
  /\ spDev' = [spDev EXCEPT ![d] = Begins(@)]
  /\ spPeer' = [spPeer EXCEPT ![d].wait = "keys"] /\ spSent' = Rest(d)
  /\ UNCHANGED <<spRandQ, spEncQ, spCmds, spRnd, spKeys, spLinks, spOdd>>

\* ... or not: the key is forgotten and the link ended.
Forgotten(d) == [spKeys EXCEPT ![d] = "none"]
NotEncrypted(d) ==
  /\ Takes(d, "key") \/ Takes(d, "stored")
  /\ ~Same(d) \/ Takes(d, "stored")
  /\ spKeys' = Forgotten(d)
  /\ spDev' = [spDev EXCEPT ![d] = Free] /\ spPeer' = [spPeer EXCEPT ![d] = [Gone EXCEPT !.bad = TRUE]]
  /\ spSent' = [spSent EXCEPT ![d] = <<>>]
  /\ spOdd' = spOdd \cup (IF Queued(d) THEN {"stale"} ELSE {})
  /\ UNCHANGED <<spRandQ, spEncQ, spCmds, spRnd, spLinks>>

Giving(d) == spPeer[d].wait = "keys" /\ spDev[d].fresh

\* BT_SMP_CMD_ENCRYPT_INFO: bt_host_store_le_ltk.
EncryptInfo(d) ==
  /\ Giving(d) /\ "enc" \in spDev[d].rdist /\ spKeys[d] = "none"
  /\ spKeys' = [spKeys EXCEPT ![d] = "ltk"]
  /\ UNCHANGED <<spDev, spPeer, spSent, spRandQ, spEncQ, spCmds, spRnd, spLinks, spOdd>>

\* A key of the peer is there; the last one is followed by the adapter's.
Given(d, k) ==
  LET dev == [spDev[d] EXCEPT !.rdist = @ \ {k}] IN
  IF NoneLeft(dev) THEN Distributed(dev) ELSE dev

\* BT_SMP_CMD_MASTER_IDENT, BT_SMP_CMD_IDENT_ADDR_INFO, BT_SMP_CMD_SIGNING_INFO.
KeyGiven(d, k) ==
  /\ Giving(d) /\ k \in spDev[d].rdist
  /\ (k = "enc") => spKeys[d] # "none"
  /\ (k # "enc") => "enc" \notin spDev[d].rdist
  /\ spDev' = [spDev EXCEPT ![d] = Given(d, k)]
  /\ spKeys' = IF k = "enc" THEN [spKeys EXCEPT ![d] = "whole"] ELSE spKeys
  /\ UNCHANGED <<spPeer, spSent, spRandQ, spEncQ, spCmds, spRnd, spLinks, spOdd>>

Next ==
  \/ \E d \in SpDevs : Connect(d)
  \/ \E d \in SpDevs : Drop(d)
  \/ \E d \in SpDevs, r \in SpDist : PairingRsp(d, r)
  \/ RandDone \/ EncDone \/ Refused
  \/ \E d \in SpDevs : PairingConfirm(d) \/ PairingRandom(d) \/ Fails(d)
  \/ \E d \in SpDevs : Encrypted(d) \/ NotEncrypted(d) \/ EncryptInfo(d)
  \/ \E d \in SpDevs, k \in {"enc", "id", "sign"} : KeyGiven(d, k)

Spec == Init /\ [][Next]_spVars

TypeOK ==
  /\ Len(spRandQ) <= SpCap /\ Len(spEncQ) <= SpCap
  /\ \A d \in SpDevs : spKeys[d] \in {"none", "ltk", "whole"} /\ spDev[d].inits \in 0..2

\* No pairing fails by the adapter's doing (smp.c:270, 120): the confirm value and the random
\* number a peer gets fit together and the key is made of its own numbers, however the pairings
\* of two peers mix in the two queues, until a command is refused or a slot reset with
\* callbacks queued.
PairsWhole ==
  spOdd = {} => \A d \in SpDevs :
    /\ spPeer[d].wait # "failed"
    /\ Takes(d, "key") => Same(d)

\* The queues name who asked for what the controller still owes (hci.c:1774, 1785).
InStep ==
  "refused" \notin spOdd =>
    /\ Len(spRandQ) = Cardinality({i \in DOMAIN spCmds : spCmds[i][1] = "rand"})
    /\ Len(spEncQ) = Cardinality({i \in DOMAIN spCmds : spCmds[i][1] = "enc"})

\* The adapter's keys leave over an encrypted link, but for a peer that gives none: smp.c:284
\* distributes before the encryption it has just asked for.
KeysEncrypted ==
  \A d \in SpDevs : "id in clear" \in spDev[d].gave => spDev[d].rdist = {} /\ spKeys[d] = "none"

\* Who is encrypted with a key it left gets its reports looked up once, who pairs twice
\* (hci.c:1569, smp.c:150), and nobody on an encrypted link is forgotten.
LookedUp ==
  \A d \in SpDevs : spPeer[d].wait = "keys" =>
    spDev[d].inits = IF spDev[d].fresh /\ spDev[d].rdist = {} THEN 2 ELSE 1

\* A key that a peer refuses is not tried again (hci.c:1564), nor is a key that was left half,
\* the link gone before its ident, good for more than one refusal: the next link pairs.
PairsAfterRefusal ==
  \A d \in SpDevs : spPeer[d].bad /\ Up(d) => spDev[d].fresh
============================================================================
