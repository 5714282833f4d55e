------------------------------ MODULE LinkKeys -----------------------------
(***************************************************************************)
(* The keys of paired controllers (host.c): one store for BR/EDR and one   *)
(* for LE, each a table of sixteen with the index of the next to be        *)
(* overwritten, written whole to a file after every change, in place.  The *)
(* keys come and are asked for by events of the Bluetooth controller       *)
(* (hci.c), and an LE key comes in two parts (smp.c).                      *)
(*                                                                         *)
(* The power may go at any step.  What a rewritten file holds after that   *)
(* is what had been written, and fread takes what is there.  A file that   *)
(* cannot be opened is not written, or not read, and nobody is told: the   *)
(* callers drop the result.                                                *)
(***************************************************************************)
EXTENDS Integers, FiniteSets

CONSTANTS
  LkPeers,   \* addresses
  LkSize,    \* entries of the table
  LkPairings,  \* pairings
  LkCuts     \* power cuts

VARIABLES
  lkKind,    \* "br" or "le": which of the stores
  lkTab,     \* index, and the entries: address, key, ident
  lkFile,    \* what the file holds: index and entries
  lkStep,    \* "run"; "store": in the middle of the file; "off"
  lkPeer,    \* what the peers hold, and who has paired without the adapter knowing yet
  lkNews,    \* the pairing with which each came into the table last, or 0
  lkCount,   \* pairings and cuts so far
  lkOdd      \* "unsaved": the file could not be opened for the last change; "cut": the
             \* power went then, or with a key on the way; "unread": the file could not
             \* be opened at boot; "hole": an LE key was cleared

lkVars == <<lkKind, lkTab, lkFile, lkStep, lkPeer, lkNews, lkCount, lkOdd>>

Nobody == 0
NoEntry == [a |-> Nobody, key |-> 0, ident |-> 0]
Empty == [index |-> 1, keys |-> [i \in 1..LkSize |-> NoEntry]]

Init ==
  /\ lkKind \in {"br", "le"}
  /\ lkTab = Empty /\ lkFile = Empty /\ lkStep = "run"
  /\ lkPeer = [key |-> [p \in LkPeers |-> 0], untold |-> {}]
  /\ lkNews = [p \in LkPeers |-> 0] /\ lkCount = [pairings |-> 0, cuts |-> 0] /\ lkOdd = {}

\* Where a peer's key goes: to its own, or to the oldest.
Place(tab, a) ==
  IF \E i \in 1..LkSize : tab.keys[i].a = a
    THEN CHOOSE i \in 1..LkSize : tab.keys[i].a = a /\ \A j \in (i + 1)..LkSize : tab.keys[j].a # a
    ELSE tab.index

\* Mutant of Moved: the index stays.
MovedNot(tab, i) == tab.index

\* Mutant of Moved: the index does not wrap.
MovedOut(tab, i) == IF i # tab.index THEN tab.index ELSE tab.index + 1

\* The index moves on when its entry was written, and wraps.
Moved(tab, i) == IF i # tab.index THEN tab.index ELSE (tab.index % LkSize) + 1

\* bt_host_store_link_key, bt_host_store_le_ltk, bt_host_store_le_ident, up to the file.
Stored(tab, a, f, k) ==
  LET i == Place(tab, a) IN
  [index |-> Moved(tab, i), keys |-> [tab.keys EXCEPT ![i] = [@ EXCEPT !.a = a, ![f] = k]]]
Brings(a) == IF \E i \in 1..LkSize : lkTab.keys[i].a = a /\ i # lkTab.index THEN lkNews
             ELSE [lkNews EXCEPT ![a] = lkCount.pairings]
Short(n) == [lkTab EXCEPT !.keys = [i \in 1..LkSize |-> IF i <= n THEN @[i] ELSE NoEntry]]

\* The table is written to the file, which is empty at first, or stays as it was.
SaveBegins ==
  \/ lkStep' = "store" /\ lkFile' = Empty /\ lkOdd' = lkOdd \ {"unsaved"}
  \/ lkStep' = "run" /\ lkFile' = lkFile /\ lkOdd' = lkOdd \cup {"unsaved"}

\* A controller pairs: it has the new key first.
Pairs(a) ==
  /\ lkStep = "run" /\ lkCount.pairings < LkPairings /\ lkPeer.untold = {}
  /\ lkCount' = [lkCount EXCEPT !.pairings = @ + 1]
  /\ lkPeer' = [key |-> [lkPeer.key EXCEPT ![a] = lkCount'.pairings], untold |-> {<<a, "key">>}]
  /\ UNCHANGED <<lkKind, lkTab, lkFile, lkStep, lkNews, lkOdd>>

\* BT_HCI_EVT_LINK_KEY_NOTIFY, BT_SMP_CMD_ENCRYPT_INFO, BT_SMP_CMD_MASTER_IDENT, up to the file.
Told(a, f) ==
  /\ lkStep = "run" /\ <<a, f>> \in lkPeer.untold
  /\ lkTab' = Stored(lkTab, a, f, lkPeer.key[a]) /\ SaveBegins
  /\ lkNews' = Brings(a)
  /\ lkPeer' = [lkPeer EXCEPT !.untold =
       IF lkKind = "le" /\ f = "key" THEN {<<a, "ident">>} ELSE {}]
  /\ UNCHANGED <<lkKind, lkCount>>

\* bt_host_clear_le_ltk: the peer refused the key.
ClearLe(a) ==
  /\ lkStep = "run" /\ lkKind = "le" /\ lkPeer.untold = {}
  /\ \E i \in 1..LkSize : lkTab.keys[i].a = a /\ lkTab.keys[i].key # 0
  /\ lkTab' = [lkTab EXCEPT !.keys = [i \in 1..LkSize |->
                 IF @[i].a = a THEN NoEntry ELSE @[i]]]
  /\ \/ lkStep' = "store" /\ lkFile' = Empty
     \/ lkStep' = "run" /\ UNCHANGED lkFile
  /\ lkOdd' = lkOdd \cup {"hole"}
  /\ lkNews' = [lkNews EXCEPT ![a] = 0]
  /\ lkPeer' = [lkPeer EXCEPT !.key[a] = 0]
  /\ UNCHANGED <<lkKind, lkCount>>

\* bt_host_store_keys_on_file, bt_host_store_le_keys_on_file.
Written == lkTab
StoreFile ==
  /\ lkStep = "store" /\ lkStep' = "run" /\ lkFile' = Written
  /\ UNCHANGED <<lkKind, lkTab, lkPeer, lkNews, lkCount, lkOdd>>

\* The power goes; in the middle of the file, any part of it is there.
PowerCut ==
  /\ lkStep # "off" /\ lkCount.cuts < LkCuts /\ lkCount' = [lkCount EXCEPT !.cuts = @ + 1]
  /\ lkStep' = "off"
  /\ IF lkStep = "store" THEN \E n \in 0..LkSize : lkFile' = Short(n) ELSE UNCHANGED lkFile
  /\ lkPeer' = [lkPeer EXCEPT !.untold = {}]
  /\ lkOdd' = IF lkStep = "store" \/ lkPeer.untold # {} \/ "unsaved" \in lkOdd
              THEN (lkOdd \ {"unsaved"}) \cup {"cut"} ELSE lkOdd
  /\ UNCHANGED <<lkKind, lkTab, lkNews>>

\* bt_host_load_keys_from_file, bt_host_load_le_keys_from_file.
Boot ==
  /\ lkStep = "off" /\ lkStep' = "run"
  /\ \/ lkTab' = lkFile /\ UNCHANGED lkOdd
     \/ lkTab' = Empty /\ lkOdd' = lkOdd \cup {"unread"}
  /\ UNCHANGED <<lkKind, lkFile, lkPeer, lkNews, lkCount>>

Next ==
  \/ \E a \in LkPeers : Pairs(a) \/ ClearLe(a)
  \/ \E a \in LkPeers, f \in {"key", "ident"} : Told(a, f)
  \/ StoreFile \/ PowerCut \/ Boot

Spec == Init /\ [][Next]_lkVars

\* bt_host_load_link_key, bt_host_load_le_ltk: what a peer's request is answered with.
Loaded(a) == {e \in {lkTab.keys[i] : i \in 1..LkSize} : e.a = a}

TypeOK == lkTab.index \in 1..LkSize /\ lkStep \in {"run", "store", "off"}

\* A peer has one entry (host.c:684, 728): a request (hci.c:1869) has one answer.
OneEntryEach == \A a \in LkPeers : Cardinality(Loaded(a)) <= 1

\* What makes an answer wrong.  (A change that is not in the file alone does not, while the power
\* stays and until the next that is.)
Odd == lkOdd \ {"unsaved"}

Recent ==
  {a \in LkPeers : lkNews[a] > 0 /\ Cardinality({b \in LkPeers : lkNews[b] > lkNews[a]}) < LkSize}

\* The last peers that came into the table, as many as it has entries, are answered with the
\* key they hold, also after the power went, unless a key was on its way, the last change could
\* not be put in the file or the file not be read, or a key was cleared (which leaves its entry
\* free and overwrites another's).
AnswersRight ==
  lkStep = "run" /\ Odd = {} =>
    \A a \in Recent : <<a, "key">> \notin lkPeer.untold =>
      \E e \in Loaded(a) : e.key = lkPeer.key[a]

\* A step that takes a's key out of the table does so for want of a free entry.
Leaves ==
  \A a \in LkPeers :
    Loaded(a) # {} /\ lkStep = "run" /\ Odd' = {}
      /\ (\A i \in 1..LkSize : lkTab'.keys[i].a # a)
    => \A i \in 1..LkSize : lkTab.keys[i].a # Nobody

(***************************************************************************)
(* The inductive invariant.                                                *)
(***************************************************************************)
Entries == [a : LkPeers \cup {Nobody}, key : Nat, ident : Nat]
Tables == [index : 1..LkSize, keys : [1..LkSize -> Entries]]

Types ==
  /\ lkTab \in Tables /\ lkFile \in Tables /\ lkStep \in {"run", "store", "off"}
  /\ lkPeer \in [key : [LkPeers -> Nat], untold : SUBSET (LkPeers \X {"key", "ident"})]
  /\ lkNews \in [LkPeers -> Nat] /\ lkCount \in [pairings : Nat, cuts : Nat]

Single(tab) ==
  \A i, j \in 1..LkSize : tab.keys[i].a = tab.keys[j].a /\ tab.keys[i].a # Nobody => i = j

\* The pairing whose key is on its way is the last, and those who came before came with earlier
\* ones.
Numbered ==
  /\ \A a \in LkPeers : lkNews[a] <= lkCount.pairings
  /\ \A t \in lkPeer.untold :
       /\ \A u \in lkPeer.untold : u = t
       /\ lkCount.pairings > 0
       /\ \A b \in LkPeers : b # t[1] => lkNews[b] < lkCount.pairings

\* The table is filled from its beginning.
Filled ==
  \A i \in 1..LkSize : lkTab.keys[i].a = Nobody =>
    i >= lkTab.index /\ \A j \in 1..LkSize : j >= lkTab.index => lkTab.keys[j].a = Nobody

\* The entry that is overwritten next is that of the peer that came first, and so on around the
\* table.
Older(i, j) ==
  IF i >= lkTab.index THEN j < lkTab.index \/ i < j ELSE j < lkTab.index /\ i < j
InTurn ==
  \A i, j \in 1..LkSize :
    Older(i, j) /\ lkTab.keys[i].a # Nobody /\ lkTab.keys[j].a # Nobody =>
      lkNews[lkTab.keys[i].a] < lkNews[lkTab.keys[j].a]

\* Who is not in the table any more came before all who are.
Left ==
  \A a \in LkPeers : lkNews[a] > 0 =>
    \/ \E i \in 1..LkSize : lkTab.keys[i].a = a
    \/ \A i \in 1..LkSize : lkTab.keys[i].a # Nobody /\ lkNews[lkTab.keys[i].a] > lkNews[a]

Held ==
  \A i \in 1..LkSize : lkTab.keys[i].a # Nobody =>
    /\ lkNews[lkTab.keys[i].a] > 0
    /\ \/ <<lkTab.keys[i].a, "key">> \in lkPeer.untold
       \/ lkTab.keys[i].key = lkPeer.key[lkTab.keys[i].a]

\* An LE key's second part finds the entry of the first.
Half ==
  \A a \in LkPeers : <<a, "ident">> \in lkPeer.untold => \E i \in 1..LkSize : lkTab.keys[i].a = a

Clean ==
  Odd = {} =>
    /\ lkStep = "off" \/ (lkStep = "run" /\ "unsaved" \notin lkOdd) => lkFile = lkTab
    /\ Filled /\ InTurn /\ Left /\ Held /\ Half

Ind == Types /\ Single(lkTab) /\ Single(lkFile) /\ Numbered /\ Clean
=============================================================================
