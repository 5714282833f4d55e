------------------------------ MODULE AttChain -----------------------------
(***************************************************************************)
(* How the reports of an LE controller are found (att_hid.c): a chain of   *)
(* twelve states, each of which asks and goes on with the answer.  The     *)
(* answers carry no state: one that fits the present state's kind of       *)
(* answer is taken for its own, and another is dropped.                    *)
(*                                                                         *)
(* bt_att_hid_init starts the chain when the link is encrypted, and again  *)
(* when the peer has distributed its keys (smp.c:150), which may come at   *)
(* any step of the first.  The peer answers in order (ATT).                *)
(***************************************************************************)
EXTENDS Integers, Sequences, FiniteSets, SequencesExt

CONSTANTS
  AcPeers,   \* the peers: "pad", "keys", "tiny"; "full" and "many" have more reports than the
             \* table, "long" has a map larger than the buffer
  AcMax,     \* HID_MAX_REPORT
  AcBatch,   \* how many attributes an answer has room for
  AcParts,   \* answers that the report map takes
  AcRoom     \* answers that the buffer has room for (BT_SDP_DATA_SIZE)

VARIABLES
  acPeer,    \* the peer
  acState,   \* hid_state
  acReady,   \* BT_DEV_HID_INTR_READY
  acTab,     \* att_hid[]: report_cnt, report_found, report_idx, the handles and the reports
  acReqs,    \* requests the peer has not answered
  acSdp,     \* base.sdp_len and base.sdp_data
  acParsed,  \* what hid_parser got
  acVid,     \* base.vid: none, the peer's, or what was taken for it
  acSubs,    \* the descriptors the peer was told to notify by
  acInits,   \* runs of bt_att_hid_init
  acOdd      \* "late": it ran again when the name was known; "lacks": the peer has no name,
             \* appearance or PnP identifier

acVars == <<acPeer, acState, acReady, acTab, acReqs, acSdp, acParsed, acVid, acSubs, acInits,
            acOdd>>

\* The attributes of a peer's HID service, by handle, and its services: their first and last.
Hid == CASE acPeer = "keys" -> <<"service", "chrc", "report", "ccc", "ref", "chrc", "boot", "ccc",
                                 "chrc", "report", "ccc", "ref", "chrc", "map">>
         [] acPeer = "full" -> <<"service", "chrc", "map", "chrc", "report", "ref", "chrc",
                                 "report", "ref", "chrc", "report", "ref", "chrc", "report",
                                 "ref">>
         [] acPeer = "many" -> <<"service", "chrc", "map", "chrc", "report", "ref", "chrc",
                                 "report", "ref", "chrc", "report", "ref", "chrc", "report",
                                 "ref", "chrc", "report", "ref">>
         [] OTHER -> <<"service", "chrc", "map", "chrc", "report", "ccc", "ref",
                       "chrc", "report", "ref">>
Parts == IF acPeer = "long" THEN AcRoom + 1 ELSE AcParts
Services == <<<<1, Len(Hid)>>, <<20, IF acPeer = "tiny" THEN 20 ELSE 25>>>>

Row == [hdl |-> 0, cfg |-> 0, ref |-> 0, notify |-> FALSE, id |-> 0]
Wiped == [cnt |-> 0, found |-> FALSE, idx |-> 0, map |-> 0, first |-> 0, last |-> 0,
          rows |-> [i \in 0..AcMax |-> Row], over |-> FALSE]

Name == 0
Appearance == 1
Pnp == 2
FindHid == 3
IdentHid == 4
CharProp == 5
ReportMap == 6
ReportRef == 7
ReportCfg == 8
Ppcp == 9
Battery == 10
Done == 11

Ask(op, st, arg) == [op |-> op, st |-> st, arg |-> arg]

Init ==
  /\ acPeer \in AcPeers /\ acState = Name /\ acReady = FALSE /\ acTab = Wiped
  /\ acReqs = <<Ask("mtu", Name, 0)>> /\ acSdp = <<>> /\ acParsed = <<>> /\ acVid = "none"
  /\ acSubs = {} /\ acInits = 1 /\ acOdd = {}

\* bt_att_hid_init, when the peer's keys are there.
Again ==
  /\ acInits = 1 /\ acInits' = 2 /\ acTab' = Wiped
  /\ acReqs' = Append(acReqs, Ask("mtu", Name, 0))
  /\ acOdd' = acOdd \cup (IF acState # Name THEN {"late"} ELSE {})
  /\ UNCHANGED <<acPeer, acState, acReady, acSdp, acParsed, acVid, acSubs>>

----------------------------------------------------------------------------
\* Whether the characteristic that ends was a report.
Found(tab) == tab.found

\* One attribute of BT_ATT_OP_FIND_INFO_RSP; tab.stop: the table is full and the rest of this
\* answer is passed over.  The next answer is entered behind the table (tab.over): the guard looks
\* for the step to AcMax only.  What the entries there overwrite is left out.
Attribute(tab, h) ==
  LET i == IF tab.cnt > AcMax THEN AcMax ELSE tab.cnt
      set(f) == [tab EXCEPT !.rows[i] = f, !.over = @ \/ tab.cnt >= AcMax] IN
  IF tab.stop THEN tab ELSE
  CASE Hid[h] = "service" -> [tab EXCEPT !.cnt = 0]
    [] Hid[h] = "chrc" ->
         IF Found(tab) /\ tab.cnt + 1 = AcMax THEN [tab EXCEPT !.cnt = @ + 1, !.stop = TRUE]
         ELSE [tab EXCEPT !.cnt = IF Found(tab) THEN @ + 1 ELSE @, !.found = FALSE]
    [] Hid[h] = "report" -> [set([tab.rows[i] EXCEPT !.hdl = h]) EXCEPT !.found = TRUE]
    [] Hid[h] = "ccc" -> set([tab.rows[i] EXCEPT !.cfg = h])
    [] Hid[h] = "ref" -> set([tab.rows[i] EXCEPT !.ref = h])
    [] Hid[h] = "map" -> [tab EXCEPT !.map = h]
    [] OTHER -> tab
Attributes(tab, a, b) ==
  LET t == FoldLeft(Attribute, tab @@ [stop |-> FALSE], [i \in 1..(b - a + 1) |-> a + i - 1]) IN
  [tab EXCEPT !.cnt = t.cnt, !.found = t.found, !.map = t.map, !.rows = t.rows, !.over = t.over]

\* The characteristics of the peer: which reports notify.
Notifies(h) == h + 1 \in DOMAIN Hid /\ Hid[h + 1] = "ccc"

\* bt_att_hid_continue_report_cfg: the next report that notifies is told to.
ToTell(tab) == {i \in tab.idx..(AcMax - 1) : tab.rows[i].notify}
Least(S) == CHOOSE x \in S : \A y \in S : x <= y

Go(st, reqs) == acState' = st /\ acReqs' = reqs /\ UNCHANGED acReady

\* bt_att_hid_start_next_state and the start functions; q is what is asked already.
Enter(st, tab, q) ==
  CASE st \in {Appearance, Pnp, Ppcp, Battery} ->
         Go(st, Append(q, Ask("type", st, 1))) /\ acTab' = tab
    [] st = FindHid -> Go(st, Append(q, Ask("group", st, 1))) /\ acTab' = tab
    [] st = IdentHid -> Go(st, Append(q, Ask("info", st, tab.first))) /\ acTab' = tab
    [] st = CharProp -> Go(st, Append(q, Ask("type", st, tab.first))) /\ acTab' = tab
    [] st = ReportMap -> Go(st, Append(q, Ask("read", st, tab.map))) /\ acTab' = tab
    [] st = ReportRef ->
         Go(st, Append(q, Ask("read", st, tab.rows[0].ref))) /\ acTab' = [tab EXCEPT !.idx = 0]
    [] st = Done -> acState' = st /\ acReqs' = q /\ acReady' = TRUE /\ acTab' = tab
    [] OTHER -> FALSE
Tell(tab, q) ==
  IF ToTell(tab) = {} THEN Enter(Ppcp, tab, q)
  ELSE LET i == Least(ToTell(tab)) IN
       /\ Go(ReportCfg, Append(q, Ask("write", ReportCfg, tab.rows[i].cfg)))
       /\ acTab' = [tab EXCEPT !.idx = i + 1]
Onward(tab, q) ==
  CASE acState + 1 = ReportCfg -> Tell([tab EXCEPT !.idx = 0], q)
    [] OTHER -> Enter(acState + 1, tab, q)
More(r, q, tab) == Go(acState, Append(q, r)) /\ acTab' = tab

\* bt_att_hid_process_device_name: a name as long as the MTU, or none yet, takes another request.
ProcName(q, ok) ==
  /\ Onward(acTab, q) \/ (ok /\ More(Ask("blob", Name, 1), q, acTab))
  /\ UNCHANGED <<acSdp, acParsed, acVid, acSubs>>
\* bt_att_hid_process_pnp takes what comes for the PnP identifier.
ProcPnp(r, q, ok) ==
  /\ acVid' = IF ~ok THEN acVid ELSE IF r.st = Pnp THEN "pnp" ELSE "other"
  /\ Onward(acTab, q) /\ UNCHANGED <<acSdp, acParsed, acSubs>>

\* bt_att_hid_process_find_hid_hdls: on from the last handle of the last service.
FromEnd(s) == s[2]
After(h) == {s \in ToSet(Services) : s[1] >= h}
ProcFind(r, q, ok) ==
  /\ IF ok
       THEN LET s == CHOOSE x \in After(r.arg) : \A y \in After(r.arg) : x[1] <= y[1] IN
            More(Ask("group", FindHid, FromEnd(s)), q,
                 IF s[1] = 1 THEN [acTab EXCEPT !.first = s[1], !.last = s[2]] ELSE acTab)
       ELSE Onward(acTab, q)
  /\ UNCHANGED <<acSdp, acParsed, acVid, acSubs>>

\* bt_att_hid_process_ident_hid_hdls.
ProcIdent(r, q, ok) ==
  /\ IF ok
       THEN LET b == IF r.arg + AcBatch > Len(Hid) THEN Len(Hid) ELSE r.arg + AcBatch - 1
                tab == Attributes(acTab, r.arg, b) IN
            IF b < tab.last THEN More(Ask("info", IdentHid, b + 1), q, tab)
            ELSE Enter(CharProp, tab, q)
       ELSE Onward(acTab, q)
  /\ UNCHANGED <<acSdp, acParsed, acVid, acSubs>>

\* bt_att_hid_process_char_prop, a characteristic at a time.
Char(h) == {c \in h..Len(Hid) : Hid[c] = "chrc"}
ProcChar(r, q, ok) ==
  /\ IF ok /\ r.st = CharProp
       THEN LET c == Least(Char(r.arg))
                tab == [acTab EXCEPT !.rows = [i \in 0..AcMax |->
                          IF @[i].hdl = c + 1 THEN [@[i] EXCEPT !.notify = Notifies(c + 1)]
                          ELSE @[i]]] IN
            IF c < tab.last THEN More(Ask("type", CharProp, c + 1), q, tab) ELSE Onward(tab, q)
       ELSE Onward(acTab, q)
  /\ UNCHANGED <<acSdp, acParsed, acVid, acSubs>>

\* An answer as long as the MTU has more behind it.
Full(sdp) == Len(sdp) < Parts

\* bt_att_hid_process_report_map ends the chain when there is no report to look up.
HasReport(tab) == tab.rows[tab.idx].ref # 0

\* ... it gathers the map: sdp_len counts on, whoever has freed the buffer meanwhile, and whether or
\* not the buffer has room.
ProcMap(r, q, ok) ==
  LET sdp == IF ok THEN Append(acSdp, IF r.st = ReportMap THEN r.arg ELSE 0) ELSE acSdp IN
  /\ IF ok /\ r.st = ReportMap /\ Full(sdp)
       THEN /\ More(Ask("blob", ReportMap, Len(sdp)), q, acTab) /\ acSdp' = sdp
            /\ UNCHANGED acParsed
       ELSE /\ acParsed' = sdp /\ acSdp' = [i \in DOMAIN sdp |-> 0]
            /\ IF HasReport(acTab) THEN Onward(acTab, q)
               ELSE Go(acState, q) /\ acTab' = acTab
  /\ UNCHANGED <<acVid, acSubs>>

\* bt_att_hid_process_report_ref: the identifiers, a report at a time.
NextRef(tab) == IF tab.idx < AcMax THEN tab.rows[tab.idx].ref ELSE 0
ProcRef(r, q, ok) ==
  /\ IF ok
       THEN LET tab == [acTab EXCEPT !.rows[acTab.idx].id = IF r.st = ReportRef THEN r.arg ELSE -1,
                                     !.idx = @ + 1] IN
            IF NextRef(tab) # 0 THEN More(Ask("read", ReportRef, NextRef(tab)), q, tab)
            ELSE Onward(tab, q)
       ELSE Onward(acTab, q)
  /\ UNCHANGED <<acSdp, acParsed, acVid, acSubs>>

----------------------------------------------------------------------------
\* Whether the peer has what is asked; what it leaves out as it likes.
Has(r) ==
  CASE r.op = "mtu" -> {TRUE}
    [] r.op = "group" -> {After(r.arg) # {}}
    [] r.st = CharProp -> {r.arg # 0 /\ Char(r.arg) # {}}
    [] r.st \in {IdentHid, ReportMap, ReportRef, ReportCfg} -> {r.arg # 0}
    [] OTHER -> BOOLEAN

\* The answers that bt_att_hid_hdlr passes on in the present state.
Fits(op) ==
  CASE op = "type" -> acState \in {Name, Appearance, Pnp, CharProp, Ppcp, Battery}
    [] op = "read" -> acState \in {Name, ReportMap, ReportRef}
    [] op = "blob" -> acState \in {Name, ReportMap}
    [] op = "group" -> acState = FindHid
    [] op = "info" -> acState = IdentHid
    [] op = "write" -> acState = ReportCfg
    [] OTHER -> FALSE

Process(r, q, ok) ==
  CASE acState = Name -> ProcName(q, ok)
    [] acState = Pnp -> ProcPnp(r, q, ok)
    [] acState = FindHid -> ProcFind(r, q, ok)
    [] acState = IdentHid -> ProcIdent(r, q, ok)
    [] acState = CharProp -> ProcChar(r, q, ok)
    [] acState = ReportMap -> ProcMap(r, q, ok)
    [] acState = ReportRef -> ProcRef(r, q, ok)
    [] acState = ReportCfg ->
         /\ acSubs' = IF ok /\ r.op = "write" THEN acSubs \cup {r.arg} ELSE acSubs
         /\ Tell(acTab, q) /\ UNCHANGED <<acSdp, acParsed, acVid>>
    [] OTHER -> Onward(acTab, q) /\ UNCHANGED <<acSdp, acParsed, acVid, acSubs>>

\* bt_att_hid_hdlr with the peer's next answer.
Drops(q) == acReqs' = q /\ UNCHANGED <<acState, acReady, acTab, acSdp, acParsed, acVid, acSubs>>
Answer ==
  /\ acReqs # <<>>
  /\ LET r == Head(acReqs)
         q == Tail(acReqs) IN
     \E ok \in Has(r) :
     /\ IF acReady \/ (ok /\ r.op # "mtu" /\ ~Fits(r.op)) \/ (~ok /\ acState = Done)
         THEN Drops(q)
       ELSE IF r.op = "mtu"
         THEN /\ Go(Name, Append(q, Ask("type", Name, 1))) /\ acTab' = acTab
              /\ UNCHANGED <<acSdp, acParsed, acVid, acSubs>>
       ELSE Process(r, q, ok)
     /\ acOdd' = acOdd \cup (IF ~ok /\ r.st <= Pnp THEN {"lacks"} ELSE {})
  /\ UNCHANGED <<acPeer, acInits>>

Next == Again \/ Answer

Spec == Init /\ [][Next]_acVars

TypeOK ==
  /\ acState \in Name..Done /\ Len(acReqs) <= 3 /\ acTab.cnt \in 0..(AcMax + 2)
  /\ acTab.idx \in 0..AcMax /\ Len(acParsed) <= 2 * Parts + 1

Reports == {h \in DOMAIN Hid : Hid[h] = "report"}
Before(h) == Cardinality({g \in Reports : g < h})
Nth(i) == CHOOSE h \in Reports : Before(h) = i
RefOf(h) == h + (IF Notifies(h) THEN 2 ELSE 1)
Places == IF Cardinality(Reports) < AcMax THEN Cardinality(Reports) ELSE AcMax

\* The characteristics behind the last report there is a place for, and whether the peer's service
\* goes on in a later answer than the one with the first of them.
Behind == {c \in DOMAIN Hid : Hid[c] = "chrc" /\ Before(c) = AcMax}
GoesOn == \E c \in Behind : ((c - 1) \div AcBatch + 1) * AcBatch < Len(Hid)

\* What both starts ask before they meet was there to be had.
Undisturbed == acInits = 1 \/ acOdd = {}

\* When the controller is ready, the table has its reports in their order with their own
\* descriptors, as many as there are places, and every report there that notifies was told to
\* (att_hid.c:210, 371): also when the chain started twice, if that was before the name was known
\* and the peer has all that the two ask before they meet.
TableRight ==
  acReady /\ Undisturbed /\ ~GoesOn =>
    \A i \in 0..(Places - 1) :
      LET h == Nth(i) IN
      /\ acTab.rows[i].hdl = h /\ acTab.rows[i].ref = RefOf(h) /\ acTab.rows[i].id = RefOf(h)
      /\ Notifies(h) => h + 1 \in acSubs

\* The parser gets the report map, the whole of it and once, unless the chain started again
\* late: sdp_len does not (att_hid.c:324).
MapWhole ==
  acReady /\ Undisturbed /\ ~GoesOn =>
    Len(acParsed) = Parts /\ \A i \in 1..Parts : acParsed[i] # 0

\* No report is entered behind the table and no part of the map behind its buffer (att_hid.c:233,
\* 323), except where the code has no check: the peer's service goes on in an answer after the one
\* that filled the table, its map is larger than the buffer, or the chain started again late and the
\* answers of both starts are entered.
InTable ==
  /\ acTab.over => GoesOn \/ ~Undisturbed
  /\ Len(acSdp) > AcRoom => acPeer = "long" \/ ~Undisturbed

\* An answered search is followed by one that starts further on, unless the last service has a
\* single handle (att_hid.c:177).
MovesOn ==
  LET r == Head(acReqs)
      n == acReqs'[Len(acReqs')] IN
  acPeer # "tiny" /\ acReqs # <<>> /\ Len(acReqs') = Len(acReqs)
    /\ n.op = r.op /\ r.op \in {"group", "info"}
    => n.arg > r.arg

(***************************************************************************)
(* The inductive invariant of the search.                                  *)
(***************************************************************************)
\* A search for services is asked for in FindHid only, one for attributes in IdentHid only.
Asked(r) ==
  /\ r.st \in Name..Done /\ (r.op = "mtu" => r.st = Name)
  /\ (r.op = "group" <=> r.st = FindHid) /\ (r.op = "info" <=> r.st = IdentHid)
  /\ r.op \in {"group", "info"} => r.arg \in Nat

\* The last request is that of the present state, or the MTU's of a second start; one before it
\* is not of a later state, unless the second start has just begun anew.
InStep ==
  LET last == acReqs[Len(acReqs)] IN
  acReqs # <<>> /\ ~acReady =>
    /\ last.op = "mtu" \/ last.st = acState
    /\ Len(acReqs) = 2 /\ acReqs[1].op # "mtu" => acReqs[1].st <= acState \/ acState = Name

\* The service is the one the peer has.
Bounded(tab) ==
  /\ DOMAIN tab = {"cnt", "found", "idx", "map", "first", "last", "rows", "over"}
  /\ tab.first \in 0..1 /\ tab.last \in {0, Len(Hid)}

\* At most one request of each start is on its way.
OnTheWay ==
  \/ acReqs = <<>>
  \/ acReqs = <<acReqs[1]>> /\ Asked(acReqs[1])
  \/ acReqs = <<acReqs[1], acReqs[2]>> /\ Asked(acReqs[1]) /\ Asked(acReqs[2]) /\ acInits = 2

Ind == acState \in Name..Done /\ acInits \in 1..2 /\ Bounded(acTab) /\ OnTheWay /\ InStep
=============================================================================
