------------------------------ MODULE CfgReads ------------------------------
(***************************************************************************)
(* What the configuration service answers (att_cfg.c): which services and  *)
(* characteristics there are, by ranges of handles, and the long values by *)
(* offsets.  The client does as the Bluetooth specification says: it asks  *)
(* on from behind the last handle it got, and reads a value until an       *)
(* answer is shorter than the longest there could be.                      *)
(*                                                                         *)
(* A mapping is longer than the longest value (ATT_MAX_LEN): the client    *)
(* moves a window over it with the control value.  The MTU, the window and *)
(* the place on the memory card are variables of the adapter, and stay     *)
(* what they are from one client to the next.                              *)
(***************************************************************************)
EXTENDS Integers, Sequences, FiniteSetsExt

CONSTANTS
  CrMtus,    \* what clients ask for: an MTU less its header
  CrLens,    \* how long mappings are (cfg_len)
  CrMax,     \* ATT_MAX_LEN
  CrBlock,   \* a block of the memory card
  CrWord,    \* a word
  CrCard,    \* where the memory card ends
  CrClients  \* clients

VARIABLES
  crMtu,     \* mtu, less the header
  crLen,     \* cfg_len of the mapping that is read
  crWindow,  \* in_cfg_offset
  crMc,      \* mc_offset
  crDir,     \* the directory: handles that are open; d is NULL, good or stale; what was done
             \* to one that is not open; whether a client has asked to close one
  crClient,  \* the client: its number, its MTU, what it does and where it is
  crGot,     \* what the present read has brought: places of the value
  crFound,   \* services and characteristics the client has found
  crOdd      \* "mtu": no exchange after another client's; "changed": the mapping was, while read

crVars == <<crMtu, crLen, crWindow, crMc, crDir, crClient, crGot, crFound, crOdd>>

\* The handles: of the services, and of their characteristics' declarations.
GATT_GRP == 1
GATT_LAST == 3
GAP_GRP == 20
GAP_PPCP == 26
BR_GRP == 64
LAST == 88
Handles == {<<GATT_GRP, GATT_LAST>>, <<GAP_GRP, GAP_PPCP>>, <<BR_GRP, LAST>>}
Declared == {2} \cup {21, 23, 25} \cup {65 + 2 * i : i \in 0..11}

Shortest == 4   \* the MTU of a client that asks for none, less the header, to scale
Nothing == [services |-> {}, chars |-> {}]
Idle == <<"idle">>

Init ==
  /\ crMtu = Shortest /\ crLen \in CrLens /\ crWindow = 0 /\ crMc = 0
  /\ crDir = [open |-> 0, d |-> "null", bad |-> {}, ended |-> FALSE]
  /\ crClient = [n |-> 0, mtu |-> Shortest, does |-> Idle] /\ crGot = <<>> /\ crFound = Nothing
  /\ crOdd = {}

Does(what) == crClient.does[1] = what
Turns(what) == crClient' = [crClient EXCEPT !.does = what]

\* A client comes, after another has left.
Connect ==
  /\ Does("idle") /\ crClient.n < CrClients
  /\ crClient' = [n |-> crClient.n + 1, mtu |-> Shortest, does |-> <<"services", 1>>]
  /\ crGot' = <<>> /\ crFound' = Nothing
  /\ crOdd' = IF crMtu # Shortest THEN {"mtu"} ELSE {}
  /\ UNCHANGED <<crMtu, crLen, crWindow, crMc, crDir>>
Leave ==
  /\ Does("ready") /\ Turns(Idle)
  /\ UNCHANGED <<crMtu, crLen, crWindow, crMc, crDir, crGot, crFound, crOdd>>

\* BT_ATT_OP_MTU_REQ.
Longest == Max(CrMtus)
Exchange(mtu) ==
  /\ ~Does("idle") /\ crGot = <<>> /\ crClient.mtu = Shortest
  /\ crMtu' = (IF mtu < Longest THEN mtu ELSE Longest)
  /\ crClient' = [crClient EXCEPT !.mtu = crMtu'] /\ crOdd' = crOdd \ {"mtu"}
  /\ UNCHANGED <<crLen, crWindow, crMc, crDir, crGot, crFound>>

\* bt_att_cmd_read_group_rsp.
Groups(start) ==
  IF start > LAST THEN {}
  ELSE IF start <= GAP_PPCP
    THEN {g \in Handles : g[1] \in {GATT_GRP, GAP_GRP} /\ start <= g[1]}
    ELSE {g \in Handles : g[1] = BR_GRP /\ start <= g[1]}
FindServices ==
  /\ Does("services")
  /\ LET got == Groups(crClient.does[2]) IN
     IF got = {} THEN Turns(<<"chars", Handles>>) /\ UNCHANGED crFound
     ELSE /\ Turns(<<"services", Max({g[2] : g \in got}) + 1>>)
          /\ crFound' = [crFound EXCEPT !.services = @ \cup got]
  /\ UNCHANGED <<crMtu, crLen, crWindow, crMc, crDir, crGot, crOdd>>

\* A declaration has an odd handle.
Odd(start) == IF (start % 2) = 0 THEN start + 1 ELSE start

\* BT_ATT_OP_READ_TYPE_REQ.
Chars(start, end) ==
  IF start \in GATT_GRP..(GATT_LAST - 1) /\ end >= GATT_LAST THEN {2}
  ELSE IF start \in GATT_LAST..(GAP_PPCP - 1) /\ end >= GAP_PPCP THEN {21, 23, 25}
  ELSE IF start \in GAP_PPCP..(LAST - 1) /\ end >= LAST THEN {Odd(start)}
  ELSE {}
FindChars ==
  /\ Does("chars")
  /\ LET g == CHOOSE g \in crClient.does[2] : \A h \in crClient.does[2] : g[1] <= h[1]
         rest == crClient.does[2] \ {g}
         got == Chars(g[1], g[2])
     IN /\ crFound' = [crFound EXCEPT !.chars = @ \cup got]
        /\ Turns(IF got # {} THEN <<"chars", rest \cup {<<Max(got) + 1, g[2]>>}>>
                 ELSE IF rest # {} THEN <<"chars", rest>> ELSE <<"ready">>)
  /\ UNCHANGED <<crMtu, crLen, crWindow, crMc, crDir, crGot, crOdd>>

\* BR_IN_CFG_CTRL_CHRC_HDL, and the first of the reads: the mapping, window by window.
Window(from) ==
  /\ Does("ready") /\ crWindow' = from /\ crGot' = <<>>
  /\ Turns(<<"read", from>>) /\ crOdd' = crOdd \ {"changed"}
  /\ UNCHANGED <<crMtu, crLen, crMc, crDir, crFound>>

\* No value is longer than ATT_MAX_LEN.
Cut(offset, n) == IF offset + n > CrMax THEN CrMax - offset ELSE n

\* bt_att_cmd_in_cfg_rd_rsp: how much is answered.
Answered(offset) ==
  IF crWindow + offset > crLen \/ offset > CrMax THEN 0
  ELSE Cut(offset, Min({crLen - (crWindow + offset), crMtu}))
Places(from, n) == [i \in 1..n |-> from + i]
ReadMapping ==
  /\ Does("read")
  /\ LET offset == Len(crGot)
         n == Answered(offset)
     IN /\ crGot' = crGot \o Places(crWindow + offset, n)
        /\ Turns(IF n < crClient.mtu \/ Len(crGot') = CrMax
                   THEN <<"over", crClient.does[2]>> ELSE crClient.does)
  /\ UNCHANGED <<crMtu, crLen, crWindow, crMc, crDir, crFound, crOdd>>

\* The value is read, and the next window is, if this one was full.
Over ==
  /\ Does("over")
  /\ IF Len(crGot) = CrMax
       THEN crWindow' = crClient.does[2] + CrMax /\ Turns(<<"read", crWindow'>>) /\ crGot' = <<>>
       ELSE UNCHANGED crWindow /\ Turns(<<"ready">>) /\ crGot' = <<>>
  /\ UNCHANGED <<crMtu, crLen, crMc, crDir, crFound, crOdd>>

\* bt_fb_task loads another configuration meanwhile.
Changes(n) ==
  /\ Does("ready") \/ Does("read") \/ Does("over")
  /\ n # crLen /\ crLen' = n
  /\ crOdd' = crOdd \cup (IF Does("read") \/ Does("over") THEN {"changed"} ELSE {})
  /\ UNCHANGED <<crMtu, crWindow, crMc, crDir, crClient, crGot, crFound>>

\* Mutant of CardLen: the block's end is not regarded.
CardLenFull(at) == (crMtu - 1) - ((crMtu - 1) % CrWord)

\* How much of the card is answered: to the end of its block, or whole words, and then less than
\* the longest answer, so that no client asks for more of it with a blob.
CardLen(at) ==
  LET rest == CrBlock - (at % CrBlock)
  IN IF rest > crMtu - 1 THEN (crMtu - 1) - ((crMtu - 1) % CrWord) ELSE rest

\* BR_MC_CTRL_CHRC_HDL; bt_att_cmd_mc_rd_rsp: reads go on where the last one ended.
McSeek(at) == Does("ready") /\ crMc' = at /\ crGot' = <<>> /\ Turns(<<"card", at>>)
  /\ UNCHANGED <<crMtu, crLen, crWindow, crDir, crFound, crOdd>>
McRead ==
  /\ Does("card") /\ crMc < CrCard
  /\ LET n == CardLen(crMc)
     IN /\ crGot' = crGot \o Places(crMc, n) /\ crMc' = crMc + n
        /\ Turns(<<"card", crClient.does[2], n>>)
  /\ UNCHANGED <<crMtu, crLen, crWindow, crDir, crFound, crOdd>>
McEnd ==
  /\ Does("card") /\ Turns(<<"ready">>) /\ crGot' = <<>>
  /\ UNCHANGED <<crMtu, crLen, crWindow, crMc, crDir, crFound, crOdd>>

\* closedir, if d is not NULL: d is not reset, and what was closed before is closed again.
Closed(dir) ==
  CASE dir.d = "null" -> dir
    [] dir.d = "good" -> [dir EXCEPT !.open = @ - 1, !.d = "stale"]
    [] dir.d = "stale" -> [dir EXCEPT !.bad = @ \cup {"closed"}]

\* CFG_CMD_OPEN_DIR, where opendir may fail; CFG_CMD_CLOSE_DIR; CFG_CMD_GET_FILE, which reads what d
\* points to.  Once it has used a directory that is not open nothing is known of the adapter.
Known == Does("ready") /\ crDir.bad = {}
OpenDir(ok) ==
  /\ Known
  /\ LET closed == Closed(crDir) IN
     crDir' = [open |-> IF ok THEN closed.open + 1 ELSE closed.open,
                d |-> IF ok THEN "good" ELSE "null",
               bad |-> closed.bad, ended |-> closed.ended]
  /\ UNCHANGED <<crMtu, crLen, crWindow, crMc, crClient, crGot, crFound, crOdd>>
CloseDir ==
  /\ Known
  /\ LET closed == Closed(crDir) IN
     crDir' = [open |-> closed.open, d |-> closed.d, bad |-> closed.bad, ended |-> TRUE]
  /\ UNCHANGED <<crMtu, crLen, crWindow, crMc, crClient, crGot, crFound, crOdd>>
GetFile ==
  /\ Known
  /\ crDir' = IF crDir.d = "good" THEN crDir ELSE [crDir EXCEPT !.bad = @ \cup {"read"}]
  /\ UNCHANGED <<crMtu, crLen, crWindow, crMc, crClient, crGot, crFound, crOdd>>

Next ==
  \/ Connect \/ Leave \/ FindServices \/ FindChars \/ Window(0) \/ ReadMapping \/ Over
  \/ \E mtu \in CrMtus : Exchange(mtu)
  \/ \E n \in CrLens : Changes(n)
  \/ \E at \in {0, CrBlock} : McSeek(at)
  \/ McRead \/ McEnd \/ OpenDir(TRUE) \/ OpenDir(FALSE) \/ CloseDir \/ GetFile

Spec == Init /\ [][Next]_crVars

TypeOK ==
  /\ crMtu \in CrMtus \cup {Shortest} /\ crLen \in CrLens /\ crMc \in 0..CrCard
  /\ crDir.open \in 0..1 /\ crDir.d \in {"null", "good", "stale"}
  /\ crFound.services \subseteq Handles

\* A client finds every service and every characteristic, and no other (att_cfg.c:154 makes up the
\* declaration's handle from the one asked for).
FoundRight ==
  /\ crFound.chars \subseteq Declared
  /\ ~Does("idle") /\ ~Does("services") => crFound.services = Handles
  /\ Does("ready") => crFound.chars = Declared

\* A client that has read a window has it whole and in order, to the end of the mapping or to the
\* longest value: unless the mapping changed meanwhile (att_cfg.c:256 computes its length for every
\* answer), or the MTU is another client's (att_cfg.c:87 is not reset).
WindowWhole ==
  Does("over") /\ crOdd = {} =>
    crGot = Places(crClient.does[2], Min({CrMax, Max({0, crLen - crClient.does[2]})}))

\* Reads of the memory card follow each other without a gap, and none reaches from one block into
\* the next (memory_card.c:167), nor is so long that the client would ask for more of it.
CardInOrder ==
  Does("card") =>
    /\ crGot = Places(crClient.does[2], Len(crGot))
    /\ Len(crClient.does) = 3 =>
         /\ (crMc - crClient.does[3]) \div CrBlock = (crMc - 1) \div CrBlock
         /\ "mtu" \notin crOdd => crClient.does[3] < crClient.mtu

\* At most one directory is open, and that is the one that is read, as long as none has been used
\* that is not open (att_cfg.c:512).  One that is closed is closed again only where a client asked
\* to close one before: opening again and again, with failures, closes each just once.
OneDirectory ==
  /\ crDir.bad = {} => crDir.open <= 1 /\ (crDir.open = 1 <=> crDir.d = "good")
  /\ "closed" \in crDir.bad => crDir.ended

(***************************************************************************)
(* The inductive invariant.                                                *)
(***************************************************************************)
Numbers ==
  /\ crMtu \in Nat /\ crMtu >= Shortest /\ crLen \in Nat /\ crWindow \in Nat /\ crMc \in Nat
  /\ crClient = [n |-> crClient.n, mtu |-> crClient.mtu, does |-> crClient.does]
  /\ crClient.mtu \in Nat /\ crClient.mtu >= Shortest
  /\ crGot \in Seq(Nat) /\ crOdd \subseteq {"mtu", "changed"}

\* The client asks for services, then for characteristics from handle k of group g on, and has
\* what lies before.
Searches ==
  \/ crClient.does = Idle /\ crFound.chars \subseteq Declared
  \/ \E k \in {GATT_GRP, GAP_PPCP + 1, LAST + 1} :
       /\ crClient.does = <<"services", k>>
       /\ crFound = [services |-> {h \in Handles : h[1] < k}, chars |-> {}]
  \/ \E g \in Handles : \E k \in g[1]..g[2] :
       /\ crClient.does = <<"chars", {<<k, g[2]>>} \cup {h \in Handles : h[1] > k}>>
       /\ crFound = [services |-> Handles, chars |-> {c \in Declared : c < k}]
  \/ /\ crFound = [services |-> Handles, chars |-> Declared]
     /\ \/ crClient.does = <<"ready">>
        \/ crClient.does = <<"read", crWindow>>
        \/ crClient.does = <<"over", crWindow>>
        \/ \E at \in {0, CrBlock} : \/ crClient.does = <<"card", at>>
                                    \/ \E n \in 1..CrBlock : crClient.does = <<"card", at, n>>

\* What the adapter takes for the MTU is that of the client.
Asked == "mtu" \notin crOdd => crMtu = crClient.mtu

\* What has been read of the window is its beginning, and in the end the whole of it.
Reading ==
  (Does("read") \/ Does("over")) /\ "changed" \notin crOdd /\ (crOdd = {} \/ crGot = <<>>) =>
    LET whole == Min({CrMax, Max({0, crLen - crWindow})}) IN
    /\ crGot = Places(crWindow, Len(crGot)) /\ Len(crGot) <= whole
    /\ Does("over") => Len(crGot) = whole

\* What has been read of the card ends where the next read begins.
Carding ==
  Does("card") =>
    /\ crMc = crClient.does[2] + Len(crGot) /\ crGot = Places(crClient.does[2], Len(crGot))
    /\ Len(crClient.does) = 3 =>
         /\ crGot # <<>>
         /\ (crMc - crClient.does[3]) \div CrBlock = (crMc - 1) \div CrBlock
         /\ "mtu" \notin crOdd => crClient.does[3] < crClient.mtu

Directory ==
  /\ crDir \in [open : 0..1, d : {"null", "good", "stale"}, bad : SUBSET {"closed", "read"},
                ended : BOOLEAN]
  /\ crDir.d = "stale" => crDir.ended
  /\ OneDirectory

Ind == Numbers /\ Searches /\ Asked /\ Reading /\ Carding /\ Directory
=============================================================================
