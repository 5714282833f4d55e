--------------------------- MODULE LinkTableProofs ---------------------------
(***************************************************************************)
(* Proofs about LinkTable, for every size of the device table, any peers   *)
(* and handles, and any number of pages, lost links, failures and button   *)
(* presses: the types, that a peer and a handle have one slot each, that   *)
(* the inquiry runs when nobody is connected and inquiry_state tells what  *)
(* the controller does, and that no slot is leaked.                        *)
(*                                                                         *)
(* All of it rests on the order of the events: the handlers see the past   *)
(* of the controller, and what they find in the table fits the links again *)
(* once the events on their way have been handled.                         *)
(***************************************************************************)
EXTENDS LinkTable, FiniteSetTheorems, WellFoundedInduction, TLAPS

(***************************************************************************)
(* The commands and the events, by what they are about.                    *)
(***************************************************************************)
Command ==
  [c : {"inquiry", "exit_inquiry"}] \cup [c : {"connect", "accept", "name"}, addr : Addrs]
    \cup [c : {"disc"}, handle : Handles \cup {0}]

Period     == [e : {"inquiry_complete"}]
Request(a) == [e : {"conn_request"}, addr : {a}]
Seen(a)    == [e : {"inquiry_result", "conn_request"}, addr : {a}]
OkConn(a)  == [e : {"conn_complete"}, addr : {a}, ok : {TRUE}, handle : Handles]
NoConn(a)  == [e : {"conn_complete"}, addr : {a}, ok : {FALSE}, handle : {0}]
Conn(a)    == OkConn(a) \cup NoConn(a)
Named(a)   == [e : {"name_complete"}, addr : {a}, ok : BOOLEAN]
Lost(a)    == [e : {"disconn_complete"}, addr : {a}, handle : Handles]

Event ==
  Period \cup [e : {"inquiry_result", "conn_request"}, addr : Addrs]
    \cup [e : {"conn_complete"}, addr : Addrs, ok : {TRUE}, handle : Handles]
    \cup [e : {"conn_complete"}, addr : Addrs, ok : {FALSE}, handle : {0}]
    \cup [e : {"name_complete"}, addr : Addrs, ok : BOOLEAN]
    \cup [e : {"disconn_complete"}, addr : Addrs, handle : Handles]

\* The events that hand a handle out, and take it back.
UpOf(h)   == [e : {"conn_complete"}, addr : Addrs, ok : {TRUE}, handle : {h}]
DownOf(h) == [e : {"disconn_complete"}, addr : Addrs, handle : {h}]

(***************************************************************************)
(* What a queue q promises about its members of the sets A, B and C.       *)
(***************************************************************************)
Has(q, A) == \E i \in 1 .. Len(q) : q[i] \in A

\* Before every C there is a B.
Before(q, C, B) ==
  \A j \in 1 .. Len(q) : q[j] \in C => \E k \in 1 .. Len(q) : k < j /\ q[k] \in B

\* Every A has a B behind it.
Followed(q, A, B) ==
  \A i \in 1 .. Len(q) : q[i] \in A => \E k \in 1 .. Len(q) : i < k /\ q[k] \in B

\* Between every A and a later C there is a B.
Apart(q, A, C, B) ==
  \A i, j \in 1 .. Len(q) : i < j /\ q[i] \in A /\ q[j] \in C =>
    \E k \in 1 .. Len(q) : i < k /\ k < j /\ q[k] \in B

Popped(q, r) ==
  /\ Len(q) \in Nat \ {0} /\ Len(r) = Len(q) - 1
  /\ \A i \in 1 .. Len(q) - 1 : r[i] = q[i + 1]
Pushed(q, r, e) ==
  /\ Len(q) \in Nat /\ Len(r) = Len(q) + 1 /\ r[Len(q) + 1] = e
  /\ \A i \in 1 .. Len(q) : r[i] = q[i]

LEMMA PoppedAt ==
  ASSUME NEW q, NEW r, Popped(q, r), NEW j \in 1 .. Len(q), j # 1
  PROVE  \E i \in 1 .. Len(r) : i + 1 = j /\ r[i] = q[j]
<1>1. PICK i \in 1 .. Len(r) : i + 1 = j
  BY DEF Popped
<1>2. i \in 1 .. Len(q) - 1 /\ r[i] = q[i + 1]
  BY <1>1 DEF Popped
<1>3. QED
  BY <1>1, <1>2

LEMMA PoppedTo ==
  ASSUME NEW q, NEW r, Popped(q, r), NEW i \in 1 .. Len(r)
  PROVE  i \in Nat /\ i + 1 \in 1 .. Len(q) /\ r[i] = q[i + 1] /\ i + 1 # 1
BY DEF Popped

LEMMA PoppedHas ==
  ASSUME NEW q, NEW r, Popped(q, r), NEW A
  PROVE  (Has(r, A) => Has(q, A)) /\ (Has(q, A) /\ q[1] \notin A => Has(r, A))
<1>1. Has(r, A) => Has(q, A)
  BY PoppedTo DEF Has
<1>2. ASSUME Has(q, A), q[1] \notin A PROVE Has(r, A)
  <2>1. PICK j \in 1 .. Len(q) : q[j] \in A /\ j # 1
    BY <1>2 DEF Has
  <2>2. PICK i \in 1 .. Len(r) : r[i] = q[j]
    BY <2>1, PoppedAt
  <2>3. QED
    BY <2>1, <2>2 DEF Has
<1>3. QED
  BY <1>1, <1>2

LEMMA PoppedFollowed ==
  ASSUME NEW q, NEW r, Popped(q, r), NEW A, NEW B, Followed(q, A, B)
  PROVE  Followed(r, A, B) /\ (q[1] \in A => Has(r, B))
<1>1. ASSUME NEW i \in 1 .. Len(r), r[i] \in A PROVE \E k \in 1 .. Len(r) : i < k /\ r[k] \in B
  <2>1. i \in Nat /\ i + 1 \in 1 .. Len(q) /\ q[i + 1] \in A
    BY <1>1, PoppedTo
  <2>2. PICK j \in 1 .. Len(q) : i + 1 < j /\ q[j] \in B
    BY <2>1 DEF Followed
  <2>3. PICK k \in 1 .. Len(r) : k + 1 = j /\ r[k] = q[j]
    BY <2>1, <2>2, PoppedAt
  <2>4. i < k
    BY <2>1, <2>2, <2>3
  <2>5. QED
    BY <2>2, <2>3, <2>4
<1>2. ASSUME q[1] \in A PROVE Has(r, B)
  <2>1. 1 \in 1 .. Len(q)
    BY DEF Popped
  <2>2. PICK j \in 1 .. Len(q) : 1 < j /\ q[j] \in B
    BY <1>2, <2>1 DEF Followed
  <2>3. PICK k \in 1 .. Len(r) : r[k] = q[j]
    BY <2>2, PoppedAt
  <2>4. QED
    BY <2>2, <2>3 DEF Has
<1>3. QED
  BY <1>1, <1>2 DEF Followed

LEMMA PoppedBefore ==
  ASSUME NEW q, NEW r, Popped(q, r), NEW B, NEW C, Before(q, C, B)
  PROVE  q[1] \notin C /\ (q[1] \notin B => Before(r, C, B))
<1>1. q[1] \notin C
  BY DEF Before, Popped
<1>2. ASSUME q[1] \notin B, NEW i \in 1 .. Len(r), r[i] \in C
      PROVE  \E k \in 1 .. Len(r) : k < i /\ r[k] \in B
  <2>1. i \in Nat /\ i + 1 \in 1 .. Len(q) /\ q[i + 1] \in C
    BY <1>2, PoppedTo
  <2>2. PICK j \in 1 .. Len(q) : j < i + 1 /\ q[j] \in B /\ j # 1
    BY <1>2, <2>1 DEF Before
  <2>3. PICK k \in 1 .. Len(r) : k + 1 = j /\ r[k] = q[j]
    BY <2>2, PoppedAt
  <2>4. k < i
    BY <2>1, <2>2, <2>3
  <2>5. QED
    BY <2>2, <2>3, <2>4
<1>3. QED
  BY <1>1, <1>2 DEF Before

LEMMA PoppedApart ==
  ASSUME NEW q, NEW r, Popped(q, r), NEW A, NEW B, NEW C, Apart(q, A, C, B)
  PROVE  Apart(r, A, C, B) /\ (q[1] \in A => Before(r, C, B))
<1>1. ASSUME NEW i \in 1 .. Len(q), q[i] \in A, NEW j \in 1 .. Len(r), i < j + 1, r[j] \in C
      PROVE  \E k \in 1 .. Len(r) : i < k + 1 /\ k < j /\ r[k] \in B
  <2>1. j \in Nat /\ j + 1 \in 1 .. Len(q) /\ q[j + 1] \in C
    BY <1>1, PoppedTo
  <2>2. PICK l \in 1 .. Len(q) : i < l /\ l < j + 1 /\ q[l] \in B
    BY <1>1, <2>1 DEF Apart
  <2>3. PICK k \in 1 .. Len(r) : k + 1 = l /\ r[k] = q[l]
    BY <1>1, <2>2, PoppedAt
  <2>4. i < k + 1 /\ k < j
    BY <2>1, <2>2, <2>3
  <2>5. QED
    BY <2>2, <2>3, <2>4
<1>2. ASSUME NEW i \in 1 .. Len(r), NEW j \in 1 .. Len(r), i < j, r[i] \in A, r[j] \in C
      PROVE  \E k \in 1 .. Len(r) : i < k /\ k < j /\ r[k] \in B
  <2>1. i + 1 \in 1 .. Len(q) /\ q[i + 1] \in A /\ i + 1 < j + 1
    BY <1>2, PoppedTo
  <2>2. PICK k \in 1 .. Len(r) : i + 1 < k + 1 /\ k < j /\ r[k] \in B
    BY <1>1, <1>2, <2>1
  <2>3. QED
    BY <2>2
<1>3. ASSUME q[1] \in A, NEW j \in 1 .. Len(r), r[j] \in C PROVE \E k \in 1 .. Len(r) : k < j /\ r[k] \in B
  <2>1. 1 \in 1 .. Len(q) /\ 1 < j + 1
    BY DEF Popped
  <2>2. QED
    BY <1>1, <1>3, <2>1
<1>4. QED
  BY <1>2, <1>3 DEF Apart, Before

LEMMA PushedAt ==
  ASSUME NEW q, NEW r, NEW e, Pushed(q, r, e)
  PROVE  /\ Len(q) \in Nat /\ Len(q) + 1 \in 1 .. Len(r) /\ r[Len(q) + 1] = e
         /\ \A i \in 1 .. Len(q) : i \in 1 .. Len(r) /\ r[i] = q[i] /\ i < Len(q) + 1
         /\ \A i \in 1 .. Len(r) : i \in 1 .. Len(q) \/ i = Len(q) + 1
BY DEF Pushed

LEMMA PushedHas ==
  ASSUME NEW q, NEW r, NEW e, Pushed(q, r, e), NEW A
  PROVE  Has(r, A) <=> Has(q, A) \/ e \in A
BY PushedAt DEF Has

LEMMA PushedFollowed ==
  ASSUME NEW q, NEW r, NEW e, Pushed(q, r, e), NEW A, NEW B, e \notin A, Followed(q, A, B) \/ e \in B
  PROVE  Followed(r, A, B)
<1> SUFFICES ASSUME NEW i \in 1 .. Len(r), r[i] \in A PROVE \E k \in 1 .. Len(r) : i < k /\ r[k] \in B
  BY DEF Followed
<1>1. i \in 1 .. Len(q) /\ q[i] \in A
  BY PushedAt
<1>2. CASE Followed(q, A, B)
  <2>1. PICK k \in 1 .. Len(q) : i < k /\ q[k] \in B
    BY <1>1, <1>2 DEF Followed
  <2>2. QED
    BY <2>1, PushedAt
<1>3. CASE e \in B
  BY <1>1, <1>3, PushedAt
<1>4. QED
  BY <1>2, <1>3

LEMMA PushedBefore ==
  ASSUME NEW q, NEW r, NEW e, Pushed(q, r, e), NEW B, NEW C, Before(q, C, B), e \notin C \/ Has(q, B)
  PROVE  Before(r, C, B)
<1> SUFFICES ASSUME NEW j \in 1 .. Len(r), r[j] \in C PROVE \E k \in 1 .. Len(r) : k < j /\ r[k] \in B
  BY DEF Before
<1>1. CASE j \in 1 .. Len(q)
  <2>1. PICK k \in 1 .. Len(q) : k < j /\ q[k] \in B
    BY <1>1, PushedAt DEF Before
  <2>2. QED
    BY <2>1, PushedAt
<1>2. CASE j = Len(q) + 1
  <2>1. PICK k \in 1 .. Len(q) : q[k] \in B
    BY <1>2, PushedAt DEF Has
  <2>2. QED
    BY <1>2, <2>1, PushedAt
<1>3. QED
  BY <1>1, <1>2, PushedAt

LEMMA PushedApart ==
  ASSUME NEW q, NEW r, NEW e, Pushed(q, r, e), NEW A, NEW B, NEW C, Apart(q, A, C, B),
         e \notin C \/ Followed(q, A, B)
  PROVE  Apart(r, A, C, B)
<1> SUFFICES ASSUME NEW i \in 1 .. Len(r), NEW j \in 1 .. Len(r), i < j, r[i] \in A, r[j] \in C
             PROVE  \E k \in 1 .. Len(r) : i < k /\ k < j /\ r[k] \in B
  BY DEF Apart
<1>1. i \in 1 .. Len(q) /\ q[i] \in A
  BY PushedAt
<1>2. CASE j \in 1 .. Len(q)
  <2>1. PICK k \in 1 .. Len(q) : i < k /\ k < j /\ q[k] \in B
    BY <1>1, <1>2, PushedAt DEF Apart
  <2>2. QED
    BY <2>1, PushedAt
<1>3. CASE j = Len(q) + 1
  <2>1. PICK k \in 1 .. Len(q) : i < k /\ q[k] \in B
    BY <1>1, <1>3, PushedAt DEF Followed
  <2>2. QED
    BY <1>3, <2>1, PushedAt
<1>4. QED
  BY <1>2, <1>3, PushedAt

(***************************************************************************)
(* The first and the last of a set of numbers.                             *)
(***************************************************************************)
LEMMA Least ==
  ASSUME NEW n \in Nat, NEW S \in SUBSET (0 .. n), S # {}
  PROVE  \E s \in S : \A t \in S : s <= t
<1> DEFINE U == 0 .. n
           T == {0 .. s : s \in S}
<1>1. FiniteSubsetsOf(U) = SUBSET U
  <2>1. IsFiniteSet(U)
    BY FS_Interval
  <2>2. QED
    BY <2>1, FS_FiniteSubsetsOfFinite
<1>2. T \subseteq SUBSET U
  OBVIOUS
<1>3. T # {}
  <2>1. PICK s : s \in S
    OBVIOUS
  <2>2. 0 .. s \in T
    BY <2>1
  <2>3. QED
    BY <2>2
<1>4. IsWellFoundedOn(StrictSubsetOrdering(U), SUBSET U)
  BY <1>1, FS_StrictSubsetOrderingWellFounded
<1>5. PICK I \in T : \A J \in T : ~(<<J, I>> \in StrictSubsetOrdering(U))
  BY <1>2, <1>3, <1>4, WFMin
<1>6. PICK s \in S : I = 0 .. s
  BY <1>5
<1>7. ASSUME NEW t \in S, t < s PROVE FALSE
  <2>1. 0 .. t \subseteq 0 .. s /\ s \in 0 .. s /\ s \notin 0 .. t
    BY <1>7
  <2>2. 0 .. t \in SUBSET U /\ 0 .. s \in SUBSET U /\ 0 .. t # 0 .. s
    BY <2>1
  <2>3. <<0 .. t, 0 .. s>> \in StrictSubsetOrdering(U)
    BY <2>1, <2>2 DEF StrictSubsetOrdering
  <2>4. QED
    BY <1>5, <1>6, <2>3
<1>8. QED
  BY <1>7

LEMMA FirstIn == ASSUME NEW S \in SUBSET Slots, S # {} PROVE First(S) \in S /\ First(S) \in Slots
<1>1. PICK n \in Nat : Slots = 0 .. n
  BY DevsAssumption DEF Slots
<1>2. PICK s \in S : \A t \in S : s <= t
  BY <1>1, Least
<1>3. QED
  BY <1>2 DEF First

LEMMA Greatest ==
  ASSUME NEW n \in Nat, NEW S \in SUBSET (1 .. n), S # {}
  PROVE  \E s \in S : \A t \in S : t <= s
<1> DEFINE R == {n - s : s \in S}
<1>1. R \in SUBSET (0 .. n) /\ R # {}
  <2>1. PICK s : s \in S
    OBVIOUS
  <2>2. n - s \in R
    BY <2>1
  <2>3. QED
    BY <2>2
<1>2. PICK r \in R : \A u \in R : r <= u
  BY <1>1, Least
<1>3. PICK s \in S : r = n - s
  BY <1>2
<1>4. ASSUME NEW t \in S PROVE t <= s
  <2>1. n - t \in R
    OBVIOUS
  <2>2. n - s <= n - t
    BY <1>2, <1>3, <2>1
  <2>3. QED
    BY <2>2
<1>5. QED
  BY <1>4

(***************************************************************************)
(* Types.                                                                  *)
(***************************************************************************)
SeqInv == cmds \in Seq(Command) /\ evts \in Seq(Event)

Dev == [found : BOOLEAN, page : BOOLEAN, addr : Addrs \cup {NoAddr},
        handle : Handles \cup {0}, retry : 0 .. MaxRetry - 1]

TypeInv == SeqInv /\ TypeOK

LEMMA AppendFacts ==
  ASSUME NEW S, NEW q \in Seq(S), NEW e \in S
  PROVE  Append(q, e) \in Seq(S) /\ Pushed(q, Append(q, e), e)
BY DEF Pushed

LEMMA TailFacts ==
  ASSUME NEW S, NEW q \in Seq(S), q # <<>>
  PROVE  Tail(q) \in Seq(S) /\ Popped(q, Tail(q)) /\ Head(q) = q[1] /\ Head(q) \in S
<1>1. Len(q) \in Nat /\ Len(q) # 0
  OBVIOUS
<1>2. QED
  BY <1>1 DEF Popped

LEMMA NoneAppended == ASSUME NEW S, NEW q \in Seq(S) PROVE q \o <<>> = q
OBVIOUS

LEMMA OneAppended ==
  ASSUME NEW S, NEW q \in Seq(S), NEW e \in S
  PROVE  q \o <<e>> = Append(q, e)
OBVIOUS

LEMMA Commands ==
  /\ InquiryOn \in Command /\ InquiryOff \in Command
  /\ \A a \in Addrs : Connect(a) \in Command /\ Accept(a) \in Command /\ Name(a) \in Command
  /\ \A h \in Handles \cup {0} : Disc(h) \in Command
BY DEF InquiryOn, InquiryOff, Connect, Accept, Name, Disc, Command

LEMMA Free == FreeDev \in Dev
BY CountsAssumption DEF FreeDev, Dev

\* The commands the handlers send.
Sends(m) == cmds' = cmds \/ (m \in Command /\ cmds' = Append(cmds, m))

LEMMA SendsTypes ==
  ASSUME SeqInv, NEW m, Sends(m)
  PROVE  cmds' \in Seq(Command)
BY AppendFacts DEF Sends, SeqInv

LEMMA NoneSent == ASSUME SeqInv, no_inquiry(<<>>) PROVE cmds' = cmds /\ UNCHANGED <<inquiry_state, stopped, crossed>>
BY NoneAppended DEF no_inquiry, SeqInv

LEMMA OneSent ==
  ASSUME SeqInv, NEW m \in Command, no_inquiry(<<m>>)
  PROVE  cmds' = Append(cmds, m) /\ UNCHANGED <<inquiry_state, stopped, crossed>>
BY OneAppended DEF no_inquiry, SeqInv

(***************************************************************************)
(* The handlers, as far as the table and the events go.  Each takes the    *)
(* first event.                                                            *)
(***************************************************************************)
Entry(page, a) == [found |-> TRUE, page |-> page, addr |-> a, handle |-> 0, retry |-> 0]

\* The event means nothing to the table.
Passes(e) ==
  /\ dev' = dev
  /\ \A a \in Addrs : e \in Conn(a) => WithAddr(a) = {}
  /\ \A h \in Handles : e \in DownOf(h) => WithHandle(h) = {}

\* A peer that has no slot gets one.
Enters(e) ==
  \E a \in Addrs, s \in Slots, page \in BOOLEAN :
    /\ e \in Seen(a) /\ WithAddr(a) = {} /\ ~dev[s].found
    /\ dev' = [dev EXCEPT ![s] = Entry(page, a)]
    /\ e \in Request(a) \/ cmds' = Append(cmds, Connect(a))

Connects(e) ==
  \E a \in Addrs, s \in Slots :
    /\ e \in OkConn(a) /\ s \in WithAddr(a)
    /\ dev' = [dev EXCEPT ![s].handle = e.handle, ![s].retry = 0]

Retries(e) ==
  \E a \in Addrs, s \in Slots :
    /\ s \in WithAddr(a) /\ MayRetry(s)
    /\ dev' = [dev EXCEPT ![s].retry = @ + 1]
    /\ \/ e \in NoConn(a) /\ cmds' = Append(cmds, Connect(a))
       \/ e \in Named(a)

Frees(e) ==
  \E s \in Slots :
    /\ \/ \E a \in Addrs : s \in WithAddr(a) /\ e \in NoConn(a) \cup Named(a)
       \/ \E a \in Addrs : e \in Lost(a) /\ s \in WithHandle(e.handle)
    /\ dev' = [dev EXCEPT ![s] = FreeDev]

Handled(e) == Passes(e) \/ Enters(e) \/ Connects(e) \/ Retries(e) \/ Frees(e)

LEMMA TakesTypes ==
  ASSUME SeqInv, NEW k, NEW e, Takes(k, e)
  PROVE  /\ evts' \in Seq(Event) /\ Popped(evts, evts') /\ e = evts[1] /\ e \in Event /\ e.e = k
         /\ link' = link
BY TailFacts DEF Takes, SeqInv, ctrlVars

\* Every event is of one of these sets.
LEMMA EventKinds ==
  ASSUME NEW e \in Event
  PROVE  /\ e.e = "inquiry_complete" => e \in Period
         /\ e.e \in {"inquiry_result", "conn_request"} => e.addr \in Addrs /\ e \in Seen(e.addr)
         /\ e.e = "conn_request" => e \in Request(e.addr)
         /\ e.e = "conn_complete" =>
              /\ e.addr \in Addrs /\ e.ok \in BOOLEAN
              /\ e.ok => e \in OkConn(e.addr) /\ e \in UpOf(e.handle) /\ e.handle \in Handles
              /\ ~e.ok => e \in NoConn(e.addr)
         /\ e.e = "name_complete" => e.addr \in Addrs /\ e.ok \in BOOLEAN /\ e \in Named(e.addr)
         /\ e.e = "disconn_complete" =>
              e.addr \in Addrs /\ e.handle \in Handles /\ e \in Lost(e.addr) /\ e \in DownOf(e.handle)
BY DEF Event, Period, Seen, Request, OkConn, UpOf, NoConn, Named, Lost, DownOf

\* ... and of those only.
LEMMA KindsApart ==
  ASSUME NEW e
  PROVE  /\ e \in Period => e.e = "inquiry_complete"
         /\ \A a : e \in Request(a) => e.e = "conn_request" /\ e.addr = a
         /\ \A a : e \in Seen(a) => e.e \in {"inquiry_result", "conn_request"} /\ e.addr = a
         /\ \A a : e \in OkConn(a) => e.e = "conn_complete" /\ e.addr = a /\ e.ok /\ e.handle \in Handles
         /\ \A a : e \in NoConn(a) => e.e = "conn_complete" /\ e.addr = a /\ ~e.ok /\ e.handle = 0
         /\ \A a : e \in Conn(a) => e.e = "conn_complete" /\ e.addr = a
         /\ \A a : e \in Named(a) => e.e = "name_complete" /\ e.addr = a
         /\ \A a : e \in Lost(a) => e.e = "disconn_complete" /\ e.addr = a /\ e.handle \in Handles
         /\ \A h : e \in UpOf(h) => e.e = "conn_complete" /\ e.ok /\ e.handle = h
         /\ \A h : e \in DownOf(h) => e.e = "disconn_complete" /\ e.handle = h
BY DEF Period, Seen, Request, OkConn, Conn, UpOf, NoConn, Named, Lost, DownOf

LEMMA Found ==
  /\ \A a : WithAddr(a) \in SUBSET Slots /\ \A s \in WithAddr(a) : dev[s].found /\ dev[s].addr = a
  /\ \A h : WithHandle(h) \in SUBSET Slots /\ \A s \in WithHandle(h) : dev[s].found /\ dev[s].handle = h
  /\ New \in SUBSET Slots /\ \A s \in New : ~dev[s].found
BY DEF WithAddr, WithHandle, New

LEMMA HandlerShape ==
  ASSUME TypeInv, Handler
  PROVE  \E e \in Event :
           /\ evts' \in Seq(Event) /\ Popped(evts, evts') /\ e = evts[1] /\ link' = link
           /\ Handled(e)
           /\ cmds' = cmds \/ \E m \in Command : cmds' = Append(cmds, m)
<1>a. SeqInv
  BY DEF TypeInv
<1>b. ASSUME NEW e, NEW k, Takes(k, e), Handled(e), cmds' = cmds \/ \E m \in Command : cmds' = Append(cmds, m)
      PROVE  \E f \in Event :
               /\ evts' \in Seq(Event) /\ Popped(evts, evts') /\ f = evts[1] /\ link' = link
               /\ Handled(f)
               /\ cmds' = cmds \/ \E m \in Command : cmds' = Append(cmds, m)
  BY <1>a, <1>b, TakesTypes
<1>c. start_inquiry \/ stop_inquiry => cmds' = cmds \/ \E m \in Command : cmds' = Append(cmds, m)
  BY Commands DEF start_inquiry, stop_inquiry
<1>d. no_inquiry(<<>>) => cmds' = cmds
  BY <1>a, NoneSent
<1>e. \A m \in Command : no_inquiry(<<m>>) => cmds' = Append(cmds, m)
  BY <1>a, OneSent
<1>f. \A s : reset_dev(s) => /\ dev' = [dev EXCEPT ![s] = FreeDev]
                             /\ cmds' = cmds \/ \E m \in Command : cmds' = Append(cmds, m)
  BY <1>c, <1>d DEF reset_dev
<1>1. ASSUME NEW e, InquiryComplete(e) PROVE \E k : Takes(k, e) /\ Handled(e) /\ (cmds' = cmds \/ \E m \in Command : cmds' = Append(cmds, m))
  <2>1. Takes("inquiry_complete", e) /\ e.e = "inquiry_complete" /\ dev' = dev
    BY <1>1 DEF InquiryComplete, Takes
  <2>2. Passes(e)
    BY <2>1, KindsApart DEF Passes
  <2>3. QED
    BY <1>1, <1>c, <1>d, <2>1, <2>2 DEF InquiryComplete, Handled
<1>2. ASSUME NEW e, NEW k, Takes(k, e), k \in {"inquiry_result", "conn_request"}, NEW page \in BOOLEAN, NEW cmd \in Command,
             k = "conn_request" \/ cmd = Connect(e.addr), NewDev(e, page, cmd)
      PROVE  Handled(e) /\ (cmds' = cmds \/ \E m \in Command : cmds' = Append(cmds, m))
  <2>1. e \in Event /\ e.e = k
    BY <1>2, <1>a, TakesTypes
  <2>2. e.addr \in Addrs /\ e \in Seen(e.addr) /\ (k = "conn_request" => e \in Request(e.addr))
    BY <1>2, <2>1, EventKinds
  <2>3. CASE dev' = dev /\ no_inquiry(<<>>)
    <3>1. Passes(e)
      BY <1>2, <2>1, <2>3, KindsApart DEF Passes
    <3>2. QED
      BY <1>d, <2>3, <3>1 DEF Handled
  <2>4. CASE /\ WithAddr(e.addr) = {} /\ New # {} /\ no_inquiry(<<cmd>>)
             /\ dev' = [dev EXCEPT ![First(New)] = Entry(page, e.addr)]
    <3>1. First(New) \in Slots /\ ~dev[First(New)].found
      BY <2>4, Found, FirstIn
    <3>2. Enters(e)
      BY <1>2, <1>e, <2>2, <2>4, <3>1 DEF Enters
    <3>3. QED
      BY <1>e, <2>4, <3>2 DEF Handled
  <2>5. QED
    BY <1>2, <2>3, <2>4 DEF NewDev, Entry
<1>3. ASSUME NEW e, InquiryResult(e) PROVE \E k : Takes(k, e) /\ Handled(e) /\ (cmds' = cmds \/ \E m \in Command : cmds' = Append(cmds, m))
  <2>1. Takes("inquiry_result", e) /\ e.addr \in Addrs
    BY <1>3, <1>a, TakesTypes, EventKinds DEF InquiryResult
  <2>2. Connect(e.addr) \in Command
    BY <2>1, Commands
  <2>3. QED
    BY <1>2, <1>3, <2>1, <2>2 DEF InquiryResult
<1>4. ASSUME NEW e, ConnRequest(e) PROVE \E k : Takes(k, e) /\ Handled(e) /\ (cmds' = cmds \/ \E m \in Command : cmds' = Append(cmds, m))
  <2>1. Takes("conn_request", e) /\ e.addr \in Addrs
    BY <1>4, <1>a, TakesTypes, EventKinds DEF ConnRequest
  <2>2. Accept(e.addr) \in Command
    BY <2>1, Commands
  <2>3. QED
    BY <1>2, <1>4, <2>1, <2>2 DEF ConnRequest
<1>5. ASSUME NEW e, ConnComplete(e) PROVE \E k : Takes(k, e) /\ Handled(e) /\ (cmds' = cmds \/ \E m \in Command : cmds' = Append(cmds, m))
  <2>1. Takes("conn_complete", e) /\ e \in Event /\ e.e = "conn_complete" /\ e.addr \in Addrs
    BY <1>5, <1>a, TakesTypes, EventKinds DEF ConnComplete
  <2>a. PICK a \in Addrs : a = e.addr
    BY <2>1
  <2>b. Name(a) \in Command /\ Connect(a) \in Command
    BY Commands
  <2>c. (e.ok => e \in OkConn(a)) /\ (~e.ok => e \in NoConn(a))
    BY <2>1, <2>a, EventKinds
  <2>d. PICK s : s = First(WithAddr(a))
    OBVIOUS
  <2>2. CASE WithAddr(a) = {} /\ Unknown
    <3>1. Passes(e)
      <4>1. \A b \in Addrs : e \in Conn(b) => b = a
        BY <2>a, KindsApart
      <4>2. QED
        BY <2>1, <2>2, <4>1, KindsApart DEF Passes, Unknown, hostVars
    <3>2. QED
      BY <2>1, <2>2, <3>1 DEF Handled, Unknown
  <2>3. CASE WithAddr(a) # {}
    <3>1. s \in WithAddr(a) /\ s \in Slots
      BY <2>d, <2>3, Found, FirstIn
    <3>2. CASE /\ e.ok /\ dev' = [dev EXCEPT ![s].handle = e.handle, ![s].retry = 0] /\ no_inquiry(<<Name(a)>>)
      <4>1. Connects(e)
        BY <2>c, <3>1, <3>2 DEF Connects
      <4>2. QED
        BY <1>e, <2>1, <2>b, <3>2, <4>1 DEF Handled
    <3>3. CASE ~e.ok /\ MayRetry(s) /\ dev' = [dev EXCEPT ![s].retry = @ + 1] /\ no_inquiry(<<Connect(a)>>)
      <4>1. cmds' = Append(cmds, Connect(a))
        BY <1>e, <2>b, <3>3
      <4>2. Retries(e)
        BY <2>c, <3>1, <3>3, <4>1 DEF Retries
      <4>3. QED
        BY <2>1, <2>b, <4>1, <4>2 DEF Handled
    <3>4. CASE ~e.ok /\ reset_dev(s)
      <4>1. Frees(e)
        BY <1>f, <2>c, <3>1, <3>4 DEF Frees
      <4>2. QED
        BY <1>f, <2>1, <3>4, <4>1 DEF Handled
    <3>5. QED
      BY <1>5, <2>a, <2>d, <2>3, <3>2, <3>3, <3>4 DEF ConnComplete
  <2>4. QED
    BY <1>5, <2>a, <2>2, <2>3 DEF ConnComplete
<1>6. ASSUME NEW e, NameComplete(e) PROVE \E k : Takes(k, e) /\ Handled(e) /\ (cmds' = cmds \/ \E m \in Command : cmds' = Append(cmds, m))
  <2>1. Takes("name_complete", e) /\ e \in Event /\ e.e = "name_complete" /\ e.addr \in Addrs
    BY <1>6, <1>a, TakesTypes, EventKinds DEF NameComplete
  <2>a. PICK a \in Addrs : a = e.addr
    BY <2>1
  <2>b. Name(a) \in Command
    BY Commands
  <2>c. e \in Named(a)
    BY <2>1, <2>a, EventKinds
  <2>d. PICK s : s = First(WithAddr(a))
    OBVIOUS
  <2>e. dev' = dev => Passes(e)
    BY <2>1, KindsApart DEF Passes
  <2>2. CASE Unknown
    BY <2>1, <2>2, <2>e DEF Handled, Unknown, hostVars
  <2>3. CASE stop_inquiry /\ dev' = dev
    BY <1>c, <2>1, <2>3, <2>e DEF Handled
  <2>4. CASE WithAddr(a) # {}
    <3>1. s \in WithAddr(a) /\ s \in Slots
      BY <2>d, <2>4, Found, FirstIn
    <3>3. CASE MayRetry(s) /\ dev' = [dev EXCEPT ![s].retry = @ + 1] /\ no_inquiry(<<Name(a)>>)
      <4>1. Retries(e)
        BY <2>c, <3>1, <3>3 DEF Retries
      <4>2. QED
        BY <1>e, <2>1, <2>b, <3>3, <4>1 DEF Handled
    <3>4. CASE reset_dev(s)
      <4>1. Frees(e)
        BY <1>f, <2>c, <3>1, <3>4 DEF Frees
      <4>2. QED
        BY <1>f, <2>1, <3>4, <4>1 DEF Handled
    <3>5. QED
      BY <1>6, <2>a, <2>d, <2>2, <2>3, <2>4, <3>3, <3>4 DEF NameComplete
  <2>5. QED
    BY <1>6, <2>a, <2>2, <2>4 DEF NameComplete
<1>7. ASSUME NEW e, DisconnComplete(e) PROVE \E k : Takes(k, e) /\ Handled(e) /\ (cmds' = cmds \/ \E m \in Command : cmds' = Append(cmds, m))
  <2>1. Takes("disconn_complete", e) /\ e \in Event /\ e.e = "disconn_complete"
        /\ e.addr \in Addrs /\ e.handle \in Handles /\ e \in Lost(e.addr)
    BY <1>7, <1>a, TakesTypes, EventKinds DEF DisconnComplete
  <2>2. CASE WithHandle(e.handle) = {} /\ dev' = dev /\ cmds' = cmds
    <3>1. Passes(e)
      BY <2>1, <2>2, KindsApart DEF Passes
    <3>2. QED
      BY <2>1, <2>2, <3>1 DEF Handled
  <2>3. CASE WithHandle(e.handle) # {} /\ reset_dev(First(WithHandle(e.handle)))
    <3>1. PICK s \in Slots : s = First(WithHandle(e.handle)) /\ s \in WithHandle(e.handle)
      BY <2>3, Found, FirstIn
    <3>2. Frees(e)
      BY <1>f, <2>1, <2>3, <3>1 DEF Frees
    <3>3. QED
      BY <1>f, <2>1, <2>3, <3>1, <3>2 DEF Handled
  <2>4. QED
    BY <1>7, <2>2, <2>3 DEF DisconnComplete, hostVars
<1>8. QED
  BY <1>b, <1>1, <1>3, <1>4, <1>5, <1>6, <1>7 DEF Handler

(***************************************************************************)
(* The controller, as far as its links and the events go: it adds at most  *)
(* one event, behind the others.                                           *)
(***************************************************************************)
Links == {NoLink, Paging, Incoming} \cup Handles

\* Nothing happens to a link.
Tells(e) ==
  /\ link' = link
  /\ \/ e \in Period
     \/ \E a \in Addrs : e \in Named(a)
     \/ \E a \in Addrs : e \in Seen(a) \ Request(a) /\ link[a] = NoLink

Rings(e) ==
  \E a \in Addrs : e \in Request(a) /\ link[a] = NoLink /\ link' = [link EXCEPT ![a] = Incoming]

ComesUp(e) ==
  \E a \in Addrs :
    /\ e \in OkConn(a) /\ e.handle \in FreeHandles /\ link[a] \in {Paging, Incoming}
    /\ link' = [link EXCEPT ![a] = e.handle]

Fails(e) ==
  \E a \in Addrs : e \in NoConn(a) /\ link[a] \in {Paging, Incoming} /\ link' = [link EXCEPT ![a] = NoLink]

Ends(e) ==
  \E a \in Addrs : e \in Lost(a) /\ Up(a) /\ e.handle = link[a] /\ link' = [link EXCEPT ![a] = NoLink]

Adds(e) == Tells(e) \/ Rings(e) \/ ComesUp(e) \/ Fails(e) \/ Ends(e)

\* No event is added: at most a page of ours begins.
Silent ==
  /\ evts' = evts
  /\ link' = link \/ \E a \in Addrs : link[a] = NoLink /\ link' = [link EXCEPT ![a] = Paging]

CtrlStep == CtrlCommand \/ CtrlPeriod \/ \E a \in Addrs : CtrlPaged(a) \/ PeerActs(a)

WaitsToPage(a) == \E i \in 1 .. Len(cmds) : cmds[i].c = "connect" /\ cmds[i].addr = a

LEMMA LinkValues ==
  /\ Handles \cap {NoLink, Paging, Incoming, 0} = {}
  /\ NoLink # Paging /\ NoLink # Incoming /\ Paging # Incoming
BY HandlesAssumption DEF NoLink, Paging, Incoming

LEMMA CommandKinds ==
  ASSUME NEW m \in Command
  PROVE  /\ m.c \in {"inquiry", "exit_inquiry", "connect", "accept", "name", "disc"}
         /\ m.c \in {"connect", "accept", "name"} => m.addr \in Addrs
         /\ m.c = "disc" => m.handle \in Handles \cup {0}
BY DEF Command

LEMMA EventTypes ==
  ASSUME NEW a \in Addrs
  PROVE  /\ \A h \in Handles : ConnEvent(a, TRUE, h) \in Event /\ ConnEvent(a, TRUE, h) \in OkConn(a)
                               /\ ConnEvent(a, TRUE, h).handle = h
         /\ ConnEvent(a, FALSE, 0) \in Event /\ ConnEvent(a, FALSE, 0) \in NoConn(a)
         /\ \A ok \in BOOLEAN : NameEvent(a, ok) \in Event /\ NameEvent(a, ok) \in Named(a)
         /\ \A h \in Handles : DiscEvent(a, h) \in Event /\ DiscEvent(a, h) \in Lost(a)
                               /\ DiscEvent(a, h).handle = h
         /\ [e |-> "inquiry_result", addr |-> a] \in Event
         /\ [e |-> "inquiry_result", addr |-> a] \in Seen(a) \ Request(a)
         /\ [e |-> "conn_request", addr |-> a] \in Event /\ [e |-> "conn_request", addr |-> a] \in Request(a)
BY DEF ConnEvent, NameEvent, DiscEvent, Event, OkConn, NoConn, Named, Lost, Seen, Request

LEMMA PeriodType == [e |-> "inquiry_complete"] \in Event /\ [e |-> "inquiry_complete"] \in Period
BY DEF Event, Period

LEMMA Emitted ==
  ASSUME SeqInv, NEW e \in Event, Emits(e)
  PROVE  evts' \in Seq(Event) /\ Pushed(evts, evts', e)
BY AppendFacts DEF Emits, SeqInv

LEMMA PagedShape ==
  ASSUME TypeInv, NEW a \in Addrs, link[a] \in {Paging, Incoming}, LinkUp(a) \/ LinkFails(a)
  PROVE  \E e \in Event : evts' \in Seq(Event) /\ Pushed(evts, evts', e) /\ Adds(e)
<1>a. SeqInv
  BY DEF TypeInv
<1>1. CASE LinkUp(a)
  <2>1. PICK h \in FreeHandles : link' = [link EXCEPT ![a] = h] /\ Emits(ConnEvent(a, TRUE, h))
    BY <1>1 DEF LinkUp
  <2>2. h \in Handles
    BY DEF FreeHandles
  <2>3. PICK e \in Event : e = ConnEvent(a, TRUE, h) /\ e \in OkConn(a) /\ e.handle = h
    BY <2>2, EventTypes
  <2>4. ComesUp(e)
    BY <2>1, <2>3 DEF ComesUp
  <2>5. QED
    BY <1>a, <2>1, <2>3, <2>4, Emitted DEF Adds
<1>2. CASE LinkFails(a)
  <2>1. PICK e \in Event : e = ConnEvent(a, FALSE, 0) /\ e \in NoConn(a)
    BY EventTypes
  <2>2. Fails(e) /\ Emits(e)
    BY <1>2, <2>1 DEF Fails, LinkFails
  <2>3. QED
    BY <1>a, <2>2, Emitted DEF Adds
<1>3. QED
  BY <1>1, <1>2

LEMMA CtrlShape ==
  ASSUME TypeInv, CtrlStep
  PROVE  /\ dev' = dev
         /\ Silent \/ \E e \in Event : evts' \in Seq(Event) /\ Pushed(evts, evts', e) /\ Adds(e)
<1>a. SeqInv /\ link \in [Addrs -> Links]
  BY DEF TypeInv, TypeOK, Links
<1>1. CASE CtrlCommand
  <2>1. PICK m : m = Head(cmds)
    OBVIOUS
  <2>2. m \in Command /\ dev' = dev
    BY <1>1, <1>a, <2>1, TailFacts DEF CtrlCommand, SeqInv, hostVars
  <2>3. CASE Refused \/ (evts' = evts /\ link' = link)
    BY <2>2, <2>3 DEF Silent, Refused
  <2>4. CASE m.c = "connect" /\ link[m.addr] = NoLink /\ link' = [link EXCEPT ![m.addr] = Paging] /\ evts' = evts
    BY <2>2, <2>4, CommandKinds DEF Silent
  <2>5. CASE m.c = "accept" /\ link[m.addr] = Incoming /\ (LinkUp(m.addr) \/ LinkFails(m.addr))
    BY <2>2, <2>5, CommandKinds, PagedShape
  <2>6. CASE m.c = "name" /\ link' = link /\ \E ok \in BOOLEAN : Emits(NameEvent(m.addr, ok))
    <3>1. PICK ok \in BOOLEAN : Emits(NameEvent(m.addr, ok))
      BY <2>6
    <3>2. PICK e \in Event : e = NameEvent(m.addr, ok) /\ e \in Named(m.addr) /\ m.addr \in Addrs
      BY <2>2, <2>6, CommandKinds, EventTypes
    <3>3. Adds(e)
      BY <2>6, <3>2 DEF Adds, Tells
    <3>4. QED
      BY <1>a, <2>2, <3>1, <3>2, <3>3, Emitted
  <2>7. ASSUME m.c = "disc", NEW a \in Addrs, link[a] = m.handle, link' = [link EXCEPT ![a] = NoLink],
               Emits(DiscEvent(a, m.handle))
        PROVE  \E e \in Event : evts' \in Seq(Event) /\ Pushed(evts, evts', e) /\ Adds(e)
    <3>1. m.handle \in Handles
      BY <1>a, <2>2, <2>7, CommandKinds, LinkValues DEF Links, NoLink, Paging, Incoming
    <3>2. PICK e \in Event : e = DiscEvent(a, m.handle) /\ e \in Lost(a) /\ e.handle = m.handle
      BY <3>1, EventTypes
    <3>3. Ends(e)
      BY <2>7, <3>1, <3>2 DEF Ends, Up
    <3>4. QED
      BY <1>a, <2>7, <3>2, <3>3, Emitted DEF Adds
  <2>8. QED
    BY <1>1, <2>1, <2>2, <2>3, <2>4, <2>5, <2>6, <2>7 DEF CtrlCommand
<1>2. CASE CtrlPeriod
  <2>1. dev' = dev /\ link' = link /\ Emits([e |-> "inquiry_complete"])
    BY <1>2 DEF CtrlPeriod, CtrlOnly, hostVars, ctrlVars
  <2>2. PICK e \in Event : e = [e |-> "inquiry_complete"] /\ e \in Period
    BY PeriodType
  <2>3. Adds(e)
    BY <2>1, <2>2 DEF Adds, Tells
  <2>4. QED
    BY <1>a, <2>1, <2>2, <2>3, Emitted
<1>3. ASSUME NEW a \in Addrs, CtrlPaged(a) PROVE /\ dev' = dev
                 /\ \E e \in Event : evts' \in Seq(Event) /\ Pushed(evts, evts', e) /\ Adds(e)
  <2>1. dev' = dev
    BY <1>3 DEF CtrlPaged, CtrlOnly, hostVars
  <2>2. CASE link[a] = Paging /\ (LinkUp(a) \/ LinkFails(a))
    BY <2>1, <2>2, PagedShape
  <2>3. CASE link[a] = Incoming /\ link' = [link EXCEPT ![a] = NoLink] /\ Emits(ConnEvent(a, FALSE, 0))
    <3>1. PICK e \in Event : e = ConnEvent(a, FALSE, 0) /\ e \in NoConn(a)
      BY EventTypes
    <3>2. Adds(e)
      BY <2>3, <3>1 DEF Adds, Fails
    <3>3. QED
      BY <1>a, <2>1, <2>3, <3>1, <3>2, Emitted
  <2>4. QED
    BY <1>3, <2>2, <2>3 DEF CtrlPaged
<1>4. ASSUME NEW a \in Addrs, PeerActs(a) PROVE /\ dev' = dev
                 /\ \E e \in Event : evts' \in Seq(Event) /\ Pushed(evts, evts', e) /\ Adds(e)
  <2>1. dev' = dev
    BY <1>4 DEF PeerActs, CtrlOnly, hostVars
  <2>2. CASE link[a] = NoLink /\ Emits([e |-> "inquiry_result", addr |-> a]) /\ link' = link
    <3>1. PICK e \in Event : e = [e |-> "inquiry_result", addr |-> a] /\ e \in Seen(a) \ Request(a)
      BY EventTypes
    <3>2. Adds(e)
      BY <2>2, <3>1 DEF Adds, Tells
    <3>3. QED
      BY <1>a, <2>1, <2>2, <3>1, <3>2, Emitted
  <2>3. CASE /\ link[a] = NoLink /\ link' = [link EXCEPT ![a] = Incoming]
             /\ Emits([e |-> "conn_request", addr |-> a])
    <3>1. PICK e \in Event : e = [e |-> "conn_request", addr |-> a] /\ e \in Request(a)
      BY EventTypes
    <3>2. Adds(e)
      BY <2>3, <3>1 DEF Adds, Rings
    <3>3. QED
      BY <1>a, <2>1, <2>3, <3>1, <3>2, Emitted
  <2>4. CASE Up(a) /\ link' = [link EXCEPT ![a] = NoLink] /\ Emits(DiscEvent(a, link[a]))
    <3>1. PICK e \in Event : e = DiscEvent(a, link[a]) /\ e \in Lost(a) /\ e.handle = link[a]
      BY <2>4, EventTypes DEF Up
    <3>2. Adds(e)
      BY <2>4, <3>1 DEF Adds, Ends
    <3>3. QED
      BY <1>a, <2>1, <2>4, <3>1, <3>2, Emitted
  <2>5. QED
    BY <1>4, <2>2, <2>3, <2>4 DEF PeerActs
<1>5. QED
  BY <1>1, <1>2, <1>3, <1>4 DEF CtrlStep

LEMMA HandledTypes ==
  ASSUME TypeInv, NEW e, Handled(e)
  PROVE  dev' \in [Slots -> Dev]
<1>a. dev \in [Slots -> Dev]
  BY DEF TypeInv, TypeOK, Dev
<1>b. /\ \A page \in BOOLEAN, a \in Addrs : Entry(page, a) \in Dev
      /\ \A d \in Dev, h \in Handles : [d EXCEPT !.handle = h, !.retry = 0] \in Dev
      /\ \A d \in Dev : d.retry + 1 < MaxRetry => [d EXCEPT !.retry = @ + 1] \in Dev
  <2>1. MaxRetry \in Nat \ {0}
    BY CountsAssumption
  <2>2. \A page \in BOOLEAN, a \in Addrs : Entry(page, a) \in Dev
    BY <2>1 DEF Entry, Dev
  <2>3. ASSUME NEW d \in Dev, NEW h \in Handles PROVE [d EXCEPT !.handle = h, !.retry = 0] \in Dev
    <3>1. 0 \in 0 .. MaxRetry - 1
      BY <2>1
    <3>2. [d EXCEPT !.handle = h] \in Dev
      BY DEF Dev
    <3>3. \A f \in Dev : [f EXCEPT !.retry = 0] \in Dev
      BY <3>1 DEF Dev
    <3>4. [d EXCEPT !.handle = h, !.retry = 0] = [[d EXCEPT !.handle = h] EXCEPT !.retry = 0]
      BY DEF Dev
    <3>5. QED
      BY <3>2, <3>3, <3>4
  <2>4. ASSUME NEW d \in Dev, d.retry + 1 < MaxRetry PROVE [d EXCEPT !.retry = @ + 1] \in Dev
    <3>1. d.retry \in 0 .. MaxRetry - 1
      BY DEF Dev
    <3>2. d.retry + 1 \in 0 .. MaxRetry - 1
      BY <2>1, <2>4, <3>1
    <3>3. QED
      BY <3>2 DEF Dev
  <2>5. QED
    BY <2>2, <2>3, <2>4
<1>1. CASE Passes(e)
  BY <1>a, <1>1 DEF Passes
<1>2. CASE Enters(e)
  <2>1. PICK a \in Addrs, s \in Slots, page \in BOOLEAN : dev' = [dev EXCEPT ![s] = Entry(page, a)]
    BY <1>2 DEF Enters
  <2>2. QED
    BY <1>a, <1>b, <2>1
<1>3. CASE Connects(e)
  <2>1. PICK s \in Slots : dev' = [dev EXCEPT ![s].handle = e.handle, ![s].retry = 0] /\ e.handle \in Handles
    BY <1>3, KindsApart DEF Connects
  <2>2. dev' = [dev EXCEPT ![s] = [dev[s] EXCEPT !.handle = e.handle, !.retry = 0]]
    BY <1>a, <2>1
  <2>3. dev[s] \in Dev
    BY <1>a
  <2>4. [dev[s] EXCEPT !.handle = e.handle, !.retry = 0] \in Dev
    BY <1>b, <2>1, <2>3
  <2>5. QED
    BY <1>a, <2>2, <2>4
<1>4. CASE Retries(e)
  <2>1. PICK s \in Slots : dev' = [dev EXCEPT ![s].retry = @ + 1] /\ MayRetry(s)
    BY <1>4 DEF Retries
  <2>2. dev[s] \in Dev
    BY <1>a
  <2>3. [dev[s] EXCEPT !.retry = @ + 1] \in Dev
    BY <1>b, <2>1, <2>2 DEF MayRetry
  <2>4. dev' = [dev EXCEPT ![s] = [dev[s] EXCEPT !.retry = @ + 1]]
    BY <2>1
  <2>5. QED
    BY <1>a, <2>3, <2>4
<1>5. CASE Frees(e)
  BY <1>a, <1>5, Free DEF Frees
<1>6. QED
  BY <1>1, <1>2, <1>3, <1>4, <1>5 DEF Handled

LEMMA AddedTypes ==
  ASSUME link \in [Addrs -> Links], Silent \/ \E e \in Event : Adds(e)
  PROVE  link' \in [Addrs -> Links]
BY DEF Silent, Adds, Tells, Rings, ComesUp, Fails, Ends, Links, FreeHandles

LEMMA SwitchTypes ==
  ASSUME TypeInv, start_inquiry \/ stop_inquiry \/ \E more : no_inquiry(more)
  PROVE  inquiry_state' \in BOOLEAN /\ stopped' \in BOOLEAN /\ crossed' \in BOOLEAN
<1>1. inquiry_state \in BOOLEAN /\ stopped \in BOOLEAN /\ crossed \in BOOLEAN
  BY DEF TypeInv, TypeOK
<1>2. Crossing => crossed' \in BOOLEAN
  BY DEF Crossing
<1>3. QED
  BY <1>1, <1>2 DEF start_inquiry, stop_inquiry, no_inquiry

LEMMA HandlerTypes ==
  ASSUME TypeInv, Handler
  PROVE  /\ nb_inquiry' \in 0 .. InquiryMax + 1
         /\ inquiry_state' \in BOOLEAN /\ stopped' \in BOOLEAN /\ crossed' \in BOOLEAN
         /\ dropped' \subseteq Addrs /\ astray' \subseteq Addrs
         /\ UNCHANGED <<ctrlVars, sysVars, peer, fail>>
<1>a. /\ SeqInv /\ nb_inquiry \in 0 .. InquiryMax + 1 /\ dropped \subseteq Addrs /\ astray \subseteq Addrs /\ InquiryMax \in Nat
      /\ inquiry_state \in BOOLEAN /\ stopped \in BOOLEAN /\ crossed \in BOOLEAN
  BY CountsAssumption DEF TypeInv, TypeOK
<1> DEFINE G == /\ nb_inquiry' \in 0 .. InquiryMax + 1
                /\ inquiry_state' \in BOOLEAN /\ stopped' \in BOOLEAN /\ crossed' \in BOOLEAN
                /\ dropped' \subseteq Addrs /\ astray' \subseteq Addrs
<1>b. \A s : reset_dev(s) => /\ inquiry_state' \in BOOLEAN /\ stopped' \in BOOLEAN /\ crossed' \in BOOLEAN
                             /\ nb_inquiry' \in 0 .. InquiryMax + 1
  <2>1. ASSUME no_inquiry(<<>>), UNCHANGED nb_inquiry
        PROVE  /\ inquiry_state' \in BOOLEAN /\ stopped' \in BOOLEAN /\ crossed' \in BOOLEAN
               /\ nb_inquiry' \in 0 .. InquiryMax + 1
    BY <1>a, <2>1, SwitchTypes
  <2>2. ASSUME start_inquiry
        PROVE  /\ inquiry_state' \in BOOLEAN /\ stopped' \in BOOLEAN /\ crossed' \in BOOLEAN
               /\ nb_inquiry' \in 0 .. InquiryMax + 1
    <3>1. nb_inquiry' \in {0, nb_inquiry}
      BY <2>2 DEF start_inquiry
    <3>2. QED
      BY <1>a, <2>2, <3>1, SwitchTypes
  <2>3. QED
    BY <2>1, <2>2 DEF reset_dev
<1>c. Unknown => G
  BY <1>a DEF Unknown, hostVars, histVars, leftVars
<1>1. ASSUME NEW e, InquiryComplete(e) PROVE G
  BY <1>1, <1>a, SwitchTypes DEF InquiryComplete, leftVars
<1>2. ASSUME NEW e, InquiryResult(e) \/ ConnRequest(e) PROVE G
  BY <1>2, <1>a, SwitchTypes DEF InquiryResult, ConnRequest, NewDev, leftVars
<1>3. ASSUME NEW e, ConnComplete(e) PROVE G
  BY <1>3, <1>a, <1>b, <1>c, SwitchTypes DEF ConnComplete, leftVars
<1>4. ASSUME NEW e, NameComplete(e) PROVE G
  <2>1. e.addr \in Addrs
    BY <1>4, <1>a, TakesTypes, EventKinds DEF NameComplete
  <2>2. QED
    BY <1>4, <1>a, <1>b, <1>c, <2>1, SwitchTypes DEF NameComplete, LeavesLink, leftVars
<1>5. ASSUME NEW e, DisconnComplete(e) PROVE G
  BY <1>5, <1>a, <1>b DEF DisconnComplete, hostVars
<1>6. ASSUME NEW e, NEW k, Takes(k, e) PROVE UNCHANGED <<ctrlVars, sysVars, peer, fail>>
  BY <1>6 DEF Takes
<1>7. QED
  BY <1>1, <1>2, <1>3, <1>4, <1>5, <1>6 DEF Handler, InquiryComplete, InquiryResult, ConnRequest,
     ConnComplete, NameComplete, DisconnComplete

LEMMA CtrlTypes ==
  ASSUME TypeInv, CtrlStep
  PROVE  /\ cmds' \in Seq(Command) /\ inquiring' \in BOOLEAN
         /\ peer' \in 0 .. MaxPeer /\ fail' \in 0 .. MaxFail /\ astray' \subseteq Addrs
         /\ UNCHANGED <<hostVars, sysVars, dropped, stopped, crossed>>
<1>a. /\ cmds \in Seq(Command) /\ inquiring \in BOOLEAN /\ astray \subseteq Addrs
      /\ peer \in 0 .. MaxPeer /\ fail \in 0 .. MaxFail /\ MaxPeer \in Nat /\ MaxFail \in Nat
  BY CountsAssumption DEF TypeInv, SeqInv, TypeOK
<1>d. fail' = fail \/ (fail < MaxFail /\ fail' = fail + 1) => fail' \in 0 .. MaxFail
  BY <1>a
<1>b. \A a : LinkUp(a) \/ LinkFails(a) => fail' \in 0 .. MaxFail
  BY <1>d DEF LinkUp, LinkFails
<1>1. CASE CtrlCommand
  <2>1. cmds' \in Seq(Command)
    BY <1>1, <1>a, TailFacts DEF CtrlCommand
  <2>2. UNCHANGED <<hostVars, sysVars, peer, histVars>>
    BY <1>1 DEF CtrlCommand
  <2>3. inquiring' \in BOOLEAN
    BY <1>1, <1>a DEF CtrlCommand, Refused
  <2>4. fail' \in 0 .. MaxFail
    BY <1>1, <1>b, <1>d DEF CtrlCommand, Refused
  <2>5. QED
    BY <1>a, <2>1, <2>2, <2>3, <2>4 DEF histVars, leftVars
<1>2. CASE CtrlPeriod
  BY <1>2, <1>a DEF CtrlPeriod, CtrlOnly, ctrlVars
<1>3. ASSUME NEW a \in Addrs, CtrlPaged(a)
      PROVE  /\ cmds' \in Seq(Command) /\ inquiring' \in BOOLEAN
             /\ peer' \in 0 .. MaxPeer /\ fail' \in 0 .. MaxFail /\ astray' \subseteq Addrs
             /\ UNCHANGED <<hostVars, sysVars, dropped, stopped, crossed>>
  BY <1>3, <1>a, <1>b DEF CtrlPaged, CtrlOnly
<1>4. ASSUME NEW a \in Addrs, PeerActs(a)
      PROVE  /\ cmds' \in Seq(Command) /\ inquiring' \in BOOLEAN
             /\ peer' \in 0 .. MaxPeer /\ fail' \in 0 .. MaxFail /\ astray' \subseteq Addrs
             /\ UNCHANGED <<hostVars, sysVars, dropped, stopped, crossed>>
  BY <1>4, <1>a DEF PeerActs, CtrlOnly
<1>5. QED
  BY <1>1, <1>2, <1>3, <1>4 DEF CtrlStep

(***************************************************************************)
(* The manager's task.                                                     *)
(***************************************************************************)
Manager == PressStop \/ PressDisconnect \/ PressStart \/ PassOn \/ PassOff \/ SysStep

LEMMA ManagerTypes ==
  ASSUME TypeInv, Manager
  PROVE  /\ UNCHANGED <<dev, nb_inquiry>> \/ (UNCHANGED dev /\ nb_inquiry' = 0)
         /\ UNCHANGED <<evts, ctrlVars, peer, fail, dropped, astray, crossed>>
         /\ cmds' = cmds \/ \E m \in Command : cmds' = Append(cmds, m)
         /\ inquiry_state' \in BOOLEAN /\ stopped' \in BOOLEAN
         /\ sys' \in {"idle", "stop", "start", "loop", "kick", "check", "off"} /\ sysi' \in Slots
         /\ press' \in 0 .. MaxSys /\ override' \in BOOLEAN /\ curr' \in BOOLEAN
<1>a. /\ inquiry_state \in BOOLEAN /\ stopped \in BOOLEAN /\ sysi \in Slots /\ press \in 0 .. MaxSys
      /\ sys \in {"idle", "stop", "start", "loop", "kick", "check", "off"}
      /\ MaxSys \in Nat /\ NumDevs \in Nat \ {0} /\ dev \in [Slots -> Dev]
      /\ override \in BOOLEAN /\ curr \in BOOLEAN
  BY CountsAssumption, DevsAssumption DEF TypeInv, TypeOK, Dev
<1>b. InquiryOn \in Command /\ InquiryOff \in Command /\ Disc(dev[sysi].handle) \in Command
  <2>1. dev[sysi].handle \in Handles \cup {0}
    BY <1>a DEF Dev
  <2>2. QED
    BY <2>1, Commands
<1>1. CASE PressStop
  BY <1>1, <1>a, <1>b DEF PressStop, StopBegins, Press, leftVars
<1>2. CASE PressDisconnect
  BY <1>2, <1>a DEF PressDisconnect, Press, leftVars
<1>3. CASE PressStart
  BY <1>3, <1>a DEF PressStart, Press, leftVars
<1>4. CASE SysStopped
  BY <1>4, <1>a DEF SysStopped, SysSame, leftVars
<1>5. CASE SysStarted
  BY <1>5, <1>a, <1>b DEF SysStarted, SysSame, leftVars
<1>6. CASE SysDisconnect
  <2>1. sysi' \in Slots
    BY <1>6, <1>a DEF SysDisconnect, Slots
  <2>2. QED
    BY <1>6, <1>a, <1>b, <2>1 DEF SysDisconnect, SysSame, leftVars
<1>c. ASSUME Silence
      PROVE  /\ cmds' = cmds \/ \E m \in Command : cmds' = Append(cmds, m)
             /\ inquiry_state' \in BOOLEAN /\ stopped' \in BOOLEAN /\ override' \in BOOLEAN
             /\ sys' \in {"idle", "stop"}
  BY <1>a, <1>b, <1>c DEF Silence, StopBegins
<1>d. ASSUME Press
      PROVE  /\ UNCHANGED <<sysi, dev, nb_inquiry, evts, ctrlVars, peer, fail, dropped, astray, crossed>>
             /\ press' \in 0 .. MaxSys /\ sysi' \in Slots
  BY <1>a, <1>d DEF Press, leftVars
<1>7. CASE PassOn
  <2>1. Press /\ curr' /\ ~override' /\ sys' \in {"idle", "check"} /\ UNCHANGED <<inquiry_state, cmds, stopped>>
    BY <1>7 DEF PassOn
  <2>2. curr' \in BOOLEAN /\ override' \in BOOLEAN
    BY <1>7 DEF PassOn
  <2>3. QED
    BY <1>a, <1>d, <2>1, <2>2
<1>8. CASE PassOff
  <2>a. Press /\ curr' \in BOOLEAN
    BY <1>8 DEF PassOff
  <2>1. CASE Silence
    BY <1>a, <1>c, <1>d, <2>1, <2>a
  <2>2. CASE UNCHANGED <<inquiry_state, cmds, stopped>> /\ override' \in {override, FALSE} /\ sys' \in {"kick", "idle"}
    <3>1. override' \in BOOLEAN
      BY <1>a, <2>2
    <3>2. QED
      BY <1>a, <1>d, <2>2, <2>a, <3>1
  <2>3. QED
    BY <1>8, <2>1, <2>2 DEF PassOff
<1>9. CASE SysCheck
  BY <1>9, <1>a DEF SysCheck, SysSame, leftVars
<1>10. CASE SysOff
  BY <1>10, <1>a, <1>c DEF SysOff, SysSame, leftVars
<1>11. QED
  BY <1>1, <1>2, <1>3, <1>4, <1>5, <1>6, <1>7, <1>8, <1>9, <1>10 DEF Manager, SysStep

LEMMA Steps == [Next]_vars => Handler \/ Manager \/ CtrlStep \/ UNCHANGED vars
BY DEF Next, Manager, CtrlStep

LEMMA NextTypes == TypeInv /\ [Next]_vars => TypeInv'
<1> SUFFICES ASSUME TypeInv, [Next]_vars PROVE TypeInv'
  OBVIOUS
<1>a. /\ cmds \in Seq(Command) /\ evts \in Seq(Event)
      /\ dev \in [Slots -> Dev] /\ nb_inquiry \in 0 .. InquiryMax + 1 /\ inquiry_state \in BOOLEAN
      /\ link \in [Addrs -> Links] /\ inquiring \in BOOLEAN
      /\ sys \in {"idle", "stop", "start", "loop", "kick", "check", "off"} /\ sysi \in Slots
      /\ override \in BOOLEAN /\ curr \in BOOLEAN
      /\ peer \in 0 .. MaxPeer /\ fail \in 0 .. MaxFail /\ press \in 0 .. MaxSys
      /\ dropped \subseteq Addrs /\ astray \subseteq Addrs /\ stopped \in BOOLEAN /\ crossed \in BOOLEAN
  BY DEF TypeInv, SeqInv, TypeOK, Dev, Links
<1>b. ASSUME /\ cmds' \in Seq(Command) /\ evts' \in Seq(Event)
             /\ dev' \in [Slots -> Dev] /\ nb_inquiry' \in 0 .. InquiryMax + 1 /\ inquiry_state' \in BOOLEAN
             /\ link' \in [Addrs -> Links] /\ inquiring' \in BOOLEAN
             /\ sys' \in {"idle", "stop", "start", "loop", "kick", "check", "off"} /\ sysi' \in Slots
             /\ override' \in BOOLEAN /\ curr' \in BOOLEAN
             /\ peer' \in 0 .. MaxPeer /\ fail' \in 0 .. MaxFail /\ press' \in 0 .. MaxSys
             /\ dropped' \subseteq Addrs /\ astray' \subseteq Addrs /\ stopped' \in BOOLEAN /\ crossed' \in BOOLEAN
      PROVE  TypeInv'
  BY <1>b DEF TypeInv, SeqInv, TypeOK, Dev, Links
<1>c. \A m \in Command : Append(cmds, m) \in Seq(Command)
  BY <1>a, AppendFacts
<1>1. CASE Handler
  <2>1. evts' \in Seq(Event) /\ dev' \in [Slots -> Dev] /\ cmds' \in Seq(Command)
    BY <1>1, <1>a, <1>c, HandlerShape, HandledTypes
  <2>2. QED
    BY <1>1, <1>a, <1>b, <2>1, HandlerTypes DEF ctrlVars, sysVars
<1>2. CASE Manager
  <2>a. 0 \in 0 .. InquiryMax + 1
    BY CountsAssumption
  <2>1. cmds' \in Seq(Command) /\ nb_inquiry' \in 0 .. InquiryMax + 1
    BY <1>2, <1>a, <1>c, <2>a, ManagerTypes
  <2>2. QED
    BY <1>2, <1>a, <1>b, <2>1, ManagerTypes DEF ctrlVars
<1>3. CASE CtrlStep
  <2>1. evts' \in Seq(Event) /\ link' \in [Addrs -> Links]
    BY <1>3, <1>a, CtrlShape, AddedTypes DEF Silent
  <2>2. QED
    BY <1>3, <1>a, <1>b, <2>1, CtrlTypes, CtrlShape DEF hostVars, sysVars
<1>4. CASE UNCHANGED vars
  BY <1>4, <1>a, <1>b DEF vars, hostVars, ctrlVars, sysVars, histVars, leftVars
<1>5. QED
  BY <1>1, <1>2, <1>3, <1>4, Steps

LEMMA InitTypes == Init => TypeInv
<1> SUFFICES ASSUME Init PROVE TypeInv
  OBVIOUS
<1>1. cmds \in {<<>>, <<InquiryOn>>} /\ InquiryOn \in Command /\ evts = <<>>
  BY Commands DEF Init, InquiryOn
<1>2. cmds \in Seq(Command) /\ evts \in Seq(Event)
  <2>1. CASE cmds = <<>>
    BY <1>1, <2>1
  <2>2. CASE cmds = <<InquiryOn>>
    BY <1>1, <2>2
  <2>3. QED
    BY <1>1, <2>1, <2>2
<1>3. FreeDev \in Dev /\ 0 \in Slots
  BY Free, DevsAssumption DEF Slots
<1>4. dev \in [Slots -> Dev] /\ link \in [Addrs -> Links]
  BY <1>3 DEF Init, Links
<1>5. 0 \in 0 .. InquiryMax + 1 /\ 0 \in 0 .. MaxPeer /\ 0 \in 0 .. MaxFail /\ 0 \in 0 .. MaxSys
  BY CountsAssumption
<1>6. /\ nb_inquiry \in 0 .. InquiryMax + 1 /\ inquiry_state \in BOOLEAN /\ inquiring \in BOOLEAN
      /\ sys \in {"idle", "stop", "start", "loop", "kick", "check", "off"} /\ sysi \in Slots
      /\ override \in BOOLEAN /\ curr \in BOOLEAN
      /\ peer \in 0 .. MaxPeer /\ fail \in 0 .. MaxFail /\ press \in 0 .. MaxSys
      /\ dropped \subseteq Addrs /\ astray \subseteq Addrs /\ stopped \in BOOLEAN /\ crossed \in BOOLEAN
  BY <1>3, <1>5 DEF Init
<1>7. QED
  BY <1>2, <1>4, <1>6 DEF TypeInv, SeqInv, TypeOK, Dev, Links

\* Every variable keeps its type: the slots hold addresses and handles the
\* controller knows, and no retry counter passes its limit.
THEOREM TypeCorrect == Spec => []TypeOK
<1>1. TypeInv => TypeOK
  BY DEF TypeInv
<1>2. QED
  BY InitTypes, NextTypes, <1>1, PTL DEF Spec

(***************************************************************************)
(* Handles.  The controller hands a handle out again once its link is      *)
(* gone, but the event of the new link comes behind the one that takes the *)
(* old link's slot away.                                                   *)
(***************************************************************************)
Held(h) == \E s \in Slots : dev[s].found /\ dev[s].handle = h

HandleInv ==
  \A h \in Handles :
    /\ Apart(evts, UpOf(h), UpOf(h), DownOf(h))
    /\ Held(h) => Before(evts, UpOf(h), DownOf(h))
    /\ h \in FreeHandles => (Held(h) => Has(evts, DownOf(h))) /\ Followed(evts, UpOf(h), DownOf(h))

\* The slot of a handle after a handler has run.
LEMMA HeldAfter ==
  ASSUME TypeInv, OneSlotEach, NEW e \in Event, Handled(e), NEW h \in Handles,
         NEW t \in Slots, dev'[t].found, dev'[t].handle = h
  PROVE  \/ dev[t].found /\ dev[t].handle = h /\ e \notin DownOf(h)
         \/ e \in UpOf(h) /\ t \in WithAddr(e.addr) /\ dev'[t].addr = e.addr
<1>a. dev \in [Slots -> Dev] /\ h # 0
  BY HandlesAssumption DEF TypeInv, TypeOK, Dev
<1>1. CASE Passes(e)
  <2>1. e \in DownOf(h) => t \notin WithHandle(h)
    BY <1>1 DEF Passes
  <2>2. QED
    BY <1>1, <2>1 DEF Passes, WithHandle
<1>2. CASE Enters(e)
  <2>1. PICK a \in Addrs, s \in Slots, page \in BOOLEAN :
          e \in Seen(a) /\ dev' = [dev EXCEPT ![s] = Entry(page, a)]
    BY <1>2 DEF Enters
  <2>2. t # s
    BY <1>a, <2>1 DEF Entry
  <2>3. QED
    BY <1>a, <2>1, <2>2, KindsApart
<1>3. CASE Connects(e)
  <2>1. PICK a \in Addrs, s \in Slots :
          e \in OkConn(a) /\ s \in WithAddr(a) /\ dev' = [dev EXCEPT ![s].handle = e.handle, ![s].retry = 0]
    BY <1>3 DEF Connects
  <2>2. CASE t = s
    <3>1. dev'[s].handle = e.handle /\ dev'[s].addr = dev[s].addr /\ dev[s].addr = a
      BY <1>a, <2>1, Found DEF Dev
    <3>2. e \in UpOf(h) /\ e.addr = a
      BY <2>1, <2>2, <3>1 DEF OkConn, UpOf
    <3>3. QED
      BY <2>1, <2>2, <3>1, <3>2
  <2>3. CASE t # s
    BY <1>a, <2>1, <2>3, KindsApart
  <2>4. QED
    BY <2>2, <2>3
<1>4. CASE Retries(e)
  <2>1. PICK s \in Slots : dev' = [dev EXCEPT ![s].retry = @ + 1]
    BY <1>4 DEF Retries
  <2>2. e \notin DownOf(h)
    BY <1>4, KindsApart DEF Retries
  <2>3. dev'[t].found = dev[t].found /\ dev'[t].handle = dev[t].handle
    BY <1>a, <2>1 DEF Dev
  <2>4. QED
    BY <2>2, <2>3
<1>5. CASE Frees(e)
  <2>1. PICK s \in Slots :
          /\ \/ \E a \in Addrs : s \in WithAddr(a) /\ e \in NoConn(a) \cup Named(a)
             \/ \E a \in Addrs : e \in Lost(a) /\ s \in WithHandle(e.handle)
          /\ dev' = [dev EXCEPT ![s] = FreeDev]
    BY <1>5 DEF Frees
  <2>2. t # s /\ dev'[t] = dev[t]
    BY <1>a, <2>1 DEF FreeDev
  <2>3. e \notin DownOf(h)
    <3>1. ASSUME e \in DownOf(h) PROVE FALSE
      <4>1. s \in WithHandle(h)
        BY <2>1, <3>1, KindsApart
      <4>2. QED
        BY <1>a, <2>2, <4>1, Found DEF OneSlotEach
    <3>2. QED
      BY <3>1
  <2>4. QED
    BY <2>2, <2>3
<1>6. QED
  BY <1>1, <1>2, <1>3, <1>4, <1>5 DEF Handled

\* The slot of a peer after a handler has run.
LEMMA AddrAfter ==
  ASSUME TypeInv, NEW e \in Event, Handled(e), NEW t \in Slots, dev'[t].found
  PROVE  \/ dev[t].found /\ dev'[t].addr = dev[t].addr
         \/ /\ \A s \in Slots : s # t => dev'[s] = dev[s]
            /\ WithAddr(dev'[t].addr) = {} /\ dev'[t].handle = 0 /\ dev'[t].addr \in Addrs
            /\ e \in Seen(dev'[t].addr) /\ (e \in Request(dev'[t].addr) \/ cmds' = Append(cmds, Connect(dev'[t].addr)))
<1>a. dev \in [Slots -> Dev]
  BY DEF TypeInv, TypeOK, Dev
<1>1. CASE Passes(e)
  BY <1>1 DEF Passes
<1>2. CASE Enters(e)
  <2>1. PICK a \in Addrs, s \in Slots, page \in BOOLEAN :
          /\ e \in Seen(a) /\ WithAddr(a) = {} /\ dev' = [dev EXCEPT ![s] = Entry(page, a)]
          /\ e \in Request(a) \/ cmds' = Append(cmds, Connect(a))
    BY <1>2 DEF Enters
  <2>2. CASE t = s
    <3>1. dev'[t].addr = a /\ dev'[t].handle = 0
      BY <1>a, <2>1, <2>2 DEF Entry
    <3>2. \A u \in Slots : u # t => dev'[u] = dev[u]
      BY <1>a, <2>1, <2>2
    <3>3. QED
      BY <2>1, <3>1, <3>2
  <2>3. CASE t # s
    BY <1>a, <2>1, <2>3
  <2>4. QED
    BY <2>2, <2>3
<1>3. CASE Connects(e)
  <2>1. PICK s \in Slots : s \in Slots /\ dev' = [dev EXCEPT ![s].handle = e.handle, ![s].retry = 0]
    BY <1>3 DEF Connects
  <2>2. dev'[t].found = dev[t].found /\ dev'[t].addr = dev[t].addr
    BY <1>a, <2>1 DEF Dev
  <2>3. QED
    BY <2>2
<1>4. CASE Retries(e)
  <2>1. PICK s \in Slots : s \in Slots /\ dev' = [dev EXCEPT ![s].retry = @ + 1]
    BY <1>4 DEF Retries
  <2>2. dev'[t].found = dev[t].found /\ dev'[t].addr = dev[t].addr
    BY <1>a, <2>1 DEF Dev
  <2>3. QED
    BY <2>2
<1>5. CASE Frees(e)
  <2>1. PICK s \in Slots : s \in Slots /\ dev' = [dev EXCEPT ![s] = FreeDev]
    BY <1>5 DEF Frees
  <2>2. t # s
    BY <1>a, <2>1 DEF FreeDev
  <2>3. QED
    BY <1>a, <2>1, <2>2
<1>6. QED
  BY <1>1, <1>2, <1>3, <1>4, <1>5 DEF Handled

LEMMA OneSlotHandled ==
  ASSUME TypeInv, OneSlotEach, HandleInv, Handler
  PROVE  OneSlotEach'
<1>1. PICK e \in Event : Popped(evts, evts') /\ e = evts[1] /\ Handled(e)
  BY HandlerShape
<1>2. ASSUME NEW s \in Slots, NEW t \in Slots, s # t, dev'[s].found, dev'[t].found
      PROVE  dev'[s].addr # dev'[t].addr
  <2>1. CASE /\ dev[s].found /\ dev'[s].addr = dev[s].addr
             /\ dev[t].found /\ dev'[t].addr = dev[t].addr
    BY <1>2, <2>1 DEF OneSlotEach
  <2>2. ASSUME NEW u \in Slots, NEW v \in Slots, u # v, dev'[u].found, dev'[v].found,
               \A w \in Slots : w # u => dev'[w] = dev[w], WithAddr(dev'[u].addr) = {}
        PROVE  dev'[u].addr # dev'[v].addr
    <3>1. dev'[v] = dev[v]
      BY <2>2
    <3>2. v \notin WithAddr(dev'[u].addr)
      BY <2>2
    <3>3. QED
      BY <2>2, <3>1, <3>2 DEF WithAddr
  <2>3. QED
    BY <1>1, <1>2, <2>1, <2>2, AddrAfter
<1>3. ASSUME NEW s \in Slots, NEW t \in Slots, s # t, dev'[s].found, dev'[t].found, dev'[s].handle # 0
      PROVE  dev'[s].handle # dev'[t].handle
  <2> SUFFICES ASSUME dev'[s].handle = dev'[t].handle PROVE FALSE
    OBVIOUS
  <2>1. dev' \in [Slots -> Dev]
    BY <1>1, HandledTypes
  <2>2. PICK h \in Handles : dev'[s].handle = h /\ dev'[t].handle = h
    BY <1>3, <2>1 DEF Dev
  <2>3. ASSUME NEW u \in Slots, dev[u].found, dev[u].handle = h, e \in UpOf(h) PROVE FALSE
    <3>1. Before(evts, UpOf(h), DownOf(h))
      BY <2>3 DEF HandleInv, Held
    <3>2. QED
      BY <1>1, <2>3, <3>1, PoppedBefore
  <2>4. CASE e \notin UpOf(h)
    <3>1. dev[s].found /\ dev[s].handle = h /\ dev[t].found /\ dev[t].handle = h
      BY <1>1, <1>3, <2>2, <2>4, HeldAfter
    <3>2. h # 0
      BY HandlesAssumption
    <3>3. QED
      BY <1>3, <3>1, <3>2 DEF OneSlotEach
  <2>5. CASE e \in UpOf(h)
    <3>1. dev'[s].addr = e.addr /\ dev'[t].addr = e.addr
      BY <1>1, <1>3, <2>2, <2>3, <2>5, HeldAfter
    <3>2. QED
      BY <1>2, <1>3, <3>1
  <2>6. QED
    BY <2>4, <2>5
<1>4. QED
  BY <1>2, <1>3 DEF OneSlotEach

LEMMA NextOneSlot == TypeInv /\ OneSlotEach /\ HandleInv /\ [Next]_vars => OneSlotEach'
<1> SUFFICES ASSUME TypeInv, OneSlotEach, HandleInv, [Next]_vars PROVE OneSlotEach'
  OBVIOUS
<1>1. CASE dev' = dev
  BY <1>1 DEF OneSlotEach
<1>2. CASE Handler
  BY <1>2, OneSlotHandled
<1>3. QED
  BY <1>1, <1>2, Steps, ManagerTypes, CtrlShape DEF vars, hostVars

LEMMA EventsAdded ==
  ASSUME TypeInv, HandleInv, NEW e \in Event, Pushed(evts, evts', e), Adds(e), dev' = dev
  PROVE  HandleInv'
<1> SUFFICES ASSUME NEW h \in Handles
             PROVE  /\ Apart(evts', UpOf(h), UpOf(h), DownOf(h))
                    /\ Held(h) => Before(evts', UpOf(h), DownOf(h))
                    /\ h \in FreeHandles' => (Held(h) => Has(evts', DownOf(h))) /\ Followed(evts', UpOf(h), DownOf(h))
  BY DEF HandleInv, Held
<1>a. link \in [Addrs -> Links]
  BY DEF TypeInv, TypeOK, Links
<1>b. /\ Apart(evts, UpOf(h), UpOf(h), DownOf(h))
      /\ Held(h) => Before(evts, UpOf(h), DownOf(h))
      /\ h \in FreeHandles => (Held(h) => Has(evts, DownOf(h))) /\ Followed(evts, UpOf(h), DownOf(h))
  BY DEF HandleInv
<1>1. e \in UpOf(h) => h \in FreeHandles /\ h \notin FreeHandles'
  <2>1. ASSUME e \in UpOf(h) PROVE ComesUp(e)
    BY <2>1, KindsApart DEF Adds, Tells, Rings, Fails, Ends
  <2>2. ASSUME e \in UpOf(h), ComesUp(e) PROVE h \in FreeHandles /\ h \notin FreeHandles'
    <3>1. PICK a \in Addrs : e.handle \in FreeHandles /\ link' = [link EXCEPT ![a] = e.handle]
      BY <2>2 DEF ComesUp
    <3>2. e.handle = h /\ link'[a] = h
      BY <1>a, <2>2, <3>1, KindsApart
    <3>3. QED
      BY <3>1, <3>2 DEF FreeHandles
  <2>3. QED
    BY <2>1, <2>2
<1>2. h \in FreeHandles' /\ h \notin FreeHandles => e \in DownOf(h)
  <2> SUFFICES ASSUME h \in FreeHandles', h \notin FreeHandles PROVE e \in DownOf(h)
    OBVIOUS
  <2>1. PICK b \in Addrs : link[b] = h /\ link'[b] # h
    BY DEF FreeHandles
  <2>2. h \notin {NoLink, Paging, Incoming}
    BY LinkValues
  <2>3. Ends(e)
    BY <1>a, <2>1, <2>2 DEF Adds, Tells, Rings, ComesUp, Fails
  <2>4. PICK a \in Addrs : e \in Lost(a) /\ e.handle = link[a] /\ link' = [link EXCEPT ![a] = NoLink]
    BY <2>3 DEF Ends
  <2>5. a = b /\ e.handle = h
    BY <1>a, <2>1, <2>4
  <2>6. QED
    BY <2>4, <2>5 DEF Lost, DownOf
<1>3. Apart(evts', UpOf(h), UpOf(h), DownOf(h))
  BY <1>b, <1>1, PushedApart
<1>4. Held(h) => Before(evts', UpOf(h), DownOf(h))
  BY <1>b, <1>1, PushedBefore
<1>5. ASSUME h \in FreeHandles' PROVE (Held(h) => Has(evts', DownOf(h))) /\ Followed(evts', UpOf(h), DownOf(h))
  <2>1. e \notin UpOf(h)
    BY <1>1, <1>5
  <2>2. QED
    BY <1>b, <1>2, <1>5, <2>1, PushedHas, PushedFollowed
<1>6. QED
  BY <1>3, <1>4, <1>5

LEMMA NextHandles == TypeInv /\ OneSlotEach /\ HandleInv /\ [Next]_vars => HandleInv'
<1> SUFFICES ASSUME TypeInv, OneSlotEach, HandleInv, [Next]_vars PROVE HandleInv'
  OBVIOUS
<1>1. CASE Handler
  <2>1. PICK e \in Event : Popped(evts, evts') /\ e = evts[1] /\ Handled(e) /\ link' = link
    BY <1>1, HandlerShape
  <2>2. FreeHandles' = FreeHandles
    BY <2>1 DEF FreeHandles
  <2> SUFFICES ASSUME NEW h \in Handles
               PROVE  /\ Apart(evts', UpOf(h), UpOf(h), DownOf(h))
                      /\ Held(h)' => Before(evts', UpOf(h), DownOf(h))
                      /\ h \in FreeHandles => (Held(h)' => Has(evts', DownOf(h))) /\ Followed(evts', UpOf(h), DownOf(h))
    BY <2>2 DEF HandleInv
  <2>3. /\ Apart(evts, UpOf(h), UpOf(h), DownOf(h))
        /\ Held(h) => Before(evts, UpOf(h), DownOf(h))
        /\ h \in FreeHandles => (Held(h) => Has(evts, DownOf(h))) /\ Followed(evts, UpOf(h), DownOf(h))
    BY DEF HandleInv
  <2>4. Held(h)' => (Held(h) /\ e \notin DownOf(h)) \/ e \in UpOf(h)
    BY <2>1, HeldAfter DEF Held
  <2>5. Apart(evts', UpOf(h), UpOf(h), DownOf(h)) /\ (e \in UpOf(h) => Before(evts', UpOf(h), DownOf(h)))
    BY <2>1, <2>3, PoppedApart
  <2>6. Held(h) /\ e \notin DownOf(h) => Before(evts', UpOf(h), DownOf(h))
    BY <2>1, <2>3, PoppedBefore
  <2>7. Has(evts, DownOf(h)) /\ e \notin DownOf(h) => Has(evts', DownOf(h))
    BY <2>1, PoppedHas
  <2>8. h \in FreeHandles => Followed(evts', UpOf(h), DownOf(h)) /\ (e \in UpOf(h) => Has(evts', DownOf(h)))
    BY <2>1, <2>3, PoppedFollowed
  <2>9. QED
    BY <2>3, <2>4, <2>5, <2>6, <2>7, <2>8
<1>2. CASE UNCHANGED <<dev, evts, link>>
  BY <1>2 DEF HandleInv, Held, FreeHandles
<1>3. CASE CtrlStep
  <2>1. CASE Silent
    <3>1. evts' = evts /\ dev' = dev
      BY <1>3, <2>1, CtrlShape DEF Silent
    <3>2. \A h \in Handles : h \in FreeHandles' => h \in FreeHandles
      <4>1. link \in [Addrs -> Links]
        BY DEF TypeInv, TypeOK, Links
      <4>2. \A b \in Addrs : link[b] \in Handles => link'[b] = link[b]
        BY <2>1, <4>1, LinkValues DEF Silent
      <4>3. QED
        BY <4>2 DEF FreeHandles
    <3>3. QED
      BY <3>1, <3>2 DEF HandleInv, Held
  <2>2. QED
    BY <1>3, <2>1, CtrlShape, EventsAdded
<1>4. QED
  BY <1>1, <1>2, <1>3, Steps, ManagerTypes DEF vars, hostVars, ctrlVars

LEMMA InitHandles == Init => OneSlotEach /\ HandleInv
<1> SUFFICES ASSUME Init PROVE OneSlotEach /\ HandleInv
  OBVIOUS
<1>1. Len(evts) = 0 /\ \A s \in Slots : ~dev[s].found
  BY DEF Init, FreeDev
<1>2. QED
  BY <1>1 DEF OneSlotEach, HandleInv, Held, Apart, Followed

\* A peer and a handle have one slot each, whatever order links come up, are
\* lost and are answered in: the lookups are never ambiguous.
THEOREM LookupsUnambiguous == Spec => []OneSlotEach
<1>1. TypeInv /\ OneSlotEach /\ HandleInv /\ [Next]_vars => (TypeInv /\ OneSlotEach /\ HandleInv)'
  BY NextTypes, NextOneSlot, NextHandles
<1>2. QED
  BY InitTypes, InitHandles, <1>1, PTL DEF Spec

(***************************************************************************)
(* Slots.  What the events on their way say of a peer fits its link, and   *)
(* its slot fits them: the slot of a link that is gone will see it lost, a *)
(* slot without a link waits for a page of ours.                           *)
(***************************************************************************)
PeerInv(a) ==
  /\ Up(a) =>
       /\ Followed(evts, Seen(a), OkConn(a))
       /\ Has(evts, OkConn(a)) \/ \A s \in WithAddr(a) : dev[s].handle = link[a]
       /\ Followed(evts, OkConn(a) \ UpOf(link[a]), OkConn(a) \cap UpOf(link[a]))
  /\ ~Up(a) => Followed(evts, OkConn(a), Lost(a))
  /\ link[a] # Incoming => Followed(evts, Request(a), Conn(a))
  /\ link[a] = NoLink /\ WithAddr(a) # {} => Has(evts, Conn(a) \cup Lost(a)) \/ WaitsToPage(a)
  /\ Apart(evts, Seen(a), Lost(a), OkConn(a))
  /\ \A s \in WithAddr(a) : Before(evts, Lost(a) \ DownOf(dev[s].handle), OkConn(a))
  /\ \A h \in Handles : Apart(evts, OkConn(a) \cap UpOf(h), Lost(a) \ DownOf(h), OkConn(a))

PeersInv ==
  /\ \A s \in Slots : dev[s].found => dev[s].addr \in Addrs
  /\ \A a \in Addrs : PeerInv(a)

LEMMA HasMono == ASSUME NEW q, NEW A, NEW B, A \subseteq B, Has(q, A) PROVE Has(q, B)
BY DEF Has

LEMMA BeforeMono ==
  ASSUME NEW q, NEW B, NEW C, NEW D, D \subseteq C, Before(q, C, B) PROVE Before(q, D, B)
BY DEF Before

LEMMA FollowedMono ==
  ASSUME NEW q, NEW A, NEW B, NEW C, NEW D, C \subseteq A, B \subseteq D, Followed(q, A, B)
  PROVE  Followed(q, C, D)
<1> SUFFICES ASSUME NEW i \in 1 .. Len(q), q[i] \in C PROVE \E k \in 1 .. Len(q) : i < k /\ q[k] \in D
  BY DEF Followed
<1>1. PICK k \in 1 .. Len(q) : i < k /\ q[k] \in B
  BY DEF Followed
<1>2. QED
  BY <1>1

\* The slot of a peer, and its handle, after a handler has run.
LEMMA SlotAfter ==
  ASSUME TypeInv, OneSlotEach, NEW e \in Event, Handled(e), NEW a \in Addrs,
         NEW t \in Slots, dev'[t].found, dev'[t].addr = a
  PROVE  \/ t \in WithAddr(a) /\ dev'[t].handle = dev[t].handle /\ e \notin Seen(a) \cup OkConn(a)
         \/ t \in WithAddr(a) /\ dev'[t].handle = e.handle /\ e \in OkConn(a)
         \/ t \in WithAddr(a) /\ dev'[t].handle = dev[t].handle /\ e \in Seen(a)
         \/ /\ WithAddr(a) = {} /\ dev'[t].handle = 0 /\ e \in Seen(a)
            /\ e \in Request(a) \/ cmds' = Append(cmds, Connect(a))
<1>a. dev \in [Slots -> Dev]
  BY DEF TypeInv, TypeOK, Dev
<1>1. CASE ~(dev[t].found /\ dev'[t].addr = dev[t].addr)
  BY <1>1, AddrAfter
<1>2. CASE dev[t].found /\ dev'[t].addr = dev[t].addr
  <2>1. t \in WithAddr(a)
    BY <1>2 DEF WithAddr
  <2>2. CASE e \notin OkConn(a)
    <3>1. ASSUME NEW s \in Slots, dev' = [dev EXCEPT ![s] = FreeDev] PROVE dev'[t].handle = dev[t].handle
      BY <1>a, <3>1 DEF FreeDev
    <3>2. ASSUME NEW s \in Slots, NEW page, NEW b, ~dev[s].found, dev' = [dev EXCEPT ![s] = Entry(page, b)]
          PROVE  dev'[t].handle = dev[t].handle
      BY <1>a, <1>2, <3>2
    <3>3. ASSUME NEW s \in Slots, dev' = [dev EXCEPT ![s].retry = @ + 1] PROVE dev'[t].handle = dev[t].handle
      BY <1>a, <3>3 DEF Dev
    <3>4. ASSUME NEW s \in Slots, NEW b \in Addrs, e \in OkConn(b), s \in WithAddr(b),
                 dev' = [dev EXCEPT ![s].handle = e.handle, ![s].retry = 0] PROVE dev'[t].handle = dev[t].handle
      <4>1. s # t
        BY <2>1, <2>2, <3>4, Found
      <4>2. QED
        BY <1>a, <3>4, <4>1
    <3>5. dev'[t].handle = dev[t].handle
      <4>1. CASE Passes(e)
        BY <4>1 DEF Passes
      <4>2. CASE Enters(e)
        BY <3>2, <4>2 DEF Enters
      <4>3. CASE Connects(e)
        BY <3>4, <4>3 DEF Connects
      <4>4. CASE Retries(e)
        BY <3>3, <4>4 DEF Retries
      <4>5. CASE Frees(e)
        BY <3>1, <4>5 DEF Frees
      <4>6. QED
        BY <4>1, <4>2, <4>3, <4>4, <4>5 DEF Handled
    <3>6. QED
      BY <2>1, <2>2, <3>5
  <2>3. CASE e \in OkConn(a)
    <3>1. Connects(e)
      <4>1. ~Passes(e)
        BY <2>1, <2>3 DEF Passes, Conn
      <4>2. ~Enters(e) /\ ~Retries(e) /\ ~Frees(e)
        BY <2>3, KindsApart DEF Enters, Retries, Frees
      <4>3. QED
        BY <4>1, <4>2 DEF Handled
    <3>2. PICK b \in Addrs, s \in Slots : e \in OkConn(b) /\ s \in WithAddr(b)
            /\ dev' = [dev EXCEPT ![s].handle = e.handle, ![s].retry = 0]
      BY <3>1 DEF Connects
    <3>3. b = a
      BY <2>3, <3>2, KindsApart
    <3>4. s = t
      BY <2>1, <3>2, <3>3, Found DEF OneSlotEach
    <3>5. dev'[t].handle = e.handle
      BY <1>a, <3>2, <3>4 DEF Dev
    <3>6. QED
      BY <2>1, <2>3, <3>5
  <2>4. QED
    BY <2>2, <2>3
<1>3. QED
  BY <1>1, <1>2

\* An appended command does not disturb those that wait, and the controller
\* takes a page of ours from the queue when it begins it.
LEMMA WaitsAppended ==
  ASSUME SeqInv, NEW m \in Command, cmds' = Append(cmds, m), NEW a \in Addrs
  PROVE  /\ WaitsToPage(a) => WaitsToPage(a)'
         /\ m = Connect(a) => WaitsToPage(a)'
<1>1. /\ Len(cmds) \in Nat /\ Len(cmds') = Len(cmds) + 1 /\ cmds'[Len(cmds) + 1] = m
      /\ \A i \in 1 .. Len(cmds) : i \in 1 .. Len(cmds') /\ cmds'[i] = cmds[i]
  BY AppendFacts DEF SeqInv, Pushed
<1>2. Len(cmds) + 1 \in 1 .. Len(cmds')
  BY <1>1
<1>3. WaitsToPage(a) => WaitsToPage(a)'
  BY <1>1 DEF WaitsToPage
<1>4. m = Connect(a) => WaitsToPage(a)'
  BY <1>1, <1>2 DEF WaitsToPage, Connect
<1>5. QED
  BY <1>3, <1>4

LEMMA WaitsKept ==
  ASSUME TypeInv, CtrlStep, NEW a \in Addrs, WaitsToPage(a)
  PROVE  WaitsToPage(a)' \/ link'[a] # NoLink
<1>a. SeqInv /\ link \in [Addrs -> Links]
  BY DEF TypeInv, TypeOK, Links
<1>1. CASE cmds' = cmds
  BY <1>1 DEF WaitsToPage
<1>2. CASE CtrlCommand
  <2>1. Popped(cmds, cmds') /\ Head(cmds) = cmds[1] /\ cmds[1] \in Command
    BY <1>2, <1>a, TailFacts DEF CtrlCommand, SeqInv
  <2>2. PICK j \in 1 .. Len(cmds) : cmds[j].c = "connect" /\ cmds[j].addr = a
    BY DEF WaitsToPage
  <2>3. CASE j # 1
    <3>1. PICK i \in 1 .. Len(cmds') : cmds'[i] = cmds[j]
      BY <2>1, <2>3, PoppedAt
    <3>2. QED
      BY <2>2, <3>1 DEF WaitsToPage
  <2>4. CASE j = 1
    <3>1. Head(cmds).c = "connect" /\ Head(cmds).addr = a
      BY <2>1, <2>2, <2>4
    <3>2. (link[a] = NoLink /\ link' = [link EXCEPT ![a] = Paging]) \/ (link[a] # NoLink /\ link' = link)
      BY <1>2, <3>1 DEF CtrlCommand, Refused
    <3>3. QED
      BY <1>a, <3>2, LinkValues
  <2>5. QED
    BY <2>3, <2>4
<1>3. CASE CtrlPeriod
  BY <1>1, <1>3 DEF CtrlPeriod, CtrlOnly
<1>4. ASSUME NEW b \in Addrs, CtrlPaged(b) \/ PeerActs(b) PROVE cmds' = cmds
  BY <1>4 DEF CtrlPaged, PeerActs, CtrlOnly
<1>5. QED
  BY <1>1, <1>2, <1>3, <1>4 DEF CtrlStep

LEMMA PeerHandled ==
  ASSUME TypeInv, OneSlotEach, Handler, NEW a \in Addrs, PeerInv(a)
  PROVE  PeerInv(a)'
<1>1. PICK e \in Event :
        /\ Popped(evts, evts') /\ e = evts[1] /\ link' = link /\ Handled(e)
        /\ cmds' = cmds \/ \E m \in Command : cmds' = Append(cmds, m)
  BY HandlerShape
<1>a. SeqInv /\ dev \in [Slots -> Dev] /\ dev' \in [Slots -> Dev] /\ link \in [Addrs -> Links]
  BY <1>1, HandledTypes DEF TypeInv, TypeOK, Dev, Links
<1>b. \A s \in Slots : s \in WithAddr(a) <=> dev[s].found /\ dev[s].addr = a
  BY DEF WithAddr
<1>c. /\ \A s \in Slots : s \in WithAddr(a)' <=> dev'[s].found /\ dev'[s].addr = a
      /\ WithAddr(a)' \subseteq Slots
  BY DEF WithAddr
<1>d. \A s, t \in WithAddr(a) : s = t
  BY Found DEF OneSlotEach
<1>2. Up(a)' <=> Up(a)
  BY <1>1 DEF Up
<1>3. ASSUME Up(a)
      PROVE  /\ Followed(evts', Seen(a), OkConn(a))
             /\ Has(evts', OkConn(a)) \/ \A s \in WithAddr(a)' : dev'[s].handle = link[a]
             /\ Followed(evts', OkConn(a) \ UpOf(link[a]), OkConn(a) \cap UpOf(link[a]))
  <2>1. /\ Followed(evts, Seen(a), OkConn(a))
        /\ Has(evts, OkConn(a)) \/ \A s \in WithAddr(a) : dev[s].handle = link[a]
        /\ Followed(evts, OkConn(a) \ UpOf(link[a]), OkConn(a) \cap UpOf(link[a]))
    BY <1>3 DEF PeerInv
  <2>2. Followed(evts', Seen(a), OkConn(a)) /\ (e \in Seen(a) => Has(evts', OkConn(a)))
    BY <1>1, <2>1, PoppedFollowed
  <2>3. /\ Followed(evts', OkConn(a) \ UpOf(link[a]), OkConn(a) \cap UpOf(link[a]))
        /\ e \in OkConn(a) \ UpOf(link[a]) => Has(evts', OkConn(a) \cap UpOf(link[a]))
    BY <1>1, <2>1, PoppedFollowed
  <2>4. Has(evts', OkConn(a) \cap UpOf(link[a])) => Has(evts', OkConn(a))
    BY HasMono
  <2>5. e \notin OkConn(a) /\ Has(evts, OkConn(a)) => Has(evts', OkConn(a))
    BY <1>1, PoppedHas
  <2>6. ASSUME ~Has(evts', OkConn(a)), NEW s \in WithAddr(a)' PROVE dev'[s].handle = link[a]
    <3>1. e \notin Seen(a)
      BY <2>2, <2>6
    <3>2. CASE e \in OkConn(a)
      <4>1. e \in UpOf(link[a])
        BY <2>3, <2>4, <2>6, <3>2
      <4>2. e.handle = link[a]
        BY <4>1 DEF UpOf
      <4>3. QED
        BY <1>1, <1>c, <3>1, <3>2, <4>2, SlotAfter
    <3>3. CASE e \notin OkConn(a)
      <4>1. ~Has(evts, OkConn(a))
        BY <2>5, <2>6, <3>3
      <4>2. s \in WithAddr(a) /\ dev'[s].handle = dev[s].handle
        BY <1>1, <1>c, <3>1, <3>3, SlotAfter
      <4>3. QED
        BY <2>1, <4>1, <4>2
    <3>4. QED
      BY <3>2, <3>3
  <2>7. QED
    BY <2>2, <2>3, <2>6
<1>4. ASSUME ~Up(a) PROVE Followed(evts', OkConn(a), Lost(a)) /\ (e \in OkConn(a) => Has(evts', Lost(a)))
  BY <1>1, <1>4, PoppedFollowed DEF PeerInv
<1>5. ASSUME link[a] # Incoming PROVE Followed(evts', Request(a), Conn(a)) /\ (e \in Request(a) => Has(evts', Conn(a)))
  BY <1>1, <1>5, PoppedFollowed DEF PeerInv
<1>6. /\ Apart(evts', Seen(a), Lost(a), OkConn(a))
      /\ e \in Seen(a) => Before(evts', Lost(a), OkConn(a))
  BY <1>1, PoppedApart DEF PeerInv
<1>7. ASSUME NEW h \in Handles
      PROVE  /\ Apart(evts', OkConn(a) \cap UpOf(h), Lost(a) \ DownOf(h), OkConn(a))
             /\ e \in OkConn(a) \cap UpOf(h) => Before(evts', Lost(a) \ DownOf(h), OkConn(a))
  BY <1>1, PoppedApart DEF PeerInv
<1>8. ASSUME NEW s \in WithAddr(a)' PROVE Before(evts', Lost(a) \ DownOf(dev'[s].handle), OkConn(a))
  <2>1. CASE s \in WithAddr(a) /\ dev'[s].handle = dev[s].handle /\ e \notin OkConn(a)
    <3>1. Before(evts, Lost(a) \ DownOf(dev'[s].handle), OkConn(a))
      BY <2>1 DEF PeerInv
    <3>2. QED
      BY <1>1, <2>1, <3>1, PoppedBefore
  <2>2. CASE dev'[s].handle = e.handle /\ e \in OkConn(a)
    <3>1. e.handle \in Handles /\ e \in UpOf(e.handle)
      BY <2>2 DEF OkConn, UpOf
    <3>2. QED
      BY <1>7, <2>2, <3>1
  <2>3. CASE e \in Seen(a)
    BY <1>6, <2>3, BeforeMono
  <2>4. QED
    BY <1>1, <1>c, <2>1, <2>2, <2>3, SlotAfter
<1>9. ASSUME link[a] = NoLink, NEW s \in WithAddr(a)'
      PROVE  Has(evts', Conn(a) \cup Lost(a)) \/ WaitsToPage(a)'
  <2>a. ~Up(a) /\ link[a] # Incoming
    BY <1>9, LinkValues DEF Up
  <2>b. Has(evts', Conn(a)) \/ Has(evts', Lost(a)) => Has(evts', Conn(a) \cup Lost(a))
    BY HasMono
  <2>1. CASE e \in OkConn(a)
    BY <1>4, <2>1, <2>a, <2>b
  <2>2. CASE e \in Request(a)
    BY <1>5, <2>2, <2>a, <2>b
  <2>3. CASE cmds' = Append(cmds, Connect(a))
    BY <1>a, <2>3, Commands, WaitsAppended
  <2>4. CASE s \in WithAddr(a) /\ dev'[s].handle = dev[s].handle /\ e \notin OkConn(a)
    <3>1. Has(evts, Conn(a) \cup Lost(a)) \/ WaitsToPage(a)
      BY <1>9, <2>4 DEF PeerInv
    <3>2. WaitsToPage(a) => WaitsToPage(a)'
      <4>1. cmds' = cmds => WaitsToPage(a)' = WaitsToPage(a)
        BY DEF WaitsToPage
      <4>2. QED
        BY <1>1, <1>a, <4>1, WaitsAppended
    <3>3. CASE e \notin Conn(a) \cup Lost(a)
      BY <1>1, <3>1, <3>2, <3>3, PoppedHas
    <3>4. ASSUME e \in Lost(a) PROVE FALSE
      <4>1. Before(evts, Lost(a) \ DownOf(dev[s].handle), OkConn(a))
        BY <2>4 DEF PeerInv
      <4>2. e \in DownOf(dev[s].handle)
        BY <1>1, <3>4, <4>1, PoppedBefore
      <4>3. e.handle = dev[s].handle /\ e.handle \in Handles
        BY <3>4, <4>2, KindsApart
      <4>4. QED
        BY <1>1, <1>c, <2>4, <4>2, <4>3, HeldAfter, KindsApart
    <3>5. ASSUME e \in NoConn(a) PROVE cmds' = Append(cmds, Connect(a))
      <4>1. ~Passes(e)
        BY <2>4, <3>5 DEF Passes, Conn
      <4>2. ~Enters(e) /\ ~Connects(e)
        BY <3>5, KindsApart DEF Enters, Connects
      <4>3. ~Frees(e)
        <5>1. ASSUME NEW t \in Slots, dev' = [dev EXCEPT ![t] = FreeDev],
                     NEW b \in Addrs, t \in WithAddr(b), e \in NoConn(b) \cup Named(b)
              PROVE  FALSE
          <6>1. b = a
            BY <3>5, <5>1, KindsApart
          <6>2. t = s
            BY <1>d, <2>4, <5>1, <6>1
          <6>3. ~dev'[s].found
            BY <1>a, <5>1, <6>2 DEF FreeDev
          <6>4. QED
            BY <1>c, <6>3
        <5>2. \A b \in Addrs : e \notin Lost(b)
          BY <3>5, KindsApart
        <5>3. QED
          BY <5>1, <5>2 DEF Frees
      <4>4. PICK b \in Addrs : e \in NoConn(b) /\ cmds' = Append(cmds, Connect(b))
        BY <1>1, <3>5, <4>1, <4>2, <4>3, KindsApart DEF Handled, Retries
      <4>5. b = a
        BY <3>5, <4>4, KindsApart
      <4>6. QED
        BY <4>4, <4>5
    <3>6. QED
      BY <2>1, <2>3, <3>3, <3>4, <3>5 DEF Conn
  <2>5. CASE s \in WithAddr(a) /\ e \in Seen(a)
    <3>1. Has(evts, Conn(a) \cup Lost(a)) \/ WaitsToPage(a)
      BY <1>9, <2>5 DEF PeerInv
    <3>2. e \notin Conn(a) \cup Lost(a)
      BY <2>5, KindsApart
    <3>3. WaitsToPage(a) => WaitsToPage(a)'
      <4>1. cmds' = cmds => WaitsToPage(a)' = WaitsToPage(a)
        BY DEF WaitsToPage
      <4>2. QED
        BY <1>1, <1>a, <4>1, WaitsAppended
    <3>4. QED
      BY <1>1, <3>1, <3>2, <3>3, PoppedHas
  <2>6. QED
    BY <1>1, <1>c, <2>1, <2>2, <2>3, <2>4, <2>5, SlotAfter
<1>10. QED
  BY <1>1, <1>2, <1>3, <1>4, <1>5, <1>6, <1>7, <1>8, <1>9 DEF PeerInv

\* What an added event says of a peer, and of its link.
LEMMA PeerNews ==
  ASSUME TypeInv, NEW e, Adds(e), NEW a \in Addrs
  PROVE  \/ /\ link'[a] = link[a] /\ e \notin Request(a) \cup Conn(a) \cup Lost(a)
            /\ e \in Seen(a) => link[a] = NoLink
         \/ e \in Request(a) /\ link[a] = NoLink /\ link'[a] = Incoming
         \/ e \in OkConn(a) /\ link[a] \in {Paging, Incoming} /\ link'[a] = e.handle
         \/ e \in NoConn(a) /\ link[a] \in {Paging, Incoming} /\ link'[a] = NoLink
         \/ e \in Lost(a) /\ Up(a) /\ e.handle = link[a] /\ link'[a] = NoLink
<1>a. link \in [Addrs -> Links]
  BY DEF TypeInv, TypeOK, Links
<1>b. ASSUME NEW b \in Addrs, b # a, e \in Request(b) \cup Conn(b) \cup Lost(b), NEW l, link' = [link EXCEPT ![b] = l]
      PROVE  link'[a] = link[a] /\ e \notin Seen(a) \cup Request(a) \cup Conn(a) \cup Lost(a)
  BY <1>a, <1>b, KindsApart
<1>1. CASE Tells(e)
  BY <1>1, KindsApart DEF Tells
<1>2. CASE Rings(e)
  <2>1. PICK b \in Addrs : e \in Request(b) /\ link[b] = NoLink /\ link' = [link EXCEPT ![b] = Incoming]
    BY <1>2 DEF Rings
  <2>2. QED
    BY <1>a, <1>b, <2>1
<1>3. CASE ComesUp(e)
  <2>1. PICK b \in Addrs : e \in OkConn(b) /\ link[b] \in {Paging, Incoming} /\ link' = [link EXCEPT ![b] = e.handle]
    BY <1>3 DEF ComesUp
  <2>2. QED
    BY <1>a, <1>b, <2>1 DEF Conn
<1>4. CASE Fails(e)
  <2>1. PICK b \in Addrs : e \in NoConn(b) /\ link[b] \in {Paging, Incoming} /\ link' = [link EXCEPT ![b] = NoLink]
    BY <1>4 DEF Fails
  <2>2. QED
    BY <1>a, <1>b, <2>1 DEF Conn
<1>5. CASE Ends(e)
  <2>1. PICK b \in Addrs : e \in Lost(b) /\ Up(b) /\ e.handle = link[b] /\ link' = [link EXCEPT ![b] = NoLink]
    BY <1>5 DEF Ends
  <2>2. CASE b # a
    BY <1>b, <2>1, <2>2
  <2>3. CASE b = a
    <3>1. link'[a] = NoLink
      BY <1>a, <2>1, <2>3
    <3>2. QED
      BY <2>1, <2>3, <3>1
  <2>4. QED
    BY <2>2, <2>3
<1>6. QED
  BY <1>1, <1>2, <1>3, <1>4, <1>5 DEF Adds

LEMMA PeerAdded ==
  ASSUME TypeInv, CtrlStep, dev' = dev, NEW e \in Event, Pushed(evts, evts', e), Adds(e),
         NEW a \in Addrs, PeerInv(a)
  PROVE  PeerInv(a)'
<1>a. WithAddr(a)' = WithAddr(a)
  BY DEF WithAddr
<1>b. Up(a)' <=> link'[a] \in Handles
  BY DEF Up
<1>d. Up(a) => link[a] \notin {NoLink, Paging, Incoming}
  BY LinkValues DEF Up
<1> DEFINE G == /\ link'[a] \in Handles =>
                     /\ Followed(evts', Seen(a), OkConn(a))
                     /\ Has(evts', OkConn(a)) \/ \A s \in WithAddr(a) : dev[s].handle = link'[a]
                     /\ Followed(evts', OkConn(a) \ UpOf(link'[a]), OkConn(a) \cap UpOf(link'[a]))
                /\ link'[a] \notin Handles => Followed(evts', OkConn(a), Lost(a))
                /\ link'[a] # Incoming => Followed(evts', Request(a), Conn(a))
                /\ link'[a] = NoLink /\ WithAddr(a) # {} => Has(evts', Conn(a) \cup Lost(a)) \/ WaitsToPage(a)'
                /\ Apart(evts', Seen(a), Lost(a), OkConn(a))
                /\ \A s \in WithAddr(a) : Before(evts', Lost(a) \ DownOf(dev[s].handle), OkConn(a))
                /\ \A h \in Handles : Apart(evts', OkConn(a) \cap UpOf(h), Lost(a) \ DownOf(h), OkConn(a))
<1>c. SUFFICES G
  BY <1>a, <1>b DEF PeerInv
<1>1. ASSUME e \notin Lost(a)
      PROVE  /\ Apart(evts', Seen(a), Lost(a), OkConn(a))
             /\ \A s \in WithAddr(a) : Before(evts', Lost(a) \ DownOf(dev[s].handle), OkConn(a))
             /\ \A h \in Handles : Apart(evts', OkConn(a) \cap UpOf(h), Lost(a) \ DownOf(h), OkConn(a))
  BY <1>1, PushedApart, PushedBefore DEF PeerInv
<1>2. CASE /\ link'[a] = link[a] /\ e \notin Request(a) \cup Conn(a) \cup Lost(a)
           /\ e \in Seen(a) => link[a] = NoLink
  <2>1. e \notin OkConn(a) /\ e \notin Lost(a) /\ e \notin Request(a)
    BY <1>2 DEF Conn
  <2>2. Up(a) => e \notin Seen(a)
    BY <1>2, <1>d
  <2>3. ASSUME Up(a)
        PROVE  /\ Followed(evts', Seen(a), OkConn(a))
               /\ Has(evts', OkConn(a)) \/ \A s \in WithAddr(a) : dev[s].handle = link[a]
               /\ Followed(evts', OkConn(a) \ UpOf(link[a]), OkConn(a) \cap UpOf(link[a]))
    BY <2>1, <2>2, <2>3, PushedFollowed, PushedHas DEF PeerInv
  <2>4. ~Up(a) => Followed(evts', OkConn(a), Lost(a))
    BY <2>1, PushedFollowed DEF PeerInv
  <2>5. link[a] # Incoming => Followed(evts', Request(a), Conn(a))
    BY <2>1, PushedFollowed DEF PeerInv
  <2>6. link'[a] = NoLink /\ WithAddr(a) # {} => Has(evts', Conn(a) \cup Lost(a)) \/ WaitsToPage(a)'
    BY <1>2, WaitsKept, PushedHas DEF PeerInv
  <2>7. QED
    BY <1>1, <1>2, <2>1, <2>3, <2>4, <2>5, <2>6 DEF Up
<1>3. CASE e \in Request(a) /\ link[a] = NoLink /\ link'[a] = Incoming
  <2>1. e \notin OkConn(a) /\ e \notin Lost(a)
    BY <1>3, KindsApart
  <2>2. ~Up(a) /\ link'[a] \notin Handles /\ link'[a] # NoLink
    BY <1>3, LinkValues DEF Up
  <2>3. Followed(evts', OkConn(a), Lost(a))
    BY <2>1, <2>2, PushedFollowed DEF PeerInv
  <2>4. QED
    BY <1>1, <1>3, <2>1, <2>2, <2>3
<1>4. CASE e \in OkConn(a) /\ link[a] \in {Paging, Incoming} /\ link'[a] = e.handle
  <2>1. e \in UpOf(e.handle) /\ e.handle \in Handles /\ e \in Conn(a)
    BY <1>4 DEF OkConn, UpOf, Conn
  <2>2. e \notin Seen(a) /\ e \notin Lost(a) /\ e \notin Request(a)
    BY <1>4, KindsApart
  <2>3. Followed(evts', Seen(a), OkConn(a)) /\ Has(evts', OkConn(a)) /\ Followed(evts', Request(a), Conn(a))
    BY <1>4, <2>1, <2>2, PushedFollowed, PushedHas
  <2>4. Followed(evts', OkConn(a) \ UpOf(link'[a]), OkConn(a) \cap UpOf(link'[a]))
    BY <1>4, <2>1, PushedFollowed
  <2>5. link'[a] # NoLink /\ link'[a] \in Handles
    BY <1>4, <2>1, LinkValues
  <2>6. QED
    BY <1>1, <2>2, <2>3, <2>4, <2>5
<1>5. CASE e \in NoConn(a) /\ link[a] \in {Paging, Incoming} /\ link'[a] = NoLink
  <2>1. e \notin OkConn(a) /\ e \notin Lost(a) /\ e \notin Request(a) /\ e \in Conn(a)
    BY <1>5, KindsApart DEF Conn
  <2>2. ~Up(a) /\ link'[a] \notin Handles
    BY <1>5, LinkValues DEF Up
  <2>3. Followed(evts', OkConn(a), Lost(a)) /\ Followed(evts', Request(a), Conn(a)) /\ Has(evts', Conn(a) \cup Lost(a))
    BY <2>1, <2>2, PushedFollowed, PushedHas DEF PeerInv
  <2>4. QED
    BY <1>1, <2>1, <2>2, <2>3
<1>6. CASE e \in Lost(a) /\ Up(a) /\ e.handle = link[a] /\ link'[a] = NoLink
  <2>1. e \notin OkConn(a) /\ e \notin Request(a) /\ link[a] # Incoming /\ link'[a] \notin Handles
    BY <1>6, <1>d, KindsApart, LinkValues
  <2>2. Followed(evts', OkConn(a), Lost(a)) /\ Followed(evts', Request(a), Conn(a)) /\ Has(evts', Conn(a) \cup Lost(a))
    BY <1>6, <2>1, PushedFollowed, PushedHas DEF PeerInv
  <2>3. Apart(evts', Seen(a), Lost(a), OkConn(a))
    BY <1>6, PushedApart DEF PeerInv
  <2>4. ASSUME NEW s \in WithAddr(a) PROVE Before(evts', Lost(a) \ DownOf(dev[s].handle), OkConn(a))
    <3>1. Before(evts, Lost(a) \ DownOf(dev[s].handle), OkConn(a))
      BY DEF PeerInv
    <3>2. dev[s].handle = link[a] => e \in DownOf(dev[s].handle)
      BY <1>6 DEF Lost, DownOf
    <3>3. QED
      BY <1>6, <3>1, <3>2, PushedBefore DEF PeerInv
  <2>5. ASSUME NEW h \in Handles PROVE Apart(evts', OkConn(a) \cap UpOf(h), Lost(a) \ DownOf(h), OkConn(a))
    <3>1. Apart(evts, OkConn(a) \cap UpOf(h), Lost(a) \ DownOf(h), OkConn(a))
      BY DEF PeerInv
    <3>2. CASE h = link[a]
      <4>1. e \in DownOf(h)
        BY <1>6, <3>2 DEF Lost, DownOf
      <4>2. QED
        BY <3>1, <4>1, PushedApart
    <3>3. CASE h # link[a]
      <4>1. OkConn(a) \cap UpOf(h) \subseteq OkConn(a) \ UpOf(link[a])
        BY <3>3 DEF UpOf
      <4>2. Followed(evts, OkConn(a) \cap UpOf(h), OkConn(a))
        BY <1>6, <4>1, FollowedMono DEF PeerInv
      <4>3. QED
        BY <3>1, <4>2, PushedApart
    <3>4. QED
      BY <3>2, <3>3
  <2>6. QED
    BY <2>1, <2>2, <2>3, <2>4, <2>5
<1>7. QED
  BY <1>2, <1>3, <1>4, <1>5, <1>6, PeerNews

LEMMA NextPeers == TypeInv /\ OneSlotEach /\ PeersInv /\ [Next]_vars => PeersInv'
<1> SUFFICES ASSUME TypeInv, OneSlotEach, PeersInv, [Next]_vars PROVE PeersInv'
  OBVIOUS
<1>0. ASSUME NEW s \in Slots, dev'[s].found PROVE dev'[s].addr \in Addrs
  <2>1. CASE dev' = dev
    BY <1>0, <2>1 DEF PeersInv
  <2>2. CASE Handler
    BY <1>0, <2>2, HandlerShape, AddrAfter DEF PeersInv
  <2>3. QED
    BY <2>1, <2>2, Steps, ManagerTypes, CtrlShape DEF vars, hostVars
<1> SUFFICES ASSUME NEW a \in Addrs PROVE PeerInv(a)'
  BY <1>0 DEF PeersInv
<1>a. PeerInv(a)
  BY DEF PeersInv
<1>1. ASSUME UNCHANGED <<dev, evts, link>>, WaitsToPage(a) => WaitsToPage(a)' PROVE PeerInv(a)'
  <2>1. WithAddr(a)' = WithAddr(a) /\ (Up(a)' <=> Up(a))
    BY <1>1 DEF WithAddr, Up
  <2>2. QED
    BY <1>1, <1>a, <2>1 DEF PeerInv
<1>2. CASE Handler
  BY <1>2, <1>a, PeerHandled
<1>3. CASE Manager
  <2>1. UNCHANGED <<dev, evts, link>> /\ (cmds' = cmds \/ \E m \in Command : cmds' = Append(cmds, m))
    BY <1>3, ManagerTypes DEF ctrlVars
  <2>2. cmds' = cmds => WaitsToPage(a)' = WaitsToPage(a)
    BY DEF WaitsToPage
  <2>3. QED
    BY <1>1, <2>1, <2>2, WaitsAppended DEF TypeInv
<1>4. CASE CtrlStep
  <2>1. dev' = dev
    BY <1>4, CtrlShape
  <2>2. CASE Silent
    <3>1. link \in [Addrs -> Links]
      BY DEF TypeInv, TypeOK, Links
    <3>2. evts' = evts /\ (link'[a] = link[a] \/ (link[a] = NoLink /\ link'[a] = Paging))
      BY <2>2, <3>1 DEF Silent
    <3>3. WithAddr(a)' = WithAddr(a)
      BY <2>1 DEF WithAddr
    <3>4. CASE link'[a] = link[a]
      <4>1. WaitsToPage(a) /\ link[a] = NoLink => WaitsToPage(a)'
        BY <1>4, <3>4, WaitsKept
      <4>2. QED
        BY <1>a, <2>1, <3>2, <3>3, <3>4, <4>1 DEF PeerInv, Up
    <3>5. CASE link[a] = NoLink /\ link'[a] = Paging
      <4>1. ~Up(a) /\ ~Up(a)' /\ link[a] # Incoming
        BY <3>5, LinkValues DEF Up
      <4>2. QED
        BY <1>a, <2>1, <3>2, <3>3, <3>5, <4>1, LinkValues DEF PeerInv
    <3>6. QED
      BY <3>2, <3>4, <3>5
  <2>3. QED
    BY <1>4, <1>a, <2>1, <2>2, CtrlShape, PeerAdded
<1>5. CASE UNCHANGED vars
  <2>1. UNCHANGED <<dev, evts, link, cmds>>
    BY <1>5 DEF vars, hostVars, ctrlVars
  <2>2. QED
    BY <1>1, <2>1 DEF WaitsToPage
<1>6. QED
  BY <1>2, <1>3, <1>4, <1>5, Steps

LEMMA InitPeers == Init => PeersInv
<1>0. ASSUME Init PROVE \A s \in Slots : ~dev[s].found
  BY <1>0 DEF Init, FreeDev
<1> SUFFICES ASSUME Init, NEW a \in Addrs PROVE PeerInv(a)
  BY <1>0 DEF PeersInv
<1>1. Len(evts) = 0 /\ link[a] = NoLink /\ \A s \in Slots : ~dev[s].found
  BY DEF Init, FreeDev
<1>2. ~Up(a) /\ WithAddr(a) = {}
  BY <1>1, LinkValues DEF Up, WithAddr
<1>3. QED
  BY <1>1, <1>2 DEF PeerInv, Apart, Followed

LEMMA PeersAlive == TypeInv /\ PeersInv => SlotAlive
<1> SUFFICES ASSUME TypeInv, PeersInv, NEW s \in Slots, dev[s].found, NEW a, a = dev[s].addr
             PROVE  \/ link[a] = dev[s].handle
                    \/ link[a] \in {Paging, Incoming}
                    \/ EventsOf(a, {"conn_complete", "disconn_complete"})
                    \/ CommandsOf(a, {"connect", "accept"})
  BY DEF SlotAlive
<1>a. DOMAIN evts = 1 .. Len(evts) /\ DOMAIN cmds = 1 .. Len(cmds)
  BY DEF TypeInv, SeqInv
<1>1. CASE a \in Addrs
  <2>1. s \in WithAddr(a)
    BY DEF WithAddr
  <2>2. link[a] \in Links
    BY <1>1 DEF TypeInv, TypeOK, Links
  <2>3. ASSUME Has(evts, Conn(a) \cup Lost(a)) PROVE EventsOf(a, {"conn_complete", "disconn_complete"})
    <3>1. PICK i \in 1 .. Len(evts) : evts[i] \in Conn(a) \cup Lost(a)
      BY <2>3 DEF Has
    <3>2. evts[i].e \in {"conn_complete", "disconn_complete"} /\ evts[i].addr = a
      BY <3>1, KindsApart
    <3>3. QED
      BY <1>a, <3>2 DEF EventsOf
  <2>4. WaitsToPage(a) => CommandsOf(a, {"connect", "accept"})
    BY <1>a DEF WaitsToPage, CommandsOf
  <2>5. CASE Up(a)
    <3>1. Has(evts, OkConn(a)) => Has(evts, Conn(a) \cup Lost(a))
      BY HasMono DEF Conn
    <3>2. QED
      BY <1>1, <2>1, <2>3, <2>5, <3>1 DEF PeersInv, PeerInv
  <2>6. CASE link[a] = NoLink
    BY <1>1, <2>1, <2>3, <2>4, <2>6 DEF PeersInv, PeerInv
  <2>7. QED
    BY <2>2, <2>5, <2>6 DEF Up, Links
<1>2. a \in Addrs
  BY DEF PeersInv
<1>3. QED
  BY <1>1, <1>2

(***************************************************************************)
(* Attempts to connect to a peer.  At most one is under way, on its way to *)
(* the controller, with it, or answered but not handled, and a slot        *)
(* without a handle waits for it; until the slots lose count of them.      *)
(***************************************************************************)
Tries(a) == {Connect(a), Accept(a)}
Trying(a) == Has(cmds, Tries(a)) \/ link[a] = Paging \/ Has(evts, Conn(a))

OneAttempt(a) ==
  /\ Apart(cmds, Tries(a), Tries(a), {}) /\ Apart(evts, Conn(a), Conn(a), {})
  /\ Has(cmds, Tries(a)) => link[a] # Paging /\ ~Has(evts, Conn(a))
  /\ link[a] = Paging => ~Has(evts, Conn(a))
  /\ Trying(a) => \E s \in WithAddr(a) : dev[s].handle = 0

AttemptInv(a) ==
  /\ a \notin astray =>
       /\ OneAttempt(a)
       /\ Up(a) /\ ~Has(evts, OkConn(a)) /\ a \notin dropped => WithAddr(a) # {}
  /\ Up(a) => Followed(evts, Lost(a) \cup DownOf(link[a]), OkConn(a))
  /\ \A b \in Addrs \ {a} : Up(a) => link[a] # link[b]

AttemptsInv == \A a \in Addrs : AttemptInv(a)

LEMMA TriesKinds ==
  /\ \A a \in Addrs : Tries(a) \subseteq Command
  /\ \A m, a : m \in Tries(a) => m.c \in {"connect", "accept"} /\ m.addr = a
  /\ \A m, a : m.c = "connect" /\ m.addr = a /\ m \in Command => m \in Tries(a)
  /\ InquiryOn.c = "inquiry" /\ InquiryOff.c = "exit_inquiry"
  /\ \A a : Name(a).c = "name" /\ \A h : Disc(h).c = "disc"
BY Commands DEF Tries, Connect, Accept, Name, Disc, InquiryOn, InquiryOff, Command

\* What a handler sends, and what it leaves behind, as far as a peer goes.
Sent(a, e) ==
  \/ cmds' = cmds
  \/ \E m \in Command \ Tries(a) : cmds' = Append(cmds, m)
  \/ /\ e \in Seen(a) /\ WithAddr(a) = {} /\ \E m \in Tries(a) : cmds' = Append(cmds, m)
     /\ \E s \in Slots : \E page : dev' = [dev EXCEPT ![s] = Entry(page, a)]
  \/ /\ e \in NoConn(a) /\ \E m \in Tries(a) : cmds' = Append(cmds, m)
     /\ \E s \in WithAddr(a) : dev' = [dev EXCEPT ![s].retry = @ + 1]

Left(a, e) ==
  /\ astray \subseteq astray'
  /\ e \notin Lost(a) /\ a \in dropped => a \in dropped'
  /\ e \in Named(a) => \/ \A s \in WithAddr(a) : dev'[s].found
                       \/ \E s \in WithAddr(a) : dev[s].handle # 0 /\ a \in dropped'
                       \/ a \in astray'

LEMMA HandlerLeaves ==
  ASSUME TypeInv, Handler, NEW a \in Addrs
  PROVE  \E e \in Event : e = evts[1] /\ Sent(a, e) /\ Left(a, e)
<1>a. SeqInv /\ dev \in [Slots -> Dev]
  BY DEF TypeInv, TypeOK, Dev
<1>b. /\ start_inquiry => cmds' = cmds \/ cmds' = Append(cmds, InquiryOn)
      /\ stop_inquiry => cmds' = Append(cmds, InquiryOff)
      /\ no_inquiry(<<>>) => cmds' = cmds
      /\ \A m \in Command : no_inquiry(<<m>>) => cmds' = Append(cmds, m)
  BY <1>a, NoneSent, OneSent DEF start_inquiry, stop_inquiry
<1>c. /\ InquiryOn \in Command \ Tries(a) /\ InquiryOff \in Command \ Tries(a)
      /\ \A b \in Addrs : Name(b) \in Command \ Tries(a)
  BY Commands, TriesKinds
<1>d. ASSUME NEW s, reset_dev(s) PROVE cmds' = cmds \/ \E m \in Command \ Tries(a) : cmds' = Append(cmds, m)
  BY <1>b, <1>c, <1>d DEF reset_dev
<1>e. ASSUME NEW e, NEW k, Takes(k, e), Sent(a, e), Left(a, e)
      PROVE  \E f \in Event : f = evts[1] /\ Sent(a, f) /\ Left(a, f)
  BY <1>a, <1>e, TakesTypes
<1>f. ASSUME NEW e, e \in Event, e.e # "name_complete", UNCHANGED leftVars PROVE Left(a, e)
  BY <1>f, KindsApart DEF Left, leftVars
<1>1. ASSUME NEW e, InquiryComplete(e) PROVE \E k : Takes(k, e) /\ Sent(a, e) /\ Left(a, e)
  <2>1. Takes("inquiry_complete", e) /\ e \in Event /\ e.e = "inquiry_complete" /\ UNCHANGED leftVars
    BY <1>1, <1>a, TakesTypes DEF InquiryComplete
  <2>2. Sent(a, e)
    BY <1>1, <1>b, <1>c DEF InquiryComplete, Sent
  <2>3. QED
    BY <1>f, <2>1, <2>2
<1>2. ASSUME NEW e, NEW k, Takes(k, e), k \in {"inquiry_result", "conn_request"}, NEW page, NEW cmd,
             NewDev(e, page, cmd), cmd = Connect(e.addr) \/ cmd = Accept(e.addr)
      PROVE  Sent(a, e) /\ Left(a, e)
  <2>1. e \in Event /\ e.e = k
    BY <1>2, <1>a, TakesTypes
  <2>2. e.addr \in Addrs /\ e \in Seen(e.addr)
    BY <1>2, <2>1, EventKinds
  <2>3. cmd \in Command /\ cmd \in Tries(e.addr)
    BY <1>2, <2>2, Commands DEF Tries
  <2>4. ASSUME no_inquiry(<<>>) PROVE Sent(a, e)
    BY <1>b, <2>4 DEF Sent
  <2>5. ASSUME WithAddr(e.addr) = {}, New # {}, no_inquiry(<<cmd>>),
               dev' = [dev EXCEPT ![First(New)] = Entry(page, e.addr)]
        PROVE  Sent(a, e)
    <3>1. cmds' = Append(cmds, cmd) /\ First(New) \in Slots
      BY <1>b, <2>3, <2>5, Found, FirstIn
    <3>2. CASE e.addr = a
      BY <2>2, <2>3, <2>5, <3>1, <3>2 DEF Sent
    <3>3. CASE e.addr # a
      <4>1. cmd \notin Tries(a)
        BY <2>3, <3>3, TriesKinds
      <4>2. QED
        BY <2>3, <3>1, <4>1 DEF Sent
    <3>4. QED
      BY <3>2, <3>3
  <2>6. Sent(a, e)
    BY <1>2, <2>4, <2>5 DEF NewDev, Entry
  <2>7. UNCHANGED leftVars
    BY <1>2 DEF NewDev
  <2>8. QED
    BY <1>2, <1>f, <2>1, <2>6, <2>7
<1>3. ASSUME NEW e, InquiryResult(e) PROVE \E k : Takes(k, e) /\ Sent(a, e) /\ Left(a, e)
  BY <1>2, <1>3 DEF InquiryResult
<1>4. ASSUME NEW e, ConnRequest(e) PROVE \E k : Takes(k, e) /\ Sent(a, e) /\ Left(a, e)
  BY <1>2, <1>4 DEF ConnRequest
<1>5. ASSUME NEW e, ConnComplete(e) PROVE \E k : Takes(k, e) /\ Sent(a, e) /\ Left(a, e)
  <2>1. Takes("conn_complete", e) /\ e \in Event /\ e.e = "conn_complete" /\ e.addr \in Addrs
    BY <1>5, <1>a, TakesTypes, EventKinds DEF ConnComplete
  <2>2. UNCHANGED leftVars
    BY <1>5 DEF ConnComplete, Unknown, histVars
  <2>3. Left(a, e)
    BY <1>f, <2>1, <2>2
  <2>4. PICK b \in Addrs : b = e.addr
    BY <2>1
  <2>5. PICK s : s = First(WithAddr(b))
    OBVIOUS
  <2>6. ASSUME Unknown PROVE Sent(a, e)
    BY <2>6 DEF Unknown, Sent
  <2>7. ASSUME no_inquiry(<<Name(b)>>) PROVE Sent(a, e)
    BY <1>b, <1>c, <2>7 DEF Sent
  <2>8. ASSUME WithAddr(b) # {}, ~e.ok, dev' = [dev EXCEPT ![s].retry = @ + 1], no_inquiry(<<Connect(b)>>)
        PROVE  Sent(a, e)
    <3>1. s \in WithAddr(b) /\ e \in NoConn(b) /\ Connect(b) \in Command
      BY <2>1, <2>4, <2>5, <2>8, Found, FirstIn, EventKinds, Commands
    <3>2. cmds' = Append(cmds, Connect(b)) /\ Connect(b) \in Tries(b)
      BY <1>b, <2>8, <3>1 DEF Tries
    <3>3. CASE b = a
      BY <2>8, <3>1, <3>2, <3>3 DEF Sent
    <3>4. CASE b # a
      <4>1. Connect(b) \notin Tries(a)
        BY <3>2, <3>4, TriesKinds
      <4>2. QED
        BY <3>1, <3>2, <4>1 DEF Sent
    <3>5. QED
      BY <3>3, <3>4
  <2>9. ASSUME reset_dev(s) PROVE Sent(a, e)
    BY <1>d, <2>9 DEF Sent
  <2>10. Sent(a, e)
    BY <1>5, <2>4, <2>5, <2>6, <2>7, <2>8, <2>9 DEF ConnComplete
  <2>11. QED
    BY <2>1, <2>3, <2>10
<1>6. ASSUME NEW e, NameComplete(e) PROVE \E k : Takes(k, e) /\ Sent(a, e) /\ Left(a, e)
  <2>1. Takes("name_complete", e) /\ e \in Event /\ e.e = "name_complete" /\ e.addr \in Addrs
    BY <1>6, <1>a, TakesTypes, EventKinds DEF NameComplete
  <2>2. PICK b \in Addrs : b = e.addr
    BY <2>1
  <2>3. PICK s : s = First(WithAddr(b))
    OBVIOUS
  <2>4. e \in Named(b)
    BY <2>1, <2>2, EventKinds
  <2>5. Sent(a, e)
    <3>1. CASE Unknown
      BY <3>1 DEF Unknown, Sent
    <3>2. CASE stop_inquiry
      BY <1>b, <1>c, <3>2 DEF Sent
    <3>3. CASE no_inquiry(<<Name(b)>>)
      BY <1>b, <1>c, <3>3 DEF Sent
    <3>4. CASE reset_dev(s)
      BY <1>d, <3>4 DEF Sent
    <3>5. QED
      BY <1>6, <2>2, <2>3, <3>1, <3>2, <3>3, <3>4 DEF NameComplete
  <2>6. Left(a, e)
    <3>1. ASSUME dev' = dev, UNCHANGED leftVars PROVE Left(a, e)
      <4>1. \A t \in WithAddr(a) : dev'[t].found
        BY <3>1, Found
      <4>2. QED
        BY <3>1, <4>1 DEF Left, leftVars
    <3>2. ASSUME NEW t \in Slots, dev' = [dev EXCEPT ![t].retry = @ + 1], UNCHANGED leftVars PROVE Left(a, e)
      <4>1. \A u \in WithAddr(a) : dev'[u].found
        BY <1>a, <3>2, Found DEF Dev
      <4>2. QED
        BY <3>2, <4>1 DEF Left, leftVars
    <3>3. ASSUME s \in WithAddr(b), LeavesLink(s, b) PROVE Left(a, e)
      <4>1. astray \subseteq astray' /\ dropped \subseteq dropped'
        BY <3>3 DEF LeavesLink
      <4>2. e \in Named(a) => a = b
        BY <2>2, KindsApart
      <4>3. QED
        BY <3>3, <4>1, <4>2 DEF Left, LeavesLink
    <3>4. CASE WithAddr(b) = {} /\ Unknown
      BY <3>1, <3>4 DEF Unknown, hostVars, histVars
    <3>5. CASE WithAddr(b) # {}
      <4>1. s \in WithAddr(b) /\ s \in Slots
        BY <2>3, <3>5, Found, FirstIn
      <4>2. QED
        BY <1>6, <2>2, <2>3, <3>1, <3>2, <3>3, <3>5, <4>1 DEF NameComplete
    <3>6. QED
      BY <1>6, <2>2, <3>4, <3>5 DEF NameComplete
  <2>7. QED
    BY <2>1, <2>5, <2>6
<1>7. ASSUME NEW e, DisconnComplete(e) PROVE \E k : Takes(k, e) /\ Sent(a, e) /\ Left(a, e)
  <2>1. Takes("disconn_complete", e) /\ e \in Event /\ e.e = "disconn_complete" /\ e \in Lost(e.addr)
    BY <1>7, <1>a, TakesTypes, EventKinds DEF DisconnComplete
  <2>2. dropped' = dropped \ {e.addr} /\ astray' = astray
    BY <1>7 DEF DisconnComplete
  <2>3. Left(a, e)
    BY <2>1, <2>2, KindsApart DEF Left
  <2>4. Sent(a, e)
    BY <1>7, <1>d DEF DisconnComplete, Sent
  <2>5. QED
    BY <2>1, <2>3, <2>4
<1>8. QED
  BY <1>e, <1>1, <1>3, <1>4, <1>5, <1>6, <1>7 DEF Handler

\* What becomes of a peer's slot when a handler runs.
LEMMA SlotKept ==
  ASSUME TypeInv, NEW e \in Event, Handled(e), NEW a \in Addrs, NEW s \in WithAddr(a)
  PROVE  \/ s \in WithAddr(a)' /\ dev'[s].handle = dev[s].handle
         \/ s \in WithAddr(a)' /\ e \in OkConn(a)
         \/ ~dev'[s].found /\ (e \in NoConn(a) \cup Named(a) \/ (e.handle \in Handles /\ dev[s].handle = e.handle /\ e \in DownOf(e.handle)))
<1>a. dev \in [Slots -> Dev] /\ s \in Slots /\ dev[s].found /\ dev[s].addr = a
  BY Found DEF TypeInv, TypeOK, Dev
<1>b. \A t \in Slots : dev'[t].found /\ dev'[t].addr = a => t \in WithAddr(a)'
  BY DEF WithAddr
<1>1. CASE Passes(e)
  BY <1>a, <1>b, <1>1 DEF Passes
<1>2. CASE Enters(e)
  <2>1. PICK t \in Slots, page \in BOOLEAN, b \in Addrs : ~dev[t].found /\ dev' = [dev EXCEPT ![t] = Entry(page, b)]
    BY <1>2 DEF Enters
  <2>2. dev'[s] = dev[s]
    BY <1>a, <2>1
  <2>3. QED
    BY <1>a, <1>b, <2>2
<1>3. CASE Connects(e)
  <2>1. PICK b \in Addrs, t \in Slots :
          e \in OkConn(b) /\ t \in WithAddr(b) /\ dev' = [dev EXCEPT ![t].handle = e.handle, ![t].retry = 0]
    BY <1>3 DEF Connects
  <2>2. dev'[s].found /\ dev'[s].addr = a
    BY <1>a, <2>1 DEF Dev
  <2>3. CASE t = s
    <3>1. b = a
      BY <1>a, <2>1, <2>3, Found
    <3>2. QED
      BY <1>a, <1>b, <2>1, <2>2, <3>1
  <2>4. CASE t # s
    BY <1>a, <1>b, <2>1, <2>2, <2>4
  <2>5. QED
    BY <2>3, <2>4
<1>4. CASE Retries(e)
  <2>1. PICK t \in Slots : dev' = [dev EXCEPT ![t].retry = @ + 1]
    BY <1>4 DEF Retries
  <2>2. dev'[s].found /\ dev'[s].addr = a /\ dev'[s].handle = dev[s].handle
    BY <1>a, <2>1 DEF Dev
  <2>3. QED
    BY <1>a, <1>b, <2>2
<1>5. CASE Frees(e)
  <2>1. PICK t \in Slots :
          /\ \/ \E b \in Addrs : t \in WithAddr(b) /\ e \in NoConn(b) \cup Named(b)
             \/ \E b \in Addrs : e \in Lost(b) /\ t \in WithHandle(e.handle)
          /\ dev' = [dev EXCEPT ![t] = FreeDev]
    BY <1>5 DEF Frees
  <2>2. CASE t # s
    BY <1>a, <1>b, <2>1, <2>2
  <2>3. CASE t = s
    <3>1. ~dev'[s].found
      BY <1>a, <2>1, <2>3 DEF FreeDev
    <3>2. \A b \in Addrs : t \in WithAddr(b) => b = a
      BY <1>a, <2>3, Found
    <3>3. \A b \in Addrs : e \in Lost(b) /\ t \in WithHandle(e.handle) =>
            e.handle \in Handles /\ dev[s].handle = e.handle /\ e \in DownOf(e.handle)
      BY <2>3, Found DEF Lost, DownOf
    <3>4. QED
      BY <2>1, <3>1, <3>2, <3>3
  <2>4. QED
    BY <2>2, <2>3
<1>6. QED
  BY <1>1, <1>2, <1>3, <1>4, <1>5 DEF Handled

\* A command that is not an attempt to connect to a peer changes nothing for it.
LEMMA NoTry ==
  ASSUME SeqInv, NEW a \in Addrs, cmds' = cmds \/ \E m \in Command \ Tries(a) : cmds' = Append(cmds, m)
  PROVE  /\ Has(cmds', Tries(a)) <=> Has(cmds, Tries(a))
         /\ Apart(cmds, Tries(a), Tries(a), {}) => Apart(cmds', Tries(a), Tries(a), {})
<1>1. CASE cmds' = cmds
  BY <1>1
<1>2. CASE \E m \in Command \ Tries(a) : cmds' = Append(cmds, m)
  <2>1. PICK m \in Command \ Tries(a) : Pushed(cmds, cmds', m)
    BY <1>2, AppendFacts DEF SeqInv
  <2>2. QED
    BY <2>1, PushedHas, PushedApart
<1>3. QED
  BY <1>1, <1>2

LEMMA OneTry ==
  ASSUME SeqInv, NEW a \in Addrs, NEW m \in Tries(a), cmds' = Append(cmds, m), ~Has(cmds, Tries(a))
  PROVE  Has(cmds', Tries(a)) /\ Apart(cmds', Tries(a), Tries(a), {})
<1>1. Pushed(cmds, cmds', m)
  BY TriesKinds, AppendFacts DEF SeqInv
<1>2. Apart(cmds, Tries(a), Tries(a), {}) /\ Followed(cmds, Tries(a), {})
  BY DEF Has, Apart, Followed
<1>3. QED
  BY <1>1, <1>2, PushedHas, PushedApart

LEMMA AttemptHandled ==
  ASSUME TypeInv, OneSlotEach, Handler, NEW a \in Addrs, PeerInv(a), AttemptInv(a)
  PROVE  AttemptInv(a)'
<1>1. PICK e \in Event :
        /\ Popped(evts, evts') /\ e = evts[1] /\ link' = link /\ Handled(e)
        /\ Sent(a, e) /\ Left(a, e)
  BY HandlerShape, HandlerLeaves
<1>a. SeqInv /\ dev \in [Slots -> Dev] /\ dev' \in [Slots -> Dev]
  BY <1>1, HandledTypes DEF TypeInv, TypeOK, Dev
<1>b. \A s, t \in WithAddr(a) : s = t
  BY Found DEF OneSlotEach
<1>c. WithAddr(a)' \subseteq Slots /\ \A s \in WithAddr(a)' : dev'[s].found /\ dev'[s].addr = a
  BY DEF WithAddr
<1>d. /\ e \in OkConn(a) => e \in Conn(a) /\ e \notin NoConn(a) \cup Seen(a)
      /\ e \in NoConn(a) => e \in Conn(a) /\ e \notin OkConn(a) \cup Seen(a)
      /\ e \in Seen(a) \cup Named(a) => e \notin Conn(a)
      /\ \A h : e \in DownOf(h) => e \notin Conn(a) \cup Seen(a) \cup Named(a)
  BY KindsApart DEF Conn
<1>2. Up(a) => Followed(evts', Lost(a) \cup DownOf(link[a]), OkConn(a))
               /\ (e \in Lost(a) \cup DownOf(link[a]) => Has(evts', OkConn(a)))
  BY <1>1, PoppedFollowed DEF AttemptInv
<1>3. ASSUME a \notin astray' PROVE OneAttempt(a)'
  <2>a. a \notin astray /\ OneAttempt(a)
    BY <1>1, <1>3 DEF Left, AttemptInv
  <2>b. /\ Apart(cmds, Tries(a), Tries(a), {}) /\ Apart(evts', Conn(a), Conn(a), {})
        /\ e \in Conn(a) => ~Has(evts', Conn(a)) /\ ~Has(cmds, Tries(a)) /\ link[a] # Paging
        /\ Has(evts', Conn(a)) => Has(evts, Conn(a))
    <3>1. Apart(evts', Conn(a), Conn(a), {}) /\ (e \in Conn(a) => Before(evts', Conn(a), {}))
      BY <1>1, <2>a, PoppedApart DEF OneAttempt
    <3>2. Before(evts', Conn(a), {}) => ~Has(evts', Conn(a))
      BY DEF Before, Has
    <3>3. e \in Conn(a) => Has(evts, Conn(a))
      <4>1. 1 \in 1 .. Len(evts)
        BY <1>1 DEF Popped
      <4>2. QED
        BY <1>1, <4>1 DEF Has
    <3>4. Has(evts', Conn(a)) => Has(evts, Conn(a))
      BY <1>1, PoppedHas
    <3>5. QED
      BY <2>a, <3>1, <3>2, <3>3, <3>4 DEF OneAttempt
  <2> DEFINE G == /\ Apart(cmds', Tries(a), Tries(a), {})
                  /\ Has(cmds', Tries(a)) => link[a] # Paging /\ ~Has(evts', Conn(a))
                  /\ link[a] = Paging => ~Has(evts', Conn(a))
                  /\ Has(cmds', Tries(a)) \/ link[a] = Paging \/ Has(evts', Conn(a)) =>
                       \E s \in WithAddr(a)' : dev'[s].handle = 0
  <2>c. SUFFICES G
    BY <1>1, <2>b DEF OneAttempt, Trying, Tries, Connect, Accept, Conn, OkConn, NoConn
  <2>1. CASE cmds' = cmds \/ \E m \in Command \ Tries(a) : cmds' = Append(cmds, m)
    <3>1. /\ Has(cmds', Tries(a)) <=> Has(cmds, Tries(a))
          /\ Apart(cmds', Tries(a), Tries(a), {})
      BY <1>a, <2>1, <2>b, NoTry
    <3>2. ASSUME Has(cmds', Tries(a)) \/ link[a] = Paging \/ Has(evts', Conn(a))
          PROVE  \E s \in WithAddr(a)' : dev'[s].handle = 0
      <4>1. Trying(a) /\ e \notin Conn(a)
        BY <2>b, <3>1, <3>2 DEF Trying
      <4>2. PICK s \in WithAddr(a) : dev[s].handle = 0
        BY <2>a, <4>1 DEF OneAttempt
      <4>3. dev[s].handle \notin Handles
        BY <4>2, HandlesAssumption
      <4>4. e \in Named(a) => dev'[s].found
        BY <1>1, <1>3, <1>b, <4>2 DEF Left
      <4>5. s \in WithAddr(a)' /\ dev'[s].handle = dev[s].handle
        BY <1>1, <1>d, <4>1, <4>3, <4>4, SlotKept
      <4>6. QED
        BY <4>2, <4>5
    <3>3. QED
      BY <2>a, <2>b, <3>1, <3>2 DEF OneAttempt
  <2>2. ASSUME WithAddr(a) = {}, NEW m \in Tries(a), cmds' = Append(cmds, m),
               NEW t \in Slots, NEW page, dev' = [dev EXCEPT ![t] = Entry(page, a)]
        PROVE  G
    <3>1. ~Trying(a)
      BY <2>2, <2>a DEF OneAttempt
    <3>2. Has(cmds', Tries(a)) /\ Apart(cmds', Tries(a), Tries(a), {})
      BY <1>a, <2>2, <3>1, OneTry DEF Trying
    <3>3. link[a] # Paging /\ ~Has(evts', Conn(a))
      BY <2>b, <3>1 DEF Trying
    <3>4. \E s \in WithAddr(a)' : dev'[s].handle = 0
      <4>1. dev'[t] = Entry(page, a)
        BY <1>a, <2>2
      <4>2. QED
        BY <4>1 DEF Entry, WithAddr
    <3>5. QED
      BY <3>2, <3>3, <3>4
  <2>3. ASSUME e \in NoConn(a), NEW m \in Tries(a), cmds' = Append(cmds, m),
               NEW s \in WithAddr(a), dev' = [dev EXCEPT ![s].retry = @ + 1]
        PROVE  G
    <3>1. e \in Conn(a) /\ Trying(a)
      <4>1. 1 \in 1 .. Len(evts)
        BY <1>1 DEF Popped
      <4>2. QED
        BY <1>1, <1>d, <2>3, <4>1 DEF Trying, Has
    <3>2. Has(cmds', Tries(a)) /\ Apart(cmds', Tries(a), Tries(a), {})
      BY <1>a, <2>3, <2>b, <3>1, OneTry
    <3>3. link[a] # Paging /\ ~Has(evts', Conn(a))
      BY <2>b, <3>1
    <3>4. dev[s].handle = 0
      BY <1>b, <2>a, <3>1 DEF OneAttempt
    <3>5. s \in WithAddr(a)' /\ dev'[s].handle = 0
      <4>1. dev'[s].found = dev[s].found /\ dev'[s].addr = dev[s].addr /\ dev'[s].handle = dev[s].handle
        BY <1>a, <2>3, Found DEF Dev
      <4>2. QED
        BY <3>4, <4>1, Found DEF WithAddr
    <3>6. QED
      BY <3>2, <3>3, <3>5
  <2>4. QED
    BY <1>1, <2>1, <2>2, <2>3 DEF Sent
<1>4. ASSUME a \notin astray', Up(a), ~Has(evts', OkConn(a)), a \notin dropped'
      PROVE  WithAddr(a)' # {}
  <2>1. a \notin astray /\ OneAttempt(a) /\ (Up(a) /\ ~Has(evts, OkConn(a)) /\ a \notin dropped => WithAddr(a) # {})
    BY <1>1, <1>4 DEF Left, AttemptInv
  <2>2. e \notin Lost(a) \cup DownOf(link[a]) /\ a \notin dropped
    BY <1>1, <1>2, <1>4 DEF Left
  <2>3. e \in Conn(a) => Trying(a)
    <3>1. 1 \in 1 .. Len(evts)
      BY <1>1 DEF Popped
    <3>2. QED
      BY <1>1, <3>1 DEF Trying, Has
  <2>4. CASE e \in OkConn(a)
    <3>1. PICK s \in WithAddr(a) : dev[s].handle = 0
      BY <1>d, <2>1, <2>3, <2>4 DEF OneAttempt
    <3>2. e \notin NoConn(a) \cup Named(a) /\ \A h : e \notin DownOf(h)
      BY <1>d, <2>4
    <3>3. QED
      BY <1>1, <3>1, <3>2, SlotKept
  <2>5. CASE e \notin OkConn(a)
    <3>1. ~Has(evts, OkConn(a))
      BY <1>1, <1>4, <2>5, PoppedHas
    <3>2. PICK s : s \in WithAddr(a)
      BY <1>4, <2>1, <2>2, <3>1
    <3>3. dev[s].handle = link[a] /\ link[a] \in Handles /\ dev[s].handle # 0
      BY <1>4, <3>1, <3>2, HandlesAssumption DEF PeerInv, Up
    <3>4. e \notin NoConn(a)
      BY <1>b, <1>d, <2>1, <2>3, <3>2, <3>3 DEF OneAttempt
    <3>5. e \in Named(a) => dev'[s].found
      BY <1>1, <1>4, <1>b, <3>2 DEF Left
    <3>6. QED
      BY <1>1, <2>2, <3>2, <3>3, <3>4, <3>5, SlotKept
  <2>6. QED
    BY <2>4, <2>5
<1>5. QED
  BY <1>1, <1>2, <1>3, <1>4 DEF AttemptInv, Up

\* What the controller does with the attempts to connect to a peer.
LEMMA CtrlAttempts ==
  ASSUME TypeInv, CtrlStep, NEW a \in Addrs
  PROVE  /\ astray \subseteq astray' /\ dropped' = dropped
         /\ \/ a \in astray'
            \/ /\ evts' = evts \/ \E e \in Event \ Conn(a) : Pushed(evts, evts', e)
               /\ link'[a] = Paging => link[a] = Paging
               /\ cmds' = cmds \/ Popped(cmds, cmds')
            \/ /\ Popped(cmds, cmds') /\ cmds[1] \in Tries(a)
               /\ evts' = evts
            \/ /\ \E e \in Conn(a) : Pushed(evts, evts', e)
               /\ link'[a] # Paging
               /\ \/ link[a] = Paging /\ cmds' = cmds
                  \/ Popped(cmds, cmds') /\ cmds[1] \in Tries(a)
<1>a. SeqInv /\ link \in [Addrs -> Links]
  BY DEF TypeInv, TypeOK, Links
<1> DEFINE Other == /\ evts' = evts \/ \E e \in Event \ Conn(a) : Pushed(evts, evts', e)
                    /\ link'[a] = Paging => link[a] = Paging
           Answered == (\E e \in Conn(a) : Pushed(evts, evts', e)) /\ link'[a] # Paging
<1>b. ASSUME NEW e \in Event, e.e # "conn_complete", Emits(e), NEW b \in Addrs, NEW l \in {NoLink, Incoming},
             link' = link \/ link' = [link EXCEPT ![b] = l]
      PROVE  Other
  <2>1. Pushed(evts, evts', e) /\ e \notin Conn(a)
    BY <1>a, <1>b, Emitted, KindsApart
  <2>2. link'[a] = Paging => link[a] = Paging
    BY <1>a, <1>b, LinkValues
  <2>3. QED
    BY <2>1, <2>2
<1>c. ASSUME NEW b \in Addrs, LinkUp(b) \/ LinkFails(b)
      PROVE  IF b = a THEN Answered ELSE Other
  <2>1. PICK e \in Conn(b), l \in Links \ {Paging} : e \in Event /\ Emits(e) /\ link' = [link EXCEPT ![b] = l]
    <3>1. CASE LinkUp(b)
      <4>1. PICK h \in FreeHandles : link' = [link EXCEPT ![b] = h] /\ Emits(ConnEvent(b, TRUE, h))
        BY <3>1 DEF LinkUp
      <4>2. h \in Handles /\ h \in Links \ {Paging}
        BY LinkValues DEF FreeHandles, Links
      <4>3. QED
        BY <4>1, <4>2, EventTypes DEF Conn
    <3>2. CASE LinkFails(b)
      <4>1. NoLink \in Links \ {Paging}
        BY LinkValues DEF Links
      <4>2. QED
        BY <3>2, <4>1, EventTypes DEF LinkFails, Conn
    <3>3. QED
      BY <1>c, <3>1, <3>2
  <2>2. Pushed(evts, evts', e)
    BY <1>a, <2>1, Emitted
  <2>3. CASE b = a
    BY <1>a, <2>1, <2>2, <2>3
  <2>4. CASE b # a
    <3>1. e \notin Conn(a) /\ link'[a] = link[a]
      BY <1>a, <2>1, <2>4, KindsApart
    <3>2. QED
      BY <2>1, <2>2, <2>4, <3>1
  <2>5. QED
    BY <2>3, <2>4
<1>d. NoLink \in {NoLink, Incoming} /\ Incoming \in {NoLink, Incoming} /\ a \in Addrs
  OBVIOUS
<1>1. CASE CtrlCommand
  <2>1. PICK m : m = Head(cmds)
    OBVIOUS
  <2>2. Popped(cmds, cmds') /\ m = cmds[1] /\ m \in Command
    BY <1>1, <1>a, <2>1, TailFacts DEF CtrlCommand, SeqInv
  <2>3. UNCHANGED <<dropped, astray>>
    BY <1>1 DEF CtrlCommand, histVars, leftVars
  <2>4. CASE Refused \/ (evts' = evts /\ link' = link)
    BY <2>2, <2>3, <2>4 DEF Refused
  <2>5. CASE m.c = "connect" /\ link[m.addr] = NoLink /\ link' = [link EXCEPT ![m.addr] = Paging] /\ evts' = evts
    <3>1. CASE m.addr = a
      BY <2>2, <2>3, <2>5, <3>1, TriesKinds
    <3>2. CASE m.addr # a
      <4>1. link'[a] = link[a]
        BY <1>a, <2>5, <3>2
      <4>2. QED
        BY <2>2, <2>3, <2>5, <4>1
    <3>3. QED
      BY <3>1, <3>2
  <2>6. CASE m.c = "accept" /\ link[m.addr] = Incoming /\ (LinkUp(m.addr) \/ LinkFails(m.addr))
    <3>1. m.addr \in Addrs
      BY <2>2, <2>6, CommandKinds
    <3>2. m.addr = a => m \in Tries(a)
      BY <2>2, <2>6 DEF Command, Tries, Connect, Accept
    <3>3. QED
      BY <1>c, <2>2, <2>3, <2>6, <3>1, <3>2
  <2>7. CASE m.c = "name" /\ link' = link /\ \E ok \in BOOLEAN : Emits(NameEvent(m.addr, ok))
    <3>1. PICK ok \in BOOLEAN : Emits(NameEvent(m.addr, ok))
      BY <2>7
    <3>2. PICK e \in Event : e = NameEvent(m.addr, ok) /\ e \in Named(m.addr)
      BY <2>2, <2>7, CommandKinds, EventTypes
    <3>3. e.e # "conn_complete"
      BY <3>2, KindsApart
    <3>4. Other
      BY <1>b, <1>d, <2>7, <3>1, <3>2, <3>3
    <3>5. QED
      BY <2>2, <2>3, <3>4
  <2>8. ASSUME m.c = "disc", NEW b \in Addrs, link[b] = m.handle, link' = [link EXCEPT ![b] = NoLink],
               Emits(DiscEvent(b, m.handle))
        PROVE  Other
    <3>1. m.handle \in Handles
      BY <1>a, <2>2, <2>8, CommandKinds, LinkValues DEF Links, NoLink, Paging, Incoming
    <3>2. PICK e \in Event : e = DiscEvent(b, m.handle) /\ e \in Lost(b)
      BY <3>1, EventTypes
    <3>3. e.e # "conn_complete"
      BY <3>2, KindsApart
    <3>4. QED
      BY <1>b, <1>d, <2>8, <3>2, <3>3
  <2>9. CASE m.c \in {"inquiry", "exit_inquiry"}
    BY <1>1, <2>1, <2>4, <2>9 DEF CtrlCommand
  <2>10. CASE m.c = "connect"
    BY <1>1, <2>1, <2>4, <2>5, <2>10 DEF CtrlCommand
  <2>11. CASE m.c = "accept"
    BY <1>1, <2>1, <2>4, <2>6, <2>11 DEF CtrlCommand
  <2>12. CASE m.c = "name"
    BY <1>1, <2>1, <2>7, <2>12 DEF CtrlCommand
  <2>13. CASE m.c = "disc"
    BY <1>1, <2>1, <2>2, <2>3, <2>4, <2>8, <2>13 DEF CtrlCommand
  <2>14. QED
    BY <2>2, <2>9, <2>10, <2>11, <2>12, <2>13, CommandKinds
<1>2. CASE CtrlPeriod
  <2>1. link' = link /\ Emits([e |-> "inquiry_complete"]) /\ UNCHANGED <<dropped, astray, cmds>>
    BY <1>2 DEF CtrlPeriod, CtrlOnly, ctrlVars
  <2>2. PICK e \in Event : e = [e |-> "inquiry_complete"] /\ e.e # "conn_complete"
    BY PeriodType
  <2>3. Other
    BY <1>b, <1>d, <2>1, <2>2
  <2>4. QED
    BY <2>1, <2>3
<1>3. ASSUME NEW b \in Addrs, CtrlPaged(b)
      PROVE  /\ astray \subseteq astray' /\ dropped' = dropped /\ cmds' = cmds
             /\ a \in astray' \/ Other \/ (Answered /\ link[a] = Paging)
  <2>1. dropped' = dropped /\ cmds' = cmds
    BY <1>3 DEF CtrlPaged, CtrlOnly
  <2>2. CASE link[b] = Paging /\ (LinkUp(b) \/ LinkFails(b)) /\ UNCHANGED astray
    BY <1>c, <2>1, <2>2
  <2>3. CASE /\ link[b] = Incoming /\ link' = [link EXCEPT ![b] = NoLink]
             /\ Emits(ConnEvent(b, FALSE, 0)) /\ astray' = astray \cup {b}
    <3>1. CASE b = a
      BY <2>1, <2>3, <3>1
    <3>2. CASE b # a
      <4>1. PICK e \in Event : e = ConnEvent(b, FALSE, 0) /\ e \in NoConn(b)
        BY EventTypes
      <4>2. Pushed(evts, evts', e)
        BY <1>a, <2>3, <4>1, Emitted
      <4>3. e \notin Conn(a)
        <5>1. e \in Conn(b)
          BY <4>1 DEF Conn
        <5>2. e.addr = b /\ (e \in Conn(a) => e.addr = a)
          BY <5>1, KindsApart
        <5>3. QED
          BY <3>2, <5>2
      <4>4. link'[a] = link[a]
        BY <1>a, <2>3, <3>2
      <4>5. Other
        <5>1. e \in Event \ Conn(a)
          BY <4>1, <4>3
        <5>2. QED
          BY <4>2, <4>4, <5>1
      <4>6. astray \subseteq astray'
        BY <2>3
      <4>7. QED
        BY <2>1, <4>5, <4>6
    <3>3. QED
      BY <3>1, <3>2
  <2>4. QED
    BY <1>3, <2>2, <2>3 DEF CtrlPaged
<1>4. ASSUME NEW b \in Addrs, PeerActs(b)
      PROVE  /\ astray \subseteq astray' /\ dropped' = dropped /\ cmds' = cmds
             /\ Other
  <2>1. UNCHANGED <<astray, dropped, cmds>>
    BY <1>4 DEF PeerActs, CtrlOnly
  <2>2. ASSUME NEW e \in Event, e.e # "conn_complete", Emits(e),
               link' = link \/ link' = [link EXCEPT ![b] = NoLink] \/ link' = [link EXCEPT ![b] = Incoming]
        PROVE  Other
    BY <1>b, <1>d, <2>2
  <2>3. CASE Emits([e |-> "inquiry_result", addr |-> b]) /\ link' = link
    BY <2>1, <2>2, <2>3, EventTypes
  <2>4. CASE link' = [link EXCEPT ![b] = Incoming] /\ Emits([e |-> "conn_request", addr |-> b])
    BY <2>1, <2>2, <2>4, EventTypes
  <2>5. CASE Up(b) /\ link' = [link EXCEPT ![b] = NoLink] /\ Emits(DiscEvent(b, link[b]))
    <3>1. PICK e \in Event : e = DiscEvent(b, link[b]) /\ e \in Lost(b)
      BY <2>5, EventTypes DEF Up
    <3>2. e.e # "conn_complete"
      BY <3>1, KindsApart
    <3>3. QED
      BY <2>1, <2>2, <2>5, <3>1, <3>2
  <2>6. QED
    BY <1>4, <2>3, <2>4, <2>5 DEF PeerActs
<1>5. QED
  BY <1>1, <1>2, <1>3, <1>4 DEF CtrlStep

LEMMA AttemptMoves ==
  ASSUME TypeInv, CtrlStep, dev' = dev, NEW a \in Addrs, OneAttempt(a), a \notin astray'
  PROVE  OneAttempt(a)'
<1>a. WithAddr(a)' = WithAddr(a)
  BY DEF WithAddr
<1>b. Tries(a)' = Tries(a) /\ Conn(a)' = Conn(a)
  BY DEF Tries, Connect, Accept, Conn, OkConn, NoConn
<1> DEFINE G == /\ Apart(cmds', Tries(a), Tries(a), {}) /\ Apart(evts', Conn(a), Conn(a), {})
                /\ Has(cmds', Tries(a)) => link'[a] # Paging /\ ~Has(evts', Conn(a))
                /\ link'[a] = Paging => ~Has(evts', Conn(a))
                /\ Has(cmds', Tries(a)) \/ link'[a] = Paging \/ Has(evts', Conn(a)) => Trying(a)
<1>c. SUFFICES G
  <2>1. ASSUME G PROVE OneAttempt(a)'
    BY <1>a, <1>b, <2>1 DEF OneAttempt, Trying
  <2>2. QED
    BY <2>1
<1>1. ASSUME Popped(cmds, cmds')
      PROVE  /\ Apart(cmds', Tries(a), Tries(a), {})
             /\ Has(cmds', Tries(a)) => Has(cmds, Tries(a))
             /\ cmds[1] \in Tries(a) => Has(cmds, Tries(a)) /\ ~Has(cmds', Tries(a))
  <2>1. Apart(cmds', Tries(a), Tries(a), {}) /\ (cmds[1] \in Tries(a) => Before(cmds', Tries(a), {}))
    BY <1>1, PoppedApart DEF OneAttempt
  <2>2. Before(cmds', Tries(a), {}) => ~Has(cmds', Tries(a))
    BY DEF Before, Has
  <2>3. cmds[1] \in Tries(a) => Has(cmds, Tries(a))
    <3>1. 1 \in 1 .. Len(cmds)
      BY <1>1 DEF Popped
    <3>2. QED
      BY <3>1 DEF Has
  <2>4. Has(cmds', Tries(a)) => Has(cmds, Tries(a))
    BY <1>1, PoppedHas
  <2>5. QED
    BY <2>1, <2>2, <2>3, <2>4
<1>2. CASE /\ evts' = evts \/ \E e \in Event \ Conn(a) : Pushed(evts, evts', e)
           /\ link'[a] = Paging => link[a] = Paging
           /\ cmds' = cmds \/ Popped(cmds, cmds')
  <2>1. (Has(evts', Conn(a)) <=> Has(evts, Conn(a))) /\ Apart(evts', Conn(a), Conn(a), {})
    <3>1. CASE evts' = evts
      BY <3>1 DEF OneAttempt
    <3>2. ASSUME NEW e \in Event \ Conn(a), Pushed(evts, evts', e)
          PROVE  (Has(evts', Conn(a)) <=> Has(evts, Conn(a))) /\ Apart(evts', Conn(a), Conn(a), {})
      BY <3>2, PushedHas, PushedApart DEF OneAttempt
    <3>3. QED
      BY <1>2, <3>1, <3>2
  <2>2. (Has(cmds', Tries(a)) => Has(cmds, Tries(a))) /\ Apart(cmds', Tries(a), Tries(a), {})
    BY <1>1, <1>2 DEF OneAttempt
  <2>3. QED
    BY <1>2, <2>1, <2>2 DEF OneAttempt, Trying
<1>3. CASE Popped(cmds, cmds') /\ cmds[1] \in Tries(a) /\ evts' = evts
  <2>1. Has(cmds, Tries(a)) /\ ~Has(cmds', Tries(a)) /\ Apart(cmds', Tries(a), Tries(a), {})
    BY <1>1, <1>3
  <2>2. QED
    BY <1>3, <2>1 DEF OneAttempt, Trying
<1>4. ASSUME NEW e \in Conn(a), Pushed(evts, evts', e), link'[a] # Paging,
             (link[a] = Paging /\ cmds' = cmds) \/ (Popped(cmds, cmds') /\ cmds[1] \in Tries(a))
      PROVE  G
  <2>1. /\ Trying(a) /\ ~Has(evts, Conn(a)) /\ ~Has(cmds', Tries(a))
        /\ Apart(cmds', Tries(a), Tries(a), {})
    BY <1>1, <1>4 DEF OneAttempt, Trying
  <2>2. Followed(evts, Conn(a), {})
    BY <2>1 DEF Has, Followed
  <2>3. Apart(evts', Conn(a), Conn(a), {})
    BY <1>4, <2>2, PushedApart DEF OneAttempt
  <2>4. QED
    BY <1>4, <2>1, <2>3
<1>5. QED
  BY <1>2, <1>3, <1>4, CtrlAttempts

\* What an added event says of a handle.
LEMMA HandleNews ==
  ASSUME TypeInv, NEW e, Adds(e), NEW h \in Handles, e \in DownOf(h)
  PROVE  \E b \in Addrs : link[b] = h /\ link'[b] = NoLink
<1>a. link \in [Addrs -> Links]
  BY DEF TypeInv, TypeOK, Links
<1>1. Ends(e)
  BY KindsApart DEF Adds, Tells, Rings, ComesUp, Fails
<1>2. PICK b \in Addrs : e.handle = link[b] /\ link' = [link EXCEPT ![b] = NoLink]
  BY <1>1 DEF Ends
<1>3. e.handle = h
  BY KindsApart
<1>4. QED
  BY <1>a, <1>2, <1>3

LEMMA HandlesApart ==
  ASSUME TypeInv, AttemptsInv, Silent \/ \E e \in Event : Adds(e),
         NEW a \in Addrs, NEW b \in Addrs, a # b, Up(a)'
  PROVE  link'[a] # link'[b]
<1>a. link \in [Addrs -> Links] /\ link'[a] \in Handles
  BY DEF TypeInv, TypeOK, Links, Up
<1>b. link[a] \in Handles => link[a] # link[b]
  BY DEF AttemptsInv, AttemptInv, Up
<1>1. ASSUME link'[b] # link[b], link'[b] \in Handles
      PROVE  link'[b] \in FreeHandles /\ link'[a] = link[a]
  <2>1. PICK e \in Event : ComesUp(e)
    BY <1>1, <1>a, LinkValues DEF Silent, Adds, Tells, Rings, Fails, Ends
  <2>2. PICK c \in Addrs : e.handle \in FreeHandles /\ link' = [link EXCEPT ![c] = e.handle]
    BY <2>1 DEF ComesUp
  <2>3. QED
    BY <1>1, <1>a, <2>2
<1>2. ASSUME link'[a] # link[a]
      PROVE  link'[a] \in FreeHandles /\ link'[b] = link[b]
  <2>1. PICK e \in Event : ComesUp(e)
    BY <1>2, <1>a, LinkValues DEF Silent, Adds, Tells, Rings, Fails, Ends
  <2>2. PICK c \in Addrs : e.handle \in FreeHandles /\ link' = [link EXCEPT ![c] = e.handle]
    BY <2>1 DEF ComesUp
  <2>3. QED
    BY <1>2, <1>a, <2>2
<1>3. QED
  BY <1>a, <1>b, <1>1, <1>2 DEF FreeHandles

LEMMA AttemptAdded ==
  ASSUME TypeInv, CtrlStep, dev' = dev, NEW e \in Event, Pushed(evts, evts', e), Adds(e),
         AttemptsInv, NEW a \in Addrs
  PROVE  AttemptInv(a)'
<1>a. WithAddr(a)' = WithAddr(a) /\ (Up(a)' <=> link'[a] \in Handles) /\ (Up(a) <=> link[a] \in Handles)
  BY DEF WithAddr, Up
<1>b. AttemptInv(a) /\ link \in [Addrs -> Links]
  BY DEF AttemptsInv, TypeInv, TypeOK, Links
<1>c. astray \subseteq astray' /\ dropped' = dropped
  BY CtrlAttempts
<1>d. Up(a)' => \/ Up(a) /\ link'[a] = link[a]
                \/ e \in OkConn(a) /\ link'[a] = e.handle
  BY <1>a, PeerNews, LinkValues
<1>1. a \notin astray' => OneAttempt(a)'
  BY <1>b, <1>c, AttemptMoves DEF AttemptInv
<1>2. Up(a)' /\ ~Has(evts', OkConn(a)) => Up(a) /\ ~Has(evts, OkConn(a))
  BY <1>d, PushedHas
<1>3. ASSUME Up(a)' PROVE Followed(evts', Lost(a) \cup DownOf(link'[a]), OkConn(a))
  <2>1. CASE Up(a) /\ link'[a] = link[a]
    <3>1. e \notin Lost(a)
      BY <2>1, <1>a, PeerNews, KindsApart, LinkValues DEF Conn
    <3>2. e \notin DownOf(link[a])
      <4>1. ASSUME e \in DownOf(link[a]) PROVE FALSE
        <5>1. PICK b \in Addrs : link[b] = link[a] /\ link'[b] = NoLink
          BY <2>1, <4>1, <1>a, HandleNews
        <5>2. b # a
          BY <2>1, <5>1, <1>a, LinkValues
        <5>3. QED
          BY <1>b, <2>1, <5>1, <5>2 DEF AttemptInv
      <4>2. QED
        BY <4>1
    <3>3. Followed(evts, Lost(a) \cup DownOf(link[a]), OkConn(a))
      BY <1>b, <2>1 DEF AttemptInv
    <3>4. QED
      BY <2>1, <3>1, <3>2, <3>3, PushedFollowed
  <2>2. CASE e \in OkConn(a)
    <3>1. e \notin Lost(a) /\ \A h : e \notin DownOf(h)
      BY <2>2, KindsApart
    <3>2. QED
      BY <2>2, <3>1, PushedFollowed
  <2>3. QED
    BY <1>d, <1>3, <2>1, <2>2
<1>4. Up(a)' => \A b \in Addrs \ {a} : link'[a] # link'[b]
  BY HandlesApart
<1>5. a \notin astray' => (Up(a)' /\ ~Has(evts', OkConn(a)) /\ a \notin dropped' => WithAddr(a)' # {})
  BY <1>a, <1>b, <1>c, <1>2 DEF AttemptInv
<1>6. QED
  BY <1>1, <1>3, <1>4, <1>5 DEF AttemptInv

\* The manager makes no attempt to connect to anybody.
LEMMA ManagerTries ==
  ASSUME TypeInv, Manager, NEW a \in Addrs
  PROVE  cmds' = cmds \/ \E m \in Command \ Tries(a) : cmds' = Append(cmds, m)
<1>1. InquiryOn \in Command \ Tries(a) /\ InquiryOff \in Command \ Tries(a)
  BY Commands, TriesKinds
<1>2. Disc(dev[sysi].handle) \in Command \ Tries(a)
  <2>1. dev[sysi].handle \in Handles \cup {0}
    BY DEF TypeInv, TypeOK
  <2>2. QED
    BY <2>1, Commands, TriesKinds
<1>3. QED
  BY <1>1, <1>2 DEF Manager, PressStop, PressDisconnect, PressStart, PassOn, PassOff, Silence, StopBegins,
     SysStep, SysStopped, SysStarted, SysCheck, SysDisconnect, SysOff

LEMMA NextAttempts == TypeInv /\ OneSlotEach /\ PeersInv /\ AttemptsInv /\ [Next]_vars => AttemptsInv'
<1> SUFFICES ASSUME TypeInv, OneSlotEach, PeersInv, AttemptsInv, [Next]_vars, NEW a \in Addrs
             PROVE  AttemptInv(a)'
  BY DEF AttemptsInv
<1>a. PeerInv(a) /\ AttemptInv(a) /\ SeqInv
  BY DEF PeersInv, AttemptsInv, TypeInv
<1>1. ASSUME UNCHANGED <<dev, evts, link, dropped>>, astray \subseteq astray', a \notin astray' => OneAttempt(a)'
      PROVE  AttemptInv(a)'
  <2>1. WithAddr(a)' = WithAddr(a) /\ (Up(a)' <=> Up(a))
    BY <1>1 DEF WithAddr, Up
  <2>2. a \notin astray' => (Up(a)' /\ ~Has(evts', OkConn(a)) /\ a \notin dropped' => WithAddr(a)' # {})
    BY <1>1, <1>a, <2>1 DEF AttemptInv
  <2>3. Up(a)' => Followed(evts', Lost(a) \cup DownOf(link'[a]), OkConn(a))
    BY <1>1, <1>a, <2>1 DEF AttemptInv
  <2>4. \A b \in Addrs \ {a} : Up(a)' => link'[a] # link'[b]
    BY <1>1, <1>a, <2>1 DEF AttemptInv
  <2>5. QED
    BY <1>1, <2>2, <2>3, <2>4 DEF AttemptInv
<1>2. CASE Handler
  BY <1>2, <1>a, AttemptHandled
<1>3. CASE Manager
  <2>1. UNCHANGED <<dev, evts, link, dropped, astray>>
    BY <1>3, ManagerTypes DEF ctrlVars
  <2>2. /\ Has(cmds', Tries(a)) <=> Has(cmds, Tries(a))
        /\ Apart(cmds, Tries(a), Tries(a), {}) => Apart(cmds', Tries(a), Tries(a), {})
    BY <1>3, <1>a, ManagerTries, NoTry
  <2>3. WithAddr(a)' = WithAddr(a) /\ Tries(a)' = Tries(a)
    BY <2>1 DEF WithAddr, Tries, Connect, Accept
  <2>4. OneAttempt(a) => OneAttempt(a)'
    BY <2>1, <2>2, <2>3 DEF OneAttempt, Trying
  <2>5. QED
    BY <1>1, <1>a, <2>1, <2>4 DEF AttemptInv
<1>4. CASE CtrlStep
  <2>1. dev' = dev
    BY <1>4, CtrlShape
  <2>2. CASE Silent
    <3>1. WithAddr(a)' = WithAddr(a) /\ link \in [Addrs -> Links] /\ evts' = evts
      BY <2>1, <2>2 DEF WithAddr, TypeInv, TypeOK, Links, Silent
    <3>2. Up(a)' => Up(a) /\ link'[a] = link[a]
      BY <2>2, <3>1, LinkValues DEF Silent, Up
    <3>3. astray \subseteq astray' /\ dropped' = dropped
      BY <1>4, CtrlAttempts
    <3>4. a \notin astray' => OneAttempt(a)'
      BY <1>4, <1>a, <2>1, <3>3, AttemptMoves DEF AttemptInv
    <3>5. Up(a)' => \A b \in Addrs \ {a} : link'[a] # link'[b]
      BY <2>2, HandlesApart
    <3>6. a \notin astray' => (Up(a)' /\ ~Has(evts', OkConn(a)) /\ a \notin dropped' => WithAddr(a)' # {})
      BY <1>a, <3>1, <3>2, <3>3 DEF AttemptInv
    <3>7. Up(a)' => Followed(evts', Lost(a) \cup DownOf(link'[a]), OkConn(a))
      BY <1>a, <3>1, <3>2 DEF AttemptInv
    <3>8. QED
      BY <3>4, <3>5, <3>6, <3>7 DEF AttemptInv
  <2>3. QED
    BY <1>4, <2>1, <2>2, CtrlShape, AttemptAdded
<1>5. CASE UNCHANGED vars
  <2>1. UNCHANGED <<dev, evts, link, cmds, dropped, astray>>
    BY <1>5 DEF vars, hostVars, ctrlVars, histVars, leftVars
  <2>2. WithAddr(a)' = WithAddr(a) /\ Tries(a)' = Tries(a)
    BY <2>1 DEF WithAddr, Tries, Connect, Accept
  <2>3. OneAttempt(a) => OneAttempt(a)'
    BY <2>1, <2>2 DEF OneAttempt, Trying
  <2>4. QED
    BY <1>1, <1>a, <2>1, <2>3 DEF AttemptInv
<1>6. QED
  BY <1>2, <1>3, <1>4, <1>5, Steps

LEMMA InitAttempts == Init => AttemptsInv
<1> SUFFICES ASSUME Init, NEW a \in Addrs PROVE AttemptInv(a)
  BY DEF AttemptsInv
<1>1. /\ Len(evts) = 0 /\ link[a] = NoLink
      /\ \A i \in 1 .. Len(cmds) : cmds[i] = InquiryOn
  <2>1. cmds = <<>> \/ cmds = <<InquiryOn>>
    BY DEF Init, InquiryOn
  <2>2. \A i \in 1 .. Len(cmds) : cmds[i] = InquiryOn
    BY <2>1
  <2>3. QED
    BY <2>2 DEF Init
<1>2. ~Up(a) /\ link[a] # Paging
  BY <1>1, LinkValues DEF Up
<1>3. ~Has(evts, Conn(a)) /\ Apart(evts, Conn(a), Conn(a), {})
  BY <1>1 DEF Has, Apart
<1>4. ~Has(cmds, Tries(a))
  BY <1>1, TriesKinds DEF Has
<1>5. Apart(cmds, Tries(a), Tries(a), {})
  BY <1>4 DEF Has, Apart
<1>6. QED
  BY <1>2, <1>3, <1>4, <1>5 DEF AttemptInv, OneAttempt, Trying

LEMMA AttemptsLast == TypeInv /\ PeersInv /\ AttemptsInv => LinkHasSlot
<1> SUFFICES ASSUME TypeInv, PeersInv, AttemptsInv, NEW a \in Addrs, Up(a), a \notin dropped, a \notin astray
             PROVE  \/ \E s \in Slots : dev[s].found /\ dev[s].addr = a /\ dev[s].handle = link[a]
                    \/ EventsOf(a, {"conn_complete"}) /\ WithAddr(a) # {}
  BY DEF LinkHasSlot
<1>a. PeerInv(a) /\ OneAttempt(a) /\ (~Has(evts, OkConn(a)) => WithAddr(a) # {})
  BY DEF PeersInv, AttemptsInv, AttemptInv
<1>1. CASE Has(evts, OkConn(a))
  <2>1. PICK i \in 1 .. Len(evts) : evts[i] \in OkConn(a)
    BY <1>1 DEF Has
  <2>2. EventsOf(a, {"conn_complete"})
    BY <2>1, KindsApart DEF EventsOf, TypeInv, SeqInv
  <2>3. Trying(a)
    BY <1>1, HasMono DEF Trying, Conn
  <2>4. QED
    BY <1>a, <2>2, <2>3 DEF OneAttempt
<1>2. CASE ~Has(evts, OkConn(a))
  <2>1. PICK s \in WithAddr(a) : dev[s].handle = link[a]
    BY <1>a, <1>2 DEF PeerInv
  <2>2. QED
    BY <2>1, Found
<1>3. QED
  BY <1>1, <1>2

\* Slots and links go together: no slot waits for nothing, and no link is left
\* without a slot but in the cases LinkHasSlot names, whatever is lost, refused
\* or late.
THEOREM LinksAccountedFor == Spec => []SlotsFollowLinks
<1> DEFINE IInv == TypeInv /\ OneSlotEach /\ HandleInv /\ PeersInv /\ AttemptsInv
<1>1. Init => IInv
  BY InitTypes, InitHandles, InitPeers, InitAttempts
<1>2. IInv /\ [Next]_vars => IInv'
  BY NextTypes, NextOneSlot, NextHandles, NextPeers, NextAttempts
<1>3. IInv => SlotsFollowLinks
  BY PeersAlive, AttemptsLast DEF SlotsFollowLinks
<1>4. QED
  BY <1>1, <1>2, <1>3, PTL DEF Spec

(***************************************************************************)
(* The inquiry.  What the controller will do once it has taken the         *)
(* commands that wait is what the last switch among them says; the         *)
(* handlers and the manager keep inquiry_state in step with that, but for  *)
(* the manager between its two steps and a handler that runs there.        *)
(***************************************************************************)
Switches == {"inquiry", "exit_inquiry"}

LastOn(q, x) ==
  \/ x /\ \A i \in 1 .. Len(q) : q[i].c \notin Switches
  \/ \E i \in 1 .. Len(q) : q[i].c = "inquiry" /\ \A j \in 1 .. Len(q) : q[j].c = "exit_inquiry" => j < i

InquiryInv ==
  /\ InquiryKept
  /\ sys = "stop" /\ ~crossed => ~LastInquiry
  /\ sys = "start" /\ ~crossed => inquiry_state
  /\ sys \in {"start", "check"} => ~override

LEMMA LastMeans == TypeInv => (LastInquiry <=> LastOn(cmds, inquiring))
<1> SUFFICES ASSUME TypeInv PROVE LastInquiry <=> LastOn(cmds, inquiring)
  OBVIOUS
<1> DEFINE I == {i \in DOMAIN cmds : cmds[i].c \in Switches}
<1>a. Len(cmds) \in Nat /\ DOMAIN cmds = 1 .. Len(cmds) /\ inquiring \in BOOLEAN
  BY DEF TypeInv, SeqInv, TypeOK
<1>b. I \in SUBSET (1 .. Len(cmds)) /\ \A i \in 1 .. Len(cmds) : i \in I <=> cmds[i].c \in Switches
  BY <1>a
<1>1. CASE I = {}
  <2>1. LastInquiry <=> inquiring
    BY <1>1 DEF LastInquiry, Switches
  <2>2. \A i \in 1 .. Len(cmds) : cmds[i].c \notin Switches
    BY <1>1, <1>b
  <2>3. QED
    BY <2>1, <2>2 DEF LastOn, Switches
<1>2. CASE I # {}
  <2>1. PICK n \in I : \A j \in I : j <= n
    BY <1>a, <1>b, <1>2, Greatest
  <2>2. (CHOOSE i \in I : \A j \in I : j <= i) = n
    <3>1. \A i \in I : (\A j \in I : j <= i) => i = n
      BY <1>b, <2>1
    <3>2. QED
      BY <2>1, <3>1
  <2>3. LastInquiry <=> cmds[n].c = "inquiry"
    BY <1>2, <2>2 DEF LastInquiry, Switches
  <2>4. n \in 1 .. Len(cmds) /\ cmds[n].c \in Switches
    BY <1>b, <2>1
  <2>5. ASSUME cmds[n].c = "inquiry" PROVE LastOn(cmds, inquiring)
    <3>1. ASSUME NEW j \in 1 .. Len(cmds), cmds[j].c = "exit_inquiry" PROVE j < n
      <4>1. j <= n /\ j # n
        BY <1>b, <2>1, <2>5, <3>1 DEF Switches
      <4>2. QED
        BY <2>4, <4>1
    <3>2. QED
      BY <2>4, <2>5, <3>1 DEF LastOn
  <2>6. ASSUME LastOn(cmds, inquiring) PROVE cmds[n].c = "inquiry"
    <3>1. PICK i \in 1 .. Len(cmds) :
            cmds[i].c = "inquiry" /\ \A j \in 1 .. Len(cmds) : cmds[j].c = "exit_inquiry" => j < i
      BY <2>4, <2>6 DEF LastOn
    <3>2. i <= n
      BY <1>b, <2>1, <3>1 DEF Switches
    <3>3. cmds[n].c # "exit_inquiry"
      BY <2>4, <3>1, <3>2
    <3>4. QED
      BY <2>4, <3>3 DEF Switches
  <2>7. QED
    BY <2>3, <2>5, <2>6
<1>3. QED
  BY <1>1, <1>2

LEMMA LastPushed ==
  ASSUME NEW q, NEW r, NEW m, Pushed(q, r, m), NEW x
  PROVE  /\ m.c = "inquiry" => LastOn(r, x)
         /\ m.c = "exit_inquiry" => ~LastOn(r, x)
         /\ m.c \notin Switches => (LastOn(r, x) <=> LastOn(q, x))
<1>a. /\ Len(q) \in Nat /\ Len(q) + 1 \in 1 .. Len(r) /\ r[Len(q) + 1] = m
      /\ \A i \in 1 .. Len(q) : i \in 1 .. Len(r) /\ r[i] = q[i] /\ i < Len(q) + 1
      /\ \A i \in 1 .. Len(r) : i \in 1 .. Len(q) \/ i = Len(q) + 1
  BY PushedAt
<1>1. ASSUME m.c = "inquiry" PROVE LastOn(r, x)
  <2>1. ASSUME NEW j \in 1 .. Len(r), r[j].c = "exit_inquiry" PROVE j < Len(q) + 1
    BY <1>a, <1>1, <2>1
  <2>2. QED
    BY <1>a, <1>1, <2>1 DEF LastOn
<1>2. ASSUME m.c = "exit_inquiry", LastOn(r, x) PROVE FALSE
  <2>1. PICK i \in 1 .. Len(r) : r[i].c = "inquiry" /\ \A j \in 1 .. Len(r) : r[j].c = "exit_inquiry" => j < i
    BY <1>a, <1>2 DEF LastOn, Switches
  <2>2. Len(q) + 1 < i
    BY <1>a, <1>2, <2>1
  <2>3. QED
    BY <1>a, <2>2
<1>3. ASSUME m.c \notin Switches, LastOn(r, x) PROVE LastOn(q, x)
  <2>1. CASE x /\ \A i \in 1 .. Len(r) : r[i].c \notin Switches
    BY <1>a, <2>1 DEF LastOn
  <2>2. CASE \E i \in 1 .. Len(r) : r[i].c = "inquiry" /\ \A j \in 1 .. Len(r) : r[j].c = "exit_inquiry" => j < i
    <3>1. PICK i \in 1 .. Len(r) : r[i].c = "inquiry" /\ \A j \in 1 .. Len(r) : r[j].c = "exit_inquiry" => j < i
      BY <2>2
    <3>2. i \in 1 .. Len(q)
      BY <1>a, <1>3, <3>1 DEF Switches
    <3>3. QED
      BY <1>a, <3>1, <3>2 DEF LastOn
  <2>3. QED
    BY <1>3, <2>1, <2>2 DEF LastOn
<1>4. ASSUME m.c \notin Switches, LastOn(q, x) PROVE LastOn(r, x)
  <2>1. CASE x /\ \A i \in 1 .. Len(q) : q[i].c \notin Switches
    <3>1. \A i \in 1 .. Len(r) : r[i].c \notin Switches
      BY <1>a, <1>4, <2>1
    <3>2. QED
      BY <2>1, <3>1 DEF LastOn
  <2>2. CASE \E i \in 1 .. Len(q) : q[i].c = "inquiry" /\ \A j \in 1 .. Len(q) : q[j].c = "exit_inquiry" => j < i
    <3>1. PICK i \in 1 .. Len(q) : q[i].c = "inquiry" /\ \A j \in 1 .. Len(q) : q[j].c = "exit_inquiry" => j < i
      BY <2>2
    <3>2. \A j \in 1 .. Len(r) : r[j].c = "exit_inquiry" => j < i
      BY <1>a, <1>4, <3>1 DEF Switches
    <3>3. QED
      BY <1>a, <3>1, <3>2 DEF LastOn
  <2>3. QED
    BY <1>4, <2>1, <2>2 DEF LastOn
<1>5. QED
  BY <1>1, <1>2, <1>3, <1>4

LEMMA LastPopped ==
  ASSUME NEW q, NEW r, Popped(q, r), NEW x, NEW y,
         q[1].c = "inquiry" => y, q[1].c = "exit_inquiry" => ~y, q[1].c \notin Switches => (y <=> x)
  PROVE  LastOn(r, y) <=> LastOn(q, x)
<1>a. 1 \in 1 .. Len(q) /\ Len(q) \in Nat /\ Len(r) \in Nat
  BY DEF Popped
<1>1. ASSUME LastOn(q, x) PROVE LastOn(r, y)
  <2>1. CASE x /\ \A i \in 1 .. Len(q) : q[i].c \notin Switches
    <3>1. \A i \in 1 .. Len(r) : r[i].c \notin Switches
      BY <2>1, PoppedTo
    <3>2. QED
      BY <1>a, <2>1, <3>1 DEF LastOn
  <2>2. CASE \E i \in 1 .. Len(q) : q[i].c = "inquiry" /\ \A j \in 1 .. Len(q) : q[j].c = "exit_inquiry" => j < i
    <3>1. PICK i \in 1 .. Len(q) : q[i].c = "inquiry" /\ \A j \in 1 .. Len(q) : q[j].c = "exit_inquiry" => j < i
      BY <2>2
    <3>2. CASE i # 1
      <4>1. PICK k \in 1 .. Len(r) : k + 1 = i /\ r[k] = q[i]
        BY <3>2, PoppedAt
      <4>2. ASSUME NEW j \in 1 .. Len(r), r[j].c = "exit_inquiry" PROVE j < k
        <5>1. j + 1 \in 1 .. Len(q) /\ q[j + 1].c = "exit_inquiry"
          BY <4>2, PoppedTo
        <5>2. j + 1 < i
          BY <3>1, <5>1
        <5>3. QED
          BY <4>1, <5>2
      <4>3. QED
        BY <3>1, <4>1, <4>2 DEF LastOn
    <3>3. CASE i = 1
      <4>1. y
        BY <3>1, <3>3
      <4>2. \A j \in 1 .. Len(q) : q[j].c # "exit_inquiry"
        BY <3>1, <3>3
      <4>3. \A j \in 1 .. Len(r) : r[j].c # "exit_inquiry"
        BY <4>2, PoppedTo
      <4>4. CASE \A j \in 1 .. Len(r) : r[j].c # "inquiry"
        BY <4>1, <4>3, <4>4 DEF LastOn, Switches
      <4>5. CASE \E j \in 1 .. Len(r) : r[j].c = "inquiry"
        BY <4>3, <4>5 DEF LastOn
      <4>6. QED
        BY <4>4, <4>5
    <3>4. QED
      BY <3>2, <3>3
  <2>3. QED
    BY <1>1, <2>1, <2>2 DEF LastOn
<1>2. ASSUME LastOn(r, y) PROVE LastOn(q, x)
  <2>1. CASE \E i \in 1 .. Len(r) : r[i].c = "inquiry" /\ \A j \in 1 .. Len(r) : r[j].c = "exit_inquiry" => j < i
    <3>1. PICK i \in 1 .. Len(r) : r[i].c = "inquiry" /\ \A j \in 1 .. Len(r) : r[j].c = "exit_inquiry" => j < i
      BY <2>1
    <3>2. i \in Nat /\ i + 1 \in 1 .. Len(q) /\ q[i + 1].c = "inquiry"
      BY <3>1, PoppedTo
    <3>3. ASSUME NEW j \in 1 .. Len(q), q[j].c = "exit_inquiry" PROVE j < i + 1
      <4>1. CASE j = 1
        BY <3>1, <4>1
      <4>2. CASE j # 1
        <5>1. PICK k \in 1 .. Len(r) : k + 1 = j /\ r[k] = q[j]
          BY <4>2, PoppedAt
        <5>2. k < i
          BY <3>1, <3>3, <5>1
        <5>3. QED
          BY <3>2, <5>1, <5>2
      <4>3. QED
        BY <4>1, <4>2
    <3>4. QED
      BY <3>2, <3>3 DEF LastOn
  <2>2. CASE y /\ \A i \in 1 .. Len(r) : r[i].c \notin Switches
    <3>1. \A j \in 1 .. Len(q) : j # 1 => q[j].c \notin Switches
      BY <2>2, PoppedAt
    <3>2. CASE q[1].c \notin Switches
      <4>1. \A j \in 1 .. Len(q) : q[j].c \notin Switches
        BY <3>1, <3>2
      <4>2. QED
        BY <2>2, <3>2, <4>1 DEF LastOn
    <3>3. CASE q[1].c \in Switches
      <4>1. q[1].c = "inquiry"
        BY <2>2, <3>3 DEF Switches
      <4>2. \A j \in 1 .. Len(q) : q[j].c # "exit_inquiry"
        BY <3>1, <4>1 DEF Switches
      <4>3. QED
        BY <1>a, <4>1, <4>2 DEF LastOn
    <3>4. QED
      BY <3>2, <3>3
  <2>3. QED
    BY <1>2, <2>1, <2>2 DEF LastOn
<1>3. QED
  BY <1>1, <1>2

\* A handler starts the inquiry, has the override refuse it, stops it while a
\* device is in the table, or leaves it alone.
Starts == ~override /\ inquiry_state' /\ LastOn(cmds', inquiring) /\ Crossing
Stops  == ~inquiry_state' /\ ~LastOn(cmds', inquiring) /\ Crossing /\ Active(dev')
IsRefused ==
  /\ override /\ stopped' /\ UNCHANGED <<inquiry_state, crossed>>
  /\ LastOn(cmds', inquiring) <=> LastOn(cmds, inquiring)
Leaves ==
  /\ UNCHANGED <<inquiry_state, stopped, crossed>>
  /\ LastOn(cmds', inquiring) <=> LastOn(cmds, inquiring)
  /\ Active(dev) => Active(dev')

LEMMA HandlerSwitches ==
  ASSUME TypeInv, Handler
  PROVE  Starts \/ IsRefused \/ Stops \/ Leaves
<1>a. SeqInv /\ dev \in [Slots -> Dev]
  BY DEF TypeInv, TypeOK, Dev
<1>b. ASSUME NEW m \in Command, cmds' = Append(cmds, m), NEW x
      PROVE  /\ m.c = "inquiry" => LastOn(cmds', x)
             /\ m.c = "exit_inquiry" => ~LastOn(cmds', x)
             /\ m.c \notin Switches => (LastOn(cmds', x) <=> LastOn(cmds, x))
  BY <1>a, <1>b, AppendFacts, LastPushed DEF SeqInv
<1>c. start_inquiry => Starts \/ IsRefused
  BY <1>b, Commands, TriesKinds DEF start_inquiry, Starts, IsRefused
<1>d. stop_inquiry /\ Active(dev') => Stops
  BY <1>b, Commands, TriesKinds DEF stop_inquiry, Stops
<1>e. no_inquiry(<<>>) /\ (Active(dev) => Active(dev')) => Leaves
  BY <1>a, NoneSent DEF Leaves
<1>f. ASSUME NEW m \in Command, m.c \notin Switches, no_inquiry(<<m>>), Active(dev) => Active(dev') PROVE Leaves
  BY <1>a, <1>b, <1>f, OneSent DEF Leaves
<1>g. ASSUME NEW a \in Addrs
      PROVE  /\ Connect(a) \in Command /\ Connect(a).c \notin Switches
             /\ Accept(a) \in Command /\ Accept(a).c \notin Switches
             /\ Name(a) \in Command /\ Name(a).c \notin Switches
  BY Commands DEF Connect, Accept, Name, Switches
<1>h. ASSUME NEW s, reset_dev(s) PROVE Starts \/ IsRefused \/ Leaves
  BY <1>c, <1>e, <1>h DEF reset_dev
<1>i. Unknown => Leaves
  BY DEF Unknown, hostVars, histVars, Leaves
<1>1. ASSUME NEW e, InquiryComplete(e) PROVE Stops \/ Leaves
  BY <1>1, <1>d, <1>e DEF InquiryComplete
<1>2. ASSUME NEW e, NEW page, NEW cmd \in Command, cmd.c \notin Switches, NewDev(e, page, cmd) PROVE Leaves
  <2>1. CASE dev' = dev /\ no_inquiry(<<>>)
    BY <1>e, <2>1
  <2>2. CASE /\ New # {} /\ no_inquiry(<<cmd>>)
             /\ dev' = [dev EXCEPT ![First(New)] = Entry(page, e.addr)]
    <3>1. First(New) \in Slots
      BY <2>2, Found, FirstIn
    <3>2. dev'[First(New)].found
      BY <1>a, <2>2, <3>1 DEF Entry
    <3>3. Active(dev')
      BY <3>1, <3>2 DEF Active
    <3>4. QED
      BY <1>2, <1>f, <2>2, <3>3
  <2>3. QED
    BY <1>2, <2>1, <2>2 DEF NewDev, Entry
<1>3. ASSUME NEW e, InquiryResult(e) PROVE Leaves
  <2>1. e.addr \in Addrs
    BY <1>3, <1>a, TakesTypes, EventKinds DEF InquiryResult
  <2>2. QED
    BY <1>2, <1>3, <1>g, <2>1 DEF InquiryResult
<1>4. ASSUME NEW e, ConnRequest(e) PROVE Leaves
  <2>1. e.addr \in Addrs
    BY <1>4, <1>a, TakesTypes, EventKinds DEF ConnRequest
  <2>2. QED
    BY <1>2, <1>4, <1>g, <2>1 DEF ConnRequest
<1>j. ASSUME NEW s \in Slots, NEW b, s \in WithAddr(b),
             \/ \E h : dev' = [dev EXCEPT ![s].handle = h, ![s].retry = 0]
             \/ dev' = [dev EXCEPT ![s].retry = @ + 1]
      PROVE  Active(dev')
  <2>1. dev[s].found
    BY <1>j, Found
  <2>2. DOMAIN dev = Slots /\ DOMAIN dev[s] = {"found", "page", "addr", "handle", "retry"}
    BY <1>a DEF Dev
  <2>3. CASE \E h : dev' = [dev EXCEPT ![s].handle = h, ![s].retry = 0]
    <3>1. PICK h : dev' = [dev EXCEPT ![s].handle = h, ![s].retry = 0]
      BY <2>3
    <3>2. dev'[s] = [[dev[s] EXCEPT !.handle = h] EXCEPT !.retry = 0]
      BY <2>2, <3>1
    <3>3. dev'[s].found
      BY <2>1, <2>2, <3>2
    <3>4. QED
      BY <3>3 DEF Active
  <2>4. CASE dev' = [dev EXCEPT ![s].retry = @ + 1]
    <3>1. dev'[s] = [dev[s] EXCEPT !.retry = @ + 1]
      BY <2>2, <2>4
    <3>2. dev'[s].found
      BY <2>1, <2>2, <3>1
    <3>3. QED
      BY <3>2 DEF Active
  <2>5. QED
    BY <1>j, <2>3, <2>4
<1>5. ASSUME NEW e, ConnComplete(e) PROVE Starts \/ IsRefused \/ Leaves
  <2>1. e.addr \in Addrs
    BY <1>5, <1>a, TakesTypes, EventKinds DEF ConnComplete
  <2>2. PICK b \in Addrs : b = e.addr
    BY <2>1
  <2>3. PICK s : s = First(WithAddr(b))
    OBVIOUS
  <2>4. WithAddr(b) # {} => s \in WithAddr(b) /\ s \in Slots
    BY <2>3, Found, FirstIn
  <2>5. CASE Unknown
    BY <1>i, <2>5
  <2>6. CASE /\ WithAddr(b) # {} /\ dev' = [dev EXCEPT ![s].handle = e.handle, ![s].retry = 0]
             /\ no_inquiry(<<Name(b)>>)
    BY <1>f, <1>g, <1>j, <2>4, <2>6
  <2>7. CASE WithAddr(b) # {} /\ dev' = [dev EXCEPT ![s].retry = @ + 1] /\ no_inquiry(<<Connect(b)>>)
    BY <1>f, <1>g, <1>j, <2>4, <2>7
  <2>8. CASE reset_dev(s)
    BY <1>h, <2>8
  <2>9. QED
    BY <1>5, <2>2, <2>3, <2>5, <2>6, <2>7, <2>8 DEF ConnComplete
<1>6. ASSUME NEW e, NameComplete(e) PROVE Starts \/ IsRefused \/ Stops \/ Leaves
  <2>1. e.addr \in Addrs
    BY <1>6, <1>a, TakesTypes, EventKinds DEF NameComplete
  <2>2. PICK b \in Addrs : b = e.addr
    BY <2>1
  <2>3. PICK s : s = First(WithAddr(b))
    OBVIOUS
  <2>4. WithAddr(b) # {} => s \in WithAddr(b) /\ s \in Slots
    BY <2>3, Found, FirstIn
  <2>5. CASE Unknown
    BY <1>i, <2>5
  <2>6. CASE WithAddr(b) # {} /\ stop_inquiry /\ dev' = dev
    <3>1. Active(dev')
      BY <2>4, <2>6, Found DEF Active
    <3>2. QED
      BY <1>d, <2>6, <3>1
  <2>7. CASE WithAddr(b) # {} /\ dev' = [dev EXCEPT ![s].retry = @ + 1] /\ no_inquiry(<<Name(b)>>)
    BY <1>f, <1>g, <1>j, <2>4, <2>7
  <2>8. CASE reset_dev(s)
    BY <1>h, <2>8
  <2>9. QED
    BY <1>6, <2>2, <2>3, <2>5, <2>6, <2>7, <2>8 DEF NameComplete
<1>7. ASSUME NEW e, DisconnComplete(e) PROVE Starts \/ IsRefused \/ Leaves
  <2>1. CASE UNCHANGED <<hostVars, cmds, stopped, crossed>>
    BY <2>1 DEF hostVars, Leaves
  <2>2. QED
    BY <1>7, <1>h, <2>1 DEF DisconnComplete
<1>8. QED
  BY <1>1, <1>3, <1>4, <1>5, <1>6, <1>7 DEF Handler

LEMMA CtrlSwitches ==
  ASSUME TypeInv, CtrlStep
  PROVE  LastOn(cmds', inquiring') <=> LastOn(cmds, inquiring)
<1>1. CASE CtrlCommand
  <2>1. Popped(cmds, cmds') /\ Head(cmds) = cmds[1]
    BY <1>1, TailFacts DEF CtrlCommand, TypeInv, SeqInv
  <2>2. /\ cmds[1].c = "inquiry" => inquiring'
        /\ cmds[1].c = "exit_inquiry" => ~inquiring'
        /\ cmds[1].c \notin Switches => inquiring' = inquiring
    BY <1>1, <2>1 DEF CtrlCommand, Refused, Switches
  <2>3. QED
    BY <2>1, <2>2, LastPopped
<1>2. CASE UNCHANGED <<cmds, inquiring>>
  BY <1>2
<1>3. CtrlPeriod => UNCHANGED <<cmds, inquiring>>
  BY DEF CtrlPeriod, CtrlOnly, ctrlVars
<1>4. \A a \in Addrs : CtrlPaged(a) \/ PeerActs(a) => UNCHANGED <<cmds, inquiring>>
  BY DEF CtrlPaged, PeerActs, CtrlOnly
<1>5. QED
  BY <1>1, <1>2, <1>3, <1>4 DEF CtrlStep

\* The invariant, with LastOn for LastInquiry.
Switched ==
  /\ ~Active(dev) => LastOn(cmds, inquiring) \/ stopped \/ sys = "start"
  /\ sys \notin {"stop", "start"} /\ ~crossed => (inquiry_state <=> LastOn(cmds, inquiring))
  /\ sys = "stop" /\ ~crossed => ~LastOn(cmds, inquiring)
  /\ sys = "start" /\ ~crossed => inquiry_state
  /\ override /\ ~crossed => ~LastOn(cmds, inquiring)
  /\ sys \in {"start", "check"} => ~override

LEMMA SwitchedMeans == TypeInv => (InquiryInv <=> Switched)
<1> SUFFICES ASSUME TypeInv PROVE InquiryInv <=> Switched
  OBVIOUS
<1>1. inquiry_state \in BOOLEAN /\ LastInquiry \in BOOLEAN
  BY DEF TypeInv, TypeOK, LastInquiry
<1>2. LastInquiry <=> LastOn(cmds, inquiring)
  BY LastMeans
<1>3. (inquiry_state = LastInquiry) <=> (inquiry_state <=> LastOn(cmds, inquiring))
  BY <1>1, <1>2
<1>4. QED
  BY <1>2, <1>3 DEF InquiryInv, InquiryKept, NeverDeaf, InquiryStateHonest, SilentWhenOff, Switched

LEMMA NextSwitched == TypeInv /\ Switched /\ [Next]_vars => Switched'
<1> SUFFICES ASSUME TypeInv, Switched, [Next]_vars PROVE Switched'
  OBVIOUS
<1>a. ASSUME NEW m \in Command, cmds' = Append(cmds, m), inquiring' = inquiring
      PROVE  /\ m.c = "inquiry" => LastOn(cmds', inquiring')
             /\ m.c = "exit_inquiry" => ~LastOn(cmds', inquiring')
             /\ m.c \notin Switches => (LastOn(cmds', inquiring') <=> LastOn(cmds, inquiring))
  BY <1>a, AppendFacts, LastPushed DEF TypeInv, SeqInv
<1>b. Active(dev)' = Active(dev')
  BY DEF Active
<1>1. CASE Handler
  <2>1. inquiring' = inquiring /\ sys' = sys /\ override' = override
    BY <1>1, HandlerTypes DEF ctrlVars, sysVars
  <2>2. Crossing /\ sys \in {"stop", "start"} => crossed'
    BY DEF Crossing
  <2>3. Starts \/ IsRefused \/ Stops \/ Leaves
    BY <1>1, HandlerSwitches
  <2>4. CASE Starts
    BY <1>b, <2>1, <2>2, <2>4 DEF Starts, Switched
  <2>5. CASE Stops
    BY <1>b, <2>1, <2>2, <2>5 DEF Stops, Switched
  <2>6. CASE Leaves
    BY <1>b, <2>1, <2>6 DEF Leaves, Switched
  <2>7. CASE IsRefused
    BY <1>b, <2>1, <2>7 DEF IsRefused, Switched
  <2>8. QED
    BY <2>3, <2>4, <2>5, <2>6, <2>7
<1>2. CASE Manager
  <2>1. dev' = dev /\ inquiring' = inquiring /\ crossed' = crossed
    BY <1>2, ManagerTypes DEF ctrlVars
  <2>2. Active(dev)' <=> Active(dev)
    BY <2>1 DEF Active
  <2>a. ASSUME StopBegins PROVE ~LastOn(cmds', inquiring') /\ stopped' /\ sys' = "stop"
    BY <1>a, <2>1, <2>a, Commands, TriesKinds DEF StopBegins
  <2>b. cmds' = cmds => (LastOn(cmds', inquiring') <=> LastOn(cmds, inquiring))
    BY <2>1
  <2>c. ASSUME Silence, sys \notin {"stop", "start"} PROVE Switched'
    <3>1. CASE StopBegins
      BY <2>a, <2>c, <3>1 DEF Silence, Switched
    <3>2. CASE ~inquiry_state /\ sys' = "idle" /\ UNCHANGED <<cmds, stopped>>
      <4>1. inquiry_state' = inquiry_state /\ override'
        BY <2>c DEF Silence
      <4>2. LastOn(cmds', inquiring') <=> LastOn(cmds, inquiring)
        BY <2>b, <3>2
      <4>3. QED
        BY <2>1, <2>2, <2>c, <3>2, <4>1, <4>2 DEF Switched
    <3>3. QED
      BY <2>c, <3>1, <3>2 DEF Silence
  <2>3. CASE PressStop
    <3>1. StopBegins /\ override' = override
      BY <2>3 DEF PressStop
    <3>2. QED
      BY <2>a, <3>1 DEF Switched
  <2>4. CASE PressDisconnect
    BY <2>1, <2>2, <2>4 DEF PressDisconnect, Press, Switched
  <2>5. CASE PressStart
    BY <2>1, <2>2, <2>5 DEF PressStart, Press, Switched
  <2>6. CASE SysStopped
    <3>1. ~inquiry_state' /\ sys = "stop" /\ sys' = "idle" /\ UNCHANGED <<cmds, stopped, override>>
      BY <2>6 DEF SysStopped
    <3>2. QED
      BY <2>1, <2>2, <3>1 DEF Switched
  <2>7. CASE SysStarted
    <3>1. LastOn(cmds', inquiring')
      BY <1>a, <2>1, <2>7, Commands, TriesKinds DEF SysStarted
    <3>2. inquiry_state' = inquiry_state /\ override' = override /\ sys = "start" /\ sys' = "idle"
      BY <2>7 DEF SysStarted
    <3>3. QED
      BY <2>1, <3>1, <3>2 DEF Switched
  <2>8. CASE SysDisconnect
    <3>1. LastOn(cmds', inquiring') <=> LastOn(cmds, inquiring)
      <4>1. Disc(dev[sysi].handle) \in Command
        <5>1. dev[sysi].handle \in Handles \cup {0}
          BY DEF TypeInv, TypeOK
        <5>2. QED
          BY <5>1, Commands
      <4>2. Disc(dev[sysi].handle).c \notin Switches
        BY TriesKinds DEF Switches
      <4>3. QED
        BY <1>a, <2>1, <2>8, <4>1, <4>2 DEF SysDisconnect
    <3>2. /\ sys \in {"loop", "kick"} /\ sys' \in {"idle", "loop", "kick", "off"}
          /\ UNCHANGED <<inquiry_state, stopped, override>>
      BY <2>8 DEF SysDisconnect
    <3>3. QED
      BY <2>1, <2>2, <3>1, <3>2 DEF Switched
  <2>9. CASE PassOn
    <3>1. /\ sys = "idle" /\ sys' \in {"idle", "check"} /\ ~override'
          /\ UNCHANGED <<inquiry_state, cmds, stopped>>
      BY <2>9 DEF PassOn, Press
    <3>2. QED
      BY <2>1, <2>2, <2>b, <3>1 DEF Switched
  <2>10. CASE PassOff
    <3>1. sys = "idle"
      BY <2>10 DEF PassOff, Press
    <3>2. CASE sys' \in {"kick", "idle"} /\ override' \in {override, FALSE} /\ UNCHANGED <<inquiry_state, cmds, stopped>>
      <4>1. LastOn(cmds', inquiring') <=> LastOn(cmds, inquiring)
        BY <2>b, <3>2
      <4>2. override' => override
        BY <3>2
      <4>3. QED
        BY <2>1, <2>2, <3>1, <3>2, <4>1, <4>2 DEF Switched
    <3>3. QED
      BY <2>10, <2>c, <3>1, <3>2 DEF PassOff
  <2>11. CASE SysCheck
    <3>1. /\ sys = "check" /\ inquiry_state' /\ UNCHANGED <<override, cmds, stopped>>
          /\ (inquiry_state /\ sys' = "idle") \/ sys' = "start"
      BY <2>11 DEF SysCheck
    <3>2. QED
      BY <2>1, <2>2, <2>b, <3>1 DEF Switched
  <2>12. CASE SysOff
    BY <2>12, <2>c DEF SysOff
  <2>13. QED
    BY <1>2, <2>3, <2>4, <2>5, <2>6, <2>7, <2>8, <2>9, <2>10, <2>11, <2>12 DEF Manager, SysStep
<1>3. CASE CtrlStep
  <2>1. UNCHANGED <<dev, inquiry_state, sys, stopped, crossed, override>>
    BY <1>3, CtrlTypes DEF hostVars, sysVars
  <2>2. Active(dev)' <=> Active(dev)
    BY <2>1 DEF Active
  <2>3. LastOn(cmds', inquiring') <=> LastOn(cmds, inquiring)
    BY <1>3, CtrlSwitches
  <2>4. QED
    BY <2>1, <2>2, <2>3 DEF Switched
<1>4. CASE UNCHANGED vars
  BY <1>4 DEF vars, hostVars, ctrlVars, sysVars, histVars, Switched, Active
<1>5. QED
  BY <1>1, <1>2, <1>3, <1>4, Steps

LEMMA InitSwitched == Init => Switched
<1> SUFFICES ASSUME Init PROVE Switched
  OBVIOUS
<1>1. CASE ~override
  <2>1. Len(cmds) = 1 /\ cmds[1].c = "inquiry"
    BY <1>1 DEF Init
  <2>2. 1 \in 1 .. Len(cmds) /\ \A j \in 1 .. Len(cmds) : cmds[j].c # "exit_inquiry"
    BY <2>1
  <2>3. LastOn(cmds, inquiring)
    BY <2>1, <2>2 DEF LastOn
  <2>4. QED
    BY <1>1, <2>3 DEF Init, Switched
<1>2. CASE override
  <2>1. Len(cmds) = 0 /\ ~inquiring
    BY <1>2 DEF Init
  <2>2. ~LastOn(cmds, inquiring)
    BY <2>1 DEF LastOn
  <2>3. QED
    BY <1>2, <2>2 DEF Init, Switched
<1>3. QED
  BY <1>1, <1>2

\* The next controller can connect without anybody pressing a button: with no
\* device in the table the inquiry runs or is about to, unless the manager stopped
\* it or the override of a console that was off refused it.  inquiry_state, which
\* decides what a button does, is what the controller was last told, and under the
\* override the controller does not inquire.
THEOREM InquiryInStep == Spec => []InquiryKept
<1>1. Init => TypeInv /\ Switched
  BY InitTypes, InitSwitched
<1>2. TypeInv /\ Switched /\ [Next]_vars => (TypeInv /\ Switched)'
  BY NextTypes, NextSwitched
<1>3. TypeInv /\ Switched => InquiryKept
  BY SwitchedMeans DEF InquiryInv
<1>4. QED
  BY <1>1, <1>2, <1>3, PTL DEF Spec
=============================================================================

