---------------------------- MODULE HciConfigProofs ----------------------------
(***************************************************************************)
(* Proofs about HciConfig, for every length of the table and place of its  *)
(* entries, every number of stored peers, of links and of retries, and any *)
(* number of failed commands: the types, that the table is in force once   *)
(* it is done, that the accept list is whole, and that the adapter can be  *)
(* reached while nobody is connected.                                      *)
(***************************************************************************)
EXTENDS HciConfig, FiniteSetTheorems, FunctionTheorems, TLAPS

(***************************************************************************)
(* The commands and the events, those of the table and the others.         *)
(***************************************************************************)
TableOps == {"step", "list"}
OtherOps == {"adv_on", "adv_off", "le_scan", "inquiry"}

Command ==
  [op : {"step"}, n : Steps, table : {TRUE}] \cup [op : {"list"}, n : Keys, table : {TRUE}]
    \cup [op : OtherOps, n : {0}, table : {FALSE}]
Event ==
  [e : {"done", "failed"}, op : TableOps, table : {TRUE}]
    \cup [e : {"done", "failed"}, op : OtherOps, table : {FALSE}]
    \cup [e : {"up", "down"}]

TableCmd(m) == m.op \in TableOps
Answers(e)  == e.e \in {"done", "failed"}
TableEvt(e) == Answers(e) /\ e.op \in TableOps

NoCmd == \A i \in 1 .. Len(cmds) : ~TableCmd(cmds[i])
NoEvt == \A i \in 1 .. Len(evts) : ~TableEvt(evts[i])
SoleCmd(i) ==
  /\ i \in 1 .. Len(cmds) /\ TableCmd(cmds[i])
  /\ \A j \in 1 .. Len(cmds) : TableCmd(cmds[j]) => j = i
SoleEvt(i) ==
  /\ i \in 1 .. Len(evts) /\ TableEvt(evts[i])
  /\ \A j \in 1 .. Len(evts) : TableEvt(evts[j]) => j = i

(***************************************************************************)
(* The inductive invariant.                                                *)
(***************************************************************************)
SeqInv == cmds \in Seq(Command) /\ evts \in Seq(Event)

CounterInv ==
  /\ conf \in 0 .. NumSteps /\ retry \in 0 .. MaxRetry /\ nextKey \in 0 .. NumKeys
  /\ applied \subseteq Steps /\ list \subseteq Keys /\ adv \in BOOLEAN
  /\ unknown \subseteq Optional
  /\ fail \in 0 .. MaxFail /\ peer \in 0 .. MaxPeer
  /\ {doubled, resets, listFail, lateFail} \subseteq BOOLEAN

\* The entries the controller has carried out, or does not know.
Held == applied \cup unknown

\* What the table waits for: the peer it sent last, or the entry conf.
DueCmd(m) ==
  IF conf = ListStep THEN m.op = "list" /\ m.n = nextKey - 1 /\ nextKey > 0
                     ELSE m.op = "step" /\ m.n = conf
DueEvt(e) ==
  IF conf = ListStep THEN e.op = "list" /\ nextKey > 0
                     ELSE e.op = "step" /\ (e.e = "done" => conf \in Held)

\* One command of the table is outstanding, or its answer, until the table is
\* done; what lies behind it is in force, as far as the controller knows it.
OneDue ==
  conf < Last =>
    \/ NoEvt /\ \E i \in 1 .. Len(cmds) : SoleCmd(i) /\ DueCmd(cmds[i])
    \/ NoCmd /\ \E i \in 1 .. Len(evts) : SoleEvt(i) /\ DueEvt(evts[i])
NoneDue == conf >= Last => NoCmd /\ NoEvt
Behind == \A n \in Steps : n < conf /\ n # ListStep /\ n # Last => n \in Held

TableInv == ~doubled => OneDue /\ NoneDue /\ Behind

\* The accept list holds the peers whose command has been executed.
Sent(n) == {k \in Keys : k < n}
ListInv ==
  ~doubled /\ ~resets /\ ~listFail /\ ListStep \notin unknown =>
    /\ conf < ListStep => list = {} /\ nextKey = 0
    /\ conf = ListStep =>
         IF NoEvt THEN list = Sent(nextKey - 1)
         ELSE \A i \in 1 .. Len(evts) :
                TableEvt(evts[i]) /\ evts[i].e = "done" => list = Sent(nextKey)
    /\ conf > ListStep => list = Keys /\ nextKey = NumKeys

\* Links: what the events on their way will do to the slots in use.
Downs(s, n) == {i \in 1 .. n : s[i].e = "down"}
NoUp(s)     == \A i \in 1 .. Len(s) : s[i].e # "up"
SoleUp(s, u) ==
  /\ u \in 1 .. Len(s) /\ s[u].e = "up"
  /\ \A i \in 1 .. Len(s) : s[i].e = "up" => i = u

LinksInv ==
  /\ active \in 0 .. MaxLinks /\ links \in 0 .. MaxLinks
  /\ \/ NoUp(evts) /\ links + Cardinality(Downs(evts, Len(evts))) <= active
     \/ \E u \in 1 .. Len(evts) :
          /\ SoleUp(evts, u) /\ active < MaxLinks
          /\ Cardinality(Downs(evts, u)) <= active
          /\ links + Cardinality(Downs(evts, Len(evts))) <= active + 1

\* Advertising: whatever switches it off while the last link goes is followed
\* by what switches it on.
OffThenOn(s) ==
  \A i \in 1 .. Len(s) : s[i].op = "adv_off" => \E j \in 1 .. Len(s) : j > i /\ s[j].op = "adv_on"
OnAhead(s) == \E i \in 1 .. Len(s) : s[i].op = "adv_on"
FailAhead(s) == \E i \in 1 .. Len(s) : s[i].e = "failed" /\ ~TableEvt(s[i])
PastAdv ==
  \/ conf > AdvStep
  \/ conf = AdvStep /\ \E i \in 1 .. Len(evts) : TableEvt(evts[i]) /\ evts[i].e = "done"

AdvInv ==
  active = 0 =>
    /\ OffThenOn(cmds)
    /\ ~lateFail /\ ~doubled /\ AdvStep \notin unknown /\ PastAdv =>
         adv \/ OnAhead(cmds) \/ FailAhead(evts)

(***************************************************************************)
(* Sequences, as the steps use them.                                       *)
(***************************************************************************)
LEMMA AppendFacts ==
  ASSUME NEW S, NEW s \in Seq(S), NEW m \in S
  PROVE  /\ Append(s, m) \in Seq(S)
         /\ Len(s) \in Nat /\ Len(Append(s, m)) = Len(s) + 1
         /\ \A i \in 1 .. Len(s) : Append(s, m)[i] = s[i]
         /\ Append(s, m)[Len(s) + 1] = m
OBVIOUS

LEMMA TailFacts ==
  ASSUME NEW S, NEW s \in Seq(S), s # <<>>
  PROVE  /\ Len(s) \in Nat \ {0} /\ Head(s) = s[1] /\ Head(s) \in S
         /\ Tail(s) \in Seq(S) /\ Len(Tail(s)) = Len(s) - 1
         /\ \A i \in 1 .. Len(s) - 1 : Tail(s)[i] = s[i + 1]
<1>1. Len(s) \in Nat /\ Len(s) # 0
  OBVIOUS
<1>2. QED
  BY <1>1

LEMMA ConcatFacts ==
  ASSUME NEW S, NEW s \in Seq(S), NEW t \in Seq(S)
  PROVE  /\ s \o t \in Seq(S)
         /\ Len(s) \in Nat /\ Len(t) \in Nat /\ Len(s \o t) = Len(s) + Len(t)
         /\ \A i \in 1 .. Len(s) : (s \o t)[i] = s[i]
         /\ \A i \in Len(s) + 1 .. Len(s) + Len(t) : (s \o t)[i] = t[i - Len(s)]
OBVIOUS

LEMMA Inquiries ==
  ASSUME NEW s \in Seq(Command), NEW q \in start_inquiry
  PROVE  /\ s \o q \in Seq(Command) /\ Len(s) \in Nat /\ Len(s \o q) \in Nat /\ Len(s \o q) >= Len(s)
         /\ \A i \in 1 .. Len(s) : (s \o q)[i] = s[i]
         /\ \A i \in Len(s) + 1 .. Len(s \o q) : (s \o q)[i].op \in {"le_scan", "inquiry"}
<1>1. LeScan \in Command /\ LeScan.op = "le_scan" /\ Inquiry \in Command /\ Inquiry.op = "inquiry"
  BY DEF LeScan, Inquiry, Cmd, Command, OtherOps
<1>2. q \in Seq(Command) /\ Len(q) \in Nat /\ \A i \in 1 .. Len(q) : q[i].op \in {"le_scan", "inquiry"}
  <2>1. CASE q = <<LeScan, LeScan, LeScan, Inquiry>>
    BY <1>1, <2>1
  <2>2. CASE q = <<>>
    BY <2>2
  <2>3. QED
    BY <2>1, <2>2 DEF start_inquiry
<1>3. /\ s \o q \in Seq(Command) /\ Len(s) \in Nat /\ Len(s \o q) = Len(s) + Len(q)
      /\ \A i \in 1 .. Len(s) : (s \o q)[i] = s[i]
      /\ \A i \in Len(s) + 1 .. Len(s) + Len(q) : (s \o q)[i] = q[i - Len(s)]
  BY <1>2, ConcatFacts
<1>4. \A i \in Len(s) + 1 .. Len(s) + Len(q) : i - Len(s) \in 1 .. Len(q)
  BY <1>2, <1>3
<1>5. QED
  BY <1>2, <1>3, <1>4

\* What the table asks for when it goes on to entry c.
LEMMA Sends ==
  /\ \A n \in Steps : Step(n) \in Command /\ Step(n).op = "step" /\ Step(n).n = n
  /\ \A n \in Keys : Listed(n) \in Command /\ Listed(n).op = "list" /\ Listed(n).n = n
  /\ \A m \in {AdvOn, AdvOff} : m \in Command /\ ~TableCmd(m)
  /\ AdvOn.op = "adv_on" /\ AdvOff.op = "adv_off"
BY DEF Step, Listed, AdvOn, AdvOff, Cmd, Command, TableCmd, TableOps, OtherOps

LEMMA Places ==
  /\ NumSteps \in Nat /\ Last \in Nat /\ Last = NumSteps - 1 /\ 0 < Last
  /\ ClearStep \in Nat /\ ListStep \in Nat /\ ScanStep \in Nat /\ AdvStep \in Nat
  /\ 0 < ClearStep /\ ClearStep < ListStep /\ ListStep + 1 <= ScanStep /\ ScanStep < AdvStep
  /\ AdvStep < Last /\ Last < NumSteps
  /\ NumKeys \in Nat /\ MaxRetry \in Nat /\ 0 < MaxRetry
BY StepsAssumption, CountsAssumption DEF Last

(***************************************************************************)
(* Types.                                                                  *)
(***************************************************************************)
LEMMA EnterTypes ==
  ASSUME SeqInv, CounterInv, NEW c \in 0 .. NumSteps + 1, NEW r \in 0 .. MaxRetry, Enter(c, r)
  PROVE  cmds' \in Seq(Command) /\ conf' \in 0 .. NumSteps /\ retry' \in 0 .. MaxRetry
         /\ nextKey' \in 0 .. NumKeys
<1> USE Places DEF CounterInv
<1>1. \A n \in Steps : Append(cmds, Step(n)) \in Seq(Command)
  BY Sends, AppendFacts DEF SeqInv
<1>2. ASSUME AddNextKey PROVE cmds' \in Seq(Command) /\ nextKey' \in 0 .. NumKeys
  <2>1. nextKey \in Keys
    BY <1>2 DEF AddNextKey, MoreKeys, Keys
  <2>2. Append(cmds, Listed(nextKey)) \in Seq(Command)
    BY <2>1, Sends, AppendFacts DEF SeqInv
  <2>3. QED
    BY <1>2, <2>1, <2>2 DEF AddNextKey, Keys
<1>3. \A q \in start_inquiry : cmds \o q \in Seq(Command)
  BY Inquiries DEF SeqInv
<1>4. CASE c < Last /\ c # ListStep /\ conf' = c /\ retry' = r /\ cmds' = Append(cmds, Step(c)) /\ UNCHANGED nextKey
  <2>1. c \in Steps
    BY <1>4 DEF Steps
  <2>2. QED
    BY <1>1, <1>4, <2>1
<1>5. CASE c = ListStep /\ AddNextKey /\ conf' = c /\ retry' = r
  BY <1>2, <1>5
<1>6. CASE c = ListStep /\ conf' = c + 1 /\ retry' = 0 /\ cmds' = Append(cmds, Step(c + 1)) /\ UNCHANGED nextKey
  <2>1. c + 1 \in Steps
    BY <1>6 DEF Steps
  <2>2. QED
    BY <1>1, <1>6, <2>1
<1>7. CASE c = Last /\ conf' = c /\ retry' = r /\ (\E q \in start_inquiry : cmds' = cmds \o q) /\ UNCHANGED nextKey
  BY <1>3, <1>7
<1>8. CASE c > Last /\ conf' = NumSteps /\ retry' = r /\ UNCHANGED <<cmds, nextKey>>
  BY <1>8 DEF SeqInv
<1>9. QED
  BY <1>4, <1>5, <1>6, <1>7, <1>8 DEF Enter

LEMMA TakesTypes ==
  ASSUME SeqInv, NEW k, NEW e, Takes(k, e)
  PROVE  /\ evts' \in Seq(Event) /\ e \in Event /\ e.e = k /\ e = evts[1]
         /\ Len(evts) \in Nat \ {0} /\ Len(evts') = Len(evts) - 1
         /\ \A i \in 1 .. Len(evts) - 1 : evts'[i] = evts[i + 1]
BY TailFacts DEF Takes, SeqInv

LEMMA AnswerTypes ==
  ASSUME NEW m \in Command, NEW how \in {"done", "failed"}
  PROVE  [e |-> how, op |-> m.op, table |-> m.table] \in Event
BY DEF Command, Event, TableOps

\* The command the controller executes leaves the queue.
LEMMA HeadCmd ==
  ASSUME SeqInv, CtrlCommand
  PROVE  /\ Head(cmds) \in Command /\ Head(cmds) = cmds[1]
         /\ Len(cmds) \in Nat \ {0} /\ Len(cmds') = Len(cmds) - 1 /\ cmds' \in Seq(Command)
         /\ \A i \in 1 .. Len(cmds) - 1 : cmds'[i] = cmds[i + 1]
BY TailFacts DEF CtrlCommand, SeqInv

\* The answer to a command, when it has one, goes behind the other events.
LEMMA Answered ==
  ASSUME SeqInv, NEW m \in Command, NEW how \in {"done", "failed"}, Answer(m, how)
  PROVE  /\ evts' \in Seq(Event) /\ Len(evts) \in Nat /\ Len(evts') = Len(evts) + 1
         /\ \A i \in 1 .. Len(evts) : evts'[i] = evts[i]
         /\ evts'[Len(evts) + 1] = [e |-> how, op |-> m.op, table |-> m.table]
<1>1. [e |-> how, op |-> m.op, table |-> m.table] \in Event
  BY AnswerTypes
<1>2. QED
  BY <1>1, AppendFacts DEF Answer, SeqInv

LEMMA ExecuteTypes ==
  ASSUME CounterInv, NEW m \in Command, Execute(m)
  PROVE  applied' \subseteq Steps /\ list' \subseteq Keys /\ adv' \in BOOLEAN /\ unknown' = unknown
<1>1. 0 \in Steps
  BY Places DEF Steps
<1>2. (m.op = "step" => m.n \in Steps) /\ (m.op = "list" => m.n \in Keys)
  BY DEF Command, OtherOps
<1>3. applied' \subseteq Steps
  BY <1>1, <1>2 DEF Execute, CounterInv
<1>4. list' \subseteq Keys
  BY <1>2 DEF Execute, CounterInv
<1>5. adv' \in BOOLEAN
  BY DEF Execute, CounterInv
<1>6. QED
  BY <1>3, <1>4, <1>5 DEF Execute

TypeInv == SeqInv /\ CounterInv

LEMMA NextTypes == TypeInv /\ [Next]_vars => TypeInv'
<1> SUFFICES ASSUME SeqInv, CounterInv, [Next]_vars PROVE SeqInv' /\ CounterInv'
  BY DEF TypeInv
<1> USE DEF tableVars, ctrlVars, histVars
<1>a. /\ conf \in 0 .. NumSteps /\ retry \in 0 .. MaxRetry /\ nextKey \in 0 .. NumKeys
      /\ applied \subseteq Steps /\ list \subseteq Keys /\ adv \in BOOLEAN
      /\ unknown \subseteq Optional
      /\ fail \in 0 .. MaxFail /\ peer \in 0 .. MaxPeer
      /\ cmds \in Seq(Command) /\ evts \in Seq(Event)
  BY DEF CounterInv, SeqInv
<1>b. doubled \in BOOLEAN /\ resets \in BOOLEAN /\ listFail \in BOOLEAN /\ lateFail \in BOOLEAN
  BY DEF CounterInv
<1>1. ASSUME NEW e, CmdFailed(e) PROVE SeqInv' /\ CounterInv'
  <2>1. evts' \in Seq(Event)
    BY <1>1, TakesTypes DEF CmdFailed
  <2>2. cmds' \in Seq(Command) /\ conf' \in 0 .. NumSteps /\ retry' \in 0 .. MaxRetry
        /\ nextKey' \in 0 .. NumKeys
    <3>1. CASE Enter(0, 0)
      BY <3>1, Places, EnterTypes
    <3>2. CASE retry + 1 <= MaxRetry /\ Enter(conf, retry + 1)
      <4>1. conf \in 0 .. NumSteps + 1 /\ retry + 1 \in 0 .. MaxRetry
        BY <1>a, <3>2, Places
      <4>2. QED
        BY <3>2, <4>1, EnterTypes
    <3>3. QED
      BY <1>1, <1>a, <3>1, <3>2, Places DEF CmdFailed
  <2>3. doubled' \in BOOLEAN /\ resets' \in BOOLEAN /\ listFail' \in BOOLEAN /\ lateFail' \in BOOLEAN
    BY <1>1 DEF CmdFailed, Drives
  <2>4. UNCHANGED <<ctrlVars, fail, peer>>
    BY <1>1 DEF CmdFailed, Takes
  <2>5. QED
    BY <1>a, <2>1, <2>2, <2>3, <2>4 DEF SeqInv, CounterInv
<1>2. ASSUME NEW e, CmdDone(e) PROVE SeqInv' /\ CounterInv'
  <2>1. evts' \in Seq(Event)
    BY <1>2, TakesTypes DEF CmdDone
  <2>2. cmds' \in Seq(Command) /\ conf' \in 0 .. NumSteps /\ retry' \in 0 .. MaxRetry
        /\ nextKey' \in 0 .. NumKeys
    <3>1. CASE AddNextKey /\ UNCHANGED <<conf, retry>>
      <4>1. nextKey \in Keys
        BY <1>a, <3>1, Places DEF AddNextKey, MoreKeys, Keys
      <4>2. cmds' \in Seq(Command)
        BY <1>a, <3>1, <4>1, Sends, AppendFacts DEF AddNextKey
      <4>3. QED
        BY <1>a, <3>1, <4>1, <4>2, Places DEF AddNextKey, Keys
    <3>2. CASE Enter(conf + 1, 0)
      <4>1. conf + 1 \in 0 .. NumSteps + 1 /\ 0 \in 0 .. MaxRetry
        BY <1>a, Places
      <4>2. QED
        BY <3>2, <4>1, EnterTypes
    <3>3. QED
      BY <1>2, <3>1, <3>2 DEF CmdDone
  <2>3. doubled' \in BOOLEAN
    BY <1>2 DEF CmdDone, Drives
  <2>4. UNCHANGED <<ctrlVars, fail, peer, resets, listFail, lateFail>>
    BY <1>2 DEF CmdDone, Takes
  <2>5. QED
    BY <1>a, <1>b, <2>1, <2>2, <2>3, <2>4 DEF SeqInv, CounterInv
<1>3. ASSUME NEW e, Connected(e) \/ Disconnected(e) PROVE SeqInv' /\ CounterInv'
  <2>1. evts' \in Seq(Event) /\ UNCHANGED <<tableVars, ctrlVars, fail, peer, histVars>>
    BY <1>3, TakesTypes DEF Connected, Disconnected, Takes
  <2>2. Append(cmds, AdvOff) \in Seq(Command)
    BY <1>a, Sends, AppendFacts
  <2>3. <<AdvOn>> \in Seq(Command) /\ \A q \in start_inquiry : cmds \o q \in Seq(Command)
    BY <1>a, Sends, Inquiries
  <2>4. \A q \in start_inquiry : cmds \o q \o <<AdvOn>> \in Seq(Command)
    BY <2>3, ConcatFacts
  <2>5. cmds' \in Seq(Command)
    BY <1>3, <1>a, <2>2, <2>4 DEF Connected, Disconnected
  <2>6. QED
    BY <1>a, <1>b, <2>1, <2>5 DEF SeqInv, CounterInv
<1>4. CASE CtrlCommand
  <2>1. Head(cmds) \in Command /\ cmds' \in Seq(Command)
    BY <1>4, HeadCmd
  <2>2. UNCHANGED <<tableVars, peer, histVars>>
    BY <1>4 DEF CtrlCommand
  <2>3. CASE UNCHANGED <<evts, ctrlVars, fail>>
    BY <1>a, <1>b, <2>1, <2>2, <2>3 DEF SeqInv, CounterInv
  <2>4. CASE Execute(Head(cmds)) /\ Answer(Head(cmds), "done") /\ UNCHANGED fail
    <3>1. applied' \subseteq Steps /\ list' \subseteq Keys /\ adv' \in BOOLEAN /\ unknown' = unknown
      BY <2>1, <2>4, ExecuteTypes
    <3>2. evts' \in Seq(Event)
      BY <2>1, <2>4, Answered
    <3>3. QED
      BY <1>a, <1>b, <2>1, <2>2, <2>4, <3>1, <3>2 DEF SeqInv, CounterInv
  <2>5. CASE fail < MaxFail /\ fail' = fail + 1 /\ Answer(Head(cmds), "failed") /\ UNCHANGED ctrlVars
    <3>1. evts' \in Seq(Event)
      BY <2>1, <2>5, Answered
    <3>2. fail' \in 0 .. MaxFail
      BY <1>a, <2>5, CountsAssumption
    <3>3. QED
      BY <1>a, <1>b, <2>1, <2>2, <2>5, <3>1, <3>2 DEF SeqInv, CounterInv
  <2>6. CASE Answer(Head(cmds), "done") /\ UNCHANGED <<ctrlVars, fail>>
    <3>1. evts' \in Seq(Event)
      BY <2>1, <2>6, Answered
    <3>2. QED
      BY <1>a, <1>b, <2>1, <2>2, <2>6, <3>1 DEF SeqInv, CounterInv
  <2>7. QED
    BY <1>4, <2>3, <2>4, <2>5, <2>6 DEF CtrlCommand
<1>5. CASE PeerUp \/ PeerDown
  <2>1. [e |-> "up"] \in Event /\ [e |-> "down"] \in Event
    BY DEF Event
  <2>2. evts' \in Seq(Event)
    <3>1. \A ev \in Event : Append(evts, ev) \in Seq(Event)
      BY <1>a, AppendFacts
    <3>2. QED
      BY <1>5, <2>1, <3>1 DEF PeerUp, PeerDown
  <2>3. peer' \in 0 .. MaxPeer
    BY <1>5, <1>a, CountsAssumption DEF PeerUp, PeerDown
  <2>4. UNCHANGED <<tableVars, cmds, applied, list, adv, unknown, fail, histVars>>
    BY <1>5 DEF PeerUp, PeerDown
  <2>5. SeqInv'
    BY <1>a, <2>2, <2>4 DEF SeqInv
  <2>6. {doubled, resets, listFail, lateFail}' \subseteq BOOLEAN
    BY <1>b, <2>4
  <2>7. CounterInv'
    BY <1>a, <2>3, <2>4, <2>6 DEF CounterInv
  <2>8. QED
    BY <2>5, <2>7
<1>6. CASE UNCHANGED vars
  BY <1>6, <1>a, <1>b DEF vars, SeqInv, CounterInv
<1>7. QED
  BY <1>1, <1>2, <1>3, <1>4, <1>5, <1>6 DEF Next, Handler

(***************************************************************************)
(* The table.                                                              *)
(***************************************************************************)
\* What is appended to the commands without being of the table changes nothing.
LEMMA OthersAppended ==
  ASSUME SeqInv, cmds' \in Seq(Command), Len(cmds') >= Len(cmds),
         \A i \in 1 .. Len(cmds) : cmds'[i] = cmds[i],
         \A i \in Len(cmds) + 1 .. Len(cmds') : ~TableCmd(cmds'[i])
  PROVE  /\ NoCmd <=> NoCmd'
         /\ \A i \in 1 .. Len(cmds) : SoleCmd(i) => SoleCmd(i)' /\ cmds'[i] = cmds[i]
<1>1. Len(cmds) \in Nat /\ Len(cmds') \in Nat
  BY DEF SeqInv
<1>2. \A i \in 1 .. Len(cmds') : i \in 1 .. Len(cmds) \/ ~TableCmd(cmds'[i])
  BY <1>1
<1>3. NoCmd <=> NoCmd'
  BY <1>1, <1>2 DEF NoCmd, TableCmd
<1>4. ASSUME NEW i \in 1 .. Len(cmds), SoleCmd(i) PROVE SoleCmd(i)' /\ cmds'[i] = cmds[i]
  BY <1>1, <1>2, <1>4 DEF SoleCmd, TableCmd
<1>5. QED
  BY <1>3, <1>4

\* A command of the table sent when none is outstanding is the only one.
LEMMA SentAlone ==
  ASSUME SeqInv, NoCmd, NEW m \in Command, TableCmd(m), cmds' = Append(cmds, m)
  PROVE  \E i \in 1 .. Len(cmds') : SoleCmd(i)' /\ cmds'[i] = m
<1>1. /\ Len(cmds) \in Nat /\ Len(cmds') = Len(cmds) + 1
      /\ \A i \in 1 .. Len(cmds) : cmds'[i] = cmds[i]
      /\ cmds'[Len(cmds) + 1] = m
  BY AppendFacts DEF SeqInv
<1>2. PICK k \in Nat : k = Len(cmds) + 1
  BY <1>1
<1>3. SoleCmd(k)'
  <2>1. \A i \in 1 .. Len(cmds') : i = k \/ i \in 1 .. Len(cmds)
    BY <1>1, <1>2
  <2>2. QED
    BY <1>1, <1>2, <2>1 DEF SoleCmd, NoCmd, TableCmd
<1>4. QED
  BY <1>1, <1>2, <1>3

\* The table goes on to entry c: its command is the one outstanding.
LEMMA EnterDue ==
  ASSUME TypeInv, NoCmd, NoEvt', Held' = Held,
         NEW c \in 0 .. NumSteps + 1, NEW r \in 0 .. MaxRetry, Enter(c, r),
         \A n \in Steps : n < c /\ n # ListStep /\ n # Last => n \in Held
  PROVE  (OneDue /\ NoneDue /\ Behind)'
<1> USE Places
<1>a. SeqInv /\ nextKey \in 0 .. NumKeys
  BY DEF TypeInv, CounterInv
<1>b. ASSUME conf' < Last, NEW m \in Command, TableCmd(m), cmds' = Append(cmds, m), DueCmd(m)'
      PROVE  OneDue'
  <2>1. \E i \in 1 .. Len(cmds') : SoleCmd(i)' /\ cmds'[i] = m
    BY <1>a, <1>b, SentAlone
  <2>2. QED
    BY <1>b, <2>1 DEF OneDue, DueCmd
<1>1. CASE c < Last /\ c # ListStep /\ conf' = c /\ cmds' = Append(cmds, Step(c))
  <2>1. c \in Steps
    BY <1>1 DEF Steps
  <2>2. Step(c) \in Command /\ TableCmd(Step(c)) /\ DueCmd(Step(c))'
    BY <1>1, <2>1, Sends DEF TableCmd, TableOps, DueCmd
  <2>3. OneDue'
    BY <1>1, <1>b, <2>2
  <2>4. QED
    BY <1>1, <2>3 DEF NoneDue, Behind
<1>2. CASE c = ListStep /\ AddNextKey /\ conf' = c
  <2>1. PICK k \in Keys : k = nextKey
    BY <1>2, <1>a DEF AddNextKey, MoreKeys, Keys
  <2>2. nextKey' = k + 1 /\ cmds' = Append(cmds, Listed(k)) /\ k \in Nat
    BY <1>2, <2>1 DEF AddNextKey, Keys
  <2>3. Listed(k) \in Command /\ TableCmd(Listed(k)) /\ DueCmd(Listed(k))'
    BY <1>2, <2>1, <2>2, Sends DEF TableCmd, TableOps, DueCmd
  <2>4. OneDue'
    BY <1>2, <1>b, <2>2, <2>3
  <2>5. QED
    BY <1>2, <2>4 DEF NoneDue, Behind
<1>3. CASE c = ListStep /\ conf' = c + 1 /\ cmds' = Append(cmds, Step(c + 1))
  <2>1. c + 1 \in Steps
    BY <1>3 DEF Steps
  <2>2. Step(c + 1) \in Command /\ TableCmd(Step(c + 1)) /\ DueCmd(Step(c + 1))'
    BY <1>3, <2>1, Sends DEF TableCmd, TableOps, DueCmd
  <2>3. OneDue'
    BY <1>3, <1>b, <2>2
  <2>4. QED
    BY <1>3, <2>3 DEF NoneDue, Behind, Steps
<1>4. CASE c = Last /\ conf' = c /\ \E q \in start_inquiry : cmds' = cmds \o q
  <2>1. /\ cmds' \in Seq(Command) /\ Len(cmds) \in Nat /\ Len(cmds') \in Nat /\ Len(cmds') >= Len(cmds)
        /\ \A i \in 1 .. Len(cmds) : cmds'[i] = cmds[i]
        /\ \A i \in Len(cmds) + 1 .. Len(cmds') : cmds'[i].op \in {"le_scan", "inquiry"}
    BY <1>a, <1>4, Inquiries DEF SeqInv
  <2>2. \A i \in Len(cmds) + 1 .. Len(cmds') : ~TableCmd(cmds'[i])
    BY <2>1 DEF TableCmd, TableOps
  <2>3. NoCmd'
    BY <1>a, <2>1, <2>2, OthersAppended
  <2>4. QED
    BY <1>4, <2>3 DEF OneDue, NoneDue, Behind
<1>5. CASE c > Last /\ conf' = NumSteps /\ UNCHANGED cmds
  BY <1>5 DEF OneDue, NoneDue, Behind, NoCmd, Steps
<1>6. QED
  BY <1>1, <1>2, <1>3, <1>4, <1>5 DEF Enter

\* When an answer drives the table, nothing of the table is left outstanding.
LEMMA DrivenAlone ==
  ASSUME TypeInv, TableInv, NEW k \in {"done", "failed"}, NEW e, Takes(k, e), Drives(e), ~doubled'
  PROVE  /\ ~doubled /\ NoCmd /\ NoEvt' /\ Behind
         /\ conf < Last => TableEvt(e) /\ DueEvt(e)
         /\ conf >= Last => ~TableEvt(e)
<1>a. /\ evts' \in Seq(Event) /\ e \in Event /\ e.e = k /\ e = evts[1]
      /\ Len(evts) \in Nat \ {0} /\ Len(evts') = Len(evts) - 1
      /\ \A i \in 1 .. Len(evts) - 1 : evts'[i] = evts[i + 1]
  BY TakesTypes DEF TypeInv
<1>b. ~doubled /\ (conf < Last => e.table)
  BY DEF Drives
<1>c. OneDue /\ NoneDue /\ Behind
  BY <1>b DEF TableInv
<1>d. conf \in Nat /\ Last \in Nat
  BY Places DEF TypeInv, CounterInv
<1>1. CASE conf < Last
  <2>1. TableEvt(e)
    BY <1>a, <1>b, <1>1 DEF Event, TableEvt, Answers
  <2>2. ~NoEvt
    BY <1>a, <2>1 DEF NoEvt
  <2>3. PICK i \in 1 .. Len(evts) : SoleEvt(i) /\ DueEvt(evts[i])
    BY <1>1, <1>c, <2>2 DEF OneDue
  <2>4. i = 1 /\ NoCmd
    BY <1>1, <1>a, <1>c, <2>1, <2>2, <2>3 DEF OneDue, SoleEvt
  <2>5. \A j \in 2 .. Len(evts) : ~TableEvt(evts[j])
    BY <1>a, <2>3, <2>4 DEF SoleEvt
  <2>6. NoEvt'
    BY <1>a, <2>5 DEF NoEvt, TableEvt, Answers
  <2>7. QED
    BY <1>a, <1>b, <1>c, <1>d, <1>1, <2>1, <2>3, <2>4, <2>6
<1>2. CASE conf >= Last
  <2>1. NoCmd /\ NoEvt
    BY <1>2, <1>c DEF NoneDue
  <2>2. NoEvt' /\ ~TableEvt(e)
    BY <1>a, <2>1 DEF NoEvt, TableEvt, Answers
  <2>3. QED
    BY <1>b, <1>c, <1>d, <1>2, <2>1, <2>2
<1>3. QED
  BY <1>d, <1>1, <1>2

\* What is outstanding stays so, when neither the commands nor the events of the
\* table change.
CmdsKept ==
  /\ NoCmd => NoCmd'
  /\ \A i \in 1 .. Len(cmds) : SoleCmd(i) => \E j \in 1 .. Len(cmds') : SoleCmd(j)' /\ cmds'[j] = cmds[i]
EvtsKept ==
  /\ NoEvt => NoEvt'
  /\ \A i \in 1 .. Len(evts) : SoleEvt(i) => \E j \in 1 .. Len(evts') : SoleEvt(j)' /\ evts'[j] = evts[i]

LEMMA TableKept ==
  ASSUME TableInv, CmdsKept, EvtsKept, UNCHANGED <<conf, nextKey, doubled, Held>>
  PROVE  TableInv'
<1> SUFFICES ASSUME ~doubled PROVE OneDue' /\ NoneDue' /\ Behind'
  BY DEF TableInv
<1>a. OneDue /\ NoneDue /\ Behind
  BY DEF TableInv
<1>1. \A m : DueCmd(m) <=> DueCmd(m)'
  BY DEF DueCmd
<1>2. \A e : DueEvt(e) <=> DueEvt(e)'
  BY DEF DueEvt
<1>3. ASSUME conf < Last PROVE OneDue'
  <2>1. CASE NoEvt /\ \E i \in 1 .. Len(cmds) : SoleCmd(i) /\ DueCmd(cmds[i])
    <3>1. PICK i \in 1 .. Len(cmds) : SoleCmd(i) /\ DueCmd(cmds[i])
      BY <2>1
    <3>2. PICK j \in 1 .. Len(cmds') : SoleCmd(j)' /\ cmds'[j] = cmds[i]
      BY <3>1 DEF CmdsKept
    <3>3. NoEvt' /\ DueCmd(cmds[j])'
      BY <2>1, <3>1, <3>2 DEF EvtsKept, DueCmd
    <3>4. QED
      BY <3>2, <3>3 DEF OneDue
  <2>2. CASE NoCmd /\ \E i \in 1 .. Len(evts) : SoleEvt(i) /\ DueEvt(evts[i])
    <3>1. PICK i \in 1 .. Len(evts) : SoleEvt(i) /\ DueEvt(evts[i])
      BY <2>2
    <3>2. PICK j \in 1 .. Len(evts') : SoleEvt(j)' /\ evts'[j] = evts[i]
      BY <3>1 DEF EvtsKept
    <3>3. NoCmd' /\ DueEvt(evts[j])'
      BY <2>2, <3>1, <3>2 DEF CmdsKept, DueEvt
    <3>4. QED
      BY <3>2, <3>3 DEF OneDue
  <2>3. QED
    BY <1>3, <1>a, <2>1, <2>2 DEF OneDue
<1>4. OneDue'
  BY <1>3 DEF OneDue
<1>5. NoneDue' /\ Behind'
  BY <1>a DEF NoneDue, Behind, CmdsKept, EvtsKept
<1>6. QED
  BY <1>4, <1>5

LEMMA EvtTaken ==
  ASSUME SeqInv, NEW e, Takes("up", e) \/ Takes("down", e)
  PROVE  EvtsKept
<1>1. /\ e = evts[1] /\ ~TableEvt(evts[1]) /\ Len(evts) \in Nat \ {0} /\ Len(evts') = Len(evts) - 1
      /\ \A i \in 1 .. Len(evts) - 1 : evts'[i] = evts[i + 1]
  BY TakesTypes DEF TableEvt, Answers
<1>2. NoEvt => NoEvt'
  BY <1>1 DEF NoEvt, TableEvt, Answers
<1>3. ASSUME NEW i \in 1 .. Len(evts), SoleEvt(i)
      PROVE  \E j \in 1 .. Len(evts') : SoleEvt(j)' /\ evts'[j] = evts[i]
  <2>1. PICK j \in 1 .. Len(evts') : j = i - 1
    BY <1>1, <1>3 DEF SoleEvt
  <2>2. evts'[j] = evts[i] /\ TableEvt(evts'[j])
    BY <1>1, <1>3, <2>1 DEF SoleEvt
  <2>3. ASSUME NEW l \in 1 .. Len(evts'), TableEvt(evts'[l]) PROVE l = j
    <3>1. l + 1 \in 1 .. Len(evts) /\ evts[l + 1] = evts'[l]
      BY <1>1
    <3>2. l + 1 = i
      BY <1>3, <2>3, <3>1 DEF SoleEvt
    <3>3. QED
      BY <1>1, <2>1, <3>2
  <2>4. SoleEvt(j)'
    BY <2>1, <2>2, <2>3 DEF SoleEvt, TableEvt, Answers
  <2>5. QED
    BY <2>1, <2>2, <2>4
<1>4. QED
  BY <1>2, <1>3 DEF EvtsKept

LEMMA EvtAdded ==
  ASSUME SeqInv, NEW e \in Event, ~TableEvt(e), evts' = Append(evts, e)
  PROVE  EvtsKept
<1>1. /\ Len(evts) \in Nat /\ Len(evts') = Len(evts) + 1 /\ evts'[Len(evts) + 1] = e
      /\ \A i \in 1 .. Len(evts) : evts'[i] = evts[i]
  BY AppendFacts DEF SeqInv
<1>2. \A i \in 1 .. Len(evts') : i \in 1 .. Len(evts) \/ ~TableEvt(evts'[i])
  BY <1>1
<1>3. NoEvt => NoEvt'
  BY <1>1, <1>2 DEF NoEvt, TableEvt, Answers
<1>4. ASSUME NEW i \in 1 .. Len(evts), SoleEvt(i)
      PROVE  \E j \in 1 .. Len(evts') : SoleEvt(j)' /\ evts'[j] = evts[i]
  <2>1. i \in 1 .. Len(evts') /\ evts'[i] = evts[i]
    BY <1>1
  <2>2. SoleEvt(i)'
    BY <1>2, <1>4, <1>1, <2>1 DEF SoleEvt, TableEvt, Answers
  <2>3. QED
    BY <2>1, <2>2
<1>5. QED
  BY <1>3, <1>4 DEF EvtsKept

LEMMA CmdTaken ==
  ASSUME SeqInv, CtrlCommand
  PROVE  /\ ~TableCmd(Head(cmds)) => CmdsKept
         /\ TableCmd(Head(cmds)) /\ (\E i \in 1 .. Len(cmds) : SoleCmd(i)) => SoleCmd(1) /\ NoCmd'
<1>1. /\ Head(cmds) = cmds[1] /\ Len(cmds) \in Nat \ {0} /\ Len(cmds') = Len(cmds) - 1
      /\ \A i \in 1 .. Len(cmds) - 1 : cmds'[i] = cmds[i + 1]
  BY HeadCmd
<1>2. NoCmd => NoCmd'
  BY <1>1 DEF NoCmd, TableCmd
<1>3. ASSUME NEW i \in 1 .. Len(cmds), SoleCmd(i), ~TableCmd(Head(cmds))
      PROVE  \E j \in 1 .. Len(cmds') : SoleCmd(j)' /\ cmds'[j] = cmds[i]
  <2>1. PICK j \in 1 .. Len(cmds') : j = i - 1
    BY <1>1, <1>3 DEF SoleCmd
  <2>2. cmds'[j] = cmds[i] /\ TableCmd(cmds'[j])
    BY <1>1, <1>3, <2>1 DEF SoleCmd
  <2>3. ASSUME NEW l \in 1 .. Len(cmds'), TableCmd(cmds'[l]) PROVE l = j
    <3>1. l + 1 \in 1 .. Len(cmds) /\ cmds[l + 1] = cmds'[l]
      BY <1>1
    <3>2. l + 1 = i
      BY <1>3, <2>3, <3>1 DEF SoleCmd
    <3>3. QED
      BY <1>1, <2>1, <3>2
  <2>4. SoleCmd(j)'
    BY <2>1, <2>2, <2>3 DEF SoleCmd, TableCmd
  <2>5. QED
    BY <2>1, <2>2, <2>4
<1>4. ASSUME NEW i \in 1 .. Len(cmds), SoleCmd(i), TableCmd(Head(cmds)) PROVE SoleCmd(1) /\ NoCmd'
  <2>1. i = 1
    BY <1>1, <1>4 DEF SoleCmd
  <2>2. \A j \in 1 .. Len(cmds) - 1 : ~TableCmd(cmds[j + 1])
    BY <1>1, <1>4, <2>1 DEF SoleCmd
  <2>3. QED
    BY <1>1, <1>4, <2>1, <2>2 DEF NoCmd, TableCmd
<1>5. QED
  BY <1>2, <1>3, <1>4 DEF CmdsKept

LEMMA LinkEvent ==
  ASSUME SeqInv, NEW e, Connected(e) \/ Disconnected(e)
  PROVE  /\ cmds' \in Seq(Command) /\ Len(cmds) \in Nat /\ Len(cmds') >= Len(cmds)
         /\ \A i \in 1 .. Len(cmds) : cmds'[i] = cmds[i]
         /\ \A i \in Len(cmds) + 1 .. Len(cmds') : ~TableCmd(cmds'[i])
         /\ Connected(e) => Len(cmds') = Len(cmds) + 1 /\ cmds'[Len(cmds) + 1] = AdvOff
         /\ Disconnected(e) =>
              \/ active' # 0 /\ cmds' = cmds
              \/ /\ Len(cmds') \in Nat /\ Len(cmds') > Len(cmds) /\ cmds'[Len(cmds')] = AdvOn
                 /\ \A i \in Len(cmds) + 1 .. Len(cmds') - 1 : cmds'[i].op \in {"le_scan", "inquiry"}
<1>a. cmds \in Seq(Command) /\ Len(cmds) \in Nat
  BY DEF SeqInv
<1>1. CASE Connected(e)
  <2>1. cmds' = Append(cmds, AdvOff) /\ AdvOff \in Command /\ ~TableCmd(AdvOff)
    BY <1>1, Sends DEF Connected
  <2>2. /\ cmds' \in Seq(Command) /\ Len(cmds') = Len(cmds) + 1 /\ cmds'[Len(cmds) + 1] = AdvOff
        /\ \A i \in 1 .. Len(cmds) : cmds'[i] = cmds[i]
    BY <1>a, <2>1, AppendFacts
  <2>3. \A i \in Len(cmds) + 1 .. Len(cmds') : i = Len(cmds) + 1
    BY <1>a, <2>2
  <2>4. ~Disconnected(e)
    BY <1>1 DEF Connected, Disconnected, Takes
  <2>5. \A i \in Len(cmds) + 1 .. Len(cmds') : ~TableCmd(cmds'[i])
    BY <2>1, <2>2, <2>3
  <2>6. QED
    BY <1>a, <2>2, <2>4, <2>5
<1>2. CASE Disconnected(e) /\ active' # 0
  <2>1. cmds' = cmds
    BY <1>2 DEF Disconnected
  <2>2. ~Connected(e)
    BY <1>2 DEF Connected, Disconnected, Takes
  <2>3. QED
    BY <1>a, <1>2, <2>1, <2>2
<1>3. CASE Disconnected(e) /\ active' = 0
  <2>a. ~Connected(e)
    BY <1>3 DEF Connected, Disconnected, Takes
  <2>1. PICK q \in start_inquiry : cmds' = cmds \o q \o <<AdvOn>>
    BY <1>3 DEF Disconnected
  <2>2. PICK t : t = cmds \o q
    OBVIOUS
  <2>3. /\ t \in Seq(Command) /\ Len(t) \in Nat /\ Len(t) >= Len(cmds)
        /\ \A i \in 1 .. Len(cmds) : t[i] = cmds[i]
        /\ \A i \in Len(cmds) + 1 .. Len(t) : t[i].op \in {"le_scan", "inquiry"}
    BY <1>a, <2>2, Inquiries
  <2>4. cmds' = t \o <<AdvOn>> /\ AdvOn \in Command /\ ~TableCmd(AdvOn)
    BY <2>1, <2>2, Sends
  <2>5. /\ cmds' \in Seq(Command) /\ Len(cmds') = Len(t) + 1 /\ cmds'[Len(t) + 1] = AdvOn
        /\ \A i \in 1 .. Len(t) : cmds'[i] = t[i]
    <3>1. <<AdvOn>> \in Seq(Command) /\ Len(<<AdvOn>>) = 1 /\ <<AdvOn>>[1] = AdvOn
      BY <2>4
    <3>2. /\ t \o <<AdvOn>> \in Seq(Command) /\ Len(t \o <<AdvOn>>) = Len(t) + Len(<<AdvOn>>)
          /\ Len(t) \in Nat
          /\ \A i \in 1 .. Len(t) : (t \o <<AdvOn>>)[i] = t[i]
          /\ \A i \in Len(t) + 1 .. Len(t) + Len(<<AdvOn>>) : (t \o <<AdvOn>>)[i] = <<AdvOn>>[i - Len(t)]
      BY <2>3, <3>1, ConcatFacts
    <3>3. QED
      BY <2>4, <3>1, <3>2
  <2>6. \A i \in Len(cmds) + 1 .. Len(cmds') - 1 : cmds'[i].op \in {"le_scan", "inquiry"}
    BY <1>a, <2>3, <2>5
  <2>7. \A i \in Len(cmds) + 1 .. Len(cmds') : i \in Len(cmds) + 1 .. Len(cmds') - 1 \/ i = Len(t) + 1
    BY <1>a, <2>3, <2>5
  <2>8. \A i \in Len(cmds) + 1 .. Len(cmds') : ~TableCmd(cmds'[i])
    BY <2>4, <2>5, <2>6, <2>7 DEF TableCmd, TableOps
  <2>9. Len(cmds') > Len(cmds) /\ Len(cmds') = Len(t) + 1 /\ \A i \in 1 .. Len(cmds) : cmds'[i] = cmds[i]
    BY <1>a, <2>3, <2>5
  <2>10. QED
    BY <1>a, <2>a, <2>5, <2>6, <2>8, <2>9
<1>4. QED
  BY <1>1, <1>2, <1>3

\* A command of the table that the controller executes is the one due.
LEMMA HeadDue ==
  ASSUME TypeInv, TableInv, ~doubled, CtrlCommand, TableCmd(Head(cmds))
  PROVE  conf < Last /\ NoEvt /\ NoCmd' /\ DueCmd(Head(cmds))
<1>a. conf \in Nat /\ Last \in Nat /\ SeqInv
  BY Places DEF TypeInv, CounterInv
<1>b. OneDue /\ NoneDue
  BY DEF TableInv
<1>c. Head(cmds) = cmds[1] /\ Len(cmds) \in Nat \ {0}
  BY <1>a, HeadCmd
<1>1. ~NoCmd
  BY <1>c DEF NoCmd
<1>2. conf < Last
  BY <1>a, <1>b, <1>1 DEF NoneDue
<1>3. NoEvt /\ \E i \in 1 .. Len(cmds) : SoleCmd(i) /\ DueCmd(cmds[i])
  BY <1>b, <1>1, <1>2 DEF OneDue
<1>4. SoleCmd(1) /\ NoCmd'
  BY <1>a, <1>3, CmdTaken
<1>5. DueCmd(Head(cmds))
  BY <1>3, <1>4, <1>c DEF SoleCmd
<1>6. QED
  BY <1>2, <1>3, <1>4, <1>5

\* Its answer is then the one of the table among the events.
LEMMA AnswerAlone ==
  ASSUME SeqInv, NoEvt, NEW m \in Command, TableCmd(m), NEW how \in {"done", "failed"}, Answer(m, how)
  PROVE  \E k \in 1 .. Len(evts') :
           SoleEvt(k)' /\ TableEvt(evts'[k]) /\ evts'[k].e = how /\ evts'[k].op = m.op
<1>1. PICK k \in Nat : k = Len(evts) + 1
  BY DEF SeqInv
<1>2. /\ Len(evts) \in Nat /\ Len(evts') = k /\ evts'[k] = [e |-> how, op |-> m.op, table |-> m.table]
      /\ \A i \in 1 .. Len(evts) : evts'[i] = evts[i]
  BY <1>1, Answered
<1>3. TableEvt(evts'[k]) /\ evts'[k].e = how /\ evts'[k].op = m.op
  BY <1>2 DEF TableEvt, Answers, TableCmd
<1>4. \A i \in 1 .. Len(evts') : i = k \/ i \in 1 .. Len(evts)
  BY <1>1, <1>2
<1>5. SoleEvt(k)'
  BY <1>1, <1>2, <1>3, <1>4 DEF SoleEvt, NoEvt, TableEvt, Answers
<1>6. QED
  BY <1>1, <1>2, <1>3, <1>5

\* Once a command of the table is executed its answer is what is outstanding.
LEMMA TableExecuted ==
  ASSUME TypeInv, TableInv, ~doubled, CtrlCommand, TableCmd(Head(cmds))
  PROVE  TableInv'
<1> USE DEF tableVars, ctrlVars, histVars
<1>a. SeqInv /\ CounterInv /\ conf \in Nat /\ applied \subseteq Steps /\ UNCHANGED <<conf, nextKey, doubled>>
  BY Places DEF TypeInv, CounterInv, CtrlCommand
<1>b. Behind
  BY DEF TableInv
<1>c. PICK m : m = Head(cmds)
  OBVIOUS
<1>d. m \in Command /\ TableCmd(m)
  BY <1>a, <1>c, HeadCmd
<1>4. conf < Last /\ NoEvt /\ NoCmd' /\ DueCmd(m)
  BY <1>c, HeadDue
<1>5. ASSUME NEW how \in {"done", "failed"}, Answer(m, how), Behind', how = "done" /\ m.op = "step" => m.n \in Held'
      PROVE  TableInv'
  <2>1. PICK k \in 1 .. Len(evts') :
          SoleEvt(k)' /\ TableEvt(evts'[k]) /\ evts'[k].e = how /\ evts'[k].op = m.op
    BY <1>a, <1>d, <1>4, <1>5, AnswerAlone
  <2>2. DueEvt(evts[k])'
    BY <1>a, <1>4, <1>5, <2>1 DEF DueEvt, DueCmd
  <2>3. OneDue' /\ NoneDue'
    BY <1>a, <1>4, <2>1, <2>2, Places DEF OneDue, NoneDue
  <2>4. QED
    BY <1>5, <2>3 DEF TableInv
<1>6. CASE Execute(m) /\ Answer(m, "done")
  <2>1. CASE Resets(m)
    <3>1. conf = 0 /\ applied' = {0} /\ m.n = 0
      BY <1>4, <1>6, <2>1, Places DEF DueCmd, Resets, Execute
    <3>2. Behind'
      BY <1>a, <3>1 DEF Behind, Steps, Held
    <3>3. m.n \in Held'
      BY <3>1 DEF Held
    <3>4. QED
      BY <1>5, <1>6, <3>2, <3>3
  <2>2. CASE ~Resets(m)
    <3>1. Held \subseteq Held' /\ (m.op = "step" => m.n \in Held')
      BY <1>6, <2>2 DEF Execute, Held
    <3>2. Behind'
      BY <1>a, <1>b, <3>1 DEF Behind
    <3>3. QED
      BY <1>5, <1>6, <3>1, <3>2
  <2>3. QED
    BY <2>1, <2>2
<1>7. CASE Answer(m, "failed") /\ UNCHANGED ctrlVars
  <2>1. Behind'
    BY <1>a, <1>b, <1>7 DEF Behind, Held
  <2>2. QED
    BY <1>5, <1>7, <2>1
<1>8. m.op # "inquiry"
  BY <1>d DEF TableCmd, TableOps
<1>9. CASE ~Understood(m) /\ Answer(m, "done") /\ UNCHANGED ctrlVars
  <2>1. Behind'
    BY <1>a, <1>b, <1>9 DEF Behind, Held
  <2>2. m.op = "step" => m.n \in Held'
    BY <1>9 DEF Understood, Entry, Held
  <2>3. QED
    BY <1>5, <1>9, <2>1, <2>2
<1>10. QED
  BY <1>6, <1>7, <1>8, <1>9, <1>c DEF CtrlCommand

LEMMA NextTable == TypeInv /\ TableInv /\ [Next]_vars => TableInv'
<1> SUFFICES ASSUME TypeInv, TableInv, [Next]_vars, ~doubled' PROVE TableInv'
  BY DEF TableInv
<1> USE DEF tableVars, ctrlVars, histVars
<1>a. SeqInv /\ CounterInv /\ conf \in 0 .. NumSteps /\ retry \in 0 .. MaxRetry
  BY DEF TypeInv, CounterInv
<1>1. ASSUME NEW e, CmdFailed(e) PROVE TableInv'
  <2>1. ~doubled /\ NoCmd /\ NoEvt' /\ Behind
    BY <1>1, DrivenAlone DEF CmdFailed
  <2>2. Held' = Held
    BY <1>1 DEF CmdFailed, Takes, Held
  <2>3. CASE Enter(0, 0)
    <3>1. \A n \in Steps : n < 0 /\ n # ListStep /\ n # Last => n \in Held
      BY Places DEF Steps
    <3>2. 0 \in 0 .. NumSteps + 1 /\ 0 \in 0 .. MaxRetry
      BY Places
    <3>3. QED
      BY <2>1, <2>2, <2>3, <3>1, <3>2, EnterDue DEF TableInv
  <2>4. CASE retry + 1 <= MaxRetry /\ Enter(conf, retry + 1)
    <3>1. conf \in 0 .. NumSteps + 1 /\ retry + 1 \in 0 .. MaxRetry
      BY <1>a, <2>4, Places
    <3>2. QED
      BY <2>1, <2>2, <2>4, <3>1, EnterDue DEF TableInv, Behind
  <2>5. QED
    BY <1>1, <1>a, <2>3, <2>4, Places DEF CmdFailed
<1>2. ASSUME NEW e, CmdDone(e) PROVE TableInv'
  <2>1. /\ ~doubled /\ NoCmd /\ NoEvt' /\ Behind
        /\ conf < Last => TableEvt(e) /\ DueEvt(e)
        /\ conf >= Last => ~TableEvt(e)
    BY <1>2, DrivenAlone DEF CmdDone
  <2>2. Held' = Held /\ e.e = "done"
    BY <1>2 DEF CmdDone, Takes, Held
  <2>3. CASE e.op = "list" /\ AddNextKey /\ UNCHANGED <<conf, retry>>
    <3>1. conf < Last
      BY <1>a, <2>1, <2>2, <2>3, Places DEF TableEvt, Answers, TableOps
    <3>2. conf = ListStep
      BY <2>1, <2>3, <3>1 DEF DueEvt
    <3>3. Enter(ListStep, retry)
      BY <2>3, <3>2 DEF Enter
    <3>4. ListStep \in 0 .. NumSteps + 1
      BY Places
    <3>5. QED
      BY <1>a, <2>1, <2>2, <3>2, <3>3, <3>4, EnterDue DEF TableInv, Behind
  <2>4. CASE Enter(conf + 1, 0)
    <3>1. conf + 1 \in 0 .. NumSteps + 1 /\ 0 \in 0 .. MaxRetry
      BY <1>a, Places
    <3>2. conf < Last /\ conf # ListStep => conf \in Held
      BY <2>1, <2>2 DEF DueEvt
    <3>3. ASSUME NEW n \in Steps, n < conf + 1, n # ListStep, n # Last PROVE n \in Held
      <4>1. n \in 0 .. Last
        BY DEF Steps
      <4>2. n < conf \/ n = conf
        BY <1>a, <3>3, <4>1, Places
      <4>3. QED
        BY <2>1, <3>2, <3>3, <4>1, <4>2, Places DEF Behind
    <3>4. QED
      BY <2>1, <2>2, <2>4, <3>1, <3>3, EnterDue DEF TableInv
  <2>5. QED
    BY <1>2, <2>3, <2>4 DEF CmdDone
<1>3. ASSUME NEW e, Connected(e) \/ Disconnected(e) PROVE TableInv'
  <2>1. EvtsKept /\ UNCHANGED <<conf, nextKey, doubled, Held>>
    BY <1>3, <1>a, EvtTaken DEF Connected, Disconnected, Takes, Held
  <2>2. /\ cmds' \in Seq(Command) /\ Len(cmds) \in Nat /\ Len(cmds') >= Len(cmds)
        /\ \A i \in 1 .. Len(cmds) : cmds'[i] = cmds[i]
        /\ \A i \in Len(cmds) + 1 .. Len(cmds') : ~TableCmd(cmds'[i])
    BY <1>3, <1>a, LinkEvent
  <2>3. /\ NoCmd <=> NoCmd'
        /\ \A i \in 1 .. Len(cmds) : SoleCmd(i) => SoleCmd(i)' /\ cmds'[i] = cmds[i]
    BY <1>a, <2>2, OthersAppended
  <2>4. 1 .. Len(cmds) \subseteq 1 .. Len(cmds')
    BY <2>2
  <2>5. CmdsKept
    BY <2>3, <2>4 DEF CmdsKept
  <2>6. QED
    BY <2>1, <2>5, TableKept
<1>4. CASE CtrlCommand
  <2>1. CASE TableCmd(Head(cmds))
    BY <1>4, <2>1, TableExecuted DEF CtrlCommand
  <2>2. CASE ~TableCmd(Head(cmds))
    <3>1. CmdsKept /\ Head(cmds) \in Command /\ UNCHANGED <<conf, nextKey, doubled>>
      BY <1>4, <1>a, <2>2, CmdTaken, HeadCmd DEF CtrlCommand
    <3>2. Held' = Held
      BY <1>4, <2>2 DEF CtrlCommand, Execute, Resets, TableCmd, TableOps, Held
    <3>3. ASSUME UNCHANGED evts PROVE EvtsKept
      BY <3>3 DEF EvtsKept, NoEvt, SoleEvt, TableEvt, Answers
    <3>4. ASSUME NEW how \in {"done", "failed"}, Answer(Head(cmds), how) PROVE EvtsKept
      <4>1. PICK e \in Event : e = [e |-> how, op |-> Head(cmds).op, table |-> Head(cmds).table]
        BY <3>1, AnswerTypes
      <4>2. ~TableEvt(e) /\ evts' = Append(evts, e)
        BY <2>2, <3>4, <4>1 DEF TableEvt, TableCmd, Answer
      <4>3. QED
        BY <1>a, <4>2, EvtAdded
    <3>5. QED
      BY <1>4, <3>1, <3>2, <3>3, <3>4, TableKept DEF CtrlCommand
  <2>3. QED
    BY <2>1, <2>2
<1>5. CASE PeerUp \/ PeerDown
  <2>1. [e |-> "up"] \in Event /\ [e |-> "down"] \in Event /\ ~TableEvt([e |-> "up"]) /\ ~TableEvt([e |-> "down"])
    BY DEF Event, TableEvt, Answers
  <2>2. EvtsKept
    BY <1>5, <1>a, <2>1, EvtAdded DEF PeerUp, PeerDown
  <2>3. UNCHANGED <<conf, nextKey, doubled, Held, cmds>>
    BY <1>5 DEF PeerUp, PeerDown, Held
  <2>4. CmdsKept
    BY <2>3 DEF CmdsKept, NoCmd, SoleCmd, TableCmd
  <2>5. QED
    BY <2>2, <2>3, <2>4, TableKept
<1>6. CASE UNCHANGED vars
  <2>1. CmdsKept /\ EvtsKept
    BY <1>6 DEF vars, CmdsKept, EvtsKept, NoCmd, SoleCmd, TableCmd, NoEvt, SoleEvt, TableEvt, Answers
  <2>2. QED
    BY <1>6, <2>1, TableKept DEF vars, Held
<1>7. QED
  BY <1>1, <1>2, <1>3, <1>4, <1>5, <1>6 DEF Next, Handler

LEMMA InitTable == Init => TypeInv /\ TableInv
<1> SUFFICES ASSUME Init PROVE TypeInv /\ TableInv
  OBVIOUS
<1>1. Step(0) \in Command /\ Step(0).op = "step" /\ Step(0).n = 0
  BY Places, Sends DEF Steps
<1>2. PICK m \in Command : m = Step(0) /\ m.op = "step" /\ m.n = 0
  BY <1>1
<1>3. /\ cmds = <<m>> /\ evts = <<>> /\ conf = 0
      /\ cmds \in Seq(Command) /\ evts \in Seq(Event) /\ Len(cmds) = 1 /\ Len(evts) = 0 /\ cmds[1] = m
  BY <1>2 DEF Init
<1>4. TypeInv
  <2>1. CounterInv
    <3>1. /\ conf \in 0 .. NumSteps /\ retry \in 0 .. MaxRetry /\ nextKey \in 0 .. NumKeys
          /\ fail \in 0 .. MaxFail /\ peer \in 0 .. MaxPeer
      BY Places, CountsAssumption DEF Init
    <3>2. /\ applied \subseteq Steps /\ list \subseteq Keys /\ adv \in BOOLEAN
          /\ unknown \subseteq Optional
          /\ {doubled, resets, listFail, lateFail} \subseteq BOOLEAN
      BY DEF Init
    <3>3. QED
      BY <3>1, <3>2 DEF CounterInv
  <2>2. QED
    BY <1>3, <2>1 DEF TypeInv, SeqInv
<1>5. SoleCmd(1) /\ DueCmd(cmds[1]) /\ NoEvt
  BY <1>2, <1>3, Places DEF SoleCmd, TableCmd, TableOps, DueCmd, NoEvt
<1>6. OneDue /\ NoneDue /\ Behind
  BY <1>3, <1>5, Places DEF OneDue, NoneDue, Behind, Steps
<1>7. QED
  BY <1>4, <1>6 DEF TableInv

\* Whatever fails, is repeated, or starts the table over: when the table is done
\* every entry of it whose command the controller knows is in force, unless the
\* answer of another command drove the table.
THEOREM TableInForce == Spec => []AllApplied
<1>1. TypeInv /\ TableInv => AllApplied
  <2> SUFFICES ASSUME TypeInv, TableInv, SetUp, ~doubled, NEW n \in Steps, n # ListStep, n # Last,
                      n \notin unknown
               PROVE  n \in applied
    BY DEF AllApplied
  <2>1. Behind /\ conf \in Nat /\ conf >= Last
    BY DEF TableInv, TypeInv, CounterInv, SetUp
  <2>2. n < conf
    BY <2>1, Places DEF Steps
  <2>3. QED
    BY <2>1, <2>2 DEF Behind, Held
<1>2. TypeInv /\ TableInv /\ [Next]_vars => (TypeInv /\ TableInv)'
  BY NextTypes, NextTable
<1>3. QED
  BY InitTable, <1>1, <1>2, PTL DEF Spec

(***************************************************************************)
(* The accept list.                                                        *)
(***************************************************************************)
LEMMA ListKept ==
  ASSUME TypeInv, TableInv, ListInv, EvtsKept, UNCHANGED <<conf, nextKey, list, doubled, resets, listFail, unknown>>
  PROVE  ListInv'
<1> SUFFICES ASSUME ~doubled, ~resets, ~listFail, ListStep \notin unknown, conf = ListStep
             PROVE  IF NoEvt' THEN list = Sent(nextKey - 1)
                    ELSE \A i \in 1 .. Len(evts') :
                           TableEvt(evts'[i]) /\ evts'[i].e = "done" => list = Sent(nextKey)
  BY DEF ListInv, Sent, TableEvt, Answers
<1>1. OneDue /\ conf < Last
  BY Places DEF TableInv
<1>2. CASE NoEvt
  BY <1>2 DEF EvtsKept, ListInv
<1>3. CASE ~NoEvt
  <2>1. PICK i \in 1 .. Len(evts) : SoleEvt(i)
    BY <1>1, <1>3 DEF OneDue
  <2>2. PICK j \in 1 .. Len(evts') : SoleEvt(j)' /\ evts'[j] = evts[i]
    BY <2>1 DEF EvtsKept
  <2>3. ~NoEvt'
    BY <2>2 DEF NoEvt, SoleEvt, TableEvt, Answers
  <2>4. \A l \in 1 .. Len(evts') : TableEvt(evts'[l]) => l = j
    BY <2>2 DEF SoleEvt, TableEvt, Answers
  <2>5. TableEvt(evts[i]) /\ evts[i].e = "done" => list = Sent(nextKey)
    BY <1>3 DEF ListInv
  <2>6. QED
    BY <2>2, <2>3, <2>4, <2>5
<1>4. QED
  BY <1>2, <1>3

LEMMA NextList == TypeInv /\ TableInv /\ ListInv /\ [Next]_vars => ListInv'
<1> SUFFICES ASSUME TypeInv, TableInv, ListInv, [Next]_vars, ~doubled', ~resets', ~listFail',
                    ListStep \notin unknown'
             PROVE  ListInv'
  BY DEF ListInv
<1> USE Places DEF tableVars, ctrlVars, histVars
<1>a. SeqInv /\ CounterInv /\ conf \in 0 .. NumSteps /\ nextKey \in 0 .. NumKeys /\ list \subseteq Keys
  BY DEF TypeInv, CounterInv
<1>b. ~doubled /\ ~resets /\ ~listFail
  <2>1. ASSUME NEW e, CmdFailed(e) \/ CmdDone(e) PROVE ~doubled /\ ~resets /\ ~listFail
    <3>1. /\ doubled' = (doubled \/ (~e.table /\ conf < Last))
          /\ resets' = resets \/ resets' = (resets \/ retry + 1 > MaxRetry)
          /\ listFail' = listFail \/ listFail' = (listFail \/ e.op = "list")
      BY <2>1 DEF CmdFailed, CmdDone, Drives
    <3>2. ~doubled
      BY <3>1
    <3>3. ~resets
      BY <3>1
    <3>4. ~listFail
      BY <3>1
    <3>5. QED
      BY <3>2, <3>3, <3>4
  <2>2. CASE UNCHANGED histVars
    BY <2>2
  <2>3. QED
    BY <2>1, <2>2 DEF Next, Handler, Connected, Disconnected, CtrlCommand, PeerUp, PeerDown, vars
<1>u. unknown' = unknown
  <2>1. ASSUME NEW m, Execute(m) PROVE unknown' = unknown
    BY <2>1 DEF Execute
  <2>2. ASSUME CtrlCommand PROVE unknown' = unknown
    BY <2>1, <2>2 DEF CtrlCommand
  <2>3. QED
    BY <2>2 DEF Next, Handler, CmdFailed, CmdDone, Connected, Disconnected, Takes, PeerUp, PeerDown, vars
<1>e. conf' \in 0 .. NumSteps
  BY NextTypes DEF TypeInv, CounterInv
<1>c. /\ conf < ListStep => list = {} /\ nextKey = 0
      /\ conf = ListStep =>
           IF NoEvt THEN list = Sent(nextKey - 1)
           ELSE \A i \in 1 .. Len(evts) :
                  TableEvt(evts[i]) /\ evts[i].e = "done" => list = Sent(nextKey)
      /\ conf > ListStep => list = Keys /\ nextKey = NumKeys
  BY <1>b, <1>u DEF ListInv
<1>d. ASSUME NoEvt', list' = list, conf' < ListStep => list = {} /\ nextKey' = 0,
             conf' = ListStep => list = Sent(nextKey' - 1),
             conf' > ListStep => list = Keys /\ nextKey' = NumKeys
      PROVE  ListInv'
  BY <1>d DEF ListInv, Sent
<1>1. ASSUME NEW e, CmdFailed(e) PROVE ListInv'
  <2>1. NoEvt' /\ (conf < Last => TableEvt(e) /\ DueEvt(e)) /\ list' = list
    BY <1>1, DrivenAlone DEF CmdFailed, Takes
  <2>2. e.op # "list" /\ Enter(conf, retry + 1)
    BY <1>1 DEF CmdFailed
  <2>3. conf # ListStep
    BY <2>1, <2>2 DEF DueEvt
  <2>4. nextKey' = nextKey /\ (conf < ListStep => conf' = conf) /\ (conf > ListStep => conf' > ListStep)
    BY <1>a, <2>2, <2>3 DEF Enter
  <2>5. QED
    BY <1>a, <1>c, <1>d, <1>e, <2>1, <2>3, <2>4
<1>2. ASSUME NEW e, CmdDone(e) PROVE ListInv'
  <2>1. /\ NoEvt' /\ list' = list /\ e.e = "done"
        /\ conf < Last => TableEvt(e) /\ DueEvt(e)
        /\ conf >= Last => ~TableEvt(e)
    BY <1>2, DrivenAlone DEF CmdDone, Takes
  <2>2. conf = ListStep => list = Sent(nextKey)
    <3>1. e = evts[1] /\ Len(evts) \in Nat \ {0}
      BY <1>2, <1>a, TakesTypes DEF CmdDone
    <3>2. conf = ListStep => ~NoEvt
      BY <2>1, <3>1 DEF NoEvt
    <3>3. QED
      BY <1>c, <2>1, <3>1, <3>2
  <2>3. CASE e.op = "list" /\ AddNextKey /\ UNCHANGED <<conf, retry>>
    <3>1. conf < Last
      BY <1>a, <2>1, <2>3 DEF TableEvt, Answers, TableOps
    <3>2. conf = ListStep
      BY <2>1, <2>3, <3>1 DEF DueEvt
    <3>3. nextKey' = nextKey + 1
      BY <2>3 DEF AddNextKey
    <3>4. Sent(nextKey) = Sent(nextKey' - 1)
      BY <1>a, <3>3
    <3>5. QED
      BY <1>a, <1>d, <2>1, <2>2, <2>3, <3>2, <3>4
  <2>4. CASE (e.op # "list" \/ ~MoreKeys) /\ Enter(conf + 1, 0)
    <3>1. CASE conf + 1 < ListStep
      <4>1. conf' = conf + 1 /\ nextKey' = nextKey
        BY <1>a, <2>4, <3>1 DEF Enter
      <4>2. QED
        BY <1>a, <1>c, <1>d, <2>1, <3>1, <4>1
    <3>2. CASE conf + 1 = ListStep
      <4>1. list = {} /\ nextKey = 0
        BY <1>a, <1>c, <3>2
      <4>2. CASE AddNextKey /\ conf' = ListStep
        <5>1. nextKey' = 1 /\ Sent(nextKey' - 1) = {}
          BY <4>1, <4>2 DEF AddNextKey, Sent, Keys
        <5>2. QED
          BY <1>d, <2>1, <4>1, <4>2, <5>1
      <4>3. CASE ~MoreKeys /\ conf' = ListStep + 1 /\ UNCHANGED nextKey
        <5>1. NumKeys = 0 /\ Keys = {}
          BY <4>1, <4>3 DEF MoreKeys, Keys
        <5>2. QED
          BY <1>d, <2>1, <4>1, <4>3, <5>1
      <4>4. QED
        BY <1>a, <2>4, <3>2, <4>2, <4>3 DEF Enter
    <3>3. CASE conf = ListStep
      <4>1. ~MoreKeys
        BY <2>1, <2>4, <3>3 DEF DueEvt
      <4>2. nextKey = NumKeys /\ Sent(nextKey) = Keys
        BY <1>a, <4>1 DEF MoreKeys, Sent, Keys
      <4>3. conf' > ListStep /\ nextKey' = nextKey
        BY <1>a, <2>4, <3>3 DEF Enter
      <4>4. QED
        BY <1>a, <1>d, <1>e, <2>1, <2>2, <3>3, <4>2, <4>3
    <3>4. CASE conf > ListStep
      <4>1. conf' > ListStep /\ nextKey' = nextKey
        BY <1>a, <2>4, <3>4 DEF Enter
      <4>2. QED
        BY <1>a, <1>c, <1>d, <1>e, <2>1, <3>4, <4>1
    <3>5. QED
      BY <1>a, <3>1, <3>2, <3>3, <3>4
  <2>5. QED
    BY <1>2, <2>3, <2>4 DEF CmdDone
<1>3. ASSUME NEW e, Connected(e) \/ Disconnected(e) PROVE ListInv'
  <2>1. EvtsKept
    BY <1>3, <1>a, EvtTaken DEF Connected, Disconnected
  <2>2. QED
    BY <1>3, <1>u, <2>1, ListKept DEF Connected, Disconnected, Takes
<1>4. CASE CtrlCommand
  <2>a. PICK m : m = Head(cmds)
    OBVIOUS
  <2>b. m \in Command /\ UNCHANGED <<conf, nextKey, doubled, resets, listFail, unknown>>
    BY <1>u, <1>4, <1>a, <2>a, HeadCmd DEF CtrlCommand
  <2>1. CASE ~TableCmd(m)
    <3>1. list' = list
      BY <1>4, <2>a, <2>1 DEF CtrlCommand, Execute, Resets, TableCmd, TableOps
    <3>2. ASSUME UNCHANGED evts PROVE EvtsKept
      BY <3>2 DEF EvtsKept, NoEvt, SoleEvt, TableEvt, Answers
    <3>3. ASSUME NEW how \in {"done", "failed"}, Answer(m, how) PROVE EvtsKept
      <4>1. PICK e \in Event : e = [e |-> how, op |-> m.op, table |-> m.table]
        BY <2>b, AnswerTypes
      <4>2. ~TableEvt(e) /\ evts' = Append(evts, e)
        BY <2>1, <3>3, <4>1 DEF TableEvt, TableCmd, Answer
      <4>3. QED
        BY <1>a, <4>2, EvtAdded
    <3>4. QED
      BY <1>4, <2>a, <2>b, <3>1, <3>2, <3>3, ListKept DEF CtrlCommand
  <2>2. CASE TableCmd(m)
    <3>1. conf < Last /\ NoEvt /\ DueCmd(m)
      BY <1>4, <1>b, <2>a, <2>2, HeadDue
    <3>2. ASSUME NEW how \in {"done", "failed"}, Answer(m, how)
          PROVE  ~NoEvt' /\ \A i \in 1 .. Len(evts') : TableEvt(evts'[i]) => evts'[i].e = how
      <4>1. PICK k \in 1 .. Len(evts') :
              SoleEvt(k)' /\ TableEvt(evts'[k]) /\ evts'[k].e = how /\ evts'[k].op = m.op
        BY <1>a, <2>b, <2>2, <3>1, <3>2, AnswerAlone
      <4>2. QED
        BY <4>1 DEF NoEvt, SoleEvt, TableEvt, Answers
    <3>3. CASE Answer(m, "failed") /\ UNCHANGED list
      BY <1>c, <2>b, <3>2, <3>3 DEF ListInv, TableEvt, Answers, Sent
    <3>4. CASE Answer(m, "done") /\ Execute(m)
      <4>1. CASE conf = ListStep
        <5>1. list = Sent(nextKey - 1) /\ m.op = "list" /\ m.n = nextKey - 1 /\ nextKey > 0
          BY <1>c, <3>1, <4>1 DEF DueCmd
        <5>2. list' = list \cup {nextKey - 1}
          BY <3>4, <5>1 DEF Execute, Resets
        <5>3. Sent(nextKey - 1) \cup {nextKey - 1} = Sent(nextKey)
          BY <1>a, <5>1 DEF Sent, Keys
        <5>4. QED
          BY <2>b, <3>2, <3>4, <4>1, <5>1, <5>2, <5>3 DEF ListInv, TableEvt, Answers, Sent
      <4>2. CASE conf < ListStep
        <5>1. list' = {}
          BY <1>c, <3>1, <3>4, <4>2 DEF DueCmd, Execute, Resets
        <5>2. QED
          BY <1>a, <1>c, <2>b, <4>2, <5>1 DEF ListInv
      <4>3. CASE conf > ListStep
        <5>1. m.op = "step" /\ m.n = conf
          BY <3>1, <4>3 DEF DueCmd
        <5>2. list' = list
          BY <1>a, <3>4, <4>3, <5>1 DEF Execute, Resets
        <5>3. QED
          BY <1>a, <1>c, <2>b, <4>3, <5>2 DEF ListInv
      <4>4. QED
        BY <1>a, <4>1, <4>2, <4>3
    <3>5. CASE ~Understood(m) /\ Answer(m, "done") /\ UNCHANGED list
      <4>1. conf # ListStep
        BY <1>u, <3>1, <3>5 DEF DueCmd, Understood, Entry
      <4>2. QED
        BY <1>a, <1>c, <2>b, <3>5, <4>1 DEF ListInv
    <3>6. QED
      BY <1>4, <2>a, <2>2, <3>3, <3>4, <3>5 DEF CtrlCommand, TableCmd, TableOps
  <2>3. QED
    BY <2>1, <2>2
<1>5. CASE PeerUp \/ PeerDown
  <2>1. [e |-> "up"] \in Event /\ [e |-> "down"] \in Event /\ ~TableEvt([e |-> "up"]) /\ ~TableEvt([e |-> "down"])
    BY DEF Event, TableEvt, Answers
  <2>2. EvtsKept
    BY <1>5, <1>a, <2>1, EvtAdded DEF PeerUp, PeerDown
  <2>3. QED
    BY <1>5, <2>2, ListKept DEF PeerUp, PeerDown
<1>6. CASE UNCHANGED vars
  <2>1. EvtsKept
    BY <1>6 DEF vars, EvtsKept, NoEvt, SoleEvt, TableEvt, Answers
  <2>2. QED
    BY <1>6, <1>u, <2>1, ListKept DEF vars
<1>7. QED
  BY <1>1, <1>2, <1>3, <1>4, <1>5, <1>6 DEF Next, Handler

\* Once the table is done every stored LE peer is in the accept list, unless the
\* controller refused one or the table was started over.
THEOREM AllPeersAccepted == Spec => []AcceptListWhole
<1>1. Init => ListInv
  BY Places DEF Init, ListInv
<1>2. TypeInv /\ ListInv => AcceptListWhole
  BY Places DEF TypeInv, CounterInv, ListInv, AcceptListWhole, SetUp
<1>3. TypeInv /\ TableInv /\ ListInv /\ [Next]_vars => (TypeInv /\ TableInv /\ ListInv)'
  BY NextTypes, NextTable, NextList
<1>4. QED
  BY InitTable, <1>1, <1>2, <1>3, PTL DEF Spec

(***************************************************************************)
(* The links: as many slots are in use as there are links and events of    *)
(* links on their way.                                                     *)
(***************************************************************************)
LEMMA DownsFinite ==
  ASSUME NEW s, NEW n \in Nat
  PROVE  IsFiniteSet(Downs(s, n)) /\ Cardinality(Downs(s, n)) \in Nat
<1>1. IsFiniteSet(1 .. n)
  BY FS_Interval
<1>2. Downs(s, n) \in SUBSET (1 .. n)
  BY DEF Downs
<1>3. IsFiniteSet(Downs(s, n))
  BY <1>1, <1>2, FS_Subset
<1>4. QED
  BY <1>3, FS_CardinalityType

\* Without its first event a queue holds one disconnection less, or as many.
LEMMA DownsTail ==
  ASSUME NEW s, NEW t, NEW n \in Nat, \A i \in 1 .. n : t[i] = s[i + 1]
  PROVE  Cardinality(Downs(t, n)) =
           Cardinality(Downs(s, n + 1)) - (IF s[1].e = "down" THEN 1 ELSE 0)
<1> DEFINE D == Downs(s, n + 1) \ {1}
           f == [i \in Downs(t, n) |-> i + 1]
<1>1. f \in [Downs(t, n) -> D] /\ \A a, b \in Downs(t, n) : f[a] = f[b] => a = b
  BY DEF Downs
<1>2. ASSUME NEW j \in D PROVE \E i \in Downs(t, n) : f[i] = j
  <2>1. j - 1 \in 1 .. n /\ (j - 1) + 1 = j
    BY <1>2 DEF Downs
  <2>2. t[j - 1] = s[j]
    BY <2>1
  <2>3. j - 1 \in Downs(t, n)
    BY <1>2, <2>1, <2>2 DEF Downs
  <2>4. QED
    BY <2>1, <2>3
<1>3. f \in Bijection(Downs(t, n), D)
  BY <1>1, <1>2, Fun_IsBij
<1>4. Cardinality(D) = Cardinality(Downs(t, n))
  <2>1. ExistsBijection(Downs(t, n), D)
    BY <1>3, Fun_ExistsBij
  <2>2. QED
    BY <2>1, DownsFinite, FS_Bijection
<1>5. n + 1 \in Nat /\ IsFiniteSet(Downs(s, n + 1)) /\ Cardinality(Downs(s, n + 1)) \in Nat
  BY DownsFinite
<1>6. Cardinality(D) = IF 1 \in Downs(s, n + 1) THEN Cardinality(Downs(s, n + 1)) - 1
                                                ELSE Cardinality(Downs(s, n + 1))
  BY <1>5, FS_RemoveElement
<1>7. 1 \in Downs(s, n + 1) <=> s[1].e = "down"
  BY DEF Downs
<1>8. QED
  BY <1>4, <1>5, <1>6, <1>7

\* One more event is one more disconnection, or none.
LEMMA DownsAppend ==
  ASSUME NEW s, NEW t, NEW n \in Nat, \A i \in 1 .. n : t[i] = s[i]
  PROVE  /\ \A k \in 0 .. n : Downs(t, k) = Downs(s, k)
         /\ Cardinality(Downs(t, n + 1)) =
              Cardinality(Downs(s, n)) + (IF t[n + 1].e = "down" THEN 1 ELSE 0)
<1>1. ASSUME NEW k \in 0 .. n PROVE Downs(t, k) = Downs(s, k)
  <2>1. \A i \in 1 .. k : i \in 1 .. n
    BY <1>1
  <2>2. QED
    BY <2>1 DEF Downs
<1>2. IsFiniteSet(Downs(s, n)) /\ Cardinality(Downs(s, n)) \in Nat /\ n + 1 \notin Downs(s, n)
  <2>1. n + 1 \notin Downs(s, n)
    BY DEF Downs
  <2>2. QED
    BY <2>1, DownsFinite
<1>3. \A i \in 1 .. n + 1 : i \in 1 .. n \/ i = n + 1
  OBVIOUS
<1>4. CASE t[n + 1].e = "down"
  <2>1. Downs(t, n + 1) = Downs(s, n) \cup {n + 1}
    BY <1>3, <1>4 DEF Downs
  <2>2. QED
    BY <1>1, <1>2, <1>4, <2>1, FS_AddElement
<1>5. CASE t[n + 1].e # "down"
  <2>1. Downs(t, n + 1) = Downs(s, n)
    BY <1>3, <1>5 DEF Downs
  <2>2. QED
    BY <1>1, <1>2, <1>5, <2>1
<1>6. QED
  BY <1>1, <1>4, <1>5

LEMMA DownsNone ==
  ASSUME NEW s, NEW n \in Nat, \A i \in 1 .. n : s[i].e # "down"
  PROVE  Cardinality(Downs(s, n)) = 0
<1>1. Downs(s, n) = {}
  BY DEF Downs
<1>2. QED
  BY <1>1, FS_EmptySet

\* An event taken from the queue.
LEMMA LinksTaken ==
  ASSUME SeqInv, LinksInv, NEW k, NEW e, Takes(k, e), links' = links,
         active' = IF k = "up" THEN active + 1 ELSE IF k = "down" THEN active - 1 ELSE active
  PROVE  LinksInv'
<1>a. /\ e.e = k /\ e = evts[1] /\ Len(evts) \in Nat \ {0} /\ Len(evts') = Len(evts) - 1
      /\ \A i \in 1 .. Len(evts) - 1 : evts'[i] = evts[i + 1]
  BY TakesTypes
<1>b. /\ active \in Nat /\ MaxLinks \in Nat /\ active <= MaxLinks /\ links \in Nat /\ links <= MaxLinks
  BY CountsAssumption DEF LinksInv
<1>f. PICK d \in 0 .. 1 : d = IF k = "down" THEN 1 ELSE 0
  OBVIOUS
<1>c. ASSUME NEW n \in 0 .. Len(evts) - 1
      PROVE  /\ Cardinality(Downs(evts', n)) = Cardinality(Downs(evts, n + 1)) - d
             /\ Cardinality(Downs(evts', n)) \in Nat /\ Cardinality(Downs(evts, n + 1)) \in Nat
  <2>1. n \in Nat /\ n + 1 \in Nat /\ \A i \in 1 .. n : evts'[i] = evts[i + 1]
    BY <1>a
  <2>2. QED
    BY <1>a, <1>f, <2>1, DownsTail, DownsFinite
<1>d. PICK l \in Nat : l = Len(evts) - 1 /\ l + 1 = Len(evts) /\ Len(evts') = l
  BY <1>a
<1>g. PICK D : D = Cardinality(Downs(evts, Len(evts))) /\ D = Cardinality(Downs(evts, l + 1)) /\ D \in Nat
  <2>1. Downs(evts, Len(evts)) = Downs(evts, l + 1)
    BY <1>d
  <2>2. QED
    BY <2>1, <1>d, DownsFinite
<1>1. CASE NoUp(evts) /\ links + Cardinality(Downs(evts, Len(evts))) <= active
  <2>1. k # "up"
    BY <1>a, <1>1 DEF NoUp
  <2>2. NoUp(evts')
    BY <1>a, <1>1 DEF NoUp
  <2>3. Cardinality(Downs(evts', l)) = Cardinality(Downs(evts, l + 1)) - d
        /\ Cardinality(Downs(evts', l)) \in Nat
    BY <1>c, <1>d
  <2>4. active' = active - d
    BY <1>b, <1>f, <2>1
  <2>5. D \in Nat /\ links + D <= active /\ Cardinality(Downs(evts', l)) = D - d
    BY <1>1, <1>g, <2>3
  <2>6. links + Cardinality(Downs(evts', l)) <= active' /\ active' \in 0 .. MaxLinks
    BY <1>b, <2>3, <2>4, <2>5
  <2>7. QED
    BY <1>b, <1>d, <2>2, <2>6 DEF LinksInv
<1>2. ASSUME NEW u \in 1 .. Len(evts), SoleUp(evts, u), active < MaxLinks,
             Cardinality(Downs(evts, u)) <= active,
             links + Cardinality(Downs(evts, Len(evts))) <= active + 1
      PROVE  LinksInv'
  <2>1. CASE k = "up"
    <3>1. u = 1
      BY <1>2, <1>a, <2>1 DEF SoleUp
    <3>2. NoUp(evts')
      <4>1. \A i \in 2 .. Len(evts) : evts[i].e # "up"
        BY <1>2, <3>1 DEF SoleUp
      <4>2. QED
        BY <1>a, <4>1 DEF NoUp
    <3>3. Cardinality(Downs(evts', l)) = Cardinality(Downs(evts, l + 1))
          /\ Cardinality(Downs(evts', l)) \in Nat
      BY <1>c, <1>d, <1>f, <2>1
    <3>4. links + Cardinality(Downs(evts', l)) <= active' /\ active' \in 0 .. MaxLinks
      BY <1>2, <1>b, <1>g, <2>1, <3>3
    <3>5. QED
      BY <1>b, <1>d, <3>2, <3>4 DEF LinksInv
  <2>2. CASE k # "up"
    <3>1. PICK v \in 1 .. l : v + 1 = u
      BY <1>2, <1>a, <1>d, <2>2 DEF SoleUp
    <3>2. evts'[v] = evts[u] /\ SoleUp(evts', v)
      <4>1. \A i \in 1 .. l : evts'[i] = evts[i + 1] /\ i + 1 \in 1 .. Len(evts)
        BY <1>a, <1>d
      <4>2. \A i \in 1 .. l : evts[i + 1].e = "up" => i + 1 = u
        BY <1>2, <4>1 DEF SoleUp
      <4>3. \A i \in 1 .. l : evts'[i].e = "up" => i = v
        BY <3>1, <4>1, <4>2
      <4>4. QED
        BY <1>2, <1>d, <3>1, <4>1, <4>3 DEF SoleUp
    <3>3. /\ Cardinality(Downs(evts', l)) = Cardinality(Downs(evts, l + 1)) - d
          /\ Cardinality(Downs(evts', l)) \in Nat
          /\ Cardinality(Downs(evts', v)) = Cardinality(Downs(evts, u)) - d
          /\ Cardinality(Downs(evts', v)) \in Nat
      BY <1>c, <1>d, <3>1
    <3>4. active' = active - d
      BY <1>b, <1>f, <2>2
    <3>5. /\ Cardinality(Downs(evts, u)) \in Nat /\ Cardinality(Downs(evts, u)) <= active
          /\ D \in Nat /\ links + D <= active + 1 /\ Cardinality(Downs(evts', l)) = D - d
      BY <1>2, <1>g, <3>3, DownsFinite
    <3>6. active' \in 0 .. MaxLinks /\ active' < MaxLinks /\ Cardinality(Downs(evts', v)) <= active'
      BY <1>2, <1>b, <3>3, <3>4, <3>5
    <3>7. links + Cardinality(Downs(evts', l)) <= active' + 1
      BY <1>b, <3>3, <3>4, <3>5
    <3>8. QED
      BY <1>b, <1>d, <3>1, <3>2, <3>6, <3>7 DEF LinksInv
  <2>3. QED
    BY <2>1, <2>2
<1>3. QED
  BY <1>1, <1>2 DEF LinksInv

LEMMA FewerLinks ==
  ASSUME NEW a \in Nat, NEW l \in Nat, NEW k \in Nat, NEW c \in Nat, NEW d \in Nat, k + d <= l
  PROVE  /\ l + c <= a => k + (c + d) <= a
         /\ l + c <= a + 1 => k + (c + d) <= a + 1
OBVIOUS

\* An event added to the queue that is no connection.
LEMMA LinksAdded ==
  ASSUME SeqInv, LinksInv, NEW e \in Event, e.e # "up", evts' = Append(evts, e), active' = active,
         links' \in 0 .. MaxLinks, links' <= links, e.e = "down" => links' + 1 <= links
  PROVE  LinksInv'
<1>a. /\ Len(evts) \in Nat /\ Len(evts') = Len(evts) + 1 /\ evts'[Len(evts) + 1] = e
      /\ \A i \in 1 .. Len(evts) : evts'[i] = evts[i]
  BY AppendFacts DEF SeqInv
<1>b. PICK l \in Nat : l = Len(evts) /\ Len(evts') = l + 1
  BY <1>a
<1>f. PICK d \in 0 .. 1 : d = IF e.e = "down" THEN 1 ELSE 0
  OBVIOUS
<1>c. /\ \A n \in 0 .. l : Downs(evts', n) = Downs(evts, n)
      /\ Cardinality(Downs(evts', l + 1)) = Cardinality(Downs(evts, l)) + d
      /\ Cardinality(Downs(evts, l)) \in Nat
  <2>1. (\A i \in 1 .. l : evts'[i] = evts[i]) /\ evts'[l + 1] = e
    BY <1>a, <1>b
  <2>2. /\ \A n \in 0 .. l : Downs(evts', n) = Downs(evts, n)
        /\ Cardinality(Downs(evts', l + 1)) =
             Cardinality(Downs(evts, l)) + (IF evts'[l + 1].e = "down" THEN 1 ELSE 0)
    BY <2>1, DownsAppend
  <2>3. QED
    BY <1>f, <2>1, <2>2, DownsFinite
<1>g. PICK D \in Nat : D = Cardinality(Downs(evts, Len(evts))) /\ Cardinality(Downs(evts', l + 1)) = D + d
                      /\ (links + D <= active => links' + (D + d) <= active)
                      /\ (links + D <= active + 1 => links' + (D + d) <= active + 1)
  <2>1. Downs(evts, Len(evts)) = Downs(evts, l)
    BY <1>b
  <2>2. links \in Nat /\ links' \in Nat /\ active \in Nat /\ d \in Nat
    BY CountsAssumption DEF LinksInv
  <2>3. links' + d <= links
    <3>1. CASE e.e = "down"
      BY <1>f, <3>1
    <3>2. CASE e.e # "down"
      BY <1>f, <3>2
    <3>3. QED
      BY <3>1, <3>2
  <2>4. PICK D \in Nat : D = Cardinality(Downs(evts, Len(evts))) /\ Cardinality(Downs(evts', l + 1)) = D + d
    BY <2>1, <1>c
  <2>5. /\ links + D <= active => links' + (D + d) <= active
        /\ links + D <= active + 1 => links' + (D + d) <= active + 1
    BY <2>2, <2>3, FewerLinks
  <2>6. QED
    BY <2>4, <2>5
<1>d. active \in Nat /\ MaxLinks \in Nat /\ links \in Nat /\ links' \in Nat /\ active \in 0 .. MaxLinks
  BY CountsAssumption DEF LinksInv
<1>e. \A i \in 1 .. Len(evts') : i \in 1 .. Len(evts) \/ evts'[i].e # "up"
  BY <1>a
<1>1. CASE NoUp(evts) /\ links + Cardinality(Downs(evts, Len(evts))) <= active
  <2>1. NoUp(evts')
    BY <1>1, <1>a, <1>e DEF NoUp
  <2>4. links' + Cardinality(Downs(evts', l + 1)) <= active
    BY <1>1, <1>g
  <2>3. QED
    BY <1>b, <1>d, <2>1, <2>4 DEF LinksInv
<1>2. ASSUME NEW u \in 1 .. Len(evts), SoleUp(evts, u), active < MaxLinks,
             Cardinality(Downs(evts, u)) <= active,
             links + Cardinality(Downs(evts, Len(evts))) <= active + 1
      PROVE  LinksInv'
  <2>1. SoleUp(evts', u) /\ u \in 1 .. Len(evts')
    <3>1. u \in 1 .. Len(evts') /\ evts'[u].e = "up"
      BY <1>2, <1>a DEF SoleUp
    <3>2. \A i \in 1 .. Len(evts') : evts'[i].e = "up" => i = u
      BY <1>2, <1>a, <1>e DEF SoleUp
    <3>3. QED
      BY <3>1, <3>2 DEF SoleUp
  <2>2. Cardinality(Downs(evts', u)) <= active'
    BY <1>2, <1>b, <1>c
  <2>3. links' + Cardinality(Downs(evts', l + 1)) <= active' + 1
    BY <1>2, <1>g
  <2>4. QED
    BY <1>2, <1>b, <1>d, <2>1, <2>2, <2>3 DEF LinksInv
<1>3. QED
  BY <1>1, <1>2 DEF LinksInv

LEMMA NextLinks == TypeInv /\ LinksInv /\ [Next]_vars => LinksInv'
<1> SUFFICES ASSUME SeqInv, CounterInv, LinksInv, [Next]_vars PROVE LinksInv'
  BY DEF TypeInv
<1> USE DEF tableVars, ctrlVars, histVars
<1>a. active \in Nat /\ MaxLinks \in Nat /\ links \in Nat /\ active \in 0 .. MaxLinks /\ links \in 0 .. MaxLinks
  BY CountsAssumption DEF LinksInv
<1>1. ASSUME NEW e, CmdFailed(e) PROVE LinksInv'
  BY <1>1, LinksTaken DEF CmdFailed, Takes
<1>2. ASSUME NEW e, CmdDone(e) PROVE LinksInv'
  BY <1>2, LinksTaken DEF CmdDone, Takes
<1>3. ASSUME NEW e, Connected(e) PROVE LinksInv'
  BY <1>3, LinksTaken DEF Connected, Takes
<1>4. ASSUME NEW e, Disconnected(e) PROVE LinksInv'
  BY <1>4, LinksTaken DEF Disconnected, Takes
<1>5. CASE CtrlCommand
  <2>1. Head(cmds) \in Command /\ active' = active
    BY <1>5, HeadCmd DEF CtrlCommand
  <2>2. CASE UNCHANGED <<evts, ctrlVars>>
    BY <2>1, <2>2 DEF LinksInv
  <2>3. ASSUME NEW how \in {"done", "failed"}, Answer(Head(cmds), how), Execute(Head(cmds)) \/ UNCHANGED ctrlVars
        PROVE  LinksInv'
    <3>1. PICK e \in Event : e = [e |-> how, op |-> Head(cmds).op, table |-> Head(cmds).table]
      BY <2>1, AnswerTypes
    <3>2. e.e # "up" /\ e.e # "down" /\ evts' = Append(evts, e)
      BY <2>3, <3>1 DEF Answer
    <3>3. links' \in {0, links}
      BY <2>3 DEF Execute
    <3>4. links' \in 0 .. MaxLinks /\ links' <= links
      BY <1>a, <3>3
    <3>5. QED
      BY <2>1, <3>2, <3>4, LinksAdded
  <2>4. QED
    BY <1>5, <2>2, <2>3 DEF CtrlCommand
<1>6. CASE PeerUp
  <2>1. [e |-> "up"] \in Event
    BY DEF Event
  <2>2. PICK l \in Nat : l = Len(evts)
    BY DEF SeqInv
  <2>3. /\ Len(evts') = l + 1 /\ evts'[l + 1] = [e |-> "up"]
        /\ \A i \in 1 .. l : evts'[i] = evts[i]
    BY <1>6, <2>1, <2>2, AppendFacts DEF PeerUp, SeqInv
  <2>4. NoUp(evts) /\ active < MaxLinks /\ links < MaxLinks /\ links' = links + 1 /\ active' = active
    <3>1. DOMAIN evts = 1 .. Len(evts)
      BY DEF SeqInv
    <3>2. QED
      BY <1>6, <3>1 DEF PeerUp, NoUp
  <2>5. links + Cardinality(Downs(evts, l)) <= active
    BY <2>2, <2>4 DEF LinksInv, NoUp, SoleUp
  <2>6. Cardinality(Downs(evts', l + 1)) = Cardinality(Downs(evts, l)) /\ Cardinality(Downs(evts, l)) \in Nat
    <3>1. Cardinality(Downs(evts', l + 1)) =
            Cardinality(Downs(evts, l)) + (IF evts'[l + 1].e = "down" THEN 1 ELSE 0)
      BY <2>3, DownsAppend
    <3>2. QED
      BY <2>3, <3>1, DownsFinite
  <2>7. SoleUp(evts', l + 1)
    <3>1. \A i \in 1 .. l + 1 : i \in 1 .. l \/ i = l + 1
      OBVIOUS
    <3>2. QED
      BY <2>2, <2>3, <2>4, <3>1 DEF SoleUp, NoUp
  <2>8. QED
    BY <1>a, <2>3, <2>4, <2>5, <2>6, <2>7 DEF LinksInv
<1>7. CASE PeerDown
  <2>1. [e |-> "down"] \in Event /\ links' + 1 = links /\ links' \in 0 .. MaxLinks
    BY <1>7, <1>a DEF Event, PeerDown
  <2>2. QED
    BY <1>7, <2>1, LinksAdded DEF PeerDown
<1>8. CASE UNCHANGED vars
  BY <1>8 DEF vars, LinksInv
<1>9. QED
  BY <1>1, <1>2, <1>3, <1>4, <1>5, <1>6, <1>7, <1>8 DEF Next, Handler

(***************************************************************************)
(* Advertising.                                                            *)
(***************************************************************************)
\* Commands that are added without switching advertising off.
LEMMA OffExtended ==
  ASSUME NEW s, NEW t, Len(s) \in Nat, Len(t) \in Nat, Len(t) >= Len(s),
         \A i \in 1 .. Len(s) : t[i] = s[i],
         \A i \in Len(s) + 1 .. Len(t) : t[i].op # "adv_off"
  PROVE  (OffThenOn(s) => OffThenOn(t)) /\ (OnAhead(s) => OnAhead(t))
<1>1. 1 .. Len(s) \subseteq 1 .. Len(t)
  OBVIOUS
<1>2. \A i \in 1 .. Len(t) : t[i].op = "adv_off" => i \in 1 .. Len(s) /\ s[i].op = "adv_off"
  <2>1. ASSUME NEW i \in 1 .. Len(t), t[i].op = "adv_off" PROVE i \in 1 .. Len(s)
    <3>1. i \in 1 .. Len(s) \/ i \in Len(s) + 1 .. Len(t)
      OBVIOUS
    <3>2. QED
      BY <2>1, <3>1
  <2>2. QED
    BY <2>1
<1>3. OnAhead(s) => OnAhead(t)
  BY <1>1 DEF OnAhead
<1>4. OffThenOn(s) => OffThenOn(t)
  BY <1>1, <1>2 DEF OffThenOn
<1>5. QED
  BY <1>3, <1>4

\* The first command leaves the queue.
LEMMA OffTail ==
  ASSUME NEW s, NEW t, Len(s) \in Nat \ {0}, Len(t) = Len(s) - 1,
         \A i \in 1 .. Len(s) - 1 : t[i] = s[i + 1]
  PROVE  /\ OffThenOn(s) => OffThenOn(t)
         /\ OffThenOn(s) /\ s[1].op = "adv_off" => OnAhead(t)
         /\ OnAhead(s) /\ s[1].op # "adv_on" => OnAhead(t)
<1>1. ASSUME NEW j \in 2 .. Len(s) PROVE j - 1 \in 1 .. Len(t) /\ t[j - 1] = s[j]
  <2>1. j - 1 \in 1 .. Len(s) - 1 /\ (j - 1) + 1 = j
    OBVIOUS
  <2>2. t[j - 1] = s[(j - 1) + 1]
    BY <2>1
  <2>3. QED
    BY <2>1, <2>2
<1>2. ASSUME OnAhead(s), s[1].op # "adv_on" PROVE OnAhead(t)
  <2>1. PICK j \in 2 .. Len(s) : s[j].op = "adv_on"
    BY <1>2 DEF OnAhead
  <2>2. QED
    BY <1>1, <2>1 DEF OnAhead
<1>3. ASSUME OffThenOn(s), s[1].op = "adv_off" PROVE OnAhead(t)
  <2>1. PICK j \in 1 .. Len(s) : j > 1 /\ s[j].op = "adv_on"
    BY <1>3 DEF OffThenOn
  <2>2. QED
    BY <1>1, <2>1 DEF OnAhead
<1>4. ASSUME OffThenOn(s), NEW i \in 1 .. Len(t), t[i].op = "adv_off"
      PROVE  \E j \in 1 .. Len(t) : j > i /\ t[j].op = "adv_on"
  <2>1. i + 1 \in 1 .. Len(s) /\ s[i + 1].op = "adv_off"
    BY <1>4
  <2>2. PICK j \in 1 .. Len(s) : j > i + 1 /\ s[j].op = "adv_on"
    BY <1>4, <2>1 DEF OffThenOn
  <2>3. j \in 2 .. Len(s) /\ j - 1 > i
    BY <2>2
  <2>4. QED
    BY <1>1, <2>2, <2>3
<1>5. QED
  BY <1>2, <1>3, <1>4 DEF OffThenOn

\* What the table sends does not switch advertising off by itself.
LEMMA EnterQuiet ==
  ASSUME TypeInv, NEW c \in 0 .. NumSteps + 1, NEW r, Enter(c, r)
  PROVE  /\ Len(cmds) \in Nat /\ Len(cmds') \in Nat /\ Len(cmds') >= Len(cmds)
         /\ \A i \in 1 .. Len(cmds) : cmds'[i] = cmds[i]
         /\ \A i \in Len(cmds) + 1 .. Len(cmds') : cmds'[i].op # "adv_off"
         /\ conf' > AdvStep => c > AdvStep
<1> USE Places
<1>a. cmds \in Seq(Command) /\ nextKey \in 0 .. NumKeys
  BY DEF TypeInv, SeqInv, CounterInv
<1>1. ASSUME NEW m \in Command, m.op # "adv_off", cmds' = Append(cmds, m)
      PROVE  /\ Len(cmds) \in Nat /\ Len(cmds') \in Nat /\ Len(cmds') >= Len(cmds)
             /\ \A i \in 1 .. Len(cmds) : cmds'[i] = cmds[i]
             /\ \A i \in Len(cmds) + 1 .. Len(cmds') : cmds'[i].op # "adv_off"
  <2>1. /\ Len(cmds) \in Nat /\ Len(cmds') = Len(cmds) + 1 /\ cmds'[Len(cmds) + 1] = m
        /\ \A i \in 1 .. Len(cmds) : cmds'[i] = cmds[i]
    BY <1>a, <1>1, AppendFacts
  <2>2. \A i \in Len(cmds) + 1 .. Len(cmds') : i = Len(cmds) + 1
    BY <2>1
  <2>3. QED
    BY <1>1, <2>1, <2>2
<1>2. CASE c < Last /\ c # ListStep /\ conf' = c /\ cmds' = Append(cmds, Step(c))
  <2>1. c \in Steps
    BY <1>2 DEF Steps
  <2>2. QED
    BY <1>1, <1>2, <2>1, Sends
<1>3. CASE c = ListStep /\ AddNextKey /\ conf' = c
  <2>1. nextKey \in Keys /\ cmds' = Append(cmds, Listed(nextKey))
    BY <1>3, <1>a DEF AddNextKey, MoreKeys, Keys
  <2>2. QED
    BY <1>1, <1>3, <2>1, Sends
<1>4. CASE c = ListStep /\ conf' = c + 1 /\ cmds' = Append(cmds, Step(c + 1))
  <2>1. c + 1 \in Steps
    BY <1>4 DEF Steps
  <2>2. QED
    BY <1>1, <1>4, <2>1, Sends
<1>5. CASE c = Last /\ conf' = c /\ \E q \in start_inquiry : cmds' = cmds \o q
  <2>1. /\ Len(cmds) \in Nat /\ Len(cmds') \in Nat /\ Len(cmds') >= Len(cmds)
        /\ \A i \in 1 .. Len(cmds) : cmds'[i] = cmds[i]
        /\ \A i \in Len(cmds) + 1 .. Len(cmds') : cmds'[i].op \in {"le_scan", "inquiry"}
    BY <1>a, <1>5, Inquiries
  <2>2. QED
    BY <1>5, <2>1
<1>6. CASE c > Last /\ cmds' = cmds
  BY <1>6, <1>a
<1>7. QED
  BY <1>2, <1>3, <1>4, <1>5, <1>6 DEF Enter

\* An answer drives the table to entry c.  The table is past the entry for
\* advertising only if it was so before, and the answer taken away is no failure
\* of another command, which would be recorded in lateFail.
LEMMA AdvDriven ==
  ASSUME TypeInv, TableInv, AdvInv, active' = active,
         NEW k \in {"done", "failed"}, NEW e, Takes(k, e), Drives(e),
         NEW c \in 0 .. NumSteps + 1, NEW r, Enter(c, r),
         ~doubled' /\ c > AdvStep => PastAdv,
         lateFail => lateFail', k = "failed" /\ ~e.table => lateFail'
  PROVE  AdvInv'
<1> SUFFICES ASSUME active = 0
             PROVE  /\ OffThenOn(cmds')
                    /\ ~lateFail' /\ ~doubled' /\ AdvStep \notin unknown' /\ PastAdv' =>
                         adv' \/ OnAhead(cmds') \/ FailAhead(evts')
  BY DEF AdvInv, OffThenOn, OnAhead, FailAhead, TableEvt, Answers
<1>a. /\ Len(cmds) \in Nat /\ Len(cmds') \in Nat /\ Len(cmds') >= Len(cmds)
      /\ \A i \in 1 .. Len(cmds) : cmds'[i] = cmds[i]
      /\ \A i \in Len(cmds) + 1 .. Len(cmds') : cmds'[i].op # "adv_off"
      /\ conf' > AdvStep => c > AdvStep
  BY EnterQuiet
<1>b. (OffThenOn(cmds) => OffThenOn(cmds')) /\ (OnAhead(cmds) => OnAhead(cmds'))
  BY <1>a, OffExtended
<1>c. OffThenOn(cmds')
  BY <1>b DEF AdvInv
<1>1. ASSUME ~lateFail', ~doubled', AdvStep \notin unknown', PastAdv' PROVE adv' \/ OnAhead(cmds') \/ FailAhead(evts')
  <2>1. ~doubled /\ NoEvt' /\ AdvStep \notin unknown
    BY <1>1, DrivenAlone DEF Takes, ctrlVars
  <2>2. conf' > AdvStep
    BY <1>1, <2>1 DEF PastAdv, NoEvt, TableEvt, Answers
  <2>3. adv \/ OnAhead(cmds) \/ FailAhead(evts)
    BY <1>1, <1>a, <2>1, <2>2 DEF AdvInv
  <2>4. ASSUME FailAhead(evts) PROVE FailAhead(evts')
    <3>1. /\ e \in Event /\ e = evts[1] /\ e.e = k
          /\ Len(evts) \in Nat \ {0} /\ Len(evts') = Len(evts) - 1
          /\ \A i \in 1 .. Len(evts) - 1 : evts'[i] = evts[i + 1]
      BY TakesTypes DEF TypeInv
    <3>2. PICK i \in 1 .. Len(evts) : evts[i].e = "failed" /\ ~TableEvt(evts[i])
      BY <2>4 DEF FailAhead
    <3>3. i # 1
      <4>1. e.e = "failed" /\ ~TableEvt(e) => ~e.table
        BY <3>1 DEF Event, TableEvt, Answers
      <4>2. QED
        BY <1>1, <3>1, <3>2, <4>1
    <3>4. PICK j \in 1 .. Len(evts') : j + 1 = i
      BY <3>1, <3>2, <3>3
    <3>5. evts'[j] = evts[i]
      BY <3>1, <3>4
    <3>6. QED
      BY <3>2, <3>4, <3>5 DEF FailAhead
  <2>5. adv' = adv
    BY DEF Takes, ctrlVars
  <2>6. QED
    BY <1>b, <2>3, <2>4, <2>5
<1>2. QED
  BY <1>c, <1>1

\* An event that is not the table's, added to the queue.
LEMMA AdvEvtAdded ==
  ASSUME SeqInv, NEW e \in Event, ~TableEvt(e), evts' = Append(evts, e), conf' = conf
  PROVE  /\ PastAdv' => PastAdv
         /\ FailAhead(evts) => FailAhead(evts')
         /\ e.e = "failed" => FailAhead(evts')
<1>1. /\ Len(evts) \in Nat /\ Len(evts') = Len(evts) + 1 /\ evts'[Len(evts) + 1] = e
      /\ \A i \in 1 .. Len(evts) : evts'[i] = evts[i]
  BY AppendFacts DEF SeqInv
<1>2. \A i \in 1 .. Len(evts') : i \in 1 .. Len(evts) \/ ~TableEvt(evts'[i])
  BY <1>1
<1>3. 1 .. Len(evts) \subseteq 1 .. Len(evts') /\ Len(evts) + 1 \in 1 .. Len(evts')
  BY <1>1
<1>4. PastAdv' => PastAdv
  BY <1>1, <1>2 DEF PastAdv, TableEvt, Answers
<1>5. FailAhead(evts) => FailAhead(evts')
  BY <1>1, <1>3 DEF FailAhead
<1>6. e.e = "failed" => FailAhead(evts')
  BY <1>1, <1>3 DEF FailAhead
<1>7. QED
  BY <1>4, <1>5, <1>6

\* The controller executes or refuses a command while nobody is connected.
LEMMA AdvExecuted ==
  ASSUME TypeInv, TableInv, AdvInv, CtrlCommand, active = 0
  PROVE  /\ OffThenOn(cmds')
         /\ ~lateFail' /\ ~doubled' /\ AdvStep \notin unknown' /\ PastAdv' =>
              adv' \/ OnAhead(cmds') \/ FailAhead(evts')
<1> USE Places DEF tableVars, ctrlVars, histVars
<1>a. PICK m : m = Head(cmds)
  OBVIOUS
<1>b. SeqInv /\ m \in Command /\ UNCHANGED <<conf, doubled, lateFail>> /\ conf \in Nat
  BY <1>a, HeadCmd DEF CtrlCommand, TypeInv, CounterInv
<1>c. /\ m = cmds[1] /\ Len(cmds) \in Nat \ {0} /\ Len(cmds') = Len(cmds) - 1
      /\ \A i \in 1 .. Len(cmds) - 1 : cmds'[i] = cmds[i + 1]
  BY <1>a, <1>b, HeadCmd
<1>d. /\ OffThenOn(cmds) => OffThenOn(cmds')
      /\ OffThenOn(cmds) /\ m.op = "adv_off" => OnAhead(cmds')
      /\ OnAhead(cmds) /\ m.op # "adv_on" => OnAhead(cmds')
  BY <1>c, OffTail
<1>u. unknown' = unknown
  <2>1. Execute(m) => unknown' = unknown
    BY DEF Execute
  <2>2. QED
    BY <1>a, <2>1 DEF CtrlCommand
<1>e. /\ OffThenOn(cmds)
      /\ ~lateFail /\ ~doubled /\ AdvStep \notin unknown /\ PastAdv =>
           adv \/ OnAhead(cmds) \/ FailAhead(evts)
  BY DEF AdvInv
<1>1. OffThenOn(cmds')
  BY <1>d, <1>e
<1>2. ASSUME ~lateFail', ~doubled', AdvStep \notin unknown', PastAdv' PROVE adv' \/ OnAhead(cmds') \/ FailAhead(evts')
  <2>a. ~lateFail /\ ~doubled /\ AdvStep \notin unknown
    BY <1>2, <1>b, <1>u
  <2>1. CASE m.op = "inquiry" /\ UNCHANGED <<evts, ctrlVars, fail>>
    <3>1. PastAdv
      BY <1>2, <1>b, <2>1 DEF PastAdv, TableEvt, Answers
    <3>2. adv \/ OnAhead(cmds) \/ FailAhead(evts)
      BY <1>e, <2>a, <3>1
    <3>3. OnAhead(cmds) => OnAhead(cmds')
      BY <1>d, <2>1
    <3>4. QED
      BY <2>1, <3>2, <3>3
  <2>2. CASE m.op # "inquiry" /\ TableCmd(m)
    <3>1. conf < Last /\ NoEvt /\ DueCmd(m)
      BY <1>a, <2>a, <2>2, HeadDue
    <3>2. PICK how \in {"done", "failed"} :
            /\ Answer(m, how)
            /\ how = "done" => Execute(m) \/ (~Understood(m) /\ UNCHANGED ctrlVars)
            /\ how = "failed" => UNCHANGED ctrlVars
      BY <1>a, <2>2 DEF CtrlCommand
    <3>3. \A i \in 1 .. Len(evts') : TableEvt(evts'[i]) => evts'[i].e = how
      <4>1. PICK k \in 1 .. Len(evts') :
              SoleEvt(k)' /\ TableEvt(evts'[k]) /\ evts'[k].e = how /\ evts'[k].op = m.op
        BY <1>b, <2>2, <3>1, <3>2, AnswerAlone
      <4>2. QED
        BY <4>1 DEF SoleEvt, TableEvt, Answers
    <3>4. CASE conf = AdvStep
      <4>1. how = "done"
        BY <1>2, <1>b, <3>3, <3>4 DEF PastAdv, TableEvt, Answers
      <4>2. m.op = "step" /\ m.n = AdvStep
        BY <3>1, <3>4 DEF DueCmd
      <4>3. Understood(m)
        BY <2>a, <4>2 DEF Understood, Entry
      <4>4. QED
        BY <3>2, <4>1, <4>2, <4>3 DEF Execute, Resets
    <3>5. CASE conf > AdvStep
      <4>1. m.op = "step" /\ m.n = conf
        BY <3>1, <3>5 DEF DueCmd
      <4>2. adv' = adv
        <5>1. m.n # 0 /\ m.n # AdvStep /\ m.op \notin {"adv_on", "adv_off"}
          BY <1>b, <3>5, <4>1
        <5>2. Execute(m) => adv' = adv
          BY <5>1 DEF Execute, Resets
        <5>3. QED
          BY <3>2, <5>2
      <4>3. adv \/ OnAhead(cmds) \/ FailAhead(evts)
        BY <1>e, <2>a, <3>5 DEF PastAdv
      <4>4. FailAhead(evts) => FailAhead(evts')
        <5>1. Len(evts') = Len(evts) + 1 /\ Len(evts) \in Nat /\ \A i \in 1 .. Len(evts) : evts'[i] = evts[i]
          BY <1>b, <3>2, Answered
        <5>2. 1 .. Len(evts) \subseteq 1 .. Len(evts')
          BY <5>1
        <5>3. ASSUME NEW i \in 1 .. Len(evts), evts[i].e = "failed", ~TableEvt(evts[i])
              PROVE  FailAhead(evts')
          BY <5>1, <5>2, <5>3 DEF FailAhead
        <5>4. QED
          BY <5>3 DEF FailAhead
      <4>5. OnAhead(cmds) => OnAhead(cmds')
        BY <1>d, <4>1
      <4>6. QED
        BY <4>2, <4>3, <4>4, <4>5
    <3>6. QED
      BY <1>2, <1>b, <3>4, <3>5 DEF PastAdv
  <2>3. CASE m.op # "inquiry" /\ ~TableCmd(m)
    <3>1. PICK how \in {"done", "failed"} :
            /\ Answer(m, how)
            /\ how = "done" => Execute(m) \/ (~Understood(m) /\ UNCHANGED ctrlVars)
            /\ how = "failed" => UNCHANGED ctrlVars
      BY <1>a, <2>3 DEF CtrlCommand
    <3>2. PICK e \in Event : e = [e |-> how, op |-> m.op, table |-> m.table]
      BY <1>b, AnswerTypes
    <3>3. ~TableEvt(e) /\ evts' = Append(evts, e)
      BY <2>3, <3>1, <3>2 DEF TableEvt, TableCmd, Answer
    <3>4. PastAdv /\ (FailAhead(evts) => FailAhead(evts')) /\ (e.e = "failed" => FailAhead(evts'))
      BY <1>2, <1>b, <3>3, AdvEvtAdded
    <3>5. adv \/ OnAhead(cmds) \/ FailAhead(evts)
      BY <1>e, <2>a, <3>4
    <3>6. CASE how = "failed"
      BY <3>2, <3>4, <3>6
    <3>7. CASE how = "done" /\ m.op = "adv_on"
      <4>1. Understood(m)
        BY <2>a, <3>7 DEF Understood, Entry
      <4>2. QED
        BY <3>1, <3>7, <4>1 DEF Execute, Resets
    <3>8. CASE how = "done" /\ m.op = "adv_off"
      BY <1>d, <1>e, <3>8
    <3>9. CASE how = "done" /\ m.op \notin {"adv_on", "adv_off"}
      <4>1. adv' = adv
        BY <2>3, <3>1, <3>9 DEF Execute, Resets, TableCmd, TableOps
      <4>2. QED
        BY <1>d, <3>4, <3>5, <3>9, <4>1
    <3>10. QED
      BY <3>6, <3>7, <3>8, <3>9
  <2>4. QED
    BY <1>a, <2>1, <2>2, <2>3 DEF CtrlCommand, TableCmd, TableOps
<1>3. QED
  BY <1>1, <1>2

LEMMA NextAdv == TypeInv /\ TableInv /\ LinksInv /\ AdvInv /\ [Next]_vars => AdvInv'
<1> SUFFICES ASSUME TypeInv, TableInv, LinksInv, AdvInv, [Next]_vars PROVE AdvInv'
  OBVIOUS
<1> USE Places DEF tableVars, ctrlVars, histVars
<1>a. SeqInv /\ conf \in 0 .. NumSteps /\ active \in 0 .. MaxLinks /\ MaxLinks \in Nat
  BY CountsAssumption DEF TypeInv, CounterInv, LinksInv
<1>b. ASSUME active' = 0 =>
               /\ OffThenOn(cmds')
               /\ ~lateFail' /\ ~doubled' /\ AdvStep \notin unknown' /\ PastAdv' =>
                    adv' \/ OnAhead(cmds') \/ FailAhead(evts')
      PROVE  AdvInv'
  BY <1>b DEF AdvInv, OffThenOn, OnAhead, FailAhead, TableEvt, Answers
<1>1. ASSUME NEW e, CmdFailed(e) PROVE AdvInv'
  <2>1. active' = active /\ Takes("failed", e) /\ Drives(e)
    BY <1>1 DEF CmdFailed
  <2>2. (lateFail => lateFail') /\ ("failed" = "failed" /\ ~e.table => lateFail')
    BY <1>1 DEF CmdFailed
  <2>3. CASE Enter(0, 0)
    <3>1. 0 \in 0 .. NumSteps + 1 /\ ~(0 > AdvStep)
      OBVIOUS
    <3>2. QED
      BY <2>1, <2>2, <2>3, <3>1, AdvDriven
  <2>4. CASE Enter(conf, retry + 1)
    <3>1. conf \in 0 .. NumSteps + 1 /\ (conf > AdvStep => PastAdv)
      BY <1>a DEF PastAdv
    <3>2. QED
      BY <2>1, <2>2, <2>4, <3>1, AdvDriven
  <2>5. QED
    BY <1>1, <2>3, <2>4 DEF CmdFailed
<1>2. ASSUME NEW e, CmdDone(e) PROVE AdvInv'
  <2>1. active' = active /\ Takes("done", e) /\ Drives(e) /\ (lateFail => lateFail')
    BY <1>2 DEF CmdDone
  <2>2. CASE e.op = "list" /\ AddNextKey /\ UNCHANGED <<conf, retry>>
    <3>1. CASE ~doubled'
      <4>1. /\ conf < Last => TableEvt(e) /\ DueEvt(e)
            /\ conf >= Last => ~TableEvt(e)
        BY <2>1, <3>1, DrivenAlone
      <4>2. e.e = "done"
        BY <2>1 DEF Takes
      <4>3. conf < Last
        BY <1>a, <2>2, <4>1, <4>2 DEF TableEvt, Answers, TableOps
      <4>4. conf = ListStep
        BY <2>2, <4>1, <4>3 DEF DueEvt
      <4>5. Enter(ListStep, retry)
        BY <2>2, <4>4 DEF Enter
      <4>6. ListStep \in 0 .. NumSteps + 1 /\ ~(ListStep > AdvStep)
        OBVIOUS
      <4>7. QED
        BY <2>1, <4>5, <4>6, AdvDriven
    <3>2. CASE doubled'
      <4>1. nextKey \in Keys /\ cmds \in Seq(Command) /\ cmds' = Append(cmds, Listed(nextKey))
        BY <1>a, <2>2 DEF AddNextKey, MoreKeys, Keys, TypeInv, CounterInv, SeqInv
      <4>2. Listed(nextKey) \in Command /\ Listed(nextKey).op = "list"
        BY <4>1, Sends
      <4>3. /\ Len(cmds) \in Nat /\ Len(cmds') = Len(cmds) + 1 /\ cmds'[Len(cmds) + 1] = Listed(nextKey)
            /\ \A i \in 1 .. Len(cmds) : cmds'[i] = cmds[i]
        BY <4>1, <4>2, AppendFacts
      <4>4. \A i \in Len(cmds) + 1 .. Len(cmds') : cmds'[i].op # "adv_off"
        <5>1. \A i \in Len(cmds) + 1 .. Len(cmds') : i = Len(cmds) + 1
          BY <4>3
        <5>2. QED
          BY <4>2, <4>3, <5>1
      <4>5. OffThenOn(cmds) => OffThenOn(cmds')
        BY <4>3, <4>4, OffExtended
      <4>6. QED
        BY <1>b, <2>1, <3>2, <4>5 DEF AdvInv
    <3>3. QED
      BY <3>1, <3>2
  <2>3. CASE Enter(conf + 1, 0)
    <3>1. ASSUME ~doubled', conf + 1 > AdvStep PROVE PastAdv
      <4>1. conf < Last => TableEvt(e)
        BY <2>1, <3>1, DrivenAlone
      <4>2. e = evts[1] /\ e.e = "done" /\ Len(evts) \in Nat \ {0}
        BY <1>a, <2>1, TakesTypes
      <4>3. conf > AdvStep \/ (conf = AdvStep /\ conf < Last)
        BY <1>a, <3>1
      <4>4. QED
        BY <4>1, <4>2, <4>3 DEF PastAdv
    <3>2. conf + 1 \in 0 .. NumSteps + 1
      BY <1>a
    <3>3. QED
      BY <2>1, <2>3, <3>1, <3>2, AdvDriven
  <2>4. QED
    BY <1>2, <2>2, <2>3 DEF CmdDone
<1>3. ASSUME NEW e, Connected(e) PROVE AdvInv'
  <2>1. active' # 0
    BY <1>3, <1>a DEF Connected
  <2>2. QED
    BY <1>b, <2>1
<1>4. ASSUME NEW e, Disconnected(e), active' = 0 PROVE AdvInv'
  <2>1. Len(cmds) \in Nat /\ Len(cmds') \in Nat /\ Len(cmds') > Len(cmds) /\ cmds'[Len(cmds')] = AdvOn
    BY <1>4, <1>a, LinkEvent
  <2>2. OnAhead(cmds')
    BY <2>1, Sends DEF OnAhead
  <2>3. OffThenOn(cmds')
    <3>1. ASSUME NEW i \in 1 .. Len(cmds'), cmds'[i].op = "adv_off"
          PROVE  \E j \in 1 .. Len(cmds') : j > i /\ cmds'[j].op = "adv_on"
      <4>1. i # Len(cmds')
        BY <2>1, <3>1, Sends
      <4>2. Len(cmds') \in 1 .. Len(cmds') /\ Len(cmds') > i
        BY <2>1, <4>1
      <4>3. QED
        BY <2>1, <4>2, Sends
    <3>2. QED
      BY <3>1 DEF OffThenOn
  <2>4. QED
    BY <1>b, <2>2, <2>3
<1>5. CASE CtrlCommand
  <2>1. active' = active
    BY <1>5 DEF CtrlCommand
  <2>2. QED
    BY <1>5, <1>b, <2>1, AdvExecuted
<1>6. CASE PeerUp \/ PeerDown
  <2>1. [e |-> "up"] \in Event /\ [e |-> "down"] \in Event /\ ~TableEvt([e |-> "up"]) /\ ~TableEvt([e |-> "down"])
    BY DEF Event, TableEvt, Answers
  <2>2. UNCHANGED <<active, cmds, conf, adv, unknown, lateFail, doubled>>
    BY <1>6 DEF PeerUp, PeerDown
  <2>3. (PastAdv' => PastAdv) /\ (FailAhead(evts) => FailAhead(evts'))
    BY <1>6, <1>a, <2>1, <2>2, AdvEvtAdded DEF PeerUp, PeerDown
  <2>4. QED
    BY <1>b, <2>2, <2>3 DEF AdvInv
<1>7. CASE UNCHANGED vars
  BY <1>b, <1>7 DEF vars, AdvInv, PastAdv, TableEvt, Answers
<1>8. ASSUME NEW e, Disconnected(e) PROVE AdvInv'
  BY <1>4, <1>8, <1>b
<1>9. QED
  BY <1>1, <1>2, <1>3, <1>5, <1>6, <1>7, <1>8 DEF Next, Handler

(***************************************************************************)
(* The invariant, and what follows from it.                                *)
(***************************************************************************)
LEMMA InitLinks == Init => LinksInv /\ AdvInv
<1> SUFFICES ASSUME Init PROVE LinksInv /\ AdvInv
  OBVIOUS
<1>1. evts = <<>> /\ Len(evts) = 0 /\ links = 0 /\ active = 0 /\ conf = 0
  BY DEF Init
<1>2. Cardinality(Downs(evts, 0)) = 0
  BY DownsNone
<1>3. LinksInv
  BY <1>1, <1>2, CountsAssumption DEF LinksInv, NoUp
<1>4. ~PastAdv
  BY <1>1, Places DEF PastAdv
<1>5. OffThenOn(cmds)
  <2>1. PICK m : m = Step(0) /\ m.op = "step"
    BY Places, Sends DEF Steps
  <2>2. cmds = <<m>>
    BY <2>1 DEF Init
  <2>3. Len(cmds) = 1 /\ cmds[1] = m
    BY <2>2
  <2>4. \A i \in 1 .. Len(cmds) : cmds[i].op # "adv_off"
    BY <2>1, <2>3
  <2>5. QED
    BY <2>4 DEF OffThenOn
<1>6. QED
  BY <1>3, <1>4, <1>5 DEF AdvInv

\* Every variable keeps its type: the slots in use and the links stay within the
\* device table, though links come up, are lost and are dropped by a reset of the
\* controller while their events are on their way.
THEOREM TypeCorrect == Spec => []TypeOK
<1>1. TypeInv /\ LinksInv => TypeOK
  BY DEF TypeInv, CounterInv, LinksInv, TypeOK
<1>2. TypeInv /\ LinksInv /\ [Next]_vars => (TypeInv /\ LinksInv)'
  BY NextTypes, NextLinks
<1>3. QED
  BY InitTable, InitLinks, <1>1, <1>2, PTL DEF Spec

\* With nobody connected and nothing on its way the controller advertises, unless
\* a command failed that is not repeated, or a stray answer drove the table.
THEOREM ReachableWhenAlone == Spec => []ReachableAlone
<1>1. TypeInv /\ AdvInv => ReachableAlone
  <2> SUFFICES ASSUME TypeInv, AdvInv, SetUp, Settled, active = 0, ~lateFail, ~doubled,
                      AdvStep \notin unknown
               PROVE  adv
    BY DEF ReachableAlone
  <2>1. cmds = <<>> /\ evts = <<>> /\ Len(cmds) = 0 /\ Len(evts) = 0
    BY DEF Settled
  <2>2. ~OnAhead(cmds) /\ ~FailAhead(evts)
    BY <2>1 DEF OnAhead, FailAhead
  <2>3. PastAdv
    BY Places DEF TypeInv, CounterInv, SetUp, PastAdv
  <2>4. QED
    BY <2>2, <2>3 DEF AdvInv
<1>2. TypeInv /\ TableInv /\ LinksInv /\ AdvInv /\ [Next]_vars
        => (TypeInv /\ TableInv /\ LinksInv /\ AdvInv)'
  BY NextTypes, NextTable, NextLinks, NextAdv
<1>3. QED
  BY InitTable, InitLinks, <1>1, <1>2, PTL DEF Spec
=============================================================================
