------------------------------- MODULE JvsNode -------------------------------
(***************************************************************************)
(* wired/jvs_uart.c: the node of a JVS (arcade) bus.  A frame is parsed    *)
(* command by command in the interrupt that ends it, each command writing  *)
(* its report where the one before ended; a frame whose checksum is wrong  *)
(* is parsed too, so that a frame the host sends may arrive as any other.  *)
(*                                                                         *)
(* The buffer of replies is never cleared: a retransmission sends again    *)
(* what its second byte says is there.  A report is written as status and  *)
(* data, one token each; the identification string is one token.           *)
(***************************************************************************)
EXTENDS Integers, Sequences

CONSTANT JvCmds     \* commands in a frame

VARIABLES
  jvNode,     \* node_id, 0 without an address
  jvSense,    \* the sense line is high: there is no node behind to address
  jvBuf,      \* tx_buf: what each place holds
  jvSent,     \* the reply to the last frame, <<>> when there was none
  jvHist      \* history: the frame parsed, the reply before it

jvVars == <<jvNode, jvSense, jvBuf, jvSent, jvHist>>

\* "rev" stands for the revisions and the features, "input" for switches, coins and channels.
Commands == {"reset", "address", "speed", "info", "rev", "input", "retransmit", "other"}
\* A host asks for a retransmission alone.
Frames == {<<"retransmit">>} \cup UNION {[1 .. n -> Commands \ {"retransmit"}] : n \in 1 .. JvCmds}
Places == 0 .. 3 + 2 * JvCmds

Init ==
  /\ jvNode = 0 /\ jvSense = TRUE /\ jvSent = <<>>
  /\ jvBuf = [p \in Places |-> 0]
  /\ jvHist = [frame |-> <<>>, before |-> <<>>]

\* What a command reports after its status.
Data == [c \in Commands |-> IF c \in {"info", "rev", "input"} THEN <<c>> ELSE <<>>]

\* A state of jvs_parser: node_id, sense, len, tx_buf, and whether it returned with an error.
Put(st, d) ==
  [st EXCEPT !.len = @ + 1 + Len(d),
             !.buf = [p \in Places |-> IF p = st.len THEN 1 ELSE IF d # <<>> /\ p = st.len + 1 THEN d[1] ELSE @[p]]]

Reset(st) == [st EXCEPT !.node = 0, !.sense = TRUE, !.len = 0]

\* Set Address: only a node without one takes it and answers.
SetAddress(st) ==
  IF st.node = 0 THEN Put([st EXCEPT !.node = 1, !.sense = FALSE], <<>>) ELSE [st EXCEPT !.len = 0]

\* The identification is copied to its place in a reply of its own, wherever its status went.
Info(st) ==
  [st EXCEPT !.len = @ + 2,
             !.buf = [p \in Places |-> IF p = 4 THEN "info" ELSE IF p = st.len THEN 1 ELSE @[p]]]

\* len is a byte: a reply of nothing left 255 there.
Retransmit(st) == [st EXCEPT !.len = (st.buf[1] + 1) % 256]

Error(st) == [st EXCEPT !.len = 4, !.error = TRUE,
                        !.buf = [p \in Places |-> CASE p = 1 -> 3 [] p = 2 -> 2 [] p = 3 -> 1 [] OTHER -> @[p]]]

Step(st, c) ==
  IF st.error THEN st
  ELSE CASE c = "reset" -> Reset(st)
         [] c = "address" -> SetAddress(st)
         [] c = "speed" -> st
         [] c = "info" -> Info(st)
         [] c = "retransmit" -> Retransmit(st)
         [] c = "other" -> Error(st)
         [] OTHER -> Put(st, Data[c])

\* jvs_parser for a frame to this node (or to all).
Parsed(frame) ==
  LET start == [node |-> jvNode, sense |-> jvSense, len |-> 3, error |-> FALSE,
                buf |-> [jvBuf EXCEPT ![0] = 0, ![2] = 1]]
      steps[n \in 0 .. Len(frame)] == IF n = 0 THEN start ELSE Step(steps[n - 1], frame[n])
      end == steps[Len(frame)]
  IN  [end EXCEPT !.buf[1] = IF end.error THEN 3 ELSE (end.len + 255) % 256]

\* uart_rx: the frame is parsed, and the reply sent when there is one.
uart_rx(frame) ==
  LET st == Parsed(frame)
      sent == [i \in 1 .. st.len |-> st.buf[i - 1]]
  IN  /\ jvNode' = st.node /\ jvSense' = st.sense /\ jvBuf' = st.buf
      /\ jvSent' = sent
      /\ jvHist' = [frame |-> frame, before |-> IF frame = <<"retransmit">> THEN jvSent ELSE <<>>]

\* A frame to another node leaves the buffer alone.
OtherNode ==
  /\ jvSent' = <<>> /\ jvHist' = [frame |-> <<>>, before |-> <<>>]
  /\ UNCHANGED <<jvNode, jvSense, jvBuf>>

Next == OtherNode \/ \E frame \in Frames : uart_rx(frame)

Spec == Init /\ [][Next]_jvVars

(***************************************************************************)
(* Properties.                                                             *)
(***************************************************************************)
TypeOK ==
  /\ jvNode \in 0 .. 1 /\ jvSense \in BOOLEAN
  /\ DOMAIN jvBuf = Places /\ jvBuf[1] \in 0 .. 255

\* The node behind is told of an address exactly while this one has its own, whatever
\* frame of commands took or gave it.
SenseTellsAddress == jvSense = (jvNode = 0)

\* A retransmission sends what was sent before, when that had its header whole (no
\* command of its frame emptied the reply) and was no refusal: the status of a
\* refusal is written over.
Whole(reply) == Len(reply) >= 3 /\ reply[3] = 1
RetransmitSame ==
  jvHist.frame = <<"retransmit">> /\ Whole(jvHist.before) => jvSent = jvHist.before

\* A reply has one report for each command that has one, in their order, when no
\* command starts it anew and the identification comes first.
Plain(frame) == \A i \in DOMAIN frame : frame[i] \in {"rev", "input"} \/ (i = 1 /\ frame[i] = "info")
ReportsInOrder ==
  jvHist.frame # <<>> /\ Plain(jvHist.frame) =>
    /\ Len(jvSent) = 3 + 2 * Len(jvHist.frame)
    /\ \A i \in DOMAIN jvHist.frame : jvSent[2 + 2 * i] = 1 /\ jvSent[3 + 2 * i] = jvHist.frame[i]
=============================================================================
