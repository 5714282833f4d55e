------------------------------ MODULE SegaPorts ------------------------------
(***************************************************************************)
(* wired/sega_io.c: the loops of core 1 that follow the TH lines of a Mega *)
(* Drive or a Saturn and put the pads' bits on the pins.                   *)
(*                                                                         *)
(* A loop compares samples of the lines inside its waiting loops only:     *)
(* what moves between the end of one of them and the first sample of the   *)
(* next is never seen as an edge.  Both ports share GPIO.out, so each      *)
(* write repeats the other port's pins from a copy (p1_out0, p2_out0).     *)
(***************************************************************************)
EXTENDS Integers

VARIABLES
  sgSys,      \* wired_adapter.system_id
  sgType,     \* dev_type of each port, "TWH" for the devices with a handshake
  sgTh,       \* the TH lines, TRUE is high
  sgSeen,     \* cur_in: the levels the loop acted on last
  sgPc,       \* where the loop is, with the port it polls and the phase that port shows
  sgOut,      \* what each port's pins show: a phase, Nibble in a handshake, Idle before the first poll
  sgCopy,     \* p1_out0 and p2_out0
  sgStall,    \* lock: core 0 is held
  sgIdx,      \* idx: the port whose frame is counted
  sgHist      \* history: ports out of step with TH; since the loop left its top, the
              \* ports polled and whether a rising TH began a poll; the frame counted last

sgVars == <<sgSys, sgType, sgTh, sgSeen, sgPc, sgOut, sgCopy, sgStall, sgIdx, sgHist>>

Ports == 0 .. 1
None == 9
Genesis == sgSys = "GENESIS"
At(kind, p, n) == [kind |-> kind, port |-> p, phase |-> n]
Begin == At("begin", 0, 0)
Top == At("top", 0, 0)

\* Phases 0 to 7 are the halves of cycles 0 to 3: TH low is shown an even one.
Nibble == 8
Idle == 10
High(n) == n % 2 = 1
Last(p) == IF sgType[p] = "6BTNS" THEN 7 ELSE 2

Init ==
  /\ sgSys \in {"GENESIS", "SATURN"}
  /\ sgType \in [Ports -> IF Genesis THEN {"3BTNS", "6BTNS", "TWH"} ELSE {"TWH"}]
  /\ sgTh = [p \in Ports |-> TRUE] /\ sgSeen = sgTh
  /\ sgPc = Top
  /\ sgOut = [p \in Ports |-> Idle] /\ sgCopy = sgOut
  /\ sgStall = FALSE /\ sgIdx = 0
  /\ sgHist = [lost |-> {}, polled |-> {}, reversed |-> FALSE, frame |-> None]

\* The console moves a TH line, whatever the loop is doing.
Toggle(p) ==
  /\ sgTh' = [sgTh EXCEPT ![p] = ~@]
  /\ UNCHANGED <<sgSys, sgType, sgSeen, sgPc, sgOut, sgCopy, sgStall, sgIdx, sgHist>>

Copied(p, n) == [sgCopy EXCEPT ![p] = n]

\* GPIO.out = map & copy of the other port; the copy of this one is renewed.
Write(p, shown, n) ==
  /\ sgOut' = [q \in Ports |-> IF q = p THEN shown ELSE sgCopy[q]]
  /\ sgCopy' = Copied(p, n)

\* next_poll of the Mega Drive's loop; the Saturn's never holds core 0.
Frame(lock, idx) == IF lock THEN idx ELSE None

\* Mutant of Unlocked: core 0 is let go when a frame was counted for the first port only.
UnlockedFirst(idx) == idx # 0

Unlocked(idx) == FALSE

NextPoll(hist, lock, idx) ==
  /\ sgPc' = Begin /\ sgStall' = (lock /\ Unlocked(idx)) /\ sgIdx' = idx
  /\ sgHist' = [hist EXCEPT !.frame = Frame(lock, idx)]

Index(p) == p

StartsHigh(p) == Genesis /\ sgTh[p]

\* p1_poll_start and p2_poll_start: the level, not the edge, picks the phase. A
\* device with a handshake answers at once, with core 0 let go.
Start(p, hist) ==
  /\ IF StartsHigh(p)
     THEN /\ Write(p, 1, 1)
          /\ sgStall' = TRUE /\ sgPc' = At("arm", p, 1) /\ UNCHANGED sgIdx
          /\ sgHist' = [hist EXCEPT !.lost = @ \ {p}, !.reversed = TRUE]
     ELSE /\ Write(p, IF sgType[p] = "TWH" THEN Nibble ELSE 0, 0)
          /\ sgStall' = (sgType[p] # "TWH")
          /\ sgPc' = At(IF sgType[p] = "TWH" THEN "twh" ELSE "arm", p, 0)
          /\ sgIdx' = IF Genesis THEN Index(p) ELSE sgIdx
          /\ sgHist' = [hist EXCEPT !.lost = @ \ {p}, !.polled = @ \cup {p}]

Changed == {p \in Ports : sgTh[p] # sgSeen[p]}

\* The first sample of a waiting loop: what moved before it makes no edge.
Arm ==
  /\ sgPc.kind \in {"begin", "arm"}
  /\ sgSeen' = sgTh
  /\ sgPc' = [sgPc EXCEPT !.kind = IF @ = "begin" THEN "top" ELSE "wait"]
  /\ sgHist' = [sgHist EXCEPT !.lost = @ \cup Changed]
  /\ UNCHANGED <<sgSys, sgType, sgTh, sgOut, sgCopy, sgStall, sgIdx>>

\* An edge at the top: when both ports moved, the second one's edge is lost.
TopEdge ==
  /\ sgPc.kind = "top" /\ Changed # {}
  /\ Start(IF 0 \in Changed THEN 0 ELSE 1,
           [lost |-> sgHist.lost \cup Changed, polled |-> {}, reversed |-> FALSE, frame |-> None])
  /\ sgSeen' = sgTh
  /\ UNCHANGED <<sgSys, sgType, sgTh>>

\* An edge in the middle of a poll of the Mega Drive: the other port's goes first,
\* and the poll of this one is given up; its own moves on to the next phase.
WaitEdge ==
  /\ Genesis /\ sgPc.kind = "wait" /\ Changed # {}
  /\ LET p == sgPc.port
         n == sgPc.phase + 1 IN
     IF 1 - p \in Changed THEN Start(1 - p, [sgHist EXCEPT !.lost = @ \cup Changed])
     ELSE /\ Write(p, n, n)
          /\ IF n < Last(p)
             THEN sgPc' = At("arm", p, n) /\ sgStall' = TRUE /\ UNCHANGED <<sgIdx, sgHist>>
             ELSE NextPoll(sgHist, TRUE, sgIdx)
  /\ sgSeen' = sgTh
  /\ UNCHANGED <<sgSys, sgType, sgTh>>

\* The Saturn's loop takes any edge for the end of its own poll.
SaturnEdge ==
  /\ ~Genesis /\ sgPc.kind = "wait" /\ Changed # {}
  /\ LET p == sgPc.port IN
     /\ Write(p, 1, 1)
     /\ NextPoll([sgHist EXCEPT !.lost = @ \cup (Changed \ {p}) \cup (IF sgTh[p] THEN {} ELSE {p})],
                 FALSE, sgIdx)
  /\ sgSeen' = sgTh
  /\ UNCHANGED <<sgSys, sgType, sgTh>>

\* Two samples may also fall around a pulse (no step), or POLL_TIMEOUT may pass,
\* which is looked at before the last sample is compared.
Timeout ==
  /\ sgPc.kind = "wait"
  /\ NextPoll(sgHist, sgStall, sgIdx)
  /\ UNCHANGED <<sgSys, sgType, sgTh, sgSeen, sgOut, sgCopy>>

\* twh_tx returns when TH is high or TWH_TIMEOUT has passed.
HandshakeEnd ==
  /\ sgPc.kind = "twh"
  /\ LET p == sgPc.port IN
     IF sgTh[p]
     THEN /\ Write(p, 1, 1)
          /\ NextPoll(sgHist, FALSE, sgIdx)
     ELSE /\ sgPc' = At("arm", p, 0)
          /\ UNCHANGED <<sgOut, sgCopy, sgStall, sgIdx, sgHist>>
  /\ sgSeen' = [sgSeen EXCEPT ![sgPc.port] = sgTh[sgPc.port]]
  /\ UNCHANGED <<sgSys, sgType, sgTh>>

Next ==
  \/ \E p \in Ports : Toggle(p)
  \/ Arm \/ TopEdge \/ WaitEdge \/ SaturnEdge \/ Timeout \/ HandshakeEnd

Spec == Init /\ [][Next]_sgVars

(***************************************************************************)
(* Properties.                                                             *)
(***************************************************************************)
TypeOK ==
  /\ sgTh \in [Ports -> BOOLEAN] /\ sgSeen \in [Ports -> BOOLEAN]
  /\ sgPc \in [kind : {"begin", "top", "arm", "wait", "twh"}, port : Ports, phase : 0 .. 7]
  /\ sgOut \in [Ports -> 0 .. 7 \cup {Nibble, Idle}]
  /\ sgStall \in BOOLEAN /\ sgIdx \in Ports

\* Core 0 is never held while nothing is polled or a handshake runs, which the
\* console may draw out: whichever way the loop leaves a poll.
StallOnlyInPoll == sgPc.kind \in {"begin", "top", "twh"} => ~sgStall

\* A port shows the half of its cycle the console asks for by TH. After an edge
\* the loop could not see, a port may be out of step, until its next poll begins.
InStep ==
  sgPc.kind \in {"top", "wait"} =>
    \A p \in Ports \ sgHist.lost : sgOut[p] # Idle => High(sgOut[p]) = sgSeen[p]

\* Writing one port's pins moves the other's only when its handshake was cut short.
OtherPort == \E p \in Ports : \A q \in Ports \ {p} : sgOut'[q] # sgOut[q] => sgOut[q] = Nibble

\* Turbo runs on the frames of the port that was polled: a frame is counted for no
\* other one, except after a poll that a rising TH began, which keeps the old idx.
FrameForPolled ==
  sgHist.frame # None /\ ~sgHist.reversed => sgHist.frame \in sgHist.polled
=============================================================================
