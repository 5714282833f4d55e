----------------------------- MODULE MaplePorts -----------------------------
(***************************************************************************)
(* wired/maple.c: the Dreamcast's ports.  maple_rx reads a frame bit by    *)
(* bit with the interrupt taken late, so that the first bits may be lost:  *)
(* the header is put right again (maple_fix_byte), the payload is not, and *)
(* the frame counts as bad.  The checksum is added up and never compared.  *)
(*                                                                         *)
(* All ports share rumble_timeout, rumble_config and one memory card.      *)
(***************************************************************************)
EXTENDS Integers

CONSTANT MplFrames    \* bound: frames that change something

VARIABLES
  mplCfg,        \* config.out_cfg: dev_mode and acc_mode of each port
  mplRumble,     \* rumble_timeout, rumble_config
  mplCard,       \* the card, by block and phase (128 bytes)
  mplSent,       \* per port, the rumble message queued last: timeout and strength
  mplHist,       \* history: the writes the console saw acknowledged and which of them
                 \* were damaged, the timeouts it wrote and the ports whose timeout is spoilt,
                 \* the rumble it asked for and the ports whose request is excused
  mplFrames

mplVars == <<mplCfg, mplRumble, mplCard, mplSent, mplHist, mplFrames>>

Ports  == 0 .. 1
Blocks == 0 .. 1
Phases == 0 .. 1      \* VMU_WRITE_ACCESSES is 4
Cells  == Blocks \X Phases
Values == 1 .. 2
Wrong  == 3           \* data with a bit flipped

\* How a frame arrives: whole, with bits flipped in the payload, or with up to
\* eight bits lost at its start.
Damage == {"whole", "flipped", "short"}
Bad(d) == d = "short"
Data(v, d) == IF d = "flipped" THEN Wrong ELSE v

Init ==
  /\ mplCfg = [dev |-> [p \in Ports |-> "PAD"], rumble |-> [p \in Ports |-> TRUE]]
  /\ mplRumble = [timeout |-> 0, config |-> 0]
  /\ mplCard = [c \in Cells |-> 0]
  /\ mplSent = [p \in Ports |-> [timeout |-> 0, config |-> 0]]
  /\ mplHist = [acked |-> [c \in Cells |-> 0], damaged |-> {},
                timeout |-> [p \in Ports |-> 0], spoilt |-> {},
                asked |-> [p \in Ports |-> [timeout |-> 0, config |-> 0]], excused |-> {}]
  /\ mplFrames = 0

\* Core 0 changes a port's device or takes its rumble pack away.
Configure ==
  /\ \/ \E d \in {"PAD", "MOUSE"} : mplCfg' = [mplCfg EXCEPT !.dev[1] = d]
     \/ mplCfg' = [mplCfg EXCEPT !.rumble[1] = ~@]
  /\ UNCHANGED <<mplRumble, mplCard, mplSent, mplHist, mplFrames>>

\* A keyboard or a mouse answers ADDR_MAIN only, which changes nothing here.
Pad(p) == mplCfg.dev[p] = "PAD" /\ mplFrames < MplFrames /\ mplFrames' = mplFrames + 1

(***************************************************************************)
(* ADDR_MEM, CMD_BLOCK_WRITE: acknowledged in any case, carried out when   *)
(* the frame was not bad.                                                  *)
(***************************************************************************)
Stored(c, v, d) == IF Bad(d) THEN mplCard ELSE [mplCard EXCEPT ![c] = Data(v, d)]

BlockWrite(p, c, v, d) ==
  /\ Pad(p)
  /\ mplCard' = Stored(c, v, d)
  /\ mplHist' = [mplHist EXCEPT !.acked[c] = v,
                   !.damaged = IF d = "whole" THEN @ \ {c} ELSE @ \cup {c}]
  /\ UNCHANGED <<mplCfg, mplRumble, mplSent>>

(***************************************************************************)
(* ADDR_RUMBLE: CMD_BLOCK_WRITE sets the timeout, CMD_SET_CONDITION the    *)
(* motor, which also queues a message; adapter_q_fb may refuse it.         *)
(***************************************************************************)
RumbleTimeout(p, v, d) ==
  /\ Pad(p)
  /\ mplRumble' = IF Bad(d) THEN mplRumble ELSE [mplRumble EXCEPT !.timeout = Data(v, d)]
  /\ mplHist' = [mplHist EXCEPT !.timeout[p] = v,
                   !.spoilt = Ports \ (IF d = "whole" THEN {p} ELSE {})]
  /\ UNCHANGED <<mplCfg, mplCard, mplSent>>

Condition(p) == [timeout |-> mplRumble.timeout, config |-> mplRumble'.config]

SetCondition(p, v, d, accepted) ==
  /\ Pad(p)
  /\ mplRumble' = IF Bad(d) THEN mplRumble ELSE [mplRumble EXCEPT !.config = Data(v, d)]
  /\ LET queued == ~Bad(d) /\ mplCfg.rumble[p] /\ accepted IN
     /\ mplSent' = IF queued THEN [mplSent EXCEPT ![p] = Condition(p)] ELSE mplSent
     /\ mplHist' = [mplHist EXCEPT
          !.asked[p] = [timeout |-> mplHist.timeout[p], config |-> v],
          !.excused = IF queued /\ d = "whole" /\ p \notin mplHist.spoilt THEN @ \ {p} ELSE @ \cup {p}]
  /\ UNCHANGED <<mplCfg, mplCard>>

Next ==
  \/ Configure
  \/ \E p \in Ports, v \in Values, d \in Damage :
       \/ \E c \in Cells : BlockWrite(p, c, v, d)
       \/ RumbleTimeout(p, v, d)
       \/ \E accepted \in BOOLEAN : SetCondition(p, v, d, accepted)

Spec == Init /\ [][Next]_mplVars

(***************************************************************************)
(* Properties.                                                             *)
(***************************************************************************)
TypeOK ==
  /\ mplCard \in [Cells -> 0 .. Wrong]
  /\ mplRumble \in [timeout : 0 .. Wrong, config : 0 .. Wrong]
  /\ mplSent \in [Ports -> [timeout : 0 .. Wrong, config : 0 .. Wrong]]

\* What the console saw acknowledged is in the card: a damaged frame, which is
\* acknowledged like any other, costs the cell it was meant for and no other
\* one, until that is written again.
AckedIsStored == \A c \in Cells : c \notin mplHist.damaged => mplCard[c] = mplHist.acked[c]

\* A rumble message carries what its own port's console asked for, although the
\* ports share both words: the exceptions are a damaged or refused request, a
\* port without rumble pack, and a timeout another port has written since.
RumbleAsAsked == \A p \in Ports : p \notin mplHist.excused => mplSent[p] = mplHist.asked[p]
=============================================================================
