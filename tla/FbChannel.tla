------------------------------ MODULE FbChannel ------------------------------
(***************************************************************************)
(* What the feedback queue promises its users: a bounded, loss-free FIFO.  *)
(* An accepted message is received once, in order, and its contents do not *)
(* change while bt_fb_task works on it; a message may only be refused when *)
(* Capacity messages are accepted and not yet released.                    *)
(***************************************************************************)
EXTENDS Naturals, Sequences

CONSTANTS
  Capacity,    \* messages accepted and not released at most
  Payloads,
  NULL

VARIABLES
  pending,     \* messages accepted, in order
  got          \* message being handled by the consumer, or NULL

chanVars == <<pending, got>>

Outstanding == Len(pending) + IF got = NULL THEN 0 ELSE 1

ChanInit == pending = <<>> /\ got = NULL

Send(m) ==
  /\ Outstanding < Capacity
  /\ pending' = Append(pending, m)
  /\ UNCHANGED got

Receive ==
  /\ got = NULL
  /\ pending # <<>>
  /\ got' = Head(pending)
  /\ pending' = Tail(pending)

Release ==
  /\ got # NULL
  /\ got' = NULL
  /\ UNCHANGED pending

ChanNext == (\E m \in Payloads : Send(m)) \/ Receive \/ Release

\* What is accepted is received, what is received is released.
ChanFairness == WF_chanVars(Receive) /\ WF_chanVars(Release)

ChanSpec == ChanInit /\ [][ChanNext]_chanVars /\ ChanFairness
=============================================================================
