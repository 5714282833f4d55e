--------------------------- MODULE QueueBssProofs ---------------------------
(***************************************************************************)
(* Proofs about QueueBss, for every ring size and every set of producers.  *)
(***************************************************************************)
EXTENDS QueueBss, SequenceTheorems, TLAPS

(***************************************************************************)
(* The operations of a ring.                                               *)
(***************************************************************************)
LEMMA SuccIndex ==
  ASSUME NEW i \in Index
  PROVE  Succ(i) \in Index /\ Succ(i) # i
BY ItemNumAssumption DEF Index, Succ

LEMMA PopRing ==
  ASSUME NEW q \in Ring
  PROVE  /\ RingPop(q) \in Ring
         /\ RingPop(q).elem = q.elem
         /\ RingPop(q).wr = q.wr
         /\ ~RingEmpty(q) =>
              /\ InRing(q, q.rd)
              /\ \A i \in Index : InRing(RingPop(q), i) <=> InRing(q, i) /\ i # q.rd
              /\ RingLen(RingPop(q)) = RingLen(q) - 1
              /\ RingLen(q) \in 1 .. ItemNum - 1
<1>1. RingPop(q) = [elem |-> q.elem, rd |-> Succ(q.rd), wr |-> q.wr]
  BY DEF RingPop, Ring
<1>2. q.rd \in Index /\ q.wr \in Index /\ Succ(q.rd) \in Index
  BY SuccIndex DEF Ring
<1>3. RingPop(q) \in Ring
  BY <1>1, <1>2 DEF Ring
<1>4. ASSUME ~RingEmpty(q)
      PROVE  /\ InRing(q, q.rd)
             /\ \A i \in Index : InRing(RingPop(q), i) <=> InRing(q, i) /\ i # q.rd
             /\ RingLen(RingPop(q)) = RingLen(q) - 1
             /\ RingLen(q) \in 1 .. ItemNum - 1
  BY <1>1, <1>2, <1>4, ItemNumAssumption DEF RingEmpty, InRing, RingLen, Succ, Index
<1>5. QED
  BY <1>1, <1>3, <1>4

LEMMA PushRing ==
  ASSUME NEW q \in Ring
  PROVE  /\ RingPush(q) \in Ring
         /\ RingPush(q).elem = q.elem
         /\ RingPush(q).rd = q.rd
         /\ ~RingFull(q) =>
              /\ ~InRing(q, q.wr)
              /\ \A i \in Index : InRing(RingPush(q), i) <=> InRing(q, i) \/ i = q.wr
              /\ RingLen(RingPush(q)) = RingLen(q) + 1
              /\ ~RingEmpty(RingPush(q))
<1>1. RingPush(q) = [elem |-> q.elem, rd |-> q.rd, wr |-> Succ(q.wr)]
  BY DEF RingPush, Ring
<1>2. q.rd \in Index /\ q.wr \in Index /\ Succ(q.wr) \in Index
  BY SuccIndex DEF Ring
<1>3. RingPush(q) \in Ring
  BY <1>1, <1>2 DEF Ring
<1>4. ASSUME ~RingFull(q)
      PROVE  /\ ~InRing(q, q.wr)
             /\ \A i \in Index : InRing(RingPush(q), i) <=> InRing(q, i) \/ i = q.wr
             /\ RingLen(RingPush(q)) = RingLen(q) + 1
             /\ ~RingEmpty(RingPush(q))
  BY <1>1, <1>2, <1>4, ItemNumAssumption DEF RingEmpty, RingFull, InRing, RingLen, Succ, Index
<1>5. QED
  BY <1>1, <1>3, <1>4

LEMMA StoreRing ==
  ASSUME NEW q \in Ring, NEW s \in Slots \cup {Garbage}
  PROVE  /\ RingStore(q, s) \in Ring
         /\ RingStore(q, s).rd = q.rd
         /\ RingStore(q, s).wr = q.wr
         /\ RingStore(q, s).elem[q.wr] = s
         /\ \A i \in Index : i # q.wr => RingStore(q, s).elem[i] = q.elem[i]
         /\ \A i \in Index : InRing(RingStore(q, s), i) <=> InRing(q, i)
         /\ RingLen(RingStore(q, s)) = RingLen(q)
         /\ RingFull(RingStore(q, s)) <=> RingFull(q)
         /\ RingEmpty(RingStore(q, s)) <=> RingEmpty(q)
<1>1. RingStore(q, s) = [elem |-> [q.elem EXCEPT ![q.wr] = s], rd |-> q.rd, wr |-> q.wr]
  BY DEF RingStore, Ring
<1>2. q.wr \in Index /\ q.elem \in [Index -> Slots \cup {Garbage}]
  BY DEF Ring
<1>3. QED
  BY <1>1, <1>2 DEF Ring, InRing, RingLen, RingFull, RingEmpty

\* A ring that is not full has a length below item_num - 1, and conversely.
LEMMA RingLenBounds ==
  ASSUME NEW q \in Ring
  PROVE  /\ RingLen(q) \in 0 .. ItemNum - 1
         /\ RingFull(q) <=> RingLen(q) = ItemNum - 1
         /\ RingEmpty(q) <=> RingLen(q) = 0
<1>1. q.rd \in Index /\ q.wr \in Index
  BY DEF Ring
<1>2. QED
  BY <1>1, ItemNumAssumption DEF Index, RingLen, RingFull, RingEmpty, Succ

(***************************************************************************)
(* Type correctness.                                                       *)
(***************************************************************************)
LEMMA HeadType ==
  ASSUME NEW q \in Ring
  PROVE  RingHead(q) \in Slots \cup {Garbage}
BY DEF Ring, RingHead

LEMMA InitType == Init => TypeOK
<1> SUFFICES ASSUME Init PROVE TypeOK
  OBVIOUS
<1>1. 0 \in Index /\ ItemNum - 1 \in Index
  BY ItemNumAssumption DEF Index
<1>2. freeq \in Ring
  BY <1>1 DEF Init, Ring
<1>3. itemq \in Ring
  BY <1>1 DEF Init, Ring
<1>4. QED
  BY <1>2, <1>3 DEF Init, TypeOK

LEMMA NextType == TypeOK /\ [Next]_vars => TypeOK'
<1> SUFFICES ASSUME TypeOK, [Next]_vars PROVE TypeOK'
  OBVIOUS
<1> USE DEF TypeOK
<1>1. ASSUME NEW p \in Producers, NEW m \in Payloads, EnqTake(p, m) PROVE TypeOK'
  BY <1>1, HeadType DEF EnqTake, consVars
<1>2. ASSUME NEW p \in Producers, EnqAdvance(p) PROVE TypeOK'
  BY <1>2, PopRing DEF EnqAdvance, consVars
<1>3. ASSUME NEW p \in Producers, EnqCopy(p) PROVE TypeOK'
  BY <1>3 DEF EnqCopy, consVars
<1>4. ASSUME NEW p \in Producers, EnqStore(p) PROVE TypeOK'
  BY <1>4, StoreRing DEF EnqStore, consVars
<1>5. ASSUME NEW p \in Producers, EnqPublish(p) PROVE TypeOK'
  BY <1>5, PushRing DEF EnqPublish, EndCall, consVars
<1>6. ASSUME NEW p \in Producers, EnqFull(p) PROVE TypeOK'
  <2>1. RingPush(RingStore(freeq, pslot[p])) \in Ring
    BY PushRing, StoreRing
  <2>2. QED
    BY <1>6, <2>1 DEF EnqFull, EndCall, consVars
<1>7. CASE DeqTake
  BY <1>7, HeadType DEF DeqTake, prodVars
<1>8. CASE DeqAdvance
  BY <1>8, PopRing DEF DeqAdvance, prodVars
<1>9. CASE RetStore
  BY <1>9, StoreRing DEF RetStore, prodVars
<1>10. CASE RetPublish
  BY <1>10, PushRing DEF RetPublish, prodVars
<1>11. CASE RetFull
  BY <1>11 DEF RetFull, prodVars
<1>12. CASE UNCHANGED vars
  BY <1>12 DEF vars
<1>13. QED
  BY <1>1, <1>2, <1>3, <1>4, <1>5, <1>6, <1>7, <1>8, <1>9, <1>10, <1>11, <1>12
  DEF Next, EnqRest, Consume

\* The indices of both rings stay inside the rings and every pointer is one of
\* the pool's slots or the memory's garbage, for any number of producers.
THEOREM TypeCorrect == Spec => []TypeOK
BY InitType, NextType, PTL DEF Spec

(***************************************************************************)
(* The inductive invariant.  Besides the exclusive ownership itself it     *)
(* says what a call has in hand at each of its steps, and counts the       *)
(* slots: together they show why neither ring is ever full.                *)
(***************************************************************************)
\* At most one producer is inside queue_bss_enqueue.
OneCall ==
  \A p, q \in Producers : pc[p] # "idle" /\ pc[q] # "idle" => p = q

\* What the steps of a call rely on.
CallState ==
  /\ \A i \in Index : InRing(freeq, i) => freeq.elem[i] \in Slots
  /\ \A i \in Index : InRing(itemq, i) => itemq.elem[i] \in Slots
  /\ \A p \in Producers :
       /\ pc[p] = "taken" => ~RingEmpty(freeq) /\ pslot[p] = RingHead(freeq)
       /\ ProdHolds(p) => pslot[p] \in Slots
       /\ pc[p] = "publish" => ~RingFull(itemq) /\ itemq.elem[itemq.wr] = pslot[p]
  /\ cpc = "taken" => ~RingEmpty(itemq) /\ cslot = RingHead(itemq)
  /\ ConsHolds => cslot \in Slots
  /\ cpc = "publish" => ~RingFull(freeq) /\ freeq.elem[freeq.wr] = cslot

InHands ==
  (IF \E p \in Producers : ProdHolds(p) THEN 1 ELSE 0) + (IF ConsHolds THEN 1 ELSE 0)

\* The pool has item_num - 1 slots, wherever they are.
Accounted == RingLen(freeq) + RingLen(itemq) + InHands = ItemNum - 1

IInv == TypeOK /\ (~overlap => OneCall /\ CallState /\ OneOwner /\ Accounted)

LEMMA InitInv == Init => IInv
<1> SUFFICES ASSUME Init PROVE IInv
  OBVIOUS
<1>1. TypeOK
  BY InitType
<1>2. \A i \in Index : ~InRing(itemq, i)
  BY DEF Init, InRing, Index
<1>3. \A i \in Index : InRing(freeq, i) => i \in Slots /\ freeq.elem[i] = i
  BY ItemNumAssumption DEF Init, InRing, Index, Slots
<1>4. \A p \in Producers : ~ProdHolds(p)
  BY DEF Init, ProdHolds
<1>5. ~ConsHolds
  BY DEF Init, ConsHolds
<1>6. OneCall
  BY DEF Init, OneCall
<1>7. CallState
  BY <1>2, <1>3, <1>4, <1>5 DEF Init, CallState
<1>8. OneOwner
  BY <1>2, <1>3, <1>4, <1>5 DEF OneOwner, NoDuplicate
<1>9. Accounted
  BY <1>4, <1>5, ItemNumAssumption DEF Init, Accounted, InHands, RingLen
<1>10. QED
  BY <1>1, <1>6, <1>7, <1>8, <1>9 DEF IInv

\* What the steps below start from.
Before == TypeOK /\ OneCall /\ CallState /\ OneOwner /\ Accounted
After == OneCall' /\ CallState' /\ OneOwner' /\ Accounted'

LEMMA EnqTakeInv ==
  ASSUME NEW p \in Producers, NEW m \in Payloads, EnqTake(p, m), Before, ~overlap'
  PROVE  After
<1> USE DEF Before, After
<1>1. \A q \in Producers : pc[q] = "idle"
  BY DEF EnqTake
<1>2. UNCHANGED <<freeq, itemq, item, cpc, cslot>>
  BY DEF EnqTake, consVars
<1>3. \A q \in Producers : pc'[q] = IF q = p THEN "taken" ELSE "idle"
  BY <1>1 DEF EnqTake, TypeOK
<1>4. \A q \in Producers : ~ProdHolds(q) /\ ~ProdHolds(q)'
  BY <1>1, <1>3 DEF ProdHolds
<1>5. OneCall'
  BY <1>3 DEF OneCall
<1>6. CallState'
  <2>1. pslot'[p] = RingHead(freeq) /\ ~RingEmpty(freeq)
    BY DEF EnqTake, TypeOK
  <2>2. QED
    BY <1>2, <1>3, <1>4, <2>1 DEF CallState, ConsHolds
<1>7. OneOwner'
  BY <1>2, <1>4 DEF OneOwner, ConsHolds
<1>8. Accounted'
  BY <1>2, <1>4 DEF Accounted, InHands, ConsHolds
<1>9. QED
  BY <1>5, <1>6, <1>7, <1>8

LEMMA EnqAdvanceInv ==
  ASSUME NEW p \in Producers, EnqAdvance(p), Before
  PROVE  After
<1> USE DEF Before, After
<1>1. \A q \in Producers : q # p => pc[q] = "idle"
  BY DEF EnqAdvance, OneCall
<1>2. \A q \in Producers : pc'[q] = IF q = p THEN "copy" ELSE "idle"
  BY <1>1 DEF EnqAdvance, TypeOK
<1>3. UNCHANGED <<itemq, item, pslot, cpc, cslot>> /\ freeq' = RingPop(freeq)
  BY DEF EnqAdvance, consVars
<1>4. ~RingEmpty(freeq) /\ pslot[p] = freeq.elem[freeq.rd] /\ freeq.rd \in Index
  BY DEF EnqAdvance, CallState, RingHead, TypeOK, Ring
<1>5. /\ freeq'.elem = freeq.elem
      /\ freeq'.wr = freeq.wr
      /\ InRing(freeq, freeq.rd)
      /\ \A i \in Index : InRing(freeq', i) <=> InRing(freeq, i) /\ i # freeq.rd
      /\ RingLen(freeq') = RingLen(freeq) - 1
      /\ RingLen(freeq) \in 1 .. ItemNum - 1
  BY <1>3, <1>4, PopRing DEF TypeOK
<1>6. /\ \A q \in Producers : ~ProdHolds(q)
      /\ \A q \in Producers : ProdHolds(q)' <=> q = p
  BY <1>1, <1>2 DEF ProdHolds, EnqAdvance
<1>7. OneCall'
  BY <1>2 DEF OneCall
<1>8. freeq' \in Ring /\ (RingFull(freeq') => RingLen(freeq') = ItemNum - 1)
  BY <1>3, PopRing, RingLenBounds DEF TypeOK
<1>9. CallState'
  <2>1. ~RingFull(freeq')
    BY <1>5, <1>8
  <2>2. pslot[p] \in Slots
    BY <1>4, <1>5 DEF CallState
  <2>3. QED
    BY <1>2, <1>3, <1>5, <1>6, <2>1, <2>2 DEF CallState, ConsHolds
<1>10. OneOwner'
  <2>1. NoDuplicate(freeq') /\ NoDuplicate(itemq')
    BY <1>3, <1>5 DEF OneOwner, NoDuplicate
  <2>2. \A i \in Index : InRing(itemq', i) => NotIn(freeq', itemq'.elem[i])
    BY <1>3, <1>5 DEF OneOwner, NotIn
  <2>3. NotIn(freeq', pslot[p])
    BY <1>4, <1>5 DEF OneOwner, NoDuplicate, NotIn
  <2>4. NotIn(itemq', pslot[p])
    BY <1>3, <1>4, <1>5 DEF OneOwner, NotIn
  <2>5. ConsHolds => cslot # pslot[p]
    BY <1>4, <1>5 DEF OneOwner, NotIn
  <2>6. ConsHolds => NotIn(freeq', cslot) /\ NotIn(itemq', cslot)
    BY <1>3, <1>5 DEF OneOwner, NotIn
  <2>7. QED
    BY <1>3, <1>6, <2>1, <2>2, <2>3, <2>4, <2>5, <2>6 DEF OneOwner, ConsHolds
<1>11. Accounted'
  BY <1>3, <1>5, <1>6, RingLenBounds, ItemNumAssumption DEF Accounted, InHands, ConsHolds, TypeOK
<1>12. QED
  BY <1>7, <1>9, <1>10, <1>11

LEMMA EnqCopyInv ==
  ASSUME NEW p \in Producers, EnqCopy(p), Before
  PROVE  After
<1> USE DEF Before, After
<1>1. \A q \in Producers : pc'[q] = IF q = p THEN "store" ELSE pc[q]
  BY DEF EnqCopy, TypeOK
<1>2. UNCHANGED <<freeq, itemq, pslot, cpc, cslot>> /\ pc[p] = "copy"
  BY DEF EnqCopy, consVars
<1>3. \A q \in Producers : ProdHolds(q)' <=> ProdHolds(q)
  BY <1>1, <1>2 DEF ProdHolds
<1>4. OneCall'
  BY <1>1, <1>2 DEF OneCall
<1>5. CallState'
  BY <1>1, <1>2, <1>3 DEF CallState, ConsHolds
<1>6. OneOwner'
  BY <1>2, <1>3 DEF OneOwner, ConsHolds
<1>7. Accounted'
  BY <1>2, <1>3 DEF Accounted, InHands, ConsHolds
<1>8. QED
  BY <1>4, <1>5, <1>6, <1>7

LEMMA EnqStoreInv ==
  ASSUME NEW p \in Producers, EnqStore(p), Before
  PROVE  After
<1> USE DEF Before, After
<1>1. \A q \in Producers : pc'[q] = IF q = p THEN "publish" ELSE "idle"
  BY DEF EnqStore, OneCall, TypeOK
<1>2. UNCHANGED <<freeq, pslot, cpc, cslot>> /\ pc[p] = "store"
  BY DEF EnqStore, consVars
<1>3. \A q \in Producers : ProdHolds(q)' <=> ProdHolds(q)
  BY <1>1, <1>2 DEF ProdHolds, OneCall
<1>4. pslot[p] \in Slots /\ itemq' = RingStore(itemq, pslot[p]) /\ ~RingFull(itemq)
  BY <1>2 DEF EnqStore, CallState, ProdHolds
<1>5. /\ itemq'.rd = itemq.rd
      /\ itemq'.wr = itemq.wr
      /\ itemq'.elem[itemq.wr] = pslot[p]
      /\ \A i \in Index : i # itemq.wr => itemq'.elem[i] = itemq.elem[i]
      /\ \A i \in Index : InRing(itemq', i) <=> InRing(itemq, i)
      /\ RingLen(itemq') = RingLen(itemq)
      /\ ~RingFull(itemq')
      /\ RingEmpty(itemq') <=> RingEmpty(itemq)
  BY <1>4, StoreRing DEF TypeOK
<1>6. ~InRing(itemq, itemq.wr) /\ (~RingEmpty(itemq) => InRing(itemq, itemq.rd))
  BY <1>4, PushRing, PopRing DEF TypeOK
<1>7. itemq.rd \in Index /\ itemq.wr \in Index
  BY DEF TypeOK, Ring
<1>8. \A i \in Index : InRing(itemq, i) => itemq'.elem[i] = itemq.elem[i]
  BY <1>5, <1>6
<1>9. OneCall'
  BY <1>1 DEF OneCall
<1>10. CallState'
  <2>1. cpc = "taken" => cslot = RingHead(itemq')
    BY <1>5, <1>6, <1>7, <1>8 DEF CallState, RingHead
  <2>2. QED
    BY <1>1, <1>2, <1>3, <1>5, <1>8, <2>1 DEF CallState, ConsHolds
<1>11. OneOwner'
  <2>1. NoDuplicate(itemq')
    BY <1>5, <1>8 DEF OneOwner, NoDuplicate
  <2>2. \A s : NotIn(itemq, s) <=> NotIn(itemq', s)
    BY <1>5, <1>8 DEF NotIn
  <2>3. QED
    BY <1>2, <1>3, <1>5, <1>8, <2>1, <2>2 DEF OneOwner, ConsHolds
<1>12. Accounted'
  BY <1>2, <1>3, <1>5 DEF Accounted, InHands, ConsHolds
<1>13. QED
  BY <1>9, <1>10, <1>11, <1>12

LEMMA EnqPublishInv ==
  ASSUME NEW p \in Producers, EnqPublish(p), Before
  PROVE  After
<1> USE DEF Before, After
<1>1. \A q \in Producers : pc'[q] = "idle"
  BY DEF EnqPublish, EndCall, OneCall, TypeOK
<1>2. UNCHANGED <<freeq, cpc, cslot>> /\ pc[p] = "publish" /\ itemq' = RingPush(itemq)
  BY DEF EnqPublish, consVars
<1>3. /\ \A q \in Producers : ~ProdHolds(q)'
      /\ ProdHolds(p)
  BY <1>1, <1>2 DEF ProdHolds
<1>4. /\ ~RingFull(itemq) /\ itemq.elem[itemq.wr] = pslot[p] /\ pslot[p] \in Slots
      /\ itemq.wr \in Index
  BY <1>2, <1>3 DEF CallState, TypeOK, Ring
<1>5. /\ itemq'.elem = itemq.elem
      /\ itemq'.rd = itemq.rd
      /\ \A i \in Index : InRing(itemq', i) <=> InRing(itemq, i) \/ i = itemq.wr
      /\ RingLen(itemq') = RingLen(itemq) + 1
      /\ ~RingEmpty(itemq')
  BY <1>2, <1>4, PushRing DEF TypeOK
<1>6. OneCall'
  BY <1>1 DEF OneCall
<1>7. CallState'
  BY <1>1, <1>2, <1>3, <1>4, <1>5 DEF CallState, ConsHolds, RingHead
<1>8. OneOwner'
  <2>1. NotIn(itemq, pslot[p]) /\ NotIn(freeq, pslot[p]) /\ (ConsHolds => cslot # pslot[p])
    BY <1>3 DEF OneOwner
  <2>2. NoDuplicate(itemq')
    BY <1>4, <1>5, <2>1 DEF OneOwner, NoDuplicate, NotIn
  <2>3. \A i \in Index : InRing(itemq', i) => NotIn(freeq', itemq'.elem[i])
    BY <1>2, <1>4, <1>5, <2>1 DEF OneOwner
  <2>4. ConsHolds => NotIn(itemq', cslot)
    BY <1>4, <1>5, <2>1 DEF OneOwner, NotIn
  <2>5. QED
    BY <1>2, <1>3, <2>2, <2>3, <2>4 DEF OneOwner, ConsHolds
<1>9. Accounted'
  BY <1>2, <1>3, <1>5, RingLenBounds, ItemNumAssumption DEF Accounted, InHands, ConsHolds, TypeOK
<1>10. QED
  BY <1>6, <1>7, <1>8, <1>9

\* "Queue full!" needs a full item ring and a slot in hand: one slot too many.
LEMMA NotFull ==
  ASSUME Before
  PROVE  /\ \A p \in Producers : ProdHolds(p) => ~RingFull(itemq) /\ ~RingFull(freeq)
         /\ ConsHolds => ~RingFull(itemq) /\ ~RingFull(freeq)
<1>1. /\ RingLen(freeq) \in Nat /\ RingLen(itemq) \in Nat
      /\ RingFull(freeq) => RingLen(freeq) = ItemNum - 1
      /\ RingFull(itemq) => RingLen(itemq) = ItemNum - 1
  BY RingLenBounds, ItemNumAssumption DEF Before, TypeOK
<1>2. RingLen(freeq) + RingLen(itemq) + InHands = ItemNum - 1
  BY DEF Before, Accounted
<1>3. ASSUME NEW p \in Producers, ProdHolds(p) PROVE InHands >= 1
  BY <1>3 DEF InHands
<1>4. ConsHolds => InHands >= 1
  BY DEF InHands
<1>5. InHands \in Nat
  BY DEF InHands
<1>6. QED
  BY <1>1, <1>2, <1>3, <1>4, <1>5, ItemNumAssumption

LEMMA DeqTakeInv ==
  ASSUME DeqTake, Before
  PROVE  After
<1> USE DEF Before, After
<1>1. UNCHANGED <<freeq, itemq, pc, pslot>> /\ cpc' = "taken" /\ cpc = "idle"
      /\ ~RingEmpty(itemq) /\ cslot' = RingHead(itemq)
  BY DEF DeqTake, prodVars
<1>2. ~ConsHolds /\ ~ConsHolds' /\ \A q \in Producers : ProdHolds(q)' <=> ProdHolds(q)
  BY <1>1 DEF ConsHolds, ProdHolds
<1>3. OneCall'
  BY <1>1 DEF OneCall
<1>4. CallState'
  BY <1>1, <1>2 DEF CallState
<1>5. OneOwner'
  BY <1>1, <1>2 DEF OneOwner
<1>6. Accounted'
  BY <1>1, <1>2 DEF Accounted, InHands
<1>7. QED
  BY <1>3, <1>4, <1>5, <1>6

LEMMA DeqAdvanceInv ==
  ASSUME DeqAdvance, Before
  PROVE  After
<1> USE DEF Before, After
<1>1. UNCHANGED <<freeq, pc, pslot, cslot>> /\ cpc' = "use" /\ cpc = "taken"
      /\ itemq' = RingPop(itemq)
  BY DEF DeqAdvance, prodVars
<1>2. ~ConsHolds /\ ConsHolds' /\ \A q \in Producers : ProdHolds(q)' <=> ProdHolds(q)
  BY <1>1 DEF ConsHolds, ProdHolds
<1>3. ~RingEmpty(itemq) /\ cslot = itemq.elem[itemq.rd] /\ itemq.rd \in Index
  BY <1>1 DEF CallState, RingHead, TypeOK, Ring
<1>4. /\ itemq' \in Ring
      /\ itemq'.elem = itemq.elem
      /\ itemq'.wr = itemq.wr
      /\ InRing(itemq, itemq.rd)
      /\ \A i \in Index : InRing(itemq', i) <=> InRing(itemq, i) /\ i # itemq.rd
      /\ RingLen(itemq') = RingLen(itemq) - 1
      /\ RingLen(itemq) \in 1 .. ItemNum - 1
  BY <1>1, <1>3, PopRing DEF TypeOK
<1>5. ~RingFull(itemq')
  BY <1>4, RingLenBounds, ItemNumAssumption
<1>6. OneCall'
  BY <1>1 DEF OneCall
<1>7. CallState'
  <2>1. cslot \in Slots
    BY <1>3, <1>4 DEF CallState
  <2>2. QED
    BY <1>1, <1>2, <1>4, <1>5, <2>1 DEF CallState
<1>8. OneOwner'
  <2>1. NoDuplicate(itemq')
    BY <1>4 DEF OneOwner, NoDuplicate
  <2>2. NotIn(itemq', cslot)
    BY <1>3, <1>4 DEF OneOwner, NoDuplicate, NotIn
  <2>3. NotIn(freeq, cslot)
    BY <1>3, <1>4 DEF OneOwner
  <2>4. \A q \in Producers : ProdHolds(q) => cslot # pslot[q]
    BY <1>3, <1>4 DEF OneOwner, NotIn
  <2>5. \A s : NotIn(itemq, s) => NotIn(itemq', s)
    BY <1>4 DEF NotIn
  <2>6. \A i \in Index : InRing(itemq', i) => NotIn(freeq', itemq'.elem[i])
    BY <1>1, <1>4 DEF OneOwner
  <2>7. QED
    BY <1>1, <1>2, <2>1, <2>2, <2>3, <2>4, <2>5, <2>6 DEF OneOwner
<1>9. Accounted'
  BY <1>1, <1>2, <1>4, RingLenBounds, ItemNumAssumption DEF Accounted, InHands, TypeOK
<1>10. QED
  BY <1>6, <1>7, <1>8, <1>9

LEMMA RetStoreInv ==
  ASSUME RetStore, Before
  PROVE  After
<1> USE DEF Before, After
<1>1. UNCHANGED <<itemq, pc, pslot, cslot>> /\ cpc' = "publish" /\ cpc = "use"
      /\ freeq' = RingStore(freeq, cslot) /\ ~RingFull(freeq) /\ cslot \in Slots
  BY DEF RetStore, prodVars
<1>2. ConsHolds /\ ConsHolds' /\ \A q \in Producers : ProdHolds(q)' <=> ProdHolds(q)
  BY <1>1 DEF ConsHolds, ProdHolds
<1>3. /\ freeq'.rd = freeq.rd
      /\ freeq'.wr = freeq.wr
      /\ freeq'.elem[freeq.wr] = cslot
      /\ \A i \in Index : i # freeq.wr => freeq'.elem[i] = freeq.elem[i]
      /\ \A i \in Index : InRing(freeq', i) <=> InRing(freeq, i)
      /\ RingLen(freeq') = RingLen(freeq)
      /\ ~RingFull(freeq')
      /\ RingEmpty(freeq') <=> RingEmpty(freeq)
  BY <1>1, StoreRing DEF TypeOK
<1>4. ~InRing(freeq, freeq.wr) /\ (~RingEmpty(freeq) => InRing(freeq, freeq.rd))
  BY <1>1, PushRing, PopRing DEF TypeOK
<1>5. freeq.rd \in Index /\ freeq.wr \in Index
  BY DEF TypeOK, Ring
<1>6. \A i \in Index : InRing(freeq, i) => freeq'.elem[i] = freeq.elem[i]
  BY <1>3, <1>4
<1>7. OneCall'
  BY <1>1 DEF OneCall
<1>8. CallState'
  <2>1. \A p \in Producers : pc[p] = "taken" => ~RingEmpty(freeq') /\ pslot[p] = RingHead(freeq')
    BY <1>3, <1>4, <1>5, <1>6 DEF CallState, RingHead
  <2>2. QED
    BY <1>1, <1>2, <1>3, <1>6, <2>1 DEF CallState
<1>9. OneOwner'
  <2>1. NoDuplicate(freeq')
    BY <1>3, <1>6 DEF OneOwner, NoDuplicate
  <2>2. \A s : NotIn(freeq, s) <=> NotIn(freeq', s)
    BY <1>3, <1>6 DEF NotIn
  <2>3. QED
    BY <1>1, <1>2, <2>1, <2>2 DEF OneOwner
<1>10. Accounted'
  BY <1>1, <1>2, <1>3 DEF Accounted, InHands
<1>11. QED
  BY <1>7, <1>8, <1>9, <1>10

LEMMA RetPublishInv ==
  ASSUME RetPublish, Before
  PROVE  After
<1> USE DEF Before, After
<1>1. UNCHANGED <<itemq, pc, pslot>> /\ cpc' = "idle" /\ cpc = "publish"
      /\ freeq' = RingPush(freeq)
  BY DEF RetPublish, prodVars
<1>2. ConsHolds /\ ~ConsHolds' /\ \A q \in Producers : ProdHolds(q)' <=> ProdHolds(q)
  BY <1>1 DEF ConsHolds, ProdHolds
<1>3. /\ ~RingFull(freeq) /\ freeq.elem[freeq.wr] = cslot /\ cslot \in Slots
      /\ freeq.wr \in Index
  BY <1>1, <1>2 DEF CallState, TypeOK, Ring
<1>4. /\ freeq'.elem = freeq.elem
      /\ freeq'.rd = freeq.rd
      /\ \A i \in Index : InRing(freeq', i) <=> InRing(freeq, i) \/ i = freeq.wr
      /\ RingLen(freeq') = RingLen(freeq) + 1
      /\ ~RingEmpty(freeq')
  BY <1>1, <1>3, PushRing DEF TypeOK
<1>5. OneCall'
  BY <1>1 DEF OneCall
<1>6. CallState'
  BY <1>1, <1>2, <1>3, <1>4 DEF CallState, RingHead
<1>7. OneOwner'
  <2>1. NotIn(freeq, cslot) /\ NotIn(itemq, cslot)
    BY <1>2 DEF OneOwner
  <2>2. NoDuplicate(freeq')
    BY <1>3, <1>4, <2>1 DEF OneOwner, NoDuplicate, NotIn
  <2>3. \A i \in Index : InRing(itemq', i) => NotIn(freeq', itemq'.elem[i])
    BY <1>1, <1>3, <1>4, <2>1 DEF OneOwner, NotIn
  <2>4. \A q \in Producers : ProdHolds(q) => NotIn(freeq', pslot[q])
    BY <1>2, <1>3, <1>4 DEF OneOwner, NotIn
  <2>5. QED
    BY <1>1, <1>2, <2>2, <2>3, <2>4 DEF OneOwner
<1>8. Accounted'
  BY <1>1, <1>2, <1>4, RingLenBounds, ItemNumAssumption DEF Accounted, InHands, TypeOK
<1>9. QED
  BY <1>5, <1>6, <1>7, <1>8

LEMMA NextInv == IInv /\ [Next]_vars => IInv'
<1> SUFFICES ASSUME IInv, [Next]_vars PROVE IInv'
  OBVIOUS
<1>1. TypeOK'
  BY NextType DEF IInv
<1>2. ASSUME ~overlap' PROVE After
  <2>1. Before
    <3>1. ~overlap
      BY <1>2 DEF IInv, TypeOK, Next, EnqTake, EnqRest, EnqAdvance, EnqCopy, EnqStore,
                  EnqPublish, EnqFull, Consume, DeqTake, DeqAdvance, RetStore, RetPublish,
                  RetFull, prodVars, vars
    <3>2. QED
      BY <3>1 DEF IInv, Before
  <2>2. ASSUME NEW p \in Producers, NEW m \in Payloads, EnqTake(p, m) PROVE After
    BY <1>2, <2>1, <2>2, EnqTakeInv
  <2>3. ASSUME NEW p \in Producers, EnqFull(p) PROVE After
    BY <2>1, <2>3, NotFull DEF EnqFull, ProdHolds
  <2>4. CASE RetFull
    BY <2>1, <2>4, NotFull DEF RetFull, ConsHolds
  <2>5. CASE UNCHANGED vars
    BY <2>1, <2>5 DEF vars, Before, After, OneCall, CallState, OneOwner, Accounted, InHands,
                      ProdHolds, ConsHolds
  <2>6. QED
    BY <2>1, <2>2, <2>3, <2>4, <2>5, EnqAdvanceInv, EnqCopyInv, EnqStoreInv, EnqPublishInv,
       DeqTakeInv, DeqAdvanceInv, RetStoreInv, RetPublishInv DEF Next, EnqRest, Consume
<1>3. QED
  BY <1>1, <1>2 DEF IInv, After

LEMMA Invariance == Spec => []IInv
BY InitInv, NextInv, PTL DEF Spec

\* As long as no two calls of queue_bss_enqueue overlap, no slot has two owners,
\* for every number of producers and every queue size.
THEOREM Exclusive == Spec => []ExclusiveUnlessOverlap
<1>1. IInv => ExclusiveUnlessOverlap
  BY DEF IInv, ExclusiveUnlessOverlap
<1>2. QED
  BY <1>1, Invariance, PTL

\* Nor is a ring ever full: "Queue full!" and the refused return are unreachable.
THEOREM NeverFull == Spec => []NeverFullUnlessOverlap
<1>1. IInv => NeverFullUnlessOverlap
  BY NotFull DEF IInv, NeverFullUnlessOverlap, Before, ProdHolds, ConsHolds
<1>2. QED
  BY <1>1, Invariance, PTL

(***************************************************************************)
(* The refinement of FbChannel.  The mapping reads the pending messages    *)
(* out of the ring, from the read index on and around its end.             *)
(***************************************************************************)
\* The position of the k-th element of ring q.
Place(q, k) == (q.rd + k - 1) % ItemNum

LEMMA Around ==
  ASSUME NEW i \in Int, i >= 0, i < ItemNum + ItemNum
  PROVE  i % ItemNum = IF i < ItemNum THEN i ELSE i - ItemNum
BY ItemNumAssumption

LEMMA PlaceOf ==
  ASSUME NEW q \in Ring, NEW k \in 1 .. ItemNum
  PROVE  Place(q, k) = IF q.rd + k - 1 < ItemNum THEN q.rd + k - 1 ELSE q.rd + k - 1 - ItemNum
<1>1. q.rd \in 0 .. ItemNum - 1
  BY DEF Ring, Index
<1>2. /\ q.rd + k - 1 \in Int
      /\ q.rd + k - 1 >= 0
      /\ q.rd + k - 1 < ItemNum + ItemNum
  BY <1>1, ItemNumAssumption
<1>3. PICK i \in Int : i = q.rd + k - 1
  BY <1>2
<1>4. i % ItemNum = IF i < ItemNum THEN i ELSE i - ItemNum
  BY <1>2, <1>3, Around
<1>5. Place(q, k) = i % ItemNum
  BY <1>3 DEF Place
<1>6. Place(q, k) = IF i < ItemNum THEN i ELSE i - ItemNum
  BY <1>4, <1>5
<1>7. CASE i < ItemNum
  BY <1>1, <1>3, <1>6, <1>7, ItemNumAssumption
<1>8. CASE ~(i < ItemNum)
  BY <1>1, <1>3, <1>6, <1>8, ItemNumAssumption
<1>9. QED
  BY <1>7, <1>8

LEMMA Places ==
  ASSUME NEW q \in Ring
  PROVE  /\ \A k \in 1 .. RingLen(q) : Place(q, k) \in Index /\ InRing(q, Place(q, k))
         /\ RingLen(q) < ItemNum - 1 =>
              Place(q, RingLen(q) + 1) = q.wr
         /\ Place(q, 1) = q.rd
<1>1. q.rd \in 0 .. ItemNum - 1 /\ q.wr \in 0 .. ItemNum - 1 /\ RingLen(q) \in 0 .. ItemNum - 1
  BY RingLenBounds DEF Ring, Index
<1>2. ASSUME NEW k \in 1 .. RingLen(q) PROVE Place(q, k) \in Index /\ InRing(q, Place(q, k))
  <2>1. k \in 1 .. ItemNum
    BY <1>1, ItemNumAssumption
  <2>2. QED
    BY <1>1, <2>1, PlaceOf, ItemNumAssumption DEF InRing, RingLen, Index
<1>3. ASSUME RingLen(q) < ItemNum - 1 PROVE Place(q, RingLen(q) + 1) = q.wr
  <2>1. RingLen(q) + 1 \in 1 .. ItemNum
    BY <1>1, ItemNumAssumption
  <2>2. QED
    BY <1>1, <2>1, PlaceOf, ItemNumAssumption DEF RingLen
<1>4. Place(q, 1) = q.rd
  <2>1. 1 \in 1 .. ItemNum
    BY ItemNumAssumption
  <2>2. QED
    BY <1>1, <2>1, PlaceOf, ItemNumAssumption
<1>5. QED
  BY <1>2, <1>3, <1>4

LEMMA PlacesMoved ==
  ASSUME NEW q \in Ring, NEW r \in Ring
  PROVE  /\ r.rd = q.rd => \A k : Place(r, k) = Place(q, k)
         /\ r.rd = Succ(q.rd) => \A k \in 1 .. ItemNum - 1 : Place(r, k) = Place(q, k + 1)
<1>1. q.rd \in 0 .. ItemNum - 1 /\ r.rd \in 0 .. ItemNum - 1
  BY DEF Ring, Index
<1>2. ASSUME r.rd = Succ(q.rd), NEW k \in 1 .. ItemNum - 1 PROVE Place(r, k) = Place(q, k + 1)
  <2>1. k \in 1 .. ItemNum /\ k + 1 \in 1 .. ItemNum
    BY ItemNumAssumption
  <2>2. QED
    BY <1>1, <1>2, <2>1, PlaceOf, ItemNumAssumption DEF Succ
<1>3. QED
  BY <1>2 DEF Place

\* A function on 1 .. n is a sequence, known by its elements.
LEMMA SeqOf ==
  ASSUME NEW S, NEW n \in Nat, NEW f \in [1 .. n -> S]
  PROVE  f \in Seq(S) /\ Len(f) = n
OBVIOUS

LEMMA Appended ==
  ASSUME NEW S, NEW q \in Seq(S), NEW r \in Seq(S), NEW e \in S,
         Len(r) = Len(q) + 1, r[Len(r)] = e, \A k \in 1 .. Len(q) : r[k] = q[k]
  PROVE  r = Append(q, e)
<1>1. /\ Append(q, e) \in Seq(S)
      /\ Len(Append(q, e)) = Len(q) + 1
      /\ \A k \in 1 .. Len(q) : Append(q, e)[k] = q[k]
      /\ Append(q, e)[Len(q) + 1] = e
  BY AppendProperties
<1>2. Len(q) \in Nat
  OBVIOUS
<1>3. \A k \in 1 .. Len(r) : r[k] = Append(q, e)[k]
  BY <1>1, <1>2
<1>4. QED
  BY <1>1, <1>3, SeqEqual

LEMMA Popped ==
  ASSUME NEW S, NEW q \in Seq(S), NEW r \in Seq(S), q # <<>>,
         Len(r) = Len(q) - 1, \A k \in 1 .. Len(r) : r[k] = q[k + 1]
  PROVE  r = Tail(q) /\ Head(q) = q[1]
<1>1. /\ Tail(q) \in Seq(S)
      /\ Len(Tail(q)) = Len(q) - 1
      /\ \A k \in 1 .. Len(Tail(q)) : Tail(q)[k] = q[k + 1]
  BY HeadTailProperties
<1>2. r = Tail(q)
  BY <1>1, SeqEqual
<1>3. QED
  BY <1>2

\* What a producer has at hand is the message it was called with, and is in
\* its slot once copied.
Copied ==
  \A p \in Producers :
    /\ pc[p] # "idle" => msg[p] \in Payloads
    /\ pc[p] \in {"store", "publish"} => item[pslot[p]] = msg[p]

CInv == IInv /\ (~overlap => Copied)

LEMMA CopiedKept ==
  ASSUME Before, Copied, Next, ~overlap'
  PROVE  Copied'
<1> USE DEF Copied
<1>1. ASSUME NEW p \in Producers, NEW m \in Payloads, EnqTake(p, m) PROVE Copied'
  <2>1. \A q \in Producers : pc[q] = "idle"
    BY <1>1 DEF EnqTake
  <2>2. \A q \in Producers : pc'[q] = IF q = p THEN "taken" ELSE "idle"
    BY <1>1, <2>1 DEF EnqTake, Before, TypeOK
  <2>3. msg'[p] = m
    BY <1>1 DEF EnqTake, Before, TypeOK
  <2>4. QED
    BY <2>2, <2>3
<1>2. ASSUME NEW p \in Producers, EnqAdvance(p) PROVE Copied'
  BY <1>2 DEF EnqAdvance, Before, TypeOK
<1>3. ASSUME NEW p \in Producers, EnqCopy(p) PROVE Copied'
  <2>1. \A q \in Producers : pc'[q] = IF q = p THEN "store" ELSE pc[q]
    BY <1>3 DEF EnqCopy, Before, TypeOK
  <2>2. \A q \in Producers : q # p => pc[q] = "idle"
    BY <1>3 DEF EnqCopy, Before, OneCall
  <2>3. item'[pslot'[p]] = msg'[p] /\ msg' = msg /\ pc[p] = "copy"
    BY <1>3 DEF EnqCopy, Before, TypeOK
  <2>4. QED
    BY <2>1, <2>2, <2>3
<1>4. ASSUME NEW p \in Producers, EnqStore(p) PROVE Copied'
  BY <1>4 DEF EnqStore, Before, TypeOK
<1>5. ASSUME NEW p \in Producers, EndCall(p), UNCHANGED item PROVE Copied'
  <2>1. \A q \in Producers :
          /\ pc'[q] = IF q = p THEN "idle" ELSE pc[q]
          /\ q # p => pslot'[q] = pslot[q] /\ msg'[q] = msg[q]
    BY <1>5 DEF EndCall, Before, TypeOK
  <2>2. QED
    BY <1>5, <2>1
<1>6. ASSUME Consume PROVE Copied'
  BY <1>6 DEF Consume, DeqTake, DeqAdvance, RetStore, RetPublish, RetFull, prodVars
<1>7. QED
  BY <1>1, <1>2, <1>3, <1>4, <1>5, <1>6 DEF Next, EnqRest, EnqPublish, EnqFull

LEMMA CInvariance == Spec => []CInv
<1>1. Init => Copied
  BY DEF Init, Copied
<1>2. CInv /\ IInv' /\ [Next]_vars => CInv'
  <2> SUFFICES ASSUME CInv, IInv', [Next]_vars, ~overlap' PROVE Copied'
    BY DEF CInv
  <2>1. CASE UNCHANGED vars
    BY <2>1 DEF vars, CInv, Copied
  <2>2. CASE Next
    <3>1. ~overlap
      BY <2>2 DEF CInv, IInv, TypeOK, Next, EnqTake, EnqRest, EnqAdvance, EnqCopy, EnqStore,
                  EnqPublish, EnqFull, Consume, DeqTake, DeqAdvance, RetStore, RetPublish,
                  RetFull, prodVars, vars
    <3>2. Before /\ Copied
      BY <3>1 DEF CInv, IInv, Before
    <3>3. QED
      BY <2>2, <3>2, CopiedKept
  <2>3. QED
    BY <2>1, <2>2
<1>3. Init => CInv
  BY <1>1, InitInv DEF CInv
<1>4. QED
  BY <1>2, <1>3, Invariance, PTL DEF Spec

\* The consumer's message, as the mapping has it.
gotItem == IF ConsHolds THEN item[cslot] ELSE Garbage

Contents == Payloads \cup {Garbage}

\* The items f of the slots in ring q, in their order.
ItemsOf(q, f) == [k \in 1 .. RingLen(q) |-> f[q.elem[Place(q, k)]]]

LEMMA ItemsSeq ==
  ASSUME NEW q \in Ring, NEW f \in [Slots -> Contents],
         \A i \in Index : InRing(q, i) => q.elem[i] \in Slots
  PROVE  /\ ItemsOf(q, f) \in Seq(Contents)
         /\ Len(ItemsOf(q, f)) = RingLen(q)
         /\ \A k \in 1 .. RingLen(q) : ItemsOf(q, f)[k] = f[q.elem[Place(q, k)]]
<1>1. RingLen(q) \in Nat
  BY RingLenBounds, ItemNumAssumption
<1>2. ASSUME NEW k \in 1 .. RingLen(q) PROVE f[q.elem[Place(q, k)]] \in Contents
  BY Places
<1>3. ItemsOf(q, f) \in [1 .. RingLen(q) -> Contents]
  BY <1>2 DEF ItemsOf
<1>4. QED
  BY <1>1, <1>3, SeqOf DEF ItemsOf

LEMMA PendingSeq ==
  ASSUME Before
  PROVE  /\ pendingItems = ItemsOf(itemq, item)
         /\ itemq \in Ring /\ item \in [Slots -> Contents]
         /\ \A i \in Index : InRing(itemq, i) => itemq.elem[i] \in Slots
BY DEF Before, TypeOK, CallState, Contents, pendingItems, ItemsOf, Place

LEMMA PendingNext ==
  ASSUME TypeOK', CallState'
  PROVE  /\ pendingItems' = ItemsOf(itemq', item')
         /\ itemq' \in Ring /\ item' \in [Slots -> Contents]
         /\ \A i \in Index : InRing(itemq', i) => itemq'.elem[i] \in Slots
BY DEF TypeOK, CallState, Contents, pendingItems, ItemsOf, Place, Ring, InRing, RingLen, Index, Slots

\* The mapping depends on the item ring and on the slots it holds.
LEMMA SameItems ==
  ASSUME NEW q \in Ring, NEW f \in [Slots -> Contents],
         NEW r \in Ring, NEW g \in [Slots -> Contents],
         \A i \in Index : InRing(q, i) => q.elem[i] \in Slots,
         r.rd = q.rd, RingLen(r) = RingLen(q),
         \A i \in Index : InRing(q, i) => r.elem[i] = q.elem[i] /\ g[q.elem[i]] = f[q.elem[i]]
  PROVE  ItemsOf(r, g) = ItemsOf(q, f)
<1>1. \A k \in 1 .. RingLen(q) :
        /\ Place(q, k) \in Index /\ InRing(q, Place(q, k))
        /\ Place(r, k) = Place(q, k)
  BY Places, PlacesMoved
<1>2. QED
  BY <1>1 DEF ItemsOf

\* An element stored and made visible is appended.
LEMMA PushedItem ==
  ASSUME NEW q \in Ring, NEW f \in [Slots -> Contents], NEW s \in Slots,
         \A i \in Index : InRing(q, i) => q.elem[i] \in Slots,
         ~RingFull(q), q.elem[q.wr] = s
  PROVE  ItemsOf(RingPush(q), f) = Append(ItemsOf(q, f), f[s])
<1>1. PICK r \in Ring : r = RingPush(q)
  BY PushRing
<1>2. /\ r.elem = q.elem /\ r.rd = q.rd
      /\ \A i \in Index : InRing(r, i) <=> InRing(q, i) \/ i = q.wr
      /\ RingLen(r) = RingLen(q) + 1
  BY <1>1, PushRing
<1>3. RingLen(q) \in 0 .. ItemNum - 1 /\ RingLen(q) # ItemNum - 1
  BY RingLenBounds
<1>4. /\ ItemsOf(q, f) \in Seq(Contents)
      /\ Len(ItemsOf(q, f)) = RingLen(q)
      /\ \A k \in 1 .. RingLen(q) : ItemsOf(q, f)[k] = f[q.elem[Place(q, k)]]
  BY ItemsSeq
<1>5. /\ ItemsOf(r, f) \in Seq(Contents)
      /\ Len(ItemsOf(r, f)) = RingLen(r)
      /\ \A k \in 1 .. RingLen(r) : ItemsOf(r, f)[k] = f[r.elem[Place(r, k)]]
  BY <1>2, ItemsSeq
<1>6. \A k : Place(r, k) = Place(q, k)
  BY <1>2, PlacesMoved
<1>7. Place(q, RingLen(q) + 1) = q.wr
  BY <1>3, Places, ItemNumAssumption
<1>8. ItemsOf(r, f)[RingLen(q) + 1] = f[s]
  <2>1. RingLen(q) + 1 \in 1 .. RingLen(r)
    BY <1>2, <1>3
  <2>2. QED
    BY <1>2, <1>5, <1>6, <1>7, <2>1
<1>9. \A k \in 1 .. RingLen(q) : ItemsOf(r, f)[k] = ItemsOf(q, f)[k]
  BY <1>2, <1>3, <1>4, <1>5, <1>6
<1>10. f[s] \in Contents
  OBVIOUS
<1>11. QED
  BY <1>1, <1>2, <1>4, <1>5, <1>8, <1>9, <1>10, Appended

\* An element taken out was the first.
LEMMA PoppedItem ==
  ASSUME NEW q \in Ring, NEW f \in [Slots -> Contents],
         \A i \in Index : InRing(q, i) => q.elem[i] \in Slots,
         ~RingEmpty(q)
  PROVE  /\ ItemsOf(q, f) # <<>>
         /\ ItemsOf(RingPop(q), f) = Tail(ItemsOf(q, f))
         /\ f[RingHead(q)] = Head(ItemsOf(q, f))
<1>1. PICK r \in Ring : r = RingPop(q)
  BY PopRing
<1>2. /\ r.elem = q.elem /\ r.rd = Succ(q.rd)
      /\ \A i \in Index : InRing(r, i) => InRing(q, i)
      /\ RingLen(r) = RingLen(q) - 1
      /\ RingLen(q) \in 1 .. ItemNum - 1
  BY <1>1, PopRing DEF RingPop, Ring
<1>3. /\ ItemsOf(q, f) \in Seq(Contents)
      /\ Len(ItemsOf(q, f)) = RingLen(q)
      /\ \A k \in 1 .. RingLen(q) : ItemsOf(q, f)[k] = f[q.elem[Place(q, k)]]
  BY ItemsSeq
<1>4. /\ ItemsOf(r, f) \in Seq(Contents)
      /\ Len(ItemsOf(r, f)) = RingLen(r)
      /\ \A k \in 1 .. RingLen(r) : ItemsOf(r, f)[k] = f[r.elem[Place(r, k)]]
  BY <1>2, ItemsSeq
<1>5. \A k \in 1 .. RingLen(r) : Place(r, k) = Place(q, k + 1)
  BY <1>2, PlacesMoved, ItemNumAssumption
<1>6. ItemsOf(q, f) # <<>>
  BY <1>2, <1>3
<1>7. \A k \in 1 .. RingLen(r) : ItemsOf(r, f)[k] = ItemsOf(q, f)[k + 1]
  BY <1>2, <1>3, <1>4, <1>5, ItemNumAssumption
<1>8. ItemsOf(q, f)[1] = f[RingHead(q)]
  BY <1>2, <1>3, Places, ItemNumAssumption DEF RingHead
<1>9. QED
  BY <1>1, <1>2, <1>3, <1>4, <1>6, <1>7, <1>8, Popped

(***************************************************************************)
(* Every step of the queue is a step of the channel or none of it.         *)
(***************************************************************************)
LEMMA ChannelInit == Init => Channel!ChanInit
<1> SUFFICES ASSUME Init PROVE Channel!ChanInit
  OBVIOUS
<1>1. RingLen(itemq) = 0 /\ ~ConsHolds
  BY DEF Init, RingLen, ConsHolds
<1>2. pendingItems = <<>>
  BY <1>1 DEF pendingItems
<1>3. QED
  BY <1>1, <1>2 DEF Channel!ChanInit

\* The step leaves the channel as it is: neither the slots in the item ring nor
\* the consumer's are touched.
LEMMA NoChannelStep ==
  ASSUME Before, After, TypeOK',
         itemq'.rd = itemq.rd, RingLen(itemq') = RingLen(itemq),
         \A i \in Index : InRing(itemq, i) =>
           /\ itemq'.elem[i] = itemq.elem[i]
           /\ item'[itemq.elem[i]] = item[itemq.elem[i]],
         gotItem' = gotItem
  PROVE  UNCHANGED Channel!chanVars
<1>1. /\ pendingItems = ItemsOf(itemq, item)
      /\ itemq \in Ring /\ item \in [Slots -> Contents]
      /\ \A i \in Index : InRing(itemq, i) => itemq.elem[i] \in Slots
  BY PendingSeq
<1>2. /\ pendingItems' = ItemsOf(itemq', item')
      /\ itemq' \in Ring /\ item' \in [Slots -> Contents]
  BY PendingNext DEF After
<1>3. pendingItems' = pendingItems
  BY <1>1, <1>2, SameItems
<1>4. QED
  BY <1>3 DEF Channel!chanVars, gotItem

LEMMA ChannelStep ==
  ASSUME Before, After, TypeOK', Copied, Next
  PROVE  [Channel!ChanNext]_(Channel!chanVars)
<1>a. itemq \in Ring /\ item \in [Slots -> Contents] /\ pendingItems = ItemsOf(itemq, item)
      /\ \A i \in Index : InRing(itemq, i) => itemq.elem[i] \in Slots
  BY PendingSeq
<1>b. pendingItems' = ItemsOf(itemq', item')
  BY PendingNext DEF After
<1>1. ASSUME NEW p \in Producers, NEW m \in Payloads, EnqTake(p, m) PROVE UNCHANGED Channel!chanVars
  BY <1>1, NoChannelStep DEF EnqTake, consVars, gotItem, ConsHolds
<1>2. ASSUME NEW p \in Producers, EnqAdvance(p) PROVE UNCHANGED Channel!chanVars
  BY <1>2, NoChannelStep DEF EnqAdvance, consVars, gotItem, ConsHolds
<1>3. ASSUME NEW p \in Producers, EnqCopy(p) PROVE UNCHANGED Channel!chanVars
  <2>1. /\ ProdHolds(p) /\ pslot[p] \in Slots
        /\ UNCHANGED <<itemq, cpc, cslot>>
        /\ \A s \in Slots : s # pslot[p] => item'[s] = item[s]
    BY <1>3 DEF EnqCopy, ProdHolds, consVars, Before, TypeOK
  <2>2. NotIn(itemq, pslot[p]) /\ (ConsHolds => cslot # pslot[p] /\ cslot \in Slots)
    BY <2>1 DEF Before, OneOwner, CallState
  <2>3. \A i \in Index : InRing(itemq, i) => item'[itemq.elem[i]] = item[itemq.elem[i]]
    BY <1>a, <2>1, <2>2 DEF NotIn
  <2>4. gotItem' = gotItem
    BY <2>1, <2>2 DEF gotItem, ConsHolds
  <2>5. QED
    BY <2>1, <2>3, <2>4, NoChannelStep
<1>4. ASSUME NEW p \in Producers, EnqStore(p) PROVE UNCHANGED Channel!chanVars
  <2>1. /\ pslot[p] \in Slots /\ itemq' = RingStore(itemq, pslot[p]) /\ ~RingFull(itemq)
        /\ UNCHANGED <<item, cpc, cslot>>
    BY <1>4 DEF EnqStore, ProdHolds, consVars, Before, CallState
  <2>2. /\ itemq'.rd = itemq.rd /\ RingLen(itemq') = RingLen(itemq)
        /\ \A i \in Index : i # itemq.wr => itemq'.elem[i] = itemq.elem[i]
    BY <1>a, <2>1, StoreRing
  <2>3. ~InRing(itemq, itemq.wr)
    BY <1>a, <2>1, PushRing
  <2>4. gotItem' = gotItem
    BY <2>1 DEF gotItem, ConsHolds
  <2>5. QED
    BY <2>1, <2>2, <2>3, <2>4, NoChannelStep
<1>5. ASSUME NEW p \in Producers, EnqPublish(p) PROVE \E m \in Payloads : Channel!Send(m)
  <2>1. /\ ProdHolds(p) /\ pslot[p] \in Slots /\ ~RingFull(itemq)
        /\ itemq.elem[itemq.wr] = pslot[p] /\ itemq' = RingPush(itemq)
        /\ UNCHANGED <<item, cpc, cslot>>
    BY <1>5 DEF EnqPublish, ProdHolds, consVars, Before, CallState
  <2>2. item[pslot[p]] = msg[p] /\ msg[p] \in Payloads
    BY <1>5 DEF EnqPublish, Copied
  <2>3. pendingItems' = Append(pendingItems, msg[p])
    BY <1>a, <1>b, <2>1, <2>2, PushedItem
  <2>4. gotItem' = gotItem
    BY <2>1 DEF gotItem, ConsHolds
  <2>5. Len(pendingItems) + (IF gotItem = Garbage THEN 0 ELSE 1) < ItemNum - 1
    <3>1. Len(pendingItems) = RingLen(itemq)
      BY <1>a, ItemsSeq
    <3>2. RingLen(freeq) \in Nat /\ RingLen(itemq) \in Nat
      BY RingLenBounds, ItemNumAssumption DEF Before, TypeOK
    <3>3. RingLen(freeq) + RingLen(itemq) + (1 + IF ConsHolds THEN 1 ELSE 0) = ItemNum - 1
      BY <2>1 DEF Before, Accounted, InHands
    <3>4. (IF gotItem = Garbage THEN 0 ELSE 1) <= (IF ConsHolds THEN 1 ELSE 0)
      BY DEF gotItem
    <3>5. QED
      BY <3>1, <3>2, <3>3, <3>4, ItemNumAssumption
  <2>6. Channel!Send(msg[p])
    BY <2>3, <2>4, <2>5 DEF Channel!Send, Channel!Outstanding, gotItem
  <2>7. QED
    BY <2>2, <2>6
<1>6. ASSUME NEW p \in Producers, EnqFull(p) PROVE FALSE
  BY <1>6, NotFull DEF EnqFull, ProdHolds
<1>7. CASE DeqTake
  <2>1. UNCHANGED <<itemq, item>> /\ ~ConsHolds /\ ~ConsHolds'
    BY <1>7 DEF DeqTake, prodVars, ConsHolds
  <2>2. QED
    BY <2>1, NoChannelStep DEF gotItem
<1>8. ASSUME DeqAdvance PROVE Channel!Receive
  <2>1. /\ itemq' = RingPop(itemq) /\ UNCHANGED <<item, cslot>>
        /\ ~ConsHolds /\ ConsHolds' /\ ~RingEmpty(itemq) /\ cslot = RingHead(itemq)
    BY <1>8 DEF DeqAdvance, prodVars, ConsHolds, Before, CallState
  <2>2. /\ pendingItems # <<>> /\ pendingItems' = Tail(pendingItems)
        /\ item[cslot] = Head(pendingItems)
    BY <1>a, <1>b, <2>1, PoppedItem
  <2>3. gotItem = Garbage /\ gotItem' = Head(pendingItems)
    BY <2>1, <2>2 DEF gotItem
  <2>4. QED
    BY <2>2, <2>3 DEF Channel!Receive, gotItem
<1>9. CASE RetStore
  <2>1. UNCHANGED <<itemq, item, cslot>> /\ ConsHolds /\ ConsHolds'
    BY <1>9 DEF RetStore, prodVars, ConsHolds
  <2>2. QED
    BY <2>1, NoChannelStep DEF gotItem
<1>10. ASSUME RetPublish PROVE Channel!Release \/ UNCHANGED Channel!chanVars
  <2>1. UNCHANGED <<itemq, item>> /\ ~ConsHolds'
    BY <1>10 DEF RetPublish, prodVars, ConsHolds
  <2>2. gotItem' = Garbage /\ pendingItems' = pendingItems
    BY <1>a, <1>b, <2>1 DEF gotItem
  <2>3. QED
    BY <2>2 DEF Channel!Release, Channel!chanVars, gotItem
<1>11. CASE RetFull
  BY <1>11, NotFull DEF RetFull, ConsHolds
<1>12. QED
  BY <1>1, <1>2, <1>3, <1>4, <1>5, <1>6, <1>7, <1>8, <1>9, <1>10, <1>11
  DEF Next, EnqRest, Consume, Channel!ChanNext

LEMMA Refines ==
  ASSUME CInv, CInv', [Next]_vars, ~overlap'
  PROVE  [Channel!ChanNext]_(Channel!chanVars)
<1>1. CASE UNCHANGED vars
  BY <1>1 DEF vars, Channel!chanVars, pendingItems, ConsHolds, RingLen
<1>2. CASE Next
  <2>1. ~overlap
    BY <1>2 DEF CInv, IInv, TypeOK, Next, EnqTake, EnqRest, EnqAdvance, EnqCopy, EnqStore,
                EnqPublish, EnqFull, Consume, DeqTake, DeqAdvance, RetStore, RetPublish,
                RetFull, prodVars, vars
  <2>2. Before /\ Copied
    BY <2>1 DEF CInv, IInv, Before
  <2>3. After /\ TypeOK'
    BY DEF CInv, IInv, After
  <2>4. QED
    BY <1>2, <2>2, <2>3, ChannelStep
<1>3. QED
  BY <1>1, <1>2

\* Until two calls of queue_bss_enqueue overlap, whatever the producers and the
\* size, the queue is the bounded loss-free FIFO bt_fb_task and the drivers take
\* it for: nothing is lost, repeated, reordered or changed under way.
THEOREM ChannelUntilOverlap ==
  Spec => /\ Channel!ChanInit
          /\ [][~overlap' => [Channel!ChanNext]_(Channel!chanVars)]_vars
<1>1. CInv /\ CInv' /\ [Next]_vars => [~overlap' => [Channel!ChanNext]_(Channel!chanVars)]_vars
  BY Refines
<1>2. QED
  BY <1>1, ChannelInit, CInvariance, PTL DEF Spec

\* One producer cannot overlap itself, so that for it the queue implements the
\* safety part of FbChannel without exception.
THEOREM ChannelAlone ==
  ASSUME \A p, q \in Producers : p = q
  PROVE  Spec => Channel!ChanInit /\ [][Channel!ChanNext]_(Channel!chanVars)
<1>1. Init => ~overlap
  BY DEF Init
<1>2. ~overlap /\ [Next]_vars => ~overlap'
  <2> SUFFICES ASSUME ~overlap, [Next]_vars PROVE ~overlap'
    OBVIOUS
  <2>1. ASSUME NEW p \in Producers, NEW m \in Payloads, EnqTake(p, m) PROVE ~overlap'
    BY <2>1 DEF EnqTake
  <2>2. QED
    BY <2>1 DEF Next, EnqRest, EnqAdvance, EnqCopy, EnqStore, EnqPublish, EnqFull, Consume,
                DeqTake, DeqAdvance, RetStore, RetPublish, RetFull, prodVars, vars
<1>3. ~overlap' /\ CInv /\ CInv' /\ [Next]_vars => [Channel!ChanNext]_(Channel!chanVars)
  BY Refines
<1>4. QED
  BY <1>1, <1>2, <1>3, ChannelInit, CInvariance, PTL DEF Spec
=============================================================================
