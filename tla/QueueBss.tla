------------------------------ MODULE QueueBss ------------------------------
(***************************************************************************)
(* components/queue_bss/queue_bss.c: the feedback queue between the wired  *)
(* drivers (producers) and bt_fb_task (the consumer).  It is made of two   *)
(* rings of liblfds, item_free_state (slots a producer may take) and       *)
(* item_queue_state (slots the consumer may take), and of the slots' data. *)
(*                                                                         *)
(* The rings come from a library that is an (absent) submodule,            *)
(* liblfds/.../lfds711_queue_bounded_singleproducer_singleconsumer; they   *)
(* are modelled as a bounded ring with a read and a write index, whose     *)
(* access to the element and whose index update are separate steps, which  *)
(* is what makes the number of producers matter.                           *)
(***************************************************************************)
EXTENDS Integers

CONSTANTS
  ItemNum,     \* queue_bss_init's item_num: elements of each ring
  Producers,   \* threads (or interrupt handlers) that call queue_bss_enqueue
  Payloads,    \* contents a producer may enqueue
  Garbage      \* contents of malloc'ed memory: neither a slot nor a payload

Slots == 0 .. ItemNum - 2       \* queue_bss_init puts item_num - 1 slots in the free ring
Index == 0 .. ItemNum - 1       \* positions of a ring

ASSUME ItemNumAssumption == ItemNum \in Nat /\ ItemNum >= 2
ASSUME GarbageAssumption == Garbage \notin Payloads /\ Garbage \notin Slots

VARIABLES
  freeq,       \* item_free_state: [elem, rd, wr]
  itemq,       \* item_queue_state: [elem, rd, wr]
  item,        \* contents of the slots
  pc,          \* where each producer is in queue_bss_enqueue
  pslot,       \* qitem of each producer
  msg,         \* the item argument of each producer
  cpc,         \* where the consumer is in dequeue / return
  cslot,       \* the consumer's item
  overlap      \* history: two calls of queue_bss_enqueue have overlapped

vars == <<freeq, itemq, item, pc, pslot, msg, cpc, cslot, overlap>>
prodVars == <<pc, pslot, msg, overlap>>
consVars == <<cpc, cslot>>

(***************************************************************************)
(* The liblfds ring.                                                       *)
(***************************************************************************)
\* Mutant of Succ: the index does not wrap.
SuccUnwrapped(i) == i + 1

Succ(i) == IF i = ItemNum - 1 THEN 0 ELSE i + 1

RingEmpty(q) == q.rd = q.wr
\* Mutant of RingFull: one element of the ring is given away.
RingFullEarly(q) == Succ(Succ(q.wr)) = q.rd

RingFull(q)  == Succ(q.wr) = q.rd
RingHead(q)  == q.elem[q.rd]
RingPop(q)   == [q EXCEPT !.rd = Succ(@)]
RingStore(q, s) == [q EXCEPT !.elem[q.wr] = s]
RingPush(q)  == [q EXCEPT !.wr = Succ(@)]

(***************************************************************************)
(* queue_bss_init: every slot in the free ring, the item ring empty.  The  *)
(* elements are malloc'ed: those not yet written hold garbage.                *)
(***************************************************************************)
Init ==
  /\ freeq = [elem |-> [i \in Index |-> IF i \in Slots THEN i ELSE Garbage],
              rd |-> 0, wr |-> ItemNum - 1]
  /\ itemq = [elem |-> [i \in Index |-> Garbage], rd |-> 0, wr |-> 0]
  /\ item = [s \in Slots |-> Garbage]
  /\ pc = [p \in Producers |-> "idle"]
  /\ pslot = [p \in Producers |-> Garbage]
  /\ msg = [p \in Producers |-> Garbage]
  /\ cpc = "idle"
  /\ cslot = Garbage
  /\ overlap = FALSE

(***************************************************************************)
(* queue_bss_enqueue, by producer p.  With no free slot the call returns   *)
(* -1, the item is dropped and nothing changes: the guard of EnqTake.      *)
(* Every caller ignores the result.  A garbage pointer taken out of a ring *)
(* has no defined use: the model stops where the code would follow it.     *)
(***************************************************************************)
\* lfds dequeue of the free ring: the element is read ...
EnqTake(p, m) ==
  /\ pc[p] = "idle"
  /\ ~RingEmpty(freeq)
  /\ pslot' = [pslot EXCEPT ![p] = RingHead(freeq)]
  /\ msg' = [msg EXCEPT ![p] = m]
  /\ pc' = [pc EXCEPT ![p] = "taken"]
  /\ overlap' = (overlap \/ \E q \in Producers : pc[q] # "idle")
  /\ UNCHANGED <<freeq, itemq, item, consVars>>

\* ... and the read index moves.
EnqAdvance(p) ==
  /\ pc[p] = "taken"
  /\ freeq' = RingPop(freeq)
  /\ pc' = [pc EXCEPT ![p] = "copy"]
  /\ UNCHANGED <<itemq, item, pslot, msg, overlap, consVars>>

\* memcpy(qitem, item, item_len)
EnqCopy(p) ==
  /\ pc[p] = "copy"
  /\ pslot[p] \in Slots
  /\ item' = [item EXCEPT ![pslot[p]] = msg[p]]
  /\ pc' = [pc EXCEPT ![p] = "store"]
  /\ UNCHANGED <<freeq, itemq, pslot, msg, overlap, consVars>>

\* lfds enqueue of the item ring: the element is written ...
EnqStore(p) ==
  /\ pc[p] = "store"
  /\ ~RingFull(itemq)
  /\ itemq' = RingStore(itemq, pslot[p])
  /\ pc' = [pc EXCEPT ![p] = "publish"]
  /\ UNCHANGED <<freeq, item, pslot, msg, overlap, consVars>>

EndCall(p) ==
  /\ pc' = [pc EXCEPT ![p] = "idle"]
  /\ pslot' = [pslot EXCEPT ![p] = Garbage]
  /\ msg' = [msg EXCEPT ![p] = Garbage]

\* ... and the write index moves: the item is visible to the consumer.
EnqPublish(p) ==
  /\ pc[p] = "publish"
  /\ itemq' = RingPush(itemq)
  /\ EndCall(p)
  /\ UNCHANGED <<freeq, item, overlap, consVars>>

\* "Queue full!": the slot goes back to the free ring through queue_bss_return.
EnqFull(p) ==
  /\ pc[p] = "store"
  /\ RingFull(itemq)
  /\ freeq' = IF RingFull(freeq) THEN freeq ELSE RingPush(RingStore(freeq, pslot[p]))
  /\ EndCall(p)
  /\ UNCHANGED <<itemq, item, overlap, consVars>>

(***************************************************************************)
(* queue_bss_dequeue and queue_bss_return, by bt_fb_task.                  *)
(***************************************************************************)
DeqTake ==
  /\ cpc = "idle"
  /\ ~RingEmpty(itemq)
  /\ cslot' = RingHead(itemq)
  /\ cpc' = "taken"
  /\ UNCHANGED <<freeq, itemq, item, prodVars>>

\* Mutant of DeqAdvance: the read index stays.
DeqAdvanceStuck ==
  /\ cpc = "taken"
  /\ cpc' = "use"
  /\ UNCHANGED <<freeq, itemq, item, cslot, prodVars>>

DeqAdvance ==
  /\ cpc = "taken"
  /\ itemq' = RingPop(itemq)
  /\ cpc' = "use"
  /\ UNCHANGED <<freeq, item, cslot, prodVars>>

\* The loop body of bt_fb_task is done with the item: lfds enqueue of the
\* free ring writes the element ...
RetStore ==
  /\ cpc = "use"
  /\ cslot \in Slots
  /\ ~RingFull(freeq)
  /\ freeq' = RingStore(freeq, cslot)
  /\ cpc' = "publish"
  /\ UNCHANGED <<itemq, item, cslot, prodVars>>

\* Mutant of RetPublish: the slot is returned twice.
RetPublishTwice ==
  /\ cpc = "publish"
  /\ freeq' = RingPush(freeq)
  /\ cpc' = "use"
  /\ UNCHANGED <<itemq, item, cslot, prodVars>>

\* Mutant of RetPublish: the write index stays.
RetPublishLost ==
  /\ cpc = "publish"
  /\ cpc' = "idle"
  /\ cslot' = Garbage
  /\ UNCHANGED <<freeq, itemq, item, prodVars>>

\* ... and moves the write index,
RetPublish ==
  /\ cpc = "publish"
  /\ freeq' = RingPush(freeq)
  /\ cpc' = "idle"
  /\ cslot' = Garbage
  /\ UNCHANGED <<itemq, item, prodVars>>

\* or finds the ring full: the slot is lost to the pool.
RetFull ==
  /\ cpc = "use"
  /\ cslot \in Slots
  /\ RingFull(freeq)
  /\ cpc' = "idle"
  /\ cslot' = Garbage
  /\ UNCHANGED <<freeq, itemq, item, prodVars>>

\* The rest of a call that has taken a slot.
EnqRest(p) ==
  EnqAdvance(p) \/ EnqCopy(p) \/ EnqStore(p) \/ EnqPublish(p) \/ EnqFull(p)

Consume == DeqTake \/ DeqAdvance \/ RetStore \/ RetPublish \/ RetFull

Next ==
  \/ \E p \in Producers, m \in Payloads : EnqTake(p, m)
  \/ \E p \in Producers : EnqRest(p)
  \/ Consume

\* bt_fb_task loops for ever (it polls every 100 ms) and a producer that has
\* entered the call runs it to its end; nobody has to call queue_bss_enqueue.
Fairness == WF_vars(Consume) /\ \A p \in Producers : WF_vars(EnqRest(p))

Spec == Init /\ [][Next]_vars
FairSpec == Spec /\ Fairness

(***************************************************************************)
(* Properties.                                                             *)
(***************************************************************************)
Ring == [elem : [Index -> Slots \cup {Garbage}], rd : Index, wr : Index]

\* Type invariant: the indices stay in the rings, whatever the producers do.
TypeOK ==
  /\ freeq \in Ring
  /\ itemq \in Ring
  /\ item \in [Slots -> Payloads \cup {Garbage}]
  /\ pc \in [Producers -> {"idle", "taken", "copy", "store", "publish"}]
  /\ pslot \in [Producers -> Slots \cup {Garbage}]
  /\ msg \in [Producers -> Payloads \cup {Garbage}]
  /\ cpc \in {"idle", "taken", "use", "publish"}
  /\ cslot \in Slots \cup {Garbage}
  /\ overlap \in BOOLEAN

\* Position i of ring q is between the read and the write index.
InRing(q, i) ==
  IF q.rd <= q.wr THEN q.rd <= i /\ i < q.wr ELSE q.rd <= i \/ i < q.wr
RingLen(q) == IF q.rd <= q.wr THEN q.wr - q.rd ELSE q.wr - q.rd + ItemNum

ProdHolds(p) == pc[p] \in {"copy", "store", "publish"}
ConsHolds == cpc \in {"use", "publish"}

NoDuplicate(q) ==
  \A i, j \in Index : InRing(q, i) /\ InRing(q, j) /\ q.elem[i] = q.elem[j] => i = j
NotIn(q, s) == \A i \in Index : InRing(q, i) => q.elem[i] # s

\* A slot has one owner: it is once in one of the rings, or in the hands of one
\* producer, or of the consumer, never two of these.
OneOwner ==
  /\ NoDuplicate(freeq)
  /\ NoDuplicate(itemq)
  /\ \A i \in Index : InRing(itemq, i) => NotIn(freeq, itemq.elem[i])
  /\ \A p \in Producers : ProdHolds(p) =>
       /\ NotIn(freeq, pslot[p])
       /\ NotIn(itemq, pslot[p])
       /\ \A q \in Producers : ProdHolds(q) /\ pslot[q] = pslot[p] => q = p
       /\ ConsHolds => cslot # pslot[p]
  /\ ConsHolds => NotIn(freeq, cslot) /\ NotIn(itemq, cslot)

\* Queue_bss promises exclusive slots to each user of the queue as long as no
\* two producers have been inside queue_bss_enqueue at the same time.
ExclusiveUnlessOverlap == ~overlap => OneOwner

\* Until then neither "Queue full!" in queue_bss_enqueue nor a refused return
\* in queue_bss_return can happen: rings of item_num elements and a pool of
\* item_num - 1 slots are enough, and no slot is ever lost.
NeverFullUnlessOverlap ==
  ~overlap =>
    /\ \A p \in Producers : pc[p] = "store" => ~RingFull(itemq)
    /\ cpc = "use" => ~RingFull(freeq)

\* After the pool of slots ran dry it is replenished: queue_bss_enqueue refuses
\* feedback for a while only.
PoolRecovers == RingEmpty(freeq) ~> ~RingEmpty(freeq)

\* The exclusive ownership as the name of the library the rings come from puts
\* it ("singleproducer_singleconsumer", components/queue_bss/CMakeLists.txt:1),
\* asked of the producers the firmware really has.
SlotsAlwaysExclusive == OneOwner

(***************************************************************************)
(* The queue implements FbChannel.                                         *)
(***************************************************************************)
pendingItems ==
  [k \in 1 .. RingLen(itemq) |-> item[itemq.elem[(itemq.rd + k - 1) % ItemNum]]]

Channel == INSTANCE FbChannel WITH
  Capacity <- ItemNum - 1,
  NULL <- Garbage,
  pending <- pendingItems,
  got <- IF ConsHolds THEN item[cslot] ELSE Garbage

\* A single producer sees the promise of FbChannel kept: no loss, no reordering,
\* no duplicate, stable contents, eventual delivery.
ImplementsChannel == Channel!ChanSpec
=============================================================================
