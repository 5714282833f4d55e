------------------------------ MODULE TraceLog ------------------------------
(***************************************************************************)
(* The Bluetooth trace of main/bluetooth/mon.c: with the debug bank        *)
(* selected bt_mon_tx appends every packet, behind a header, to the memory *)
(* card's buffer, block by block.  It is called by the controller's        *)
(* callback (host.c:390) and by bt_tx_task (host.c:200), and both use the  *)
(* same offset and the same mon_hdr.                                       *)
(*                                                                         *)
(* A cell of the card holds <<record, part, position>>: the data of a      *)
(* record is told from any other, a header is the value of mon_hdr when it *)
(* was written.                                                            *)
(***************************************************************************)
EXTENDS Integers, Sequences, FiniteSets

CONSTANTS
  TlBlock,     \* MC_BUFFER_BLOCK_SIZE
  TlBlocks,    \* MC_BUFFER_BLOCK_CNT
  TlHdr,       \* sizeof(struct bt_mon_hdr)
  TlLens,      \* lengths of the packets
  TlWriters,   \* the callback and bt_tx_task
  TlRecords    \* packets traced

VARIABLES
  tlOffset,    \* the static offset
  tlHdr,       \* the record mon_hdr describes
  tlCard,      \* cells written, by address
  tlPc,        \* where each caller is in bt_mon_tx
  tlRec,       \* what each caller still has to write of its record
  tlLog,       \* history: the records, [len, start, alone]
  tlSpilt      \* history: a write went past the end of its block

tlVars == <<tlOffset, tlHdr, tlCard, tlPc, tlRec, tlLog, tlSpilt>>

Size == TlBlock * TlBlocks
Nobody == [id |-> 0, len |-> 0, part |-> "data", pos |-> 0]

Init ==
  /\ tlOffset = 0
  /\ tlHdr = 0
  /\ tlCard = [a \in {} |-> 0]
  /\ tlPc = [w \in TlWriters |-> "out"]
  /\ tlRec = [w \in TlWriters |-> Nobody]
  /\ tlLog = <<>>
  /\ tlSpilt = FALSE

Left(r) == (IF r.part = "hdr" THEN TlHdr ELSE r.len) - r.pos
\* max_len: what is left of the block; write_len: what this turn of the loop counts.
MaxLen == TlBlock - (tlOffset % TlBlock)
WriteLen(r) == IF Left(r) > MaxLen THEN MaxLen ELSE Left(r)

\* Only the packet is held against the end of the card, not its header.
Fits(len) == tlOffset + len <= Size

Inside == {v \in TlWriters : tlPc[v] # "out"}

\* A packet to trace that still fits: the header is filled in.
Enter(w) ==
  /\ tlPc[w] = "out"
  /\ Len(tlLog) < TlRecords
  /\ \E len \in TlLens :
       LET r == [id |-> Len(tlLog) + 1, len |-> len, part |-> "hdr", pos |-> 0] IN
       /\ Fits(len)
       /\ tlHdr' = r.id
       /\ tlRec' = [tlRec EXCEPT ![w] = r]
       /\ tlLog' = Append(
            [k \in DOMAIN tlLog |->
               IF \E v \in Inside : tlRec[v].id = k
               THEN [tlLog[k] EXCEPT !.alone = FALSE] ELSE tlLog[k]],
            [len |-> len, start |-> tlOffset, alone |-> Inside = {}])
  /\ tlPc' = [tlPc EXCEPT ![w] = "write"]
  /\ UNCHANGED <<tlOffset, tlCard, tlSpilt>>

\* The header is mon_hdr as it is when it is copied.
Cell(r, i) ==
  IF r.part = "hdr" THEN <<tlHdr, "hdr", i>> ELSE <<r.id, "data", i>>

\* mc_write at the offset.  It is given all that is left, not write_len: what
\* passes the end of the block is copied behind the block's buffer.
Write(w) ==
  LET r == tlRec[w]
      end == tlOffset + (IF Left(r) > MaxLen THEN MaxLen ELSE Left(r))
      at == tlOffset .. end - 1
  IN
  /\ tlPc[w] = "write"
  /\ tlCard' = [a \in DOMAIN tlCard \cup at |->
                  IF a \in at THEN Cell(r, r.pos + a - tlOffset) ELSE tlCard[a]]
  /\ tlSpilt' = (tlSpilt \/ Left(r) > MaxLen)
  /\ tlPc' = [tlPc EXCEPT ![w] = "count"]
  /\ UNCHANGED <<tlOffset, tlHdr, tlRec, tlLog>>

Advanced(r) == [r EXCEPT !.pos = @ + WriteLen(r)]

\* The header is out: the data follows; the data is out: the call returns.
Turned(r) ==
  IF Left(r) > 0 THEN r
  ELSE IF r.part = "hdr" THEN [r EXCEPT !.part = "data", !.pos = 0] ELSE Nobody

\* The offset moves on by write_len, and the loops go on with the rest.
Count(w) ==
  LET r == Turned(Advanced(tlRec[w])) IN
  /\ tlPc[w] = "count"
  /\ tlOffset' = tlOffset + WriteLen(tlRec[w])
  /\ tlRec' = [tlRec EXCEPT ![w] = r]
  /\ tlPc' = [tlPc EXCEPT ![w] = IF r = Nobody THEN "out" ELSE "write"]
  /\ UNCHANGED <<tlHdr, tlCard, tlLog, tlSpilt>>

Next == \E w \in TlWriters : Enter(w) \/ Write(w) \/ Count(w)

Spec == Init /\ [][Next]_tlVars

(***************************************************************************)
(* Properties.                                                             *)
(***************************************************************************)
\* Type invariant.
TypeOK ==
  /\ tlOffset \in 0 .. Size + Cardinality(TlWriters) * (TlHdr + Size)
  /\ tlHdr \in 0 .. TlRecords
  /\ \A a \in DOMAIN tlCard :
       tlCard[a] \in (1 .. TlRecords) \X {"hdr", "data"} \X (0 .. Size)
  /\ tlPc \in [TlWriters -> {"out", "write", "count"}]
  /\ \A w \in TlWriters : /\ tlRec[w].part \in {"hdr", "data"}
                          /\ tlRec[w].id \in 0 .. Len(tlLog)
                          /\ Left(tlRec[w]) >= 0

\* bt_mon_tx appends packets whole: a record whose call no other call overlapped
\* is on the card in one piece where it began, its header is its own, and what
\* is traced before and after it, overlapping or not, leaves it alone.
AloneIsWhole ==
  \A k \in DOMAIN tlLog :
    LET at(i) == tlLog[k].start + i IN
    tlLog[k].alone /\ (\A w \in Inside : tlRec[w].id # k) =>
      /\ at(0) .. at(TlHdr + tlLog[k].len - 1) \subseteq DOMAIN tlCard
      /\ \A i \in 0 .. TlHdr - 1 : tlCard[at(i)] = <<k, "hdr", i>>
      /\ \A i \in 0 .. tlLog[k].len - 1 : tlCard[at(TlHdr + i)] = <<k, "data", i>>

\* The test of bt_mon_tx (mon.c:87) ends the trace at the end of the card: past
\* it goes no more than the header it does not count, and that of a second
\* call that passed the test meanwhile with its packet.
EndKept ==
  \/ tlOffset <= Size + TlHdr
  \/ \E k \in DOMAIN tlLog : ~tlLog[k].alone

\* "Assume r/w size will never cross blocks boundary" (memory_card.c:167), of
\* the writes of bt_mon_tx.
BlockWrites == ~tlSpilt
=============================================================================
