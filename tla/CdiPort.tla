------------------------------- MODULE CdiPort -------------------------------
(***************************************************************************)
(* wired/cdi_uart.c: one CD-i port.  A loop sends a report when one is due *)
(* and the UART is idle; the player's RTS line empties the FIFO when it    *)
(* falls and asks for the device's id, which is followed by the last       *)
(* report, when it rises.                                                  *)
(*                                                                         *)
(* The interrupt may fall between any two steps of the loop.  An edge of   *)
(* RTS that comes while one is being served is acknowledged with it.       *)
(***************************************************************************)
EXTENDS Integers, Sequences

CONSTANT CdFifo   \* bound: the UART is quicker than the player's RTS, its 128 bytes never fill

VARIABLES
  cdLen,      \* bytes of a report: 2 (keyboards K, X), 3 (pointers) or 4 (keyboard T)
  cdRts,      \* the RTS line
  cdPend,     \* its interrupt is pending
  cdIsr,      \* rts_isr: "idle", "rise" (in its delay), "fall"
  cdTx,       \* tx_hdlr: the byte it writes next, 0 outside the loop
  cdBuf,      \* buffer: which of the last two reports
  cdFifo,     \* the UART's FIFO: Id or <<report, byte>>
  cdDone,     \* UART_INTR_TX_DONE is pending
  cdBusy,     \* tx_in_progress
  cdHist      \* history: an edge came into the loop, a rise was lost with a fall

cdVars == <<cdLen, cdRts, cdPend, cdIsr, cdTx, cdBuf, cdFifo, cdDone, cdBusy, cdHist>>

Id == <<2, 0>>
Report(buf) == [j \in 1 .. cdLen |-> <<buf, j>>]

Init ==
  /\ cdLen \in 2 .. 4
  /\ cdRts = FALSE /\ cdPend = FALSE /\ cdIsr = "idle" /\ cdTx = 0 /\ cdBuf = 0
  /\ cdFifo = <<>> /\ cdDone = FALSE /\ cdBusy = FALSE
  /\ cdHist = [mixed |-> FALSE, lost |-> FALSE]

\* The player moves RTS.
Rts ==
  /\ cdRts' = ~cdRts /\ cdPend' = TRUE
  /\ cdHist' = [mixed |-> cdHist.mixed \/ cdTx # 0, lost |-> cdIsr = "fall" /\ cdRts']
  /\ UNCHANGED <<cdLen, cdIsr, cdTx, cdBuf, cdFifo, cdDone, cdBusy>>

RtsEnter ==
  /\ cdPend /\ cdIsr = "idle"
  /\ cdIsr' = IF cdRts THEN "rise" ELSE "fall"
  /\ cdHist' = [cdHist EXCEPT !.mixed = @ \/ cdTx # 0]
  /\ UNCHANGED <<cdLen, cdRts, cdPend, cdTx, cdBuf, cdFifo, cdDone, cdBusy>>

Announced == <<Id>> \o Report(cdBuf)

\* The byte being shifted out when the FIFO is emptied may still report TX_DONE.
RtsLeave ==
  /\ cdIsr # "idle" /\ cdIsr' = "idle" /\ cdPend' = FALSE
  /\ IF cdIsr = "rise" THEN cdFifo' = cdFifo \o Announced /\ Len(cdFifo') <= CdFifo /\ UNCHANGED cdDone
     ELSE /\ cdFifo' = <<>>
          /\ \E d \in BOOLEAN : cdDone' = (cdDone \/ (d /\ cdFifo # <<>>))
  /\ UNCHANGED <<cdLen, cdRts, cdTx, cdBuf, cdBusy, cdHist>>

\* The UART sends a byte.
Shift ==
  /\ cdFifo # <<>> /\ cdFifo' = Tail(cdFifo)
  /\ cdDone' = (cdDone \/ Len(cdFifo) = 1)
  /\ cdHist' = [cdHist EXCEPT !.mixed = @ /\ ~(Len(cdFifo) = 1 /\ cdTx = 0)]
  /\ UNCHANGED <<cdLen, cdRts, cdPend, cdIsr, cdTx, cdBuf, cdBusy>>

uart_isr ==
  /\ cdDone /\ cdIsr = "idle"
  /\ cdDone' = FALSE /\ cdBusy' = FALSE
  /\ UNCHANGED <<cdLen, cdRts, cdPend, cdIsr, cdTx, cdBuf, cdFifo, cdHist>>

\* tx_hdlr: load_data, load_k_kb_data or load_t_kb_data has something to send.
Load ==
  /\ cdTx = 0 /\ cdIsr = "idle" /\ ~cdBusy
  /\ cdBuf' = 1 - cdBuf /\ cdTx' = 1
  /\ cdHist' = [cdHist EXCEPT !.mixed = @ \/ cdPend]
  /\ UNCHANGED <<cdLen, cdRts, cdPend, cdIsr, cdFifo, cdDone, cdBusy>>

Byte ==
  /\ cdTx # 0 /\ cdIsr = "idle"
  /\ cdFifo' = IF cdRts THEN Append(cdFifo, <<cdBuf, cdTx>>) ELSE cdFifo
  /\ Len(cdFifo') <= CdFifo
  /\ cdTx' = IF cdTx = cdLen THEN 0 ELSE cdTx + 1
  /\ cdBusy' = (cdBusy \/ cdTx = cdLen)
  /\ UNCHANGED <<cdLen, cdRts, cdPend, cdIsr, cdBuf, cdDone, cdHist>>

Next == Rts \/ RtsEnter \/ RtsLeave \/ Shift \/ uart_isr \/ Load \/ Byte

Spec == Init /\ [][Next]_cdVars

(***************************************************************************)
(* Properties.                                                             *)
(***************************************************************************)
TypeOK ==
  /\ cdIsr \in {"idle", "rise", "fall"} /\ cdTx \in 0 .. cdLen /\ cdBuf \in 0 .. 1
  /\ {cdRts, cdPend, cdDone, cdBusy} \subseteq BOOLEAN

\* The port never waits for a TX_DONE that cannot come with the player ready: only
\* a rise of RTS acknowledged together with a fall leaves it so, until RTS moves.
NeverStuck ==
  ~(cdBusy /\ cdTx = 0 /\ cdFifo = <<>> /\ ~cdDone /\ ~cdPend /\ cdIsr = "idle" /\ cdRts) \/ cdHist.lost

\* The bytes of a report follow one another, unless an edge of RTS came into the
\* loop that writes them.
WholeReports ==
  cdHist.mixed \/
    \A i \in 2 .. Len(cdFifo) :
      cdFifo[i][2] > 1 => cdFifo[i - 1] = <<cdFifo[i][1], cdFifo[i][2] - 1>>
=============================================================================
