------------------------------- MODULE WiiPort -------------------------------
(***************************************************************************)
(* wired/wii_i2c.c: a Wii extension port, an I2C slave whose interrupt     *)
(* comes at the end of a transaction of the remote.  A register address    *)
(* alone fills the transmit FIFO with what the remote is expected to read  *)
(* next, enciphered when register 0xF0 says so; an address with data       *)
(* writes registers, and a write that starts in 0x40..0x4F makes a new key *)
(* of the sixteen bytes there.  The two ports share nothing.               *)
(*                                                                         *)
(* The remote may read before the interrupt has run, may read a part only, *)
(* and writes the seed of the key in two pieces.                           *)
(***************************************************************************)
EXTENDS Integers, Sequences

VARIABLES
  wiiOn,      \* the port answers to 0x52 (otherwise to an address nobody uses)
  wiiSeed,    \* registers 0x40..0x4F, in two pieces
  wiiKey,     \* the seed port->key was made of
  wiiCrypt,   \* register 0xF0 holds 0xAA
  wiiForm,    \* register 0xFE: the format of a report
  wiiRx,      \* the transaction whose interrupt is pending, None when there is none
  wiiFifo,    \* the transmit FIFO: what each byte is of
  wiiGot,     \* what the remote read last, <<>> before its first byte
  wiiHist     \* history: the byte the remote should read next, the interrupt of its address served

wiiVars == <<wiiOn, wiiSeed, wiiKey, wiiCrypt, wiiForm, wiiRx, wiiFifo, wiiGot, wiiHist>>

None == <<"none", 0, 0>>
Reads == {<<"read", reg, 0>> : reg \in {0, 16}}
Writes == {<<"seed", piece, k>> : piece \in 1 .. 2, k \in 1 .. 2}
            \cup {<<"crypt", b, 0>> : b \in 0 .. 1} \cup {<<"form", f, 0>> : f \in 1 .. 2}
Bytes == 2          \* bytes put in the FIFO for a read (32 in the code)

Init ==
  /\ wiiOn = TRUE /\ wiiSeed = <<0, 0>> /\ wiiKey = <<0, 0>> /\ wiiCrypt = 0
  /\ wiiForm = 1 /\ wiiRx = None /\ wiiFifo = <<>> /\ wiiGot = <<>>
  /\ wiiHist = [reg |-> 99, byte |-> 0]

\* A transaction of the remote that writes to the port: its interrupt is due.
Transaction ==
  /\ wiiOn /\ wiiRx = None
  /\ wiiRx' \in Reads \cup Writes
  /\ wiiGot' = <<>>
  /\ UNCHANGED <<wiiOn, wiiSeed, wiiKey, wiiCrypt, wiiForm, wiiFifo, wiiHist>>

\* The remote reads a byte of the FIFO.
ReadByte ==
  /\ wiiOn /\ wiiFifo # <<>>
  /\ wiiGot' = Head(wiiFifo) /\ wiiFifo' = Tail(wiiFifo)
  /\ wiiHist' = [wiiHist EXCEPT !.byte = @ + 1]
  /\ UNCHANGED <<wiiOn, wiiSeed, wiiKey, wiiCrypt, wiiForm, wiiRx>>

KeyMade(tr) == tr[1] = "seed"

\* Whatever is left is cleared (twice: the hardware has fetched a byte ahead).
Emptied(fifo) == <<>>

\* write_fifo and update_status: register, byte, the key (0 in the clear), the format of a report.
Answer(reg) ==
  [j \in 1 .. Bytes |-> <<reg, j, IF wiiCrypt = 1 THEN wiiKey ELSE <<0, 0>>, IF reg < 9 THEN wiiForm ELSE 0>>]

\* i2c_isr of a transaction that brought bytes.
i2c_isr ==
  LET tr == wiiRx
      seed == IF tr[1] = "seed" THEN [wiiSeed EXCEPT ![tr[2]] = tr[3]] ELSE wiiSeed
  IN  /\ tr # None /\ wiiRx' = None
      /\ wiiSeed' = seed
      /\ wiiKey' = IF KeyMade(tr) THEN seed ELSE wiiKey
      /\ wiiCrypt' = IF tr[1] = "crypt" THEN tr[2] ELSE wiiCrypt
      /\ wiiForm' = IF tr[1] = "form" THEN tr[2] ELSE wiiForm
      /\ wiiFifo' = Emptied(wiiFifo) \o (IF tr[1] = "read" THEN Answer(tr[2]) ELSE <<>>)
      /\ wiiHist' = [reg |-> IF tr[1] = "read" THEN tr[2] ELSE 99, byte |-> 0]
      /\ wiiGot' = <<>>
      /\ UNCHANGED wiiOn

\* wii_i2c_port_cfg, from the task that follows which pads are connected.
port_cfg ==
  /\ wiiOn' = ~wiiOn
  /\ UNCHANGED <<wiiSeed, wiiKey, wiiCrypt, wiiForm, wiiRx, wiiFifo, wiiGot, wiiHist>>

Next == Transaction \/ ReadByte \/ i2c_isr \/ port_cfg

Spec == Init /\ [][Next]_wiiVars

(***************************************************************************)
(* Properties.                                                             *)
(***************************************************************************)
TypeOK ==
  /\ wiiOn \in BOOLEAN /\ wiiRx \in {None} \cup Reads \cup Writes
  /\ wiiCrypt \in 0 .. 1 /\ wiiForm \in 1 .. 2 /\ Len(wiiFifo) <= Bytes

\* Once the interrupt of its last transaction has been served, the remote reads that
\* register from its first byte, in the format it chose, under the whole of the
\* seed it wrote last.
ReadsAsAsked ==
  wiiRx = None /\ wiiGot # <<>> =>
    wiiGot = <<wiiHist.reg, wiiHist.byte, IF wiiCrypt = 1 THEN wiiSeed ELSE <<0, 0>>, IF wiiHist.reg < 9 THEN wiiForm ELSE 0>>
=============================================================================
