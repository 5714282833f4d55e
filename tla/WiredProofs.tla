---------------------------- MODULE WiredProofs ----------------------------
EXTENDS WiredDrivers, TLAPS

\* The driver chosen at boot goes on running.
LEMMA DriverStays == [Next]_vars => driver' = driver
BY DEF Next, vars

LEMMA StallSteps == [Next]_vars /\ driver = "stall" => Stall!Next \/ UNCHANGED csVars
BY DEF Next, vars

\* Where core 0 is, by what core 1 has done, as long as no start came too early.
StallInv ==
  /\ csOne \in {"free", "start", "raise", "end"}
  /\ csLock \in BOOLEAN /\ csIrq \in BOOLEAN /\ csStart \in BOOLEAN /\ csEnd \in BOOLEAN
  /\ csQuick \in BOOLEAN
  /\ csOne # "free" => csLock
  /\ ~csQuick =>
       /\ ~csLock \/ csOne = "start" =>
            ~csIrq /\ (csZero \in {"runs", "leaves"} \/ (csZero = "spins" /\ csEnd))
       /\ csOne = "start" => ~csStart
       /\ csOne = "raise" => ~csStart /\ ~csEnd /\ ~csIrq /\ csZero \in {"runs", "leaves"}
       /\ csLock /\ csOne \in {"free", "end"} =>
            /\ ~csEnd
            /\ \/ ~csStart /\ csIrq /\ csZero \in {"runs", "leaves"}
               \/ ~csStart /\ ~csIrq /\ csZero = "enters"
               \/ csStart /\ ~csIrq /\ csZero = "spins"

LEMMA StallInit == Stall!Init => StallInv
BY DEF Stall!Init, StallInv

LEMMA StallStep ==
  ASSUME StallInv, Stall!Next \/ UNCHANGED csVars
  PROVE  StallInv'
<1>1. CASE UNCHANGED csVars
  BY <1>1 DEF csVars, StallInv
<1>2. CASE Stall!Start
  BY <1>2 DEF StallInv, Stall!Start, Stall!MayStart
<1>3. CASE Stall!StartEnd
  BY <1>3 DEF StallInv, Stall!StartEnd
<1>4. CASE Stall!Raise
  BY <1>4 DEF StallInv, Stall!Raise
<1>5. CASE Stall!End
  BY <1>5 DEF StallInv, Stall!End
<1>6. CASE Stall!Release
  BY <1>6 DEF StallInv, Stall!Release
<1>7. CASE Stall!Take
  BY <1>7 DEF StallInv, Stall!Take
<1>8. CASE Stall!SetStart
  BY <1>8 DEF StallInv, Stall!SetStart
<1>9. CASE Stall!Leave
  BY <1>9 DEF StallInv, Stall!Leave
<1>10. CASE Stall!Return
  BY <1>10 DEF StallInv, Stall!Return
<1>11. QED
  BY <1>1, <1>2, <1>3, <1>4, <1>5, <1>6, <1>7, <1>8, <1>9, <1>10 DEF Stall!Next

LEMMA StallAnswers == StallInv => Stall!EndAnswered
BY DEF StallInv, Stall!EndAnswered
LEMMA SegaSteps == [Next]_vars /\ driver = "sega_io" => Sega!Next \/ UNCHANGED sgVars
BY DEF Next, vars

\* Where the loop of core 1 is; it holds core 0 only with a poll under way.
SegaPlaces == [kind : {"begin", "top", "arm", "wait", "twh"}, port : Sega!Ports, phase : Int]
SegaStall ==
  /\ sgPc \in SegaPlaces
  /\ sgStall \in BOOLEAN
  /\ Sega!StallOnlyInPoll

LEMMA SegaStallInit == ASSUME Sega!Init PROVE SegaStall
<1>1. sgPc = Sega!At("top", 0, 0) /\ sgStall = FALSE
  BY DEF Sega!Init, Sega!Top
<1>2. sgPc \in SegaPlaces
  BY <1>1 DEF SegaPlaces, Sega!At, Sega!Ports
<1>3. QED
  BY <1>1, <1>2 DEF SegaStall, Sega!StallOnlyInPoll

\* A poll begins with core 0 held, or with a handshake.
LEMMA SegaStart ==
  ASSUME NEW p \in Sega!Ports, NEW hist, Sega!Start(p, hist)
  PROVE  SegaStall'
<1>1. CASE Sega!StartsHigh(p)
  <2>1. sgPc' = Sega!At("arm", p, 1) /\ sgStall' = TRUE
    BY <1>1 DEF Sega!Start
  <2>2. sgPc' \in SegaPlaces /\ sgPc'.kind = "arm"
    BY <2>1 DEF SegaPlaces, Sega!At
  <2>3. QED
    BY <2>1, <2>2 DEF SegaStall, Sega!StallOnlyInPoll
<1>2. CASE ~Sega!StartsHigh(p)
  <2>1. /\ sgPc' = Sega!At(IF sgType[p] = "TWH" THEN "twh" ELSE "arm", p, 0)
        /\ sgStall' = (sgType[p] # "TWH")
    BY <1>2 DEF Sega!Start
  <2>2. sgPc' \in SegaPlaces /\ sgPc'.kind = IF sgType[p] = "TWH" THEN "twh" ELSE "arm"
    BY <2>1 DEF SegaPlaces, Sega!At
  <2>3. QED
    BY <2>1, <2>2 DEF SegaStall, Sega!StallOnlyInPoll
<1>3. QED
  BY <1>1, <1>2

\* A poll ends with core 0 let go.
LEMMA SegaNextPoll ==
  ASSUME NEW hist, NEW lock \in BOOLEAN, NEW idx, Sega!NextPoll(hist, lock, idx)
  PROVE  SegaStall'
<1>1. sgPc' = Sega!At("begin", 0, 0) /\ sgStall' = FALSE
  BY DEF Sega!NextPoll, Sega!Unlocked, Sega!Begin
<1>2. sgPc' \in SegaPlaces
  BY <1>1 DEF SegaPlaces, Sega!At, Sega!Ports
<1>3. QED
  BY <1>1, <1>2 DEF SegaStall, Sega!StallOnlyInPoll

LEMMA SegaStallStep ==
  ASSUME SegaStall, Sega!Next \/ UNCHANGED sgVars
  PROVE  SegaStall'
<1>1. CASE UNCHANGED sgVars
  BY <1>1 DEF sgVars, SegaStall, Sega!StallOnlyInPoll
<1>2. CASE \E p \in Sega!Ports : Sega!Toggle(p)
  BY <1>2 DEF Sega!Toggle, SegaStall, Sega!StallOnlyInPoll
<1>3. CASE Sega!Arm
  BY <1>3 DEF Sega!Arm, SegaPlaces, SegaStall, Sega!StallOnlyInPoll
<1>4. CASE Sega!TopEdge
  BY <1>4, SegaStart DEF Sega!TopEdge, Sega!Ports
<1>5. CASE Sega!WaitEdge
  <2>1. PICK p \in Sega!Ports : p = sgPc.port
    BY DEF SegaPlaces, SegaStall
  <2>2. CASE 1 - p \in Sega!Changed
    BY <1>5, <2>1, <2>2, SegaStart DEF Sega!WaitEdge, Sega!Ports
  <2>3. CASE 1 - p \notin Sega!Changed /\ sgPc.phase + 1 < Sega!Last(p)
    BY <1>5, <2>1, <2>3 DEF Sega!WaitEdge, SegaPlaces, SegaStall, Sega!StallOnlyInPoll, Sega!At
  <2>4. CASE 1 - p \notin Sega!Changed /\ ~(sgPc.phase + 1 < Sega!Last(p))
    BY <1>5, <2>1, <2>4, SegaNextPoll DEF Sega!WaitEdge
  <2>5. QED
    BY <2>2, <2>3, <2>4
<1>6. CASE Sega!SaturnEdge
  BY <1>6, SegaNextPoll DEF Sega!SaturnEdge
<1>7. CASE Sega!Timeout
  BY <1>7, SegaNextPoll DEF Sega!Timeout, SegaStall
<1>8. CASE Sega!HandshakeEnd
  <2>1. CASE sgTh[sgPc.port]
    BY <1>8, <2>1, SegaNextPoll DEF Sega!HandshakeEnd
  <2>2. CASE ~sgTh[sgPc.port]
    BY <1>8, <2>2 DEF Sega!HandshakeEnd, SegaPlaces, SegaStall, Sega!StallOnlyInPoll, Sega!At
  <2>3. QED
    BY <2>1, <2>2
<1>9. QED
  BY <1>1, <1>2, <1>3, <1>4, <1>5, <1>6, <1>7, <1>8 DEF Sega!Next
LEMMA CdiSteps == [Next]_vars /\ driver = "cdi_uart" => Cdi!Next \/ UNCHANGED cdVars
BY DEF Next, vars

CdiBytes == (0 .. 2) \X (0 .. 4)

\* RTS has a pending interrupt until it was served for the level it has, and the port has
\* something to send, to be told or to hear of RTS before it is left busy with the player ready.
CdiStuck ==
  /\ cdLen \in 2 .. 4 /\ cdBuf \in 0 .. 1 /\ cdTx \in 0 .. cdLen
  /\ cdRts \in BOOLEAN /\ cdPend \in BOOLEAN /\ cdDone \in BOOLEAN /\ cdBusy \in BOOLEAN
  /\ cdIsr \in {"idle", "rise", "fall"}
  /\ cdFifo \in Seq(CdiBytes)
  /\ cdHist \in [mixed : BOOLEAN, lost : BOOLEAN]
  /\ cdIsr # "idle" => cdPend
  /\ cdIsr = "fall" /\ cdRts => cdHist.lost
  /\ cdBusy /\ cdTx = 0 /\ cdFifo = <<>> /\ ~cdDone /\ cdRts /\ ~cdPend => cdHist.lost

LEMMA CdiStuckInit == ASSUME Cdi!Init PROVE CdiStuck
<1>1. cdFifo \in Seq(CdiBytes)
  BY DEF Cdi!Init
<1>2. cdHist \in [mixed : BOOLEAN, lost : BOOLEAN]
  BY DEF Cdi!Init
<1>3. cdBusy = FALSE /\ cdRts = FALSE /\ cdPend = FALSE /\ cdDone = FALSE /\ cdIsr = "idle"
  BY DEF Cdi!Init
<1>4. cdLen \in 2 .. 4 /\ cdBuf \in 0 .. 1 /\ cdTx \in 0 .. cdLen
  BY DEF Cdi!Init
<1>5. QED
  BY <1>1, <1>2, <1>3, <1>4 DEF CdiStuck

LEMMA SeqJoined ==
  ASSUME NEW S, NEW s \in Seq(S), NEW t \in Seq(S)
  PROVE  s \o t \in Seq(S) /\ (t # <<>> => s \o t # <<>>)
OBVIOUS

LEMMA SeqTail ==
  ASSUME NEW S, NEW s \in Seq(S), s # <<>>
  PROVE  /\ Tail(s) \in Seq(S) /\ Len(Tail(s)) = Len(s) - 1
         /\ Tail(s) = <<>> => Len(s) = 1
<1>1. Len(s) \in Nat /\ Len(s) # 0
  OBVIOUS
<1>2. Tail(s) \in Seq(S) /\ Len(Tail(s)) = Len(s) - 1
  OBVIOUS
<1>3. \A t \in Seq(S) : t = <<>> => Len(t) = 0
  OBVIOUS
<1>4. QED
  BY <1>1, <1>2, <1>3

\* The id and the report that answer a rise of RTS are some bytes.
LEMMA CdiReport ==
  ASSUME CdiStuck
  PROVE  Cdi!Announced \in Seq(CdiBytes) /\ Cdi!Announced # <<>>
<1>1. cdLen \in Nat /\ cdLen <= 4 /\ cdBuf \in 0 .. 2
  BY DEF CdiStuck
<1>2. \A j \in 1 .. cdLen : <<cdBuf, j>> \in CdiBytes
  BY <1>1 DEF CdiBytes
<1>3. Cdi!Report(cdBuf) \in [1 .. cdLen -> CdiBytes]
  BY <1>2 DEF Cdi!Report
<1>4. Cdi!Report(cdBuf) \in Seq(CdiBytes)
  BY <1>1, <1>3
<1>5. <<Cdi!Id>> \in Seq(CdiBytes) /\ Len(<<Cdi!Id>>) = 1
  BY DEF Cdi!Id, CdiBytes
<1>6. QED
  BY <1>4, <1>5 DEF Cdi!Announced

LEMMA CdiStuckStep ==
  ASSUME CdiStuck, Cdi!Next \/ UNCHANGED cdVars
  PROVE  CdiStuck'
<1>1. CASE UNCHANGED cdVars
  BY <1>1 DEF cdVars, CdiStuck
<1>2. CASE Cdi!Rts
  BY <1>2 DEF Cdi!Rts, CdiStuck
<1>3. CASE Cdi!RtsEnter
  BY <1>3 DEF Cdi!RtsEnter, CdiStuck
<1>4. CASE Cdi!RtsLeave
  <2>1. CASE cdIsr = "rise"
    <3>1. cdFifo' = cdFifo \o Cdi!Announced /\ cdDone' = cdDone
      BY <1>4, <2>1 DEF Cdi!RtsLeave
    <3>2. cdFifo' \in Seq(CdiBytes) /\ cdFifo' # <<>>
      BY <3>1, CdiReport, SeqJoined DEF CdiStuck
    <3>3. QED
      BY <1>4, <2>1, <3>1, <3>2 DEF Cdi!RtsLeave, CdiStuck
  <2>2. CASE cdIsr = "fall"
    <3>1. cdFifo' = <<>> /\ cdFifo' \in Seq(CdiBytes)
      BY <1>4, <2>2 DEF Cdi!RtsLeave
    <3>2. cdDone' \in BOOLEAN
      BY <1>4, <2>2 DEF Cdi!RtsLeave, CdiStuck
    <3>3. QED
      BY <1>4, <2>2, <3>1, <3>2 DEF Cdi!RtsLeave, CdiStuck
  <2>3. QED
    BY <1>4, <2>1, <2>2 DEF Cdi!RtsLeave, CdiStuck
<1>5. CASE Cdi!Shift
  <2>1. cdFifo # <<>> /\ cdFifo' = Tail(cdFifo) /\ cdDone' = (cdDone \/ Len(cdFifo) = 1)
    BY <1>5 DEF Cdi!Shift
  <2>2. cdFifo' \in Seq(CdiBytes) /\ (cdFifo' = <<>> => Len(cdFifo) = 1)
    <3>1. cdFifo \in Seq(CdiBytes)
      BY DEF CdiStuck
    <3>2. QED
      BY <2>1, <3>1, SeqTail
  <2>3. QED
    BY <1>5, <2>1, <2>2 DEF Cdi!Shift, CdiStuck
<1>6. CASE Cdi!uart_isr
  BY <1>6 DEF Cdi!uart_isr, CdiStuck
<1>7. CASE Cdi!Load
  BY <1>7 DEF Cdi!Load, CdiStuck
<1>8. CASE Cdi!Byte
  <2>1. cdFifo' \in Seq(CdiBytes) /\ (cdRts => cdFifo' # <<>>)
    <3>1. <<cdBuf, cdTx>> \in CdiBytes
      BY DEF CdiStuck, CdiBytes
    <3>2. CASE cdRts
      <4>1. cdFifo' = Append(cdFifo, <<cdBuf, cdTx>>)
        BY <1>8, <3>2 DEF Cdi!Byte
      <4>2. QED
        BY <3>1, <4>1 DEF CdiStuck
    <3>3. CASE ~cdRts
      BY <1>8, <3>3 DEF Cdi!Byte, CdiStuck
    <3>4. QED
      BY <3>2, <3>3
  <2>2. QED
    BY <1>8, <2>1 DEF Cdi!Byte, CdiStuck
<1>9. QED
  BY <1>1, <1>2, <1>3, <1>4, <1>5, <1>6, <1>7, <1>8 DEF Cdi!Next

LEMMA CdiNotStuck == CdiStuck => Cdi!NeverStuck
BY DEF CdiStuck, Cdi!NeverStuck

LEMMA MouseSteps == [Next]_vars /\ driver = "mouse" => Mouse!Next \/ UNCHANGED mmVars
BY DEF Next, vars

LEMMA MouseLimits ==
  ASSUME NEW s \in Mouse!Drivers
  PROVE  /\ Mouse!Limits[s][1] \in Int /\ Mouse!Limits[s][2] \in Int
         /\ Mouse!Limits[s][1] < 0 /\ Mouse!Limits[s][2] > 0
         /\ s = "npiso_io" => Mouse!Limits[s][1] = -128 /\ Mouse!Limits[s][2] = 127
<1>1. Mouse!Limits[s] \in {<<-8, 7>>, <<-128, 127>>, <<-256, 255>>, <<-512, 511>>}
  BY DEF Mouse!Drivers, Mouse!Limits, Mouse!nsi, Mouse!ps_spi, Mouse!pcfx_spi, Mouse!pce_io,
    Mouse!cdi_uart, Mouse!sega_io, Mouse!maple, Mouse!real_spi, Mouse!npiso_io, Mouse!trackball
<1>2. s = "npiso_io" => Mouse!Limits[s] = <<-128, 127>>
  BY DEF Mouse!Drivers, Mouse!Limits, Mouse!npiso_io
<1>3. QED
  BY <1>1, <1>2

\* What a poll takes is a number, never a quicker motion sent as a slower one.
LEMMA MouseSent ==
  ASSUME mmSys \in Mouse!Drivers, NEW v \in Int
  PROVE  /\ Mouse!Sent(v) \in Int
         /\ \/ mmSys = "npiso_io" /\ v = -128
            \/ v < 0 /\ Mouse!Sent(v) <= v
            \/ v >= 0 /\ Mouse!Sent(v) >= v
            \/ Mouse!Sent(v) \in {Mouse!Limits[mmSys][1], Mouse!Limits[mmSys][1] + 1,
                                  Mouse!Limits[mmSys][2]}
<1>. DEFINE lo == Mouse!Limits[mmSys][1]
            hi == Mouse!Limits[mmSys][2]
<1>1. /\ lo \in Int /\ hi \in Int /\ lo < 0 /\ hi > 0
      /\ mmSys = "npiso_io" => lo = -128 /\ hi = 127
  BY MouseLimits
<1>2. \A w \in Int : Mouse!Cut(w) = IF w > hi THEN hi ELSE IF w < lo THEN lo ELSE w
  BY DEF Mouse!Cut
<1>. HIDE DEF lo, hi
<1>3. CASE mmSys = "npiso_io"
  <2>1. Mouse!Sent(v) = Mouse!Cut(Mouse!SignMagnitude(v))
    BY <1>3 DEF Mouse!Sent
  <2>2. Mouse!SignMagnitude(v) = IF v < -128 THEN -127 ELSE IF v = -128 THEN 0 ELSE v
    BY DEF Mouse!SignMagnitude
  <2>3. QED
    BY <1>1, <1>2, <1>3, <2>1, <2>2 DEF lo, hi
<1>4. CASE mmSys # "npiso_io"
  <2>1. Mouse!Sent(v) = Mouse!Cut(v)
    BY <1>4 DEF Mouse!Sent
  <2>2. QED
    BY <1>1, <1>2, <2>1 DEF lo, hi
<1>5. QED
  BY <1>3, <1>4

\* The sums of what a mouse moved, was sent and lost to the range go with what its axis holds.
MouseInv ==
  /\ mmSys \in Mouse!Drivers /\ mmRaw \in Int /\ mmRel \in BOOLEAN
  /\ mmReport \in [rel : BOOLEAN, value : Int]
  /\ mmHist \in [in : Int, out : Int, dropped : Int, rel : BOOLEAN, mixed : BOOLEAN]
  /\ Mouse!Conserved
  /\ Mouse!CutToRange

LEMMA MouseInit == ASSUME Mouse!Init PROVE MouseInv
<1>1. mmReport \in [rel : BOOLEAN, value : Int]
  BY DEF Mouse!Init
<1>2. mmHist \in [in : Int, out : Int, dropped : Int, rel : BOOLEAN, mixed : BOOLEAN]
  BY DEF Mouse!Init
<1>3. mmGot.held = 0 /\ mmGot.sent = 0 /\ mmRaw = 0 /\ mmRel = TRUE /\ mmSys \in Mouse!Drivers
  BY DEF Mouse!Init
<1>4. Mouse!Conserved
  BY DEF Mouse!Init, Mouse!Conserved
<1>5. Mouse!CutToRange
  BY <1>3 DEF Mouse!CutToRange
<1>6. QED
  BY <1>1, <1>2, <1>3, <1>4, <1>5 DEF MouseInv

LEMMA MouseStep ==
  ASSUME MouseInv, Mouse!Next \/ UNCHANGED mmVars
  PROVE  MouseInv'
<1>1. CASE UNCHANGED mmVars
  BY <1>1 DEF mmVars, MouseInv, Mouse!Conserved, Mouse!CutToRange
<1>2. CASE Mouse!Copy
  <2>1. mmReport' \in [rel : BOOLEAN, value : Int]
    <3>1. mmReport' \in Mouse!Reports
      BY <1>2 DEF Mouse!Copy
    <3>2. \E b \in BOOLEAN, v \in Int : mmReport' = [rel |-> b, value |-> v]
      <4>1. CASE mmReport' = [rel |-> FALSE, value |-> 300]
        <5>1. 300 \in Int /\ FALSE \in BOOLEAN
          OBVIOUS
        <5>2. QED
          BY <4>1, <5>1
      <4>2. CASE \E v \in {-200, -128, 3} : mmReport' = [rel |-> TRUE, value |-> v]
        <5>1. {-200, -128, 3} \subseteq Int /\ TRUE \in BOOLEAN
          OBVIOUS
        <5>2. QED
          BY <4>2, <5>1
      <4>3. QED
        BY <3>1, <4>1, <4>2 DEF Mouse!Reports
    <3>3. QED
      BY <3>2
  <2>2. UNCHANGED <<mmSys, mmRaw, mmRel, mmGot, mmHist>>
    BY <1>2 DEF Mouse!Copy
  <2>3. QED
    BY <2>1, <2>2 DEF MouseInv, Mouse!Conserved, Mouse!CutToRange
<1>3. CASE Mouse!Store
  <2>1. UNCHANGED <<mmSys, mmRel, mmReport, mmGot>>
    BY <1>3 DEF Mouse!Store
  <2>2. CASE mmReport.rel
    <3>1. /\ mmRaw' = mmRaw + mmReport.value
          /\ mmHist' = [mmHist EXCEPT !.in = @ + mmReport.value, !.rel = TRUE]
      BY <1>3, <2>2 DEF Mouse!Store, Mouse!Stored
    <3>2. /\ mmRaw \in Int /\ mmReport.value \in Int
          /\ mmHist \in [in : Int, out : Int, dropped : Int, rel : BOOLEAN, mixed : BOOLEAN]
          /\ mmHist.mixed \/ mmHist.in = mmHist.out + mmHist.dropped + mmRaw
      BY DEF MouseInv, Mouse!Conserved
    <3>. DEFINE in == mmHist.in + mmReport.value
    <3>3. in \in Int /\ mmHist' = [mmHist EXCEPT !.in = in, !.rel = TRUE]
      BY <3>1, <3>2
    <3>. HIDE DEF in
    <3>4. /\ mmHist' \in [in : Int, out : Int, dropped : Int, rel : BOOLEAN, mixed : BOOLEAN]
          /\ mmHist'.mixed = mmHist.mixed /\ mmHist'.in = in
          /\ mmHist'.out = mmHist.out /\ mmHist'.dropped = mmHist.dropped
      BY <3>2, <3>3
    <3>5. (Mouse!Conserved)' /\ mmRaw' \in Int
      BY <3>1, <3>2, <3>4 DEF Mouse!Conserved, in
    <3>6. QED
      BY <2>1, <3>4, <3>5 DEF MouseInv, Mouse!CutToRange
  <2>3. CASE ~mmReport.rel
    <3>1. /\ mmRaw' = mmReport.value
          /\ mmHist' = [in |-> mmReport.value, out |-> 0, dropped |-> 0, rel |-> FALSE, mixed |-> FALSE]
      BY <1>3, <2>3 DEF Mouse!Store, Mouse!Stored
    <3>2. QED
      BY <2>1, <3>1 DEF MouseInv, Mouse!Conserved, Mouse!CutToRange
  <2>4. QED
    BY <2>2, <2>3
<1>4. CASE Mouse!Back
  <2>1. mmRel' \in BOOLEAN /\ UNCHANGED <<mmSys, mmRaw, mmReport, mmGot, mmHist>>
    BY <1>4 DEF Mouse!Back, MouseInv
  <2>2. QED
    BY <2>1 DEF MouseInv, Mouse!Conserved, Mouse!CutToRange
<1>5. CASE Mouse!load_mouse_axes
  <2>. DEFINE sent == Mouse!Sent(mmRaw)
  <2>1. /\ mmGot' = [sent |-> sent, held |-> mmRaw]
        /\ mmRaw' = IF mmRel THEN 0 ELSE mmRaw
        /\ mmHist' = IF mmRel # mmHist.rel /\ mmRaw # 0 THEN [mmHist EXCEPT !.mixed = TRUE]
                     ELSE IF mmHist.rel /\ ~mmHist.mixed
                     THEN [mmHist EXCEPT !.out = @ + sent, !.dropped = @ + mmRaw - sent]
                     ELSE mmHist
        /\ UNCHANGED <<mmSys, mmRel, mmReport>>
    BY <1>5 DEF Mouse!load_mouse_axes, Mouse!Left
  <2>2. /\ mmSys \in Mouse!Drivers /\ mmRaw \in Int /\ mmRel \in BOOLEAN
        /\ mmHist \in [in : Int, out : Int, dropped : Int, rel : BOOLEAN, mixed : BOOLEAN]
        /\ mmHist.mixed \/ mmHist.in = mmHist.out + mmHist.dropped + mmRaw
    BY DEF MouseInv, Mouse!Conserved
  <2>3. sent \in Int
    BY <2>2, MouseSent
  <2>4. (Mouse!CutToRange)'
    BY <2>1, <2>2, MouseSent DEF Mouse!CutToRange
  <2>. HIDE DEF sent
  <2>5. mmRaw' \in Int
    BY <2>1, <2>2
  <2>6. CASE mmRel # mmHist.rel /\ mmRaw # 0
    <3>1. mmHist' = [mmHist EXCEPT !.mixed = TRUE]
      BY <2>1, <2>6
    <3>2. QED
      BY <2>1, <2>2, <2>4, <2>5, <3>1 DEF MouseInv, Mouse!Conserved
  <2>7. CASE ~(mmRel # mmHist.rel /\ mmRaw # 0) /\ mmHist.rel /\ ~mmHist.mixed
    <3>1. mmHist' = [mmHist EXCEPT !.out = @ + sent, !.dropped = @ + mmRaw - sent]
      BY <2>1, <2>7
    <3>2. mmRaw' = 0
      BY <2>1, <2>2, <2>7
    <3>3. mmHist.out + sent \in Int /\ mmHist.dropped + mmRaw - sent \in Int
      BY <2>2, <2>3
    <3>4. /\ mmHist' \in [in : Int, out : Int, dropped : Int, rel : BOOLEAN, mixed : BOOLEAN]
          /\ mmHist'.in = mmHist.in /\ mmHist'.out = mmHist.out + sent
          /\ mmHist'.dropped = mmHist.dropped + mmRaw - sent
      BY <2>2, <3>1, <3>3
    <3>5. mmHist'.in = mmHist'.out + mmHist'.dropped
      BY <2>2, <2>3, <2>7, <3>4
    <3>6. QED
      BY <2>1, <2>4, <2>5, <3>2, <3>4, <3>5 DEF MouseInv, Mouse!Conserved
  <2>8. CASE ~(mmRel # mmHist.rel /\ mmRaw # 0) /\ ~(mmHist.rel /\ ~mmHist.mixed)
    <3>1. mmHist' = mmHist
      BY <2>1, <2>8
    <3>2. mmHist.mixed \/ mmRaw' = mmRaw
      BY <2>1, <2>2, <2>8
    <3>3. QED
      BY <2>1, <2>2, <2>4, <2>5, <3>1, <3>2 DEF MouseInv, Mouse!Conserved
  <2>9. QED
    BY <2>6, <2>7, <2>8
<1>6. QED
  BY <1>1, <1>2, <1>3, <1>4, <1>5 DEF Mouse!Next
LEMMA MapleSteps == [Next]_vars /\ driver = "maple" => Maple!Next \/ UNCHANGED mplVars
BY DEF Next, vars

MapleAsked == [timeout : Int, config : Int]
MapleHist == [acked : [Maple!Cells -> Int], damaged : SUBSET Maple!Cells,
              timeout : [Maple!Ports -> Int], spoilt : SUBSET Maple!Ports,
              asked : [Maple!Ports -> MapleAsked], excused : SUBSET Maple!Ports]

\* The shared timeout is the one of every port whose write of it none has spoilt since.
MapleInv ==
  /\ mplRumble \in [timeout : Int, config : Int]
  /\ mplCard \in [Maple!Cells -> Int]
  /\ mplSent \in [Maple!Ports -> MapleAsked]
  /\ mplHist \in MapleHist
  /\ Maple!AckedIsStored
  /\ Maple!RumbleAsAsked
  /\ \A p \in Maple!Ports \ mplHist.spoilt : mplRumble.timeout = mplHist.timeout[p]

LEMMA MapleInit == ASSUME Maple!Init PROVE MapleInv
<1>1. mplRumble = [timeout |-> 0, config |-> 0] /\ mplCard = [c \in Maple!Cells |-> 0]
  BY DEF Maple!Init
<1>2. mplSent = [p \in Maple!Ports |-> [timeout |-> 0, config |-> 0]]
  BY DEF Maple!Init
<1>3. mplHist = [acked |-> [c \in Maple!Cells |-> 0], damaged |-> {},
                 timeout |-> [p \in Maple!Ports |-> 0], spoilt |-> {},
                 asked |-> [p \in Maple!Ports |-> [timeout |-> 0, config |-> 0]], excused |-> {}]
  BY DEF Maple!Init
<1>4. mplSent \in [Maple!Ports -> MapleAsked]
  BY <1>2 DEF MapleAsked
<1>5. mplHist \in MapleHist
  BY <1>3 DEF MapleHist, MapleAsked
<1>6. Maple!AckedIsStored /\ Maple!RumbleAsAsked
  BY <1>1, <1>2, <1>3 DEF Maple!AckedIsStored, Maple!RumbleAsAsked
<1>7. QED
  BY <1>1, <1>3, <1>4, <1>5, <1>6 DEF MapleInv

LEMMA MapleStep ==
  ASSUME MapleInv, Maple!Next \/ UNCHANGED mplVars
  PROVE  MapleInv'
<1>1. CASE UNCHANGED mplVars
  BY <1>1 DEF mplVars, MapleInv, Maple!AckedIsStored, Maple!RumbleAsAsked
<1>2. CASE Maple!Configure
  <2>1. UNCHANGED <<mplRumble, mplCard, mplSent, mplHist>>
    BY <1>2 DEF Maple!Configure
  <2>2. QED
    BY <2>1 DEF MapleInv, Maple!AckedIsStored, Maple!RumbleAsAsked
<1>3. ASSUME NEW p \in Maple!Ports, NEW v \in Maple!Values, NEW d \in Maple!Damage,
             NEW c \in Maple!Cells, Maple!BlockWrite(p, c, v, d)
      PROVE  MapleInv'
  <2>. DEFINE hurt == IF d = "whole" THEN mplHist.damaged \ {c} ELSE mplHist.damaged \cup {c}
  <2>1. /\ mplCard' = IF d = "short" THEN mplCard ELSE [mplCard EXCEPT ![c] = Maple!Data(v, d)]
        /\ mplHist' = [mplHist EXCEPT !.acked[c] = v, !.damaged = hurt]
        /\ UNCHANGED <<mplRumble, mplSent>>
    BY <1>3 DEF Maple!BlockWrite, Maple!Stored, Maple!Bad
  <2>2. v \in Int /\ Maple!Data(v, d) \in Int /\ (d = "whole" => Maple!Data(v, d) = v)
    BY DEF Maple!Data, Maple!Wrong, Maple!Values
  <2>3. hurt \in SUBSET Maple!Cells /\ (c \notin hurt => d = "whole")
    BY DEF MapleInv, MapleHist
  <2>4. \A e \in Maple!Cells : e # c => (e \in hurt <=> e \in mplHist.damaged)
    OBVIOUS
  <2>. HIDE DEF hurt
  <2>5. /\ mplHist' \in MapleHist
        /\ mplHist'.acked = [mplHist.acked EXCEPT ![c] = v] /\ mplHist'.damaged = hurt
        /\ mplHist'.timeout = mplHist.timeout /\ mplHist'.spoilt = mplHist.spoilt
        /\ mplHist'.asked = mplHist.asked /\ mplHist'.excused = mplHist.excused
    BY <2>1, <2>2, <2>3 DEF MapleInv, MapleHist
  <2>6. mplCard' \in [Maple!Cells -> Int]
    BY <2>1, <2>2 DEF MapleInv
  <2>7. (Maple!AckedIsStored)'
    <3>1. SUFFICES ASSUME NEW e \in Maple!Cells, e \notin mplHist'.damaged
                   PROVE  mplCard'[e] = mplHist'.acked[e]
      BY DEF Maple!AckedIsStored
    <3>2. CASE e = c
      BY <2>1, <2>2, <2>3, <2>5, <3>1, <3>2 DEF MapleInv, MapleHist
    <3>3. CASE e # c
      <4>1. mplCard[e] = mplHist.acked[e]
        BY <2>4, <2>5, <3>1, <3>3 DEF MapleInv, Maple!AckedIsStored
      <4>2. QED
        BY <2>1, <2>5, <3>3, <4>1 DEF MapleInv, MapleHist
    <3>4. QED
      BY <3>2, <3>3
  <2>8. (Maple!RumbleAsAsked)'
    BY <2>1, <2>5 DEF MapleInv, Maple!RumbleAsAsked
  <2>9. QED
    BY <2>1, <2>5, <2>6, <2>7, <2>8 DEF MapleInv
<1>4. ASSUME NEW p \in Maple!Ports, NEW v \in Maple!Values, NEW d \in Maple!Damage,
             Maple!RumbleTimeout(p, v, d)
      PROVE  MapleInv'
  <2>. DEFINE spoilt == Maple!Ports \ (IF d = "whole" THEN {p} ELSE {})
  <2>1. /\ mplRumble' = IF d = "short" THEN mplRumble
                        ELSE [mplRumble EXCEPT !.timeout = Maple!Data(v, d)]
        /\ mplHist' = [mplHist EXCEPT !.timeout[p] = v, !.spoilt = spoilt]
        /\ UNCHANGED <<mplCard, mplSent>>
    BY <1>4 DEF Maple!RumbleTimeout, Maple!Bad
  <2>2. v \in Int /\ Maple!Data(v, d) \in Int /\ (d = "whole" => Maple!Data(v, d) = v)
    BY DEF Maple!Data, Maple!Wrong, Maple!Values
  <2>3. /\ spoilt \in SUBSET Maple!Ports
        /\ \A q \in Maple!Ports \ spoilt : q = p /\ d = "whole"
    OBVIOUS
  <2>. HIDE DEF spoilt
  <2>4. /\ mplHist' \in MapleHist
        /\ mplHist'.timeout = [mplHist.timeout EXCEPT ![p] = v] /\ mplHist'.spoilt = spoilt
        /\ mplHist'.acked = mplHist.acked /\ mplHist'.damaged = mplHist.damaged
        /\ mplHist'.asked = mplHist.asked /\ mplHist'.excused = mplHist.excused
    BY <2>1, <2>2, <2>3 DEF MapleInv, MapleHist
  <2>5. mplRumble' \in [timeout : Int, config : Int]
    BY <2>1, <2>2 DEF MapleInv
  <2>6. d = "whole" => mplRumble'.timeout = v
    BY <2>1, <2>2 DEF MapleInv
  <2>7. \A q \in Maple!Ports \ mplHist'.spoilt : mplRumble'.timeout = mplHist'.timeout[q]
    BY <2>3, <2>4, <2>6 DEF MapleInv, MapleHist
  <2>8. (Maple!AckedIsStored)' /\ (Maple!RumbleAsAsked)'
    BY <2>1, <2>4 DEF MapleInv, Maple!AckedIsStored, Maple!RumbleAsAsked
  <2>9. QED
    BY <2>1, <2>4, <2>5, <2>7, <2>8 DEF MapleInv
<1>5. ASSUME NEW p \in Maple!Ports, NEW v \in Maple!Values, NEW d \in Maple!Damage,
             NEW accepted \in BOOLEAN, Maple!SetCondition(p, v, d, accepted)
      PROVE  MapleInv'
  <2>. DEFINE queued == ~Maple!Bad(d) /\ mplCfg.rumble[p] /\ accepted
              good == queued /\ d = "whole" /\ p \notin mplHist.spoilt
              excused == IF good THEN mplHist.excused \ {p} ELSE mplHist.excused \cup {p}
              asked == [timeout |-> mplHist.timeout[p], config |-> v]
              told == [timeout |-> mplRumble.timeout, config |-> mplRumble'.config]
  <2>1. /\ mplRumble' = IF d = "short" THEN mplRumble
                        ELSE [mplRumble EXCEPT !.config = Maple!Data(v, d)]
        /\ mplSent' = IF queued THEN [mplSent EXCEPT ![p] = told] ELSE mplSent
        /\ mplHist' = [mplHist EXCEPT !.asked[p] = asked, !.excused = excused]
        /\ UNCHANGED mplCard
    BY <1>5 DEF Maple!SetCondition, Maple!Bad, Maple!Condition
  <2>2. v \in Int /\ Maple!Data(v, d) \in Int /\ (d = "whole" => Maple!Data(v, d) = v)
    BY DEF Maple!Data, Maple!Wrong, Maple!Values
  <2>3. /\ mplRumble' \in [timeout : Int, config : Int]
        /\ mplRumble'.timeout = mplRumble.timeout /\ (d = "whole" => mplRumble'.config = v)
    BY <2>1, <2>2 DEF MapleInv
  <2>4. asked \in MapleAsked /\ told \in MapleAsked
    BY <2>2, <2>3 DEF MapleInv, MapleHist, MapleAsked
  <2>5. good => queued /\ told = asked
    BY <2>3 DEF MapleInv, MapleHist
  <2>6. /\ excused \in SUBSET Maple!Ports /\ (p \notin excused => good)
        /\ \A q \in Maple!Ports : q # p => (q \in excused <=> q \in mplHist.excused)
    BY DEF MapleInv, MapleHist
  <2>. HIDE DEF queued, good, excused, asked, told
  <2>7. /\ mplHist' \in MapleHist
        /\ mplHist'.asked = [mplHist.asked EXCEPT ![p] = asked] /\ mplHist'.excused = excused
        /\ mplHist'.acked = mplHist.acked /\ mplHist'.damaged = mplHist.damaged
        /\ mplHist'.timeout = mplHist.timeout /\ mplHist'.spoilt = mplHist.spoilt
    BY <2>1, <2>4, <2>6 DEF MapleInv, MapleHist
  <2>8. mplSent' \in [Maple!Ports -> MapleAsked]
    BY <2>1, <2>4 DEF MapleInv
  <2>9. (Maple!RumbleAsAsked)'
    <3>1. SUFFICES ASSUME NEW q \in Maple!Ports, q \notin excused
                   PROVE  mplSent'[q] = mplHist'.asked[q]
      BY <2>7 DEF Maple!RumbleAsAsked
    <3>2. CASE q = p
      BY <2>1, <2>5, <2>6, <2>7, <3>1, <3>2 DEF MapleInv, MapleHist
    <3>3. CASE q # p
      <4>1. mplSent[q] = mplHist.asked[q]
        BY <2>6, <3>1, <3>3 DEF MapleInv, Maple!RumbleAsAsked
      <4>2. QED
        BY <2>1, <2>7, <3>3, <4>1 DEF MapleInv, MapleHist
    <3>4. QED
      BY <3>2, <3>3
  <2>10. (Maple!AckedIsStored)'
    BY <2>1, <2>7 DEF MapleInv, Maple!AckedIsStored
  <2>11. QED
    BY <2>1, <2>3, <2>7, <2>8, <2>9, <2>10 DEF MapleInv
<1>6. QED
  BY <1>1, <1>2, <1>3, <1>4, <1>5 DEF Maple!Next
LEMMA NsiSteps == [Next]_vars /\ driver = "nsi" => Nsi!Next \/ UNCHANGED nsiVars
BY DEF Next, vars

NsiPaks == (0 .. 1) \X Nsi!AccModes
NsiCmds == {"idle", "poll", "status", "write"}
NsiHist == [seen : [Nsi!Ports -> NsiPaks \cup {Nsi!None}], asked : [Nsi!Ports -> Int],
            sent : [Nsi!Ports -> Int], lost : SUBSET Nsi!Ports, switched : SUBSET Nsi!Ports,
            stray : BOOLEAN, raced : BOOLEAN, analog : Int, early : BOOLEAN, btn : BOOLEAN,
            torn : BOOLEAN]
NsiCfgType == [bank : 0 .. 1, acc : [Nsi!Ports -> Nsi!AccModes], dev : [Nsi!Ports -> {"PAD", "MOUSE"}]]
NsiPakType == [init : BOOLEAN, bank : 0 .. 1, acc : [Nsi!Ports -> Nsi!AccModes],
               update : [Nsi!Ports -> Nat]]
NsiTypes ==
  /\ nsiCfg \in NsiCfgType
  /\ nsiPak \in NsiPakType
  /\ nsiRum \in [last : [Nsi!Ports -> Int], state : [Nsi!Ports -> Int]]
  /\ nsiCmd \in [port : Nsi!Ports, cmd : NsiCmds]
  /\ nsiHist \in NsiHist

\* Nothing was told of a pak before the first frame, and a frame that writes found the pak of its
\* port as it is, or flagged the change of it.
PakInv ==
  /\ ~nsiPak.init => nsiCmd.cmd = "idle" /\ \A p \in Nsi!Ports : nsiHist.seen[p] = Nsi!None
  /\ nsiCmd.cmd = "write" =>
       \/ nsiPak.update[nsiCmd.port] > 0 \/ nsiHist.raced
       \/ nsiPak.acc[nsiCmd.port] = nsiCfg.acc[nsiCmd.port]
  /\ Nsi!PakChangeTold
  /\ Nsi!WritesWhereSeen

\* last_rumble is what the controller was sent, where no message was refused.
MotorInv ==
  /\ \A p \in Nsi!Ports \ nsiHist.lost : nsiHist.sent[p] = nsiRum.last[p]
  /\ Nsi!RumbleFollows

\* A trigger counts its frames as the console sees them; no core has a copy of the byte that is
\* older than the last report.
OriginInv ==
  /\ nsiTrig = nsiHist.analog /\ ~nsiHist.early
  /\ ~nsiHist.torn =>
       /\ nsiOut.core0 = {} \/ nsiOut.core1 = {}
       /\ nsiOut.core0 = {} =>
            nsiOut.byte.btn = nsiHist.btn /\ \A b \in nsiOut.core1 : b.btn = nsiHist.btn
  /\ nsiOut \in [byte : [origin : BOOLEAN, btn : BOOLEAN],
                 core0 : SUBSET [origin : BOOLEAN, btn : BOOLEAN],
                 core1 : SUBSET [origin : BOOLEAN, btn : BOOLEAN]]

NsiInv == NsiTypes /\ PakInv /\ MotorInv /\ OriginInv

LEMMA NsiInit == ASSUME Nsi!Init PROVE NsiInv
<1>1. nsiCfg = [bank |-> 0, acc |-> [p \in Nsi!Ports |-> "MEM"], dev |-> [p \in Nsi!Ports |-> "PAD"]]
  BY DEF Nsi!Init
<1>2. nsiPak = [init |-> FALSE, bank |-> 0, acc |-> [p \in Nsi!Ports |-> "NONE"],
               update |-> [p \in Nsi!Ports |-> 0]]
  BY DEF Nsi!Init
<1>3. /\ nsiRum = [last |-> [p \in Nsi!Ports |-> 0], state |-> [p \in Nsi!Ports |-> 0]]
      /\ nsiCmd = [port |-> 0, cmd |-> "idle"]
  BY DEF Nsi!Init, Nsi!Idle
<1>4. nsiHist = [seen |-> [p \in Nsi!Ports |-> Nsi!None], asked |-> [p \in Nsi!Ports |-> 0],
                sent |-> [p \in Nsi!Ports |-> 0], lost |-> {}, switched |-> {}, stray |-> FALSE,
                raced |-> FALSE, analog |-> 0, early |-> FALSE, btn |-> FALSE, torn |-> FALSE]
  BY DEF Nsi!Init
<1>5. nsiTrig = 0 /\ nsiOut = [byte |-> [origin |-> TRUE, btn |-> FALSE], core1 |-> {}, core0 |-> {}]
  BY DEF Nsi!Init
<1>6. nsiCfg \in NsiCfgType
  BY <1>1 DEF Nsi!AccModes, NsiCfgType
<1>7. nsiPak \in NsiPakType
  BY <1>2 DEF Nsi!AccModes, NsiPakType
<1>8. nsiHist \in NsiHist
  BY <1>4 DEF NsiHist
<1>9. NsiTypes
  BY <1>3, <1>6, <1>7, <1>8 DEF NsiTypes, NsiCmds, Nsi!Ports
<1>10. PakInv
  BY <1>2, <1>3, <1>4 DEF PakInv, Nsi!PakChangeTold, Nsi!WritesWhereSeen
<1>11. MotorInv
  BY <1>3, <1>4 DEF MotorInv, Nsi!RumbleFollows
<1>12. OriginInv
  BY <1>4, <1>5 DEF OriginInv
<1>13. QED
  BY <1>9, <1>10, <1>11, <1>12 DEF NsiInv

\* What keeps each part of the invariant when its own variables stand.
LEMMA NsiFrames ==
  ASSUME NsiInv
  PROVE  /\ UNCHANGED <<nsiPak, nsiCmd, nsiCfg>> /\ nsiHist'.seen = nsiHist.seen
            /\ nsiHist'.stray = nsiHist.stray /\ nsiHist'.raced = nsiHist.raced => PakInv'
         /\ UNCHANGED <<nsiRum, nsiCfg>> /\ nsiHist'.lost = nsiHist.lost
            /\ nsiHist'.switched = nsiHist.switched /\ nsiHist'.sent = nsiHist.sent
            /\ nsiHist'.asked = nsiHist.asked => MotorInv'
         /\ UNCHANGED <<nsiTrig, nsiOut>> /\ nsiHist'.analog = nsiHist.analog
            /\ nsiHist'.early = nsiHist.early /\ nsiHist'.btn = nsiHist.btn
            /\ nsiHist'.torn = nsiHist.torn => OriginInv'
<1>1. ASSUME UNCHANGED <<nsiPak, nsiCmd, nsiCfg>>, nsiHist'.seen = nsiHist.seen,
             nsiHist'.stray = nsiHist.stray, nsiHist'.raced = nsiHist.raced
      PROVE  PakInv'
  BY <1>1 DEF NsiInv, PakInv, Nsi!PakChangeTold, Nsi!WritesWhereSeen, Nsi!Pak
<1>2. ASSUME UNCHANGED <<nsiRum, nsiCfg>>, nsiHist'.lost = nsiHist.lost,
             nsiHist'.switched = nsiHist.switched, nsiHist'.sent = nsiHist.sent,
             nsiHist'.asked = nsiHist.asked
      PROVE  MotorInv'
  BY <1>2 DEF NsiInv, MotorInv, Nsi!RumbleFollows
<1>3. ASSUME UNCHANGED <<nsiTrig, nsiOut>>, nsiHist'.analog = nsiHist.analog,
             nsiHist'.early = nsiHist.early, nsiHist'.btn = nsiHist.btn,
             nsiHist'.torn = nsiHist.torn
      PROVE  OriginInv'
  BY <1>3 DEF NsiInv, OriginInv
<1>4. QED
  BY <1>1, <1>2, <1>3
LEMMA NsiConfigure == ASSUME NsiInv, Nsi!Configure PROVE NsiInv'
<1>1. UNCHANGED <<nsiPak, nsiRum, nsiTrig, nsiCmd, nsiOut>>
  BY DEF Nsi!Configure
<1>2. NsiTypes /\ PakInv /\ MotorInv
  BY DEF NsiInv
<1>3. ASSUME nsiCfg' = [nsiCfg EXCEPT !.bank = 1 - @] \/ \E d \in {"PAD", "MOUSE"} : nsiCfg' = [nsiCfg EXCEPT !.dev[1] = d],
             UNCHANGED nsiHist
      PROVE  NsiInv'
  <2>1. nsiCfg' \in NsiCfgType
    <3>1. CASE nsiCfg' = [nsiCfg EXCEPT !.bank = 1 - @]
      BY <1>2, <3>1 DEF NsiTypes, NsiCfgType, NsiPakType
    <3>2. CASE \E d \in {"PAD", "MOUSE"} : nsiCfg' = [nsiCfg EXCEPT !.dev[1] = d]
      BY <1>2, <3>2 DEF NsiTypes, NsiCfgType, NsiPakType, Nsi!Ports
    <3>3. QED
      BY <1>3, <3>1, <3>2
  <2>2. nsiCfg'.acc = nsiCfg.acc
    BY <1>2, <1>3 DEF NsiTypes, NsiCfgType, NsiPakType
  <2>3. NsiTypes'
    BY <1>1, <1>2, <1>3, <2>1 DEF NsiTypes
  <2>4. PakInv'
    BY <1>1, <1>2, <1>3, <2>2 DEF PakInv, Nsi!PakChangeTold, Nsi!WritesWhereSeen, Nsi!Pak
  <2>5. MotorInv'
    BY <1>1, <1>2, <1>3, <2>2 DEF MotorInv, Nsi!RumbleFollows
  <2>6. OriginInv'
    BY <1>1, <1>3, NsiFrames
  <2>7. QED
    BY <2>3, <2>4, <2>5, <2>6 DEF NsiInv
<1>4. ASSUME NEW p \in Nsi!Ports, NEW a \in Nsi!AccModes,
             nsiCfg' = [nsiCfg EXCEPT !.acc[p] = a],
             nsiHist' = [nsiHist EXCEPT !.raced = @ \/ nsiCmd = [port |-> p, cmd |-> "write"],
                                        !.switched = @ \cup {p}]
      PROVE  NsiInv'
  <2>1. /\ nsiCfg' \in NsiCfgType
        /\ nsiCfg'.acc = [nsiCfg.acc EXCEPT ![p] = a]
    BY <1>2, <1>4 DEF NsiTypes, NsiCfgType, NsiPakType
  <2>. DEFINE raced == nsiHist.raced \/ nsiCmd = [port |-> p, cmd |-> "write"]
  <2>2. raced \in BOOLEAN /\ (nsiHist.raced => raced)
        /\ (nsiCmd.port = p /\ nsiCmd.cmd = "write" => raced)
    BY <1>2 DEF NsiTypes, NsiHist
  <2>3. nsiHist' = [nsiHist EXCEPT !.raced = raced, !.switched = @ \cup {p}]
    BY <1>4
  <2>. HIDE DEF raced
  <2>4. /\ nsiHist' \in NsiHist /\ nsiHist'.raced = raced
        /\ nsiHist'.switched = nsiHist.switched \cup {p}
        /\ nsiHist'.seen = nsiHist.seen /\ nsiHist'.stray = nsiHist.stray
        /\ nsiHist'.lost = nsiHist.lost /\ nsiHist'.sent = nsiHist.sent
        /\ nsiHist'.asked = nsiHist.asked /\ nsiHist'.analog = nsiHist.analog
        /\ nsiHist'.early = nsiHist.early /\ nsiHist'.btn = nsiHist.btn
        /\ nsiHist'.torn = nsiHist.torn
    BY <1>2, <2>2, <2>3 DEF NsiTypes, NsiHist
  <2>5. NsiTypes'
    BY <1>1, <1>2, <2>1, <2>4 DEF NsiTypes
  <2>6. PakInv'
    <3>1. (Nsi!PakChangeTold)'
      BY <1>1, <1>2, <2>4 DEF PakInv, Nsi!PakChangeTold, Nsi!Pak
    <3>2. (Nsi!WritesWhereSeen)'
      BY <1>2, <2>2, <2>4 DEF PakInv, Nsi!WritesWhereSeen
    <3>3. nsiCmd.cmd = "write" /\ nsiCmd.port # p => nsiCfg'.acc[nsiCmd.port] = nsiCfg.acc[nsiCmd.port]
      BY <1>2, <2>1 DEF NsiTypes
    <3>4. QED
      BY <1>1, <1>2, <2>2, <2>4, <3>1, <3>2, <3>3 DEF PakInv
  <2>7. MotorInv'
    <3>1. \A q \in Nsi!Ports : q # p => nsiCfg'.acc[q] = nsiCfg.acc[q]
      BY <1>2, <2>1 DEF NsiTypes, NsiCfgType
    <3>2. QED
      BY <1>1, <1>2, <2>4, <3>1 DEF MotorInv, Nsi!RumbleFollows
  <2>8. OriginInv'
    BY <1>1, <2>4, NsiFrames
  <2>9. QED
    BY <2>5, <2>6, <2>7, <2>8 DEF NsiInv
<1>5. QED
  BY <1>3, <1>4 DEF Nsi!Configure

\* A pak change is flagged to the ports it concerns before the console believes in another one.
LEMMA NsiFlagged ==
  ASSUME NsiInv, NEW p \in Nsi!Ports, NEW pak, pak = Nsi!Flagged(p)
  PROVE  /\ pak \in NsiPakType
         /\ pak.init = nsiPak.init
         /\ pak.update[p] > 0 \/ pak.acc[p] = nsiCfg.acc[p]
         /\ \A q \in Nsi!Ports :
              \/ pak.update[q] > 0
              \/ pak.update[q] = nsiPak.update[q] /\ pak.bank = nsiPak.bank /\ pak.acc[q] = nsiPak.acc[q]
<1>1. NsiUpdate \in Nat /\ NsiUpdate > 0
  BY NsiUpdateAssumption
<1>2. /\ nsiPak \in NsiPakType
      /\ nsiCfg.bank \in 0 .. 1 /\ nsiCfg.acc \in [Nsi!Ports -> Nsi!AccModes]
  BY DEF NsiInv, NsiTypes, NsiCfgType
<1>3. CASE nsiCfg.bank # nsiPak.bank
  <2>. DEFINE all == [q \in Nsi!Ports |-> NsiUpdate]
  <2>1. pak = [nsiPak EXCEPT !.update = all, !.bank = nsiCfg.bank]
    BY <1>3 DEF Nsi!Flagged
  <2>2. all \in [Nsi!Ports -> Nat] /\ \A q \in Nsi!Ports : all[q] > 0
    BY <1>1
  <2>. HIDE DEF all
  <2>3. pak \in NsiPakType /\ pak.init = nsiPak.init /\ pak.update = all
    BY <1>2, <2>1, <2>2 DEF NsiPakType
  <2>4. QED
    BY <2>2, <2>3
<1>4. CASE nsiCfg.bank = nsiPak.bank /\ nsiCfg.acc[p] # nsiPak.acc[p]
  <2>. DEFINE update == [nsiPak.update EXCEPT ![p] = NsiUpdate]
              acc == [nsiPak.acc EXCEPT ![p] = nsiCfg.acc[p]]
  <2>1. pak = [nsiPak EXCEPT !.update = update, !.acc = acc]
    BY <1>4 DEF Nsi!Flagged
  <2>2. /\ update \in [Nsi!Ports -> Nat] /\ update[p] > 0
        /\ \A q \in Nsi!Ports : q # p => update[q] = nsiPak.update[q]
    BY <1>1, <1>2 DEF NsiPakType
  <2>3. /\ acc \in [Nsi!Ports -> Nsi!AccModes]
        /\ \A q \in Nsi!Ports : q # p => acc[q] = nsiPak.acc[q]
    BY <1>2 DEF NsiPakType
  <2>. HIDE DEF update, acc
  <2>4. /\ pak \in NsiPakType /\ pak.init = nsiPak.init /\ pak.update = update /\ pak.acc = acc
        /\ pak.bank = nsiPak.bank
    BY <1>2, <2>1, <2>2, <2>3 DEF NsiPakType
  <2>5. QED
    BY <2>2, <2>3, <2>4
<1>5. CASE nsiCfg.bank = nsiPak.bank /\ nsiCfg.acc[p] = nsiPak.acc[p]
  <2>1. pak = nsiPak
    BY <1>5 DEF Nsi!Flagged
  <2>2. QED
    BY <1>2, <1>5, <2>1
<1>6. QED
  BY <1>3, <1>4, <1>5

LEMMA NsiFrame ==
  ASSUME NsiInv, NEW p \in Nsi!Ports, NEW cmd \in {"poll", "status", "write"}, Nsi!N64Frame(p, cmd)
  PROVE  NsiInv'
<1>1. /\ nsiCmd.cmd = "idle" /\ nsiCmd' = [port |-> p, cmd |-> cmd]
      /\ nsiPak' = IF nsiPak.init THEN Nsi!Flagged(p)
                   ELSE [nsiPak EXCEPT !.init = TRUE, !.bank = nsiCfg.bank, !.acc = nsiCfg.acc]
      /\ UNCHANGED <<nsiCfg, nsiRum, nsiTrig, nsiOut, nsiHist>>
  BY DEF Nsi!N64Frame, Nsi!Idle
<1>2. NsiTypes /\ PakInv
  BY DEF NsiInv
<1>3. nsiCmd' \in [port : Nsi!Ports, cmd : NsiCmds] /\ nsiCmd'.port = p /\ nsiCmd'.cmd # "idle"
  BY <1>1 DEF NsiCmds
<1>4. MotorInv' /\ OriginInv'
  BY <1>1, NsiFrames
<1>5. CASE nsiPak.init
  <2>1. /\ nsiPak' \in NsiPakType
        /\ nsiPak'.init
        /\ nsiPak'.update[p] > 0 \/ nsiPak'.acc[p] = nsiCfg.acc[p]
        /\ \A q \in Nsi!Ports :
             \/ nsiPak'.update[q] > 0
             \/ /\ nsiPak'.update[q] = nsiPak.update[q] /\ nsiPak'.bank = nsiPak.bank
                /\ nsiPak'.acc[q] = nsiPak.acc[q]
    <3>1. PICK pak : pak = Nsi!Flagged(p) /\ nsiPak' = pak
      BY <1>1, <1>5
    <3>2. /\ pak \in NsiPakType
          /\ pak.init = nsiPak.init
          /\ pak.update[p] > 0 \/ pak.acc[p] = nsiCfg.acc[p]
          /\ \A q \in Nsi!Ports :
               \/ pak.update[q] > 0
               \/ /\ pak.update[q] = nsiPak.update[q] /\ pak.bank = nsiPak.bank
                  /\ pak.acc[q] = nsiPak.acc[q]
      BY <3>1, NsiFlagged
    <3>3. QED
      BY <1>5, <3>1, <3>2
  <2>2. (Nsi!PakChangeTold)'
    BY <1>1, <1>2, <2>1 DEF PakInv, Nsi!PakChangeTold, Nsi!Pak
  <2>3. (Nsi!WritesWhereSeen)'
    BY <1>1, <1>2 DEF PakInv, Nsi!WritesWhereSeen
  <2>4. PakInv'
    BY <1>1, <1>3, <2>1, <2>2, <2>3 DEF PakInv
  <2>5. NsiTypes'
    BY <1>1, <1>2, <1>3, <2>1 DEF NsiTypes
  <2>6. QED
    BY <1>4, <2>4, <2>5 DEF NsiInv
<1>6. CASE ~nsiPak.init
  <2>1. /\ nsiPak' \in NsiPakType
        /\ nsiPak'.init /\ nsiPak'.acc = nsiCfg.acc
    BY <1>1, <1>2, <1>6 DEF NsiTypes, NsiCfgType, NsiPakType
  <2>2. (Nsi!PakChangeTold)'
    BY <1>1, <1>2, <1>6 DEF PakInv, Nsi!PakChangeTold
  <2>3. (Nsi!WritesWhereSeen)'
    BY <1>1, <1>2 DEF PakInv, Nsi!WritesWhereSeen
  <2>4. PakInv'
    BY <1>1, <1>3, <2>1, <2>2, <2>3 DEF PakInv
  <2>5. NsiTypes'
    BY <1>1, <1>2, <1>3, <2>1 DEF NsiTypes
  <2>6. QED
    BY <1>4, <2>4, <2>5 DEF NsiInv
<1>7. QED
  BY <1>5, <1>6
\* Frames that end without a word on the pak or the motor.
LEMMA NsiOther == ASSUME NsiInv, Nsi!N64Other PROVE NsiInv'
<1>1. nsiCmd' = [port |-> 0, cmd |-> "idle"]
      /\ UNCHANGED <<nsiCfg, nsiPak, nsiRum, nsiTrig, nsiOut, nsiHist>>
  BY DEF Nsi!N64Other, Nsi!Done, Nsi!Idle
<1>2. nsiCmd' \in [port : Nsi!Ports, cmd : NsiCmds] /\ nsiCmd'.cmd = "idle"
  BY <1>1 DEF NsiCmds, Nsi!Ports
<1>3. NsiTypes'
  BY <1>1, <1>2 DEF NsiInv, NsiTypes
<1>4. PakInv'
  BY <1>1, <1>2 DEF NsiInv, PakInv, Nsi!PakChangeTold, Nsi!WritesWhereSeen, Nsi!Pak
<1>5. MotorInv' /\ OriginInv'
  BY <1>1, NsiFrames
<1>6. QED
  BY <1>3, <1>4, <1>5 DEF NsiInv

\* A frame of a controller ends: the pak's counter goes down, or not, but never to zero unseen.
LEMMA NsiServed ==
  ASSUME NsiInv, NEW cmd \in {"poll", "status", "write"}, Nsi!Pad(cmd)
  PROVE  /\ nsiCmd.port \in Nsi!Ports /\ nsiCmd.cmd = cmd /\ nsiPak.init
         /\ nsiCmd' \in [port : Nsi!Ports, cmd : NsiCmds] /\ nsiCmd'.cmd = "idle"
<1>1. nsiCmd.cmd = cmd /\ nsiCmd' = [port |-> 0, cmd |-> "idle"]
  BY DEF Nsi!Pad, Nsi!Serves, Nsi!Done, Nsi!Idle
<1>2. QED
  BY <1>1 DEF NsiInv, NsiTypes, PakInv, NsiCmds, Nsi!Ports

LEMMA NsiPoll == ASSUME NsiInv, Nsi!N64Poll PROVE NsiInv'
<1>. DEFINE p == nsiCmd.port
            left == nsiPak.update[p]
            update == [nsiPak.update EXCEPT ![p] = IF left > 1 THEN left - 1 ELSE left]
<1>1. /\ Nsi!Pad("poll") /\ nsiPak' = [nsiPak EXCEPT !.update = update]
      /\ UNCHANGED <<nsiCfg, nsiRum, nsiTrig, nsiOut, nsiHist>>
  BY DEF Nsi!N64Poll
<1>2. p \in Nsi!Ports /\ nsiCmd' \in [port : Nsi!Ports, cmd : NsiCmds] /\ nsiCmd'.cmd = "idle"
  BY <1>1, NsiServed
<1>3. nsiPak.init
  BY <1>1, NsiServed
<1>4. /\ update \in [Nsi!Ports -> Nat]
      /\ \A q \in Nsi!Ports : nsiPak.update[q] > 0 => update[q] > 0
  BY <1>2 DEF NsiInv, NsiTypes, NsiPakType
<1>. HIDE DEF update
<1>5. /\ nsiPak' \in NsiPakType /\ nsiPak'.update = update /\ nsiPak'.init
      /\ nsiPak'.bank = nsiPak.bank /\ nsiPak'.acc = nsiPak.acc
  BY <1>1, <1>3, <1>4 DEF NsiInv, NsiTypes, NsiPakType
<1>. HIDE DEF p, left
<1>6. NsiTypes'
  BY <1>1, <1>2, <1>5 DEF NsiInv, NsiTypes
<1>7. PakInv'
  BY <1>1, <1>2, <1>4, <1>5 DEF NsiInv, PakInv, Nsi!PakChangeTold, Nsi!WritesWhereSeen, Nsi!Pak
<1>8. MotorInv' /\ OriginInv'
  BY <1>1, NsiFrames
<1>9. QED
  BY <1>6, <1>7, <1>8 DEF NsiInv

LEMMA NsiStatus == ASSUME NsiInv, Nsi!N64Status PROVE NsiInv'
<1>. DEFINE p == nsiCmd.port
            left == nsiPak.update[p]
            told == IF nsiCfg.acc[p] = "NONE" THEN Nsi!None
                    ELSE IF left > 1 THEN Nsi!None
                    ELSE IF left = 1 \/ nsiHist.seen[p] = Nsi!None THEN Nsi!Pak(p) ELSE nsiHist.seen[p]
            after == IF nsiCfg.acc[p] # "NONE" /\ left > 0 THEN left - 1 ELSE left
            seen == [nsiHist.seen EXCEPT ![p] = told]
            update == [nsiPak.update EXCEPT ![p] = after]
<1>1. Nsi!Pad("status") /\ UNCHANGED <<nsiCfg, nsiRum, nsiTrig, nsiOut>>
  BY DEF Nsi!N64Status
<1>2. p \in Nsi!Ports /\ nsiCmd' \in [port : Nsi!Ports, cmd : NsiCmds] /\ nsiCmd'.cmd = "idle"
  BY <1>1, NsiServed
<1>3. nsiPak.init
  BY <1>1, NsiServed
<1>4. /\ nsiPak \in NsiPakType /\ nsiHist \in NsiHist /\ Nsi!PakChangeTold
  BY DEF NsiInv, NsiTypes, PakInv
<1>5. left \in Nat /\ after \in Nat
  BY <1>2, <1>4 DEF NsiPakType
<1>6. Nsi!Pak(p) \in NsiPaks
  BY <1>2, <1>4 DEF NsiPakType, Nsi!Pak, NsiPaks
<1>7. told \in NsiPaks \cup {Nsi!None}
  BY <1>2, <1>4, <1>6 DEF NsiHist
<1>8. told \in {Nsi!None, Nsi!Pak(p)} \/ after > 0
  <2>1. nsiHist.seen[p] \in {Nsi!None, Nsi!Pak(p)} \/ left > 0
    BY <1>2, <1>4 DEF Nsi!PakChangeTold
  <2>2. QED
    BY <1>5, <2>1
<1>9. nsiPak' = [nsiPak EXCEPT !.update = update]
  <2>1. CASE nsiCfg.acc[p] = "NONE"
    BY <1>2, <1>4, <2>1 DEF Nsi!N64Status, NsiPakType
  <2>2. CASE nsiCfg.acc[p] # "NONE"
    BY <1>2, <1>4, <2>2 DEF Nsi!N64Status, NsiPakType
  <2>3. QED
    BY <2>1, <2>2
<1>10. nsiHist' = [nsiHist EXCEPT !.seen = seen]
  <2>1. CASE nsiCfg.acc[p] = "NONE"
    BY <2>1 DEF Nsi!N64Status
  <2>2. CASE nsiCfg.acc[p] # "NONE"
    BY <2>2 DEF Nsi!N64Status
  <2>3. QED
    BY <2>1, <2>2
<1>11. /\ seen \in [Nsi!Ports -> NsiPaks \cup {Nsi!None}] /\ seen[p] = told
       /\ \A q \in Nsi!Ports : q # p => seen[q] = nsiHist.seen[q]
  <2>. HIDE DEF told
  <2>1. QED
    BY <1>2, <1>4, <1>7 DEF NsiHist
<1>12. /\ update \in [Nsi!Ports -> Nat] /\ update[p] = after
       /\ \A q \in Nsi!Ports : q # p => update[q] = nsiPak.update[q]
  <2>. HIDE DEF after
  <2>1. QED
    BY <1>2, <1>4, <1>5 DEF NsiPakType
<1>. HIDE DEF seen, update, told, after, left
<1>13. /\ nsiPak' \in NsiPakType /\ nsiPak'.update = update /\ nsiPak'.init
       /\ nsiPak'.bank = nsiPak.bank /\ nsiPak'.acc = nsiPak.acc
  BY <1>3, <1>4, <1>9, <1>12 DEF NsiPakType
<1>14. /\ nsiHist' \in NsiHist /\ nsiHist'.seen = seen
       /\ nsiHist'.stray = nsiHist.stray /\ nsiHist'.raced = nsiHist.raced
       /\ nsiHist'.lost = nsiHist.lost /\ nsiHist'.sent = nsiHist.sent
       /\ nsiHist'.switched = nsiHist.switched
       /\ nsiHist'.asked = nsiHist.asked /\ nsiHist'.analog = nsiHist.analog
       /\ nsiHist'.early = nsiHist.early /\ nsiHist'.btn = nsiHist.btn
       /\ nsiHist'.torn = nsiHist.torn
  BY <1>4, <1>10, <1>11 DEF NsiHist
<1>15. NsiTypes'
  BY <1>1, <1>2, <1>13, <1>14 DEF NsiInv, NsiTypes
<1>16. (Nsi!PakChangeTold)'
  <2>1. SUFFICES ASSUME NEW q \in Nsi!Ports
                 PROVE  seen[q] \in {Nsi!None, Nsi!Pak(q)} \/ update[q] > 0
    BY <1>13, <1>14 DEF Nsi!PakChangeTold, Nsi!Pak
  <2>2. CASE q = p
    BY <1>8, <1>11, <1>12, <2>2
  <2>3. CASE q # p
    BY <1>4, <1>11, <1>12, <2>3 DEF Nsi!PakChangeTold
  <2>4. QED
    BY <2>2, <2>3
<1>17. PakInv'
  BY <1>2, <1>13, <1>14, <1>16 DEF NsiInv, PakInv, Nsi!WritesWhereSeen
<1>18. MotorInv' /\ OriginInv'
  BY <1>1, <1>14, NsiFrames
<1>19. QED
  BY <1>15, <1>17, <1>18 DEF NsiInv
\* The motor's part of the invariant after a request, h being the history but for the motor.
LEMMA NsiMotor ==
  ASSUME NsiInv, NEW p \in Nsi!Ports, NEW v \in 0 .. 1, NEW h \in NsiHist,
         h.asked = nsiHist.asked, h.sent = nsiHist.sent, h.lost = nsiHist.lost,
         h.switched = nsiHist.switched, Nsi!Motor(p, v, h), UNCHANGED nsiCfg
  PROVE  /\ MotorInv'
         /\ nsiRum' \in [last : [Nsi!Ports -> Int], state : [Nsi!Ports -> Int]]
         /\ nsiHist' \in NsiHist
         /\ nsiHist'.seen = h.seen /\ nsiHist'.stray = h.stray /\ nsiHist'.raced = h.raced
         /\ nsiHist'.analog = h.analog /\ nsiHist'.early = h.early /\ nsiHist'.btn = h.btn
         /\ nsiHist'.torn = h.torn
<1>1. /\ nsiRum \in [last : [Nsi!Ports -> Int], state : [Nsi!Ports -> Int]]
      /\ nsiHist \in NsiHist
  BY DEF NsiInv, NsiTypes
<1>2. /\ \A q \in Nsi!Ports \ nsiHist.lost : nsiHist.sent[q] = nsiRum.last[q]
      /\ \A q \in Nsi!Ports : nsiCfg.acc[q] = "RUMBLE" /\ q \notin nsiHist.lost \cup nsiHist.switched
            => nsiHist.sent[q] = nsiHist.asked[q]
  BY DEF NsiInv, MotorInv, Nsi!RumbleFollows
<1>. DEFINE asked == [nsiHist.asked EXCEPT ![p] = v]
<1>3. /\ asked \in [Nsi!Ports -> Int] /\ asked[p] = v
      /\ \A q \in Nsi!Ports : q # p => asked[q] = nsiHist.asked[q]
  BY <1>1 DEF NsiHist
<1>. HIDE DEF asked
<1>4. CASE nsiCfg.acc[p] # "RUMBLE"
  <2>1. nsiHist' = [h EXCEPT !.asked = asked] /\ nsiRum' = nsiRum
    BY <1>4 DEF Nsi!Motor, asked
  <2>2. /\ nsiHist' \in NsiHist /\ nsiHist'.asked = asked /\ nsiHist'.sent = h.sent
        /\ nsiHist'.lost = h.lost /\ nsiHist'.switched = h.switched
        /\ nsiHist'.seen = h.seen /\ nsiHist'.stray = h.stray /\ nsiHist'.raced = h.raced
        /\ nsiHist'.analog = h.analog /\ nsiHist'.early = h.early /\ nsiHist'.btn = h.btn
        /\ nsiHist'.torn = h.torn
    BY <1>3, <2>1 DEF NsiHist
  <2>3. MotorInv'
    BY <1>2, <1>3, <1>4, <2>1, <2>2 DEF MotorInv, Nsi!RumbleFollows
  <2>4. QED
    BY <1>1, <2>1, <2>2, <2>3
<1>5. ASSUME NEW accepted \in BOOLEAN, NEW r, r = Nsi!Rumbles(p, v, accepted),
             nsiCfg.acc[p] = "RUMBLE", nsiRum' = [nsiRum EXCEPT !.last = r.last],
             nsiHist' = [h EXCEPT !.asked = asked, !.sent = r.sent, !.lost = r.lost, !.switched = @ \ {p}]
      PROVE  /\ MotorInv'
             /\ nsiRum' \in [last : [Nsi!Ports -> Int], state : [Nsi!Ports -> Int]]
             /\ nsiHist' \in NsiHist
             /\ nsiHist'.seen = h.seen /\ nsiHist'.stray = h.stray /\ nsiHist'.raced = h.raced
             /\ nsiHist'.analog = h.analog /\ nsiHist'.early = h.early /\ nsiHist'.btn = h.btn
             /\ nsiHist'.torn = h.torn
  <2>1. /\ r.last \in [Nsi!Ports -> Int] /\ r.sent \in [Nsi!Ports -> Int]
        /\ r.lost \in SUBSET Nsi!Ports
        /\ r.last[p] = v /\ (p \notin r.lost => r.sent[p] = v)
        /\ \A q \in Nsi!Ports : q # p =>
              /\ r.last[q] = nsiRum.last[q] /\ r.sent[q] = nsiHist.sent[q]
              /\ q \in r.lost <=> q \in nsiHist.lost
    <3>1. CASE nsiRum.last[p] = v
      <4>1. r = [last |-> nsiRum.last, sent |-> nsiHist.sent, lost |-> nsiHist.lost]
        BY <1>5, <3>1 DEF Nsi!Rumbles
      <4>2. QED
        BY <1>1, <1>2, <3>1, <4>1 DEF NsiHist
    <3>2. CASE nsiRum.last[p] # v /\ accepted
      <4>1. r = [last |-> [nsiRum.last EXCEPT ![p] = v], sent |-> [nsiHist.sent EXCEPT ![p] = v],
                 lost |-> nsiHist.lost \ {p}]
        BY <1>5, <3>2 DEF Nsi!Rumbles
      <4>2. QED
        BY <1>1, <4>1 DEF NsiHist
    <3>3. CASE nsiRum.last[p] # v /\ ~accepted
      <4>1. r = [last |-> [nsiRum.last EXCEPT ![p] = v], sent |-> nsiHist.sent,
                 lost |-> nsiHist.lost \cup {p}]
        BY <1>5, <3>3 DEF Nsi!Rumbles
      <4>2. QED
        BY <1>1, <4>1 DEF NsiHist
    <3>4. QED
      BY <3>1, <3>2, <3>3
  <2>2. /\ nsiRum' \in [last : [Nsi!Ports -> Int], state : [Nsi!Ports -> Int]]
        /\ nsiRum'.last = r.last
    BY <1>1, <1>5, <2>1
  <2>3. /\ nsiHist' \in NsiHist /\ nsiHist'.asked = asked /\ nsiHist'.sent = r.sent
        /\ nsiHist'.lost = r.lost /\ nsiHist'.switched = nsiHist.switched \ {p}
        /\ nsiHist'.seen = h.seen /\ nsiHist'.stray = h.stray /\ nsiHist'.raced = h.raced
        /\ nsiHist'.analog = h.analog /\ nsiHist'.early = h.early /\ nsiHist'.btn = h.btn
        /\ nsiHist'.torn = h.torn
    BY <1>3, <1>5, <2>1 DEF NsiHist
  <2>4. \A q \in Nsi!Ports \ r.lost : r.sent[q] = r.last[q]
    BY <1>2, <2>1
  <2>5. ASSUME NEW q \in Nsi!Ports, nsiCfg.acc[q] = "RUMBLE", q \notin r.lost \cup (nsiHist.switched \ {p})
        PROVE  r.sent[q] = asked[q]
    <3>1. CASE q = p
      BY <1>3, <2>1, <2>5, <3>1
    <3>2. CASE q # p
      BY <1>2, <1>3, <2>1, <2>5, <3>2
    <3>3. QED
      BY <3>1, <3>2
  <2>6. MotorInv'
    BY <2>2, <2>3, <2>4, <2>5 DEF MotorInv, Nsi!RumbleFollows
  <2>7. QED
    BY <2>2, <2>3, <2>6
<1>6. QED
  BY <1>4, <1>5 DEF Nsi!Motor, asked
LEMMA NsiWrite == ASSUME NsiInv, Nsi!N64Write PROVE NsiInv'
<1>. DEFINE p == nsiCmd.port
<1>1. Nsi!Pad("write") /\ UNCHANGED <<nsiCfg, nsiPak, nsiTrig, nsiOut>>
  BY DEF Nsi!N64Write
<1>2. /\ p \in Nsi!Ports /\ nsiCmd' \in [port : Nsi!Ports, cmd : NsiCmds] /\ nsiCmd'.cmd = "idle"
      /\ nsiCmd.cmd = "write" /\ nsiPak.init
  BY <1>1, NsiServed
<1>3. NsiTypes /\ PakInv /\ MotorInv
  BY DEF NsiInv
<1>4. ASSUME NEW v \in 0 .. 1, Nsi!Motor(p, v, nsiHist) PROVE NsiInv'
  <2>1. /\ MotorInv'
        /\ nsiRum' \in [last : [Nsi!Ports -> Int], state : [Nsi!Ports -> Int]]
        /\ nsiHist' \in NsiHist
        /\ nsiHist'.seen = nsiHist.seen /\ nsiHist'.stray = nsiHist.stray
        /\ nsiHist'.raced = nsiHist.raced
        /\ nsiHist'.analog = nsiHist.analog /\ nsiHist'.early = nsiHist.early
        /\ nsiHist'.btn = nsiHist.btn /\ nsiHist'.torn = nsiHist.torn
    BY <1>1, <1>2, <1>3, <1>4, NsiMotor DEF NsiTypes
  <2>2. NsiTypes'
    BY <1>1, <1>2, <1>3, <2>1 DEF NsiTypes
  <2>3. PakInv'
    BY <1>1, <1>2, <1>3, <2>1 DEF PakInv, Nsi!PakChangeTold, Nsi!WritesWhereSeen, Nsi!Pak
  <2>4. OriginInv'
    BY <1>1, <2>1, NsiFrames
  <2>5. QED
    BY <2>1, <2>2, <2>3, <2>4 DEF NsiInv
<1>5. ASSUME NEW v \in 0 .. 1, nsiRum' = [nsiRum EXCEPT !.state[p] = v], UNCHANGED nsiHist
      PROVE  NsiInv'
  <2>1. /\ nsiRum' \in [last : [Nsi!Ports -> Int], state : [Nsi!Ports -> Int]]
        /\ nsiRum'.last = nsiRum.last
    BY <1>3, <1>5 DEF NsiTypes
  <2>2. NsiTypes'
    BY <1>1, <1>2, <1>3, <1>5, <2>1 DEF NsiTypes
  <2>3. PakInv'
    BY <1>1, <1>2, <1>3, <1>5 DEF PakInv, Nsi!PakChangeTold, Nsi!WritesWhereSeen, Nsi!Pak
  <2>4. MotorInv'
    BY <1>1, <1>3, <1>5, <2>1 DEF MotorInv, Nsi!RumbleFollows
  <2>5. OriginInv'
    BY <1>1, <1>5, NsiFrames
  <2>6. QED
    BY <2>2, <2>3, <2>4, <2>5 DEF NsiInv
<1>6. ASSUME nsiCfg.acc[p] = "MEM", UNCHANGED nsiRum,
             nsiHist' = [nsiHist EXCEPT !.stray =
               @ \/ (nsiHist.seen[p] \notin {Nsi!None, <<nsiPak.bank, "MEM">>} /\ nsiPak.update[p] = 0)]
      PROVE  NsiInv'
  <2>. DEFINE stray == nsiHist.stray \/
         (nsiHist.seen[p] \notin {Nsi!None, <<nsiPak.bank, "MEM">>} /\ nsiPak.update[p] = 0)
  <2>1. nsiHist' = [nsiHist EXCEPT !.stray = stray]
    BY <1>6
  <2>2. stray \in BOOLEAN
    BY <1>3 DEF NsiTypes, NsiHist
  <2>3. stray => nsiHist.raced
    <3>1. SUFFICES ASSUME nsiHist.seen[p] \notin {Nsi!None, <<nsiPak.bank, "MEM">>},
                          nsiPak.update[p] = 0, ~nsiHist.raced
                   PROVE  FALSE
      BY <1>3 DEF PakInv, Nsi!WritesWhereSeen
    <3>2. nsiHist.seen[p] = <<nsiPak.bank, nsiPak.acc[p]>>
      BY <1>2, <1>3, <3>1 DEF PakInv, Nsi!PakChangeTold, Nsi!Pak
    <3>3. nsiPak.acc[p] = "MEM"
      BY <1>2, <1>3, <1>6, <3>1 DEF PakInv
    <3>4. QED
      BY <3>1, <3>2, <3>3
  <2>. HIDE DEF stray
  <2>4. /\ nsiHist' \in NsiHist /\ nsiHist'.stray = stray
        /\ nsiHist'.seen = nsiHist.seen /\ nsiHist'.raced = nsiHist.raced
        /\ nsiHist'.lost = nsiHist.lost /\ nsiHist'.sent = nsiHist.sent
        /\ nsiHist'.switched = nsiHist.switched
        /\ nsiHist'.asked = nsiHist.asked /\ nsiHist'.analog = nsiHist.analog
        /\ nsiHist'.early = nsiHist.early /\ nsiHist'.btn = nsiHist.btn
        /\ nsiHist'.torn = nsiHist.torn
    BY <1>3, <2>1, <2>2 DEF NsiTypes, NsiHist
  <2>5. NsiTypes'
    BY <1>1, <1>2, <1>3, <1>6, <2>4 DEF NsiTypes
  <2>6. PakInv'
    BY <1>1, <1>2, <1>3, <2>3, <2>4 DEF PakInv, Nsi!PakChangeTold, Nsi!WritesWhereSeen, Nsi!Pak
  <2>7. MotorInv' /\ OriginInv'
    BY <1>1, <1>6, <2>4, NsiFrames
  <2>8. QED
    BY <2>5, <2>6, <2>7 DEF NsiInv
<1>7. QED
  BY <1>4, <1>5, <1>6 DEF Nsi!N64Write

LEMMA NsiGcPoll ==
  ASSUME NsiInv, NEW v \in 0 .. 1, NEW far \in BOOLEAN, Nsi!GcPoll(v, far)
  PROVE  NsiInv'
<1>. DEFINE analog == IF far THEN (IF nsiHist.analog < 2 THEN nsiHist.analog + 1 ELSE nsiHist.analog)
                      ELSE 0
            early == nsiHist.early \/ (nsiTrig = 2 /\ nsiHist.analog < 2)
            h == [nsiHist EXCEPT !.analog = analog, !.early = early]
<1>1. /\ nsiTrig' = Nsi!Analog(far) /\ Nsi!Motor(0, v, h)
      /\ UNCHANGED <<nsiCfg, nsiPak, nsiCmd, nsiOut>>
  BY DEF Nsi!GcPoll
<1>2. NsiTypes /\ nsiHist \in NsiHist /\ nsiTrig = nsiHist.analog /\ nsiHist.analog \in Int
      /\ ~nsiHist.early
  BY DEF NsiInv, NsiTypes, OriginInv, NsiHist
<1>3. analog \in Int /\ early = FALSE /\ Nsi!Analog(far) = analog
  BY <1>2 DEF Nsi!Analog
<1>. HIDE DEF analog, early
<1>4. /\ h \in NsiHist /\ h.analog = analog /\ h.early = FALSE
      /\ h.asked = nsiHist.asked /\ h.sent = nsiHist.sent /\ h.lost = nsiHist.lost
      /\ h.switched = nsiHist.switched /\ h.seen = nsiHist.seen /\ h.stray = nsiHist.stray
      /\ h.raced = nsiHist.raced /\ h.btn = nsiHist.btn /\ h.torn = nsiHist.torn
  BY <1>2, <1>3 DEF NsiHist
<1>5. 0 \in Nsi!Ports
  BY DEF Nsi!Ports
<1>. HIDE DEF h
<1>6. /\ MotorInv'
      /\ nsiRum' \in [last : [Nsi!Ports -> Int], state : [Nsi!Ports -> Int]]
      /\ nsiHist' \in NsiHist
      /\ nsiHist'.seen = h.seen /\ nsiHist'.stray = h.stray /\ nsiHist'.raced = h.raced
      /\ nsiHist'.analog = h.analog /\ nsiHist'.early = h.early /\ nsiHist'.btn = h.btn
      /\ nsiHist'.torn = h.torn
  BY <1>1, <1>4, <1>5, NsiMotor
<1>7. NsiTypes'
  BY <1>1, <1>2, <1>6 DEF NsiTypes
<1>8. PakInv'
  BY <1>1, <1>4, <1>6, NsiFrames
<1>9. OriginInv'
  BY <1>1, <1>3, <1>4, <1>6 DEF NsiInv, OriginInv
<1>10. QED
  BY <1>6, <1>7, <1>8, <1>9 DEF NsiInv

\* The GameCube's origin bit and report: two halves of a read-modify-write on each core.
LEMMA NsiOrigin ==
  ASSUME NsiInv, Nsi!GcOriginLoad \/ Nsi!GcOriginStore \/ Nsi!GcReportCopy \/ Nsi!GcReportWrite
  PROVE  NsiInv'
<1>. DEFINE Bytes == [origin : BOOLEAN, btn : BOOLEAN]
            Outs == [byte : Bytes, core0 : SUBSET Bytes, core1 : SUBSET Bytes]
<1>1. /\ NsiTypes /\ nsiHist \in NsiHist /\ nsiOut \in Outs
      /\ nsiTrig = nsiHist.analog /\ ~nsiHist.early
      /\ ~nsiHist.torn =>
           /\ nsiOut.core0 = {} \/ nsiOut.core1 = {}
           /\ nsiOut.core0 = {} =>
                nsiOut.byte.btn = nsiHist.btn /\ \A b \in nsiOut.core1 : b.btn = nsiHist.btn
  BY DEF NsiInv, NsiTypes, OriginInv
<1>2. UNCHANGED <<nsiCfg, nsiPak, nsiRum, nsiTrig, nsiCmd>>
  BY DEF Nsi!GcOriginLoad, Nsi!GcOriginStore, Nsi!GcReportCopy, Nsi!GcReportWrite
<1>3. ASSUME NEW btn \in BOOLEAN, NEW torn \in BOOLEAN, nsiHist' = [nsiHist EXCEPT !.btn = btn, !.torn = torn],
             nsiOut' \in Outs,
             ~torn =>
               /\ nsiOut'.core0 = {} \/ nsiOut'.core1 = {}
               /\ nsiOut'.core0 = {} => nsiOut'.byte.btn = btn /\ \A b \in nsiOut'.core1 : b.btn = btn
      PROVE  NsiInv'
  <2>1. /\ nsiHist' \in NsiHist /\ nsiHist'.btn = btn /\ nsiHist'.torn = torn
        /\ nsiHist'.seen = nsiHist.seen /\ nsiHist'.raced = nsiHist.raced
        /\ nsiHist'.stray = nsiHist.stray
        /\ nsiHist'.lost = nsiHist.lost /\ nsiHist'.sent = nsiHist.sent
        /\ nsiHist'.switched = nsiHist.switched
        /\ nsiHist'.asked = nsiHist.asked /\ nsiHist'.analog = nsiHist.analog
        /\ nsiHist'.early = nsiHist.early
    BY <1>1, <1>3 DEF NsiHist
  <2>2. NsiTypes'
    BY <1>1, <1>2, <2>1 DEF NsiTypes
  <2>3. PakInv' /\ MotorInv'
    BY <1>2, <2>1, NsiFrames
  <2>4. OriginInv'
    BY <1>1, <1>2, <1>3, <2>1 DEF OriginInv
  <2>5. QED
    BY <2>2, <2>3, <2>4 DEF NsiInv
<1>4. nsiHist.btn \in BOOLEAN /\ nsiHist.torn \in BOOLEAN
  BY <1>1 DEF NsiHist
<1>5. CASE Nsi!GcOriginLoad
  <2>. DEFINE torn == nsiHist.torn \/ nsiOut.core0 # {}
  <2>1. /\ nsiOut' = [nsiOut EXCEPT !.core1 = {nsiOut.byte}]
        /\ nsiHist' = [nsiHist EXCEPT !.torn = torn]
    BY <1>5 DEF Nsi!GcOriginLoad
  <2>2. nsiOut' \in Outs /\ nsiOut'.core0 = nsiOut.core0 /\ nsiOut'.byte = nsiOut.byte
        /\ nsiOut'.core1 = {nsiOut.byte}
    BY <1>1, <2>1
  <2>3. nsiHist' = [nsiHist EXCEPT !.btn = nsiHist.btn, !.torn = torn] /\ torn \in BOOLEAN
    BY <1>1, <1>4, <2>1 DEF NsiHist
  <2>4. ~torn => nsiOut'.core0 = {} /\ nsiOut'.byte.btn = nsiHist.btn
                /\ \A b \in nsiOut'.core1 : b.btn = nsiHist.btn
    BY <1>1, <2>2
  <2>. HIDE DEF torn
  <2>5. QED
    BY <1>3, <1>4, <2>2, <2>3, <2>4
<1>6. CASE Nsi!GcOriginStore
  <2>1. PICK b \in nsiOut.core1 : nsiOut' = [nsiOut EXCEPT !.byte = [b EXCEPT !.origin = FALSE], !.core1 = {}]
    BY <1>6 DEF Nsi!GcOriginStore
  <2>2. b \in Bytes /\ nsiHist' = nsiHist
    BY <1>1, <1>6, <2>1 DEF Nsi!GcOriginStore
  <2>3. [b EXCEPT !.origin = FALSE] \in Bytes /\ [b EXCEPT !.origin = FALSE].btn = b.btn
    BY <2>2
  <2>4. nsiOut' \in Outs /\ nsiOut'.core0 = nsiOut.core0 /\ nsiOut'.byte.btn = b.btn
        /\ nsiOut'.core1 = {}
    BY <1>1, <2>1, <2>3
  <2>5. nsiHist' = [nsiHist EXCEPT !.btn = nsiHist.btn, !.torn = nsiHist.torn]
    BY <1>1, <2>2 DEF NsiHist
  <2>6. QED
    BY <1>1, <1>3, <1>4, <2>1, <2>4, <2>5
<1>7. CASE Nsi!GcReportCopy
  <2>. DEFINE torn == nsiOut.core1 # {}
  <2>1. /\ nsiOut' = [nsiOut EXCEPT !.core0 = {nsiOut.byte}]
        /\ nsiHist' = [nsiHist EXCEPT !.torn = torn]
    BY <1>7 DEF Nsi!GcReportCopy
  <2>2. nsiOut' \in Outs /\ nsiOut'.core0 = {nsiOut.byte} /\ nsiOut'.core1 = nsiOut.core1
    BY <1>1, <2>1
  <2>3. nsiHist' = [nsiHist EXCEPT !.btn = nsiHist.btn, !.torn = torn] /\ torn \in BOOLEAN
    BY <1>1, <1>4, <2>1 DEF NsiHist
  <2>4. (~torn => nsiOut'.core1 = {}) /\ nsiOut'.core0 # {}
    BY <2>2
  <2>. HIDE DEF torn
  <2>5. QED
    BY <1>3, <1>4, <2>2, <2>3, <2>4
<1>8. CASE Nsi!GcReportWrite
  <2>1. PICK btn \in BOOLEAN, b \in nsiOut.core0 :
          /\ nsiOut' = [nsiOut EXCEPT !.byte = [b EXCEPT !.btn = btn], !.core0 = {}]
          /\ nsiHist' = [nsiHist EXCEPT !.btn = btn]
    BY <1>8 DEF Nsi!GcReportWrite
  <2>2. b \in Bytes
    BY <1>1
  <2>3. [b EXCEPT !.btn = btn] \in Bytes /\ [b EXCEPT !.btn = btn].btn = btn
    BY <2>2
  <2>4. nsiOut' \in Outs /\ nsiOut'.core0 = {} /\ nsiOut'.byte.btn = btn
        /\ nsiOut'.core1 = nsiOut.core1
    BY <1>1, <2>1, <2>3
  <2>5. nsiHist' = [nsiHist EXCEPT !.btn = btn, !.torn = nsiHist.torn]
    BY <1>1, <2>1 DEF NsiHist
  <2>6. ~nsiHist.torn => nsiOut.core1 = {}
    BY <1>1, <2>1
  <2>7. QED
    BY <1>3, <1>4, <2>4, <2>5, <2>6
<1>9. QED
  BY <1>5, <1>6, <1>7, <1>8

LEMMA NsiStep ==
  ASSUME NsiInv, Nsi!Next \/ UNCHANGED nsiVars
  PROVE  NsiInv'
<1>1. CASE UNCHANGED nsiVars
  <2>1. NsiTypes'
    BY <1>1 DEF nsiVars, NsiInv, NsiTypes
  <2>2. PakInv' /\ MotorInv' /\ OriginInv'
    BY <1>1, NsiFrames DEF nsiVars
  <2>3. QED
    BY <2>1, <2>2 DEF NsiInv
<1>2. QED
  BY <1>1, NsiConfigure, NsiFrame, NsiOther, NsiPoll, NsiStatus, NsiWrite, NsiGcPoll, NsiOrigin
  DEF Nsi!Next
LEMMA PsSteps == [Next]_vars /\ driver = "ps_spi" => Ps!Next \/ UNCHANGED psVars
BY DEF Next, vars, psVars

PsKept == {1, 2, 3, 5, 11, 13}      \* the bytes of a frame that are kept
PsByte == {"00", "01", "FF", "42", "43", "44", "4D", "4F", "other"}
PsActs == {"43", "44", "4D", "4F"}  \* the commands with an effect
PsHists == {"aborted", "stale", "left over", "stray exit", "described"}
PsId == {"41", "73", "79"}

PsTypes ==
  /\ psRoot \in {"pad", "special", "tap"} /\ psTap \in BOOLEAN
  /\ psIdx \in {0, 14} \cup PsKept /\ psValid \in BOOLEAN /\ psOn \in BOOLEAN /\ psAct \in 0 .. 1
  /\ psRx \in [0 .. 1 -> [PsKept -> PsByte]]
  /\ psFresh \in SUBSET (0 .. 1) /\ psShort \in SUBSET (0 .. 1) /\ psHist \in SUBSET PsHists

\* A buffer whose requests were not carried out holds a whole frame. Behind a multitap, where they
\* are one frame old, a frame from before it was switched on asks nothing of the first slot.
PsOnce ==
  /\ psValid /\ psIdx = 14 => psAct \in psFresh
  /\ "aborted" \notin psHist =>
       /\ "stale" \notin psHist
       /\ Ps!Tapped =>
            \/ 1 - psAct \in psFresh
            \/ /\ psRx[1 - psAct][3] \notin PsActs
               /\ 1 - psAct \in psShort \/ psRx[1 - psAct][11] \notin PsActs
       /\ psRoot = "tap" /\ ~Ps!Tapped /\ psValid /\ psIdx > 3 => psRx[psAct][3] \notin PsActs

PsAny  == [id : PsId \cup {"53", "F3"}, pend : PsId \cup {"53"}, led : BOOLEAN,
           mot : PsId \cup {"53", "none"}, btn : BOOLEAN]
PsDevs == [id : PsId \cup {"F3"}, pend : PsId, led : BOOLEAN, mot : PsId \cup {"none"}, btn : BOOLEAN]

\* The LED goes with the mode; motors are mapped in the mode they are driven in, or return to.
PsAgrees(d) == d.led <=> ((IF d.id = "F3" THEN d.pend ELSE d.id) \in {"73", "79"})
PsMapped(d) == d.mot # "none" =>
  /\ (d.mot = "41") <=> (d.pend = "41")
  /\ d.id # "F3" => ((d.id = "41") <=> (d.pend = "41"))

PsLeds ==
  /\ psId \in [Ps!Slots -> PsId \cup {"53", "F3"}] /\ psPend \in [Ps!Slots -> PsId \cup {"53"}]
  /\ psLed \in [Ps!Slots -> BOOLEAN] /\ psBtn \in [Ps!Slots -> BOOLEAN]
  /\ psMot \in [Ps!Slots -> PsId \cup {"53", "none"}]
  /\ psRoot # "special" => \A s \in Ps!Slots :
       /\ Ps!Slot(s) \in PsDevs
       /\ "stray exit" \notin psHist /\ "described" \notin psHist => PsAgrees(Ps!Slot(s))
       /\ "described" \notin psHist => PsMapped(Ps!Slot(s))

PsInv == PsTypes /\ PsOnce /\ PsLeds

LEMMA PsInit == ASSUME Ps!Init PROVE PsInv
<1>1. /\ psRoot \in {"pad", "special", "tap"} /\ psTap \in BOOLEAN
      /\ psIdx = 0 /\ psValid = FALSE /\ psOn = TRUE /\ psAct = 0
      /\ psFresh = {} /\ psShort = {} /\ psHist = {}
  BY DEF Ps!Init
<1>2. psRx = [b \in 0 .. 1 |-> [i \in PsKept |->
                IF i \in {1, 3, 11} THEN "42" ELSE IF i = 2 THEN "01" ELSE "00"]]
  BY DEF Ps!Init, PsKept
<1>3. /\ psId = [s \in Ps!Slots |-> IF psRoot = "special" THEN "53" ELSE "41"]
      /\ psPend = [s \in Ps!Slots |-> "41"]
      /\ psLed = [s \in Ps!Slots |-> FALSE] /\ psBtn = [s \in Ps!Slots |-> FALSE]
      /\ psMot = [s \in Ps!Slots |-> "none"]
  BY DEF Ps!Init
<1>4. PsTypes
  <2>1. \A i \in PsKept : (IF i \in {1, 3, 11} THEN "42" ELSE IF i = 2 THEN "01" ELSE "00") \in PsByte
    BY DEF PsByte
  <2>2. psRx \in [0 .. 1 -> [PsKept -> PsByte]]
    BY <1>2, <2>1
  <2>3. psIdx \in {0, 14} \cup PsKept /\ psAct \in 0 .. 1
    BY <1>1
  <2>4. psValid \in BOOLEAN /\ psOn \in BOOLEAN
    BY <1>1
  <2>5. psFresh \in SUBSET (0 .. 1) /\ psShort \in SUBSET (0 .. 1)
    BY <1>1
  <2>6. psHist \in SUBSET PsHists
    BY <1>1
  <2>7. QED
    BY <1>1, <2>2, <2>3, <2>4, <2>5, <2>6 DEF PsTypes
<1>5. PsOnce
  BY <1>1, <1>2 DEF PsOnce, PsKept, PsActs
<1>6. psRoot # "special" => \A s \in Ps!Slots :
        Ps!Slot(s) = [id |-> "41", pend |-> "41", led |-> FALSE, mot |-> "none", btn |-> FALSE]
  BY <1>3 DEF Ps!Slot
<1>7. PsLeds
  <2>. DEFINE d == [id |-> "41", pend |-> "41", led |-> FALSE, mot |-> "none", btn |-> FALSE]
  <2>1. d \in PsDevs /\ PsAgrees(d) /\ PsMapped(d)
    BY DEF PsDevs, PsAgrees, PsMapped, PsId
  <2>2. /\ psId \in [Ps!Slots -> PsId \cup {"53", "F3"}] /\ psPend \in [Ps!Slots -> PsId \cup {"53"}]
        /\ psLed \in [Ps!Slots -> BOOLEAN] /\ psBtn \in [Ps!Slots -> BOOLEAN]
        /\ psMot \in [Ps!Slots -> PsId \cup {"53", "none"}]
    BY <1>3 DEF PsId
  <2>. HIDE DEF d
  <2>3. QED
    BY <1>6, <2>1, <2>2 DEF PsLeds, d
<1>8. QED
  BY <1>4, <1>5, <1>7 DEF PsInv

\* What the analog button leaves of a slot's LED, motors and mode.
LEMMA PsButton ==
  ASSUME NEW d \in PsDevs, NEW down \in BOOLEAN
  PROVE  /\ Ps!analog_btn_hdlr(d, down) \in PsDevs
         /\ PsAgrees(d) => PsAgrees(Ps!analog_btn_hdlr(d, down))
         /\ PsMapped(d) => PsMapped(Ps!analog_btn_hdlr(d, down))
<1>. DEFINE e == Ps!analog_btn_hdlr(d, down)
<1>1. CASE d.id \notin {"41", "73"} \/ (~down /\ ~d.btn)
  <2>1. e = d
    BY <1>1 DEF Ps!analog_btn_hdlr, PsDevs
  <2>2. QED
    BY <2>1
<1>2. CASE d.id \in {"41", "73"} /\ down
  <2>1. e = [d EXCEPT !.btn = TRUE]
    BY <1>2 DEF Ps!analog_btn_hdlr, PsDevs
  <2>2. e \in PsDevs /\ e.id = d.id /\ e.pend = d.pend /\ e.led = d.led /\ e.mot = d.mot
    BY <2>1 DEF PsDevs
  <2>3. QED
    BY <2>2 DEF PsAgrees, PsMapped
<1>3. CASE d.id \in {"41", "73"} /\ ~down /\ d.btn
  <2>. DEFINE id == IF d.id = "41" THEN "73" ELSE "41"
              led == d.id = "41"
  <2>1. e = [d EXCEPT !.btn = FALSE, !.mot = "none", !.led = led, !.id = id]
    BY <1>3 DEF Ps!analog_btn_hdlr, PsDevs
  <2>2. id \in {"41", "73"} /\ led = (id = "73")
    BY <1>3
  <2>. HIDE DEF id, led
  <2>3. e \in PsDevs /\ e.id = id /\ e.led = led /\ e.mot = "none"
    BY <2>1, <2>2 DEF PsDevs, PsId
  <2>4. QED
    BY <2>2, <2>3 DEF PsAgrees, PsMapped
<1>4. QED
  BY <1>1, <1>2, <1>3 DEF PsDevs

\* What a request leaves of them.
LEMMA PsConfigured ==
  ASSUME NEW d \in PsDevs, NEW cmd, NEW arg, d.id = "F3"
  PROVE  /\ Ps!Configured(d, cmd, arg) \in PsDevs
         /\ PsAgrees(d) /\ ~(cmd = "4F" /\ d.pend = "41") => PsAgrees(Ps!Configured(d, cmd, arg))
         /\ PsMapped(d) /\ ~(cmd = "4F" /\ d.pend = "41") => PsMapped(Ps!Configured(d, cmd, arg))
<1>. DEFINE e == Ps!Configured(d, cmd, arg)
<1>1. CASE cmd = "44"
  <2>. DEFINE pend == IF arg = "01" THEN "73" ELSE "41"
              led == arg = "01"
  <2>1. e = [d EXCEPT !.pend = pend, !.led = led, !.mot = "none"]
    BY <1>1 DEF Ps!Configured
  <2>2. pend \in {"41", "73"} /\ led \in BOOLEAN /\ led = (pend = "73")
    OBVIOUS
  <2>. HIDE DEF pend, led
  <2>3. e \in PsDevs /\ e.id = "F3" /\ e.pend = pend /\ e.led = led /\ e.mot = "none"
    BY <2>1, <2>2 DEF PsDevs, PsId
  <2>4. QED
    BY <2>2, <2>3 DEF PsAgrees, PsMapped
<1>2. CASE cmd = "4D"
  <2>. DEFINE mot == IF arg \in {"00", "01"} THEN d.pend ELSE "none"
  <2>1. e = [d EXCEPT !.mot = mot]
    BY <1>2 DEF Ps!Configured
  <2>2. mot \in {d.pend, "none"}
    OBVIOUS
  <2>. HIDE DEF mot
  <2>3. e \in PsDevs /\ e.id = "F3" /\ e.pend = d.pend /\ e.led = d.led /\ e.mot = mot
    BY <2>1, <2>2 DEF PsDevs
  <2>4. QED
    BY <2>2, <2>3 DEF PsAgrees, PsMapped
<1>3. CASE cmd = "4F"
  <2>. DEFINE pend == IF arg = "FF" THEN "79" ELSE "73"
  <2>1. e = [d EXCEPT !.pend = pend]
    BY <1>3 DEF Ps!Configured
  <2>2. pend \in {"73", "79"}
    OBVIOUS
  <2>. HIDE DEF pend
  <2>3. e \in PsDevs /\ e.id = "F3" /\ e.pend = pend /\ e.led = d.led /\ e.mot = d.mot
    BY <2>1, <2>2 DEF PsDevs, PsId
  <2>4. d.pend # "41" => d.pend \in {"73", "79"}
    BY DEF PsDevs, PsId
  <2>5. QED
    BY <1>3, <2>2, <2>3, <2>4 DEF PsAgrees, PsMapped
<1>4. CASE cmd \notin {"44", "4D", "4F"}
  <2>1. e = d
    BY <1>4 DEF Ps!Configured
  <2>2. QED
    BY <2>1
<1>5. QED
  BY <1>1, <1>2, <1>3, <1>4

LEMMA PsRequest ==
  ASSUME NEW d \in PsDevs, NEW cmd, NEW arg
  PROVE  /\ Ps!cmd_req_hdlr(d, cmd, arg) \in PsDevs
         /\ PsAgrees(d) /\ ~(cmd = "43" /\ arg # "01" /\ d.id # "F3")
              /\ ~(cmd = "4F" /\ d.id = "F3" /\ d.pend = "41")
              => PsAgrees(Ps!cmd_req_hdlr(d, cmd, arg))
         /\ PsMapped(d) /\ ~(cmd = "4F" /\ d.id = "F3" /\ d.pend = "41")
              => PsMapped(Ps!cmd_req_hdlr(d, cmd, arg))
<1>. DEFINE e == Ps!cmd_req_hdlr(d, cmd, arg)
<1>1. CASE cmd = "43" /\ arg = "01" /\ d.id # "F3"
  <2>1. e = [d EXCEPT !.pend = d.id, !.id = "F3"]
    BY <1>1 DEF Ps!cmd_req_hdlr, Ps!Config43, Ps!Enter
  <2>2. e \in PsDevs /\ e.id = "F3" /\ e.pend = d.id /\ e.led = d.led /\ e.mot = d.mot
    BY <1>1, <2>1 DEF PsDevs
  <2>3. QED
    BY <1>1, <2>2 DEF PsAgrees, PsMapped
<1>2. CASE cmd = "43" /\ arg # "01"
  <2>1. e = [d EXCEPT !.id = d.pend]
    BY <1>2 DEF Ps!cmd_req_hdlr, Ps!Config43, Ps!Leave
  <2>2. e \in PsDevs /\ e.id = d.pend /\ e.id # "F3" /\ e.led = d.led /\ e.pend = d.pend /\ e.mot = d.mot
    BY <2>1 DEF PsDevs, PsId
  <2>3. QED
    BY <1>2, <2>2 DEF PsAgrees, PsMapped
<1>3. CASE cmd # "43" /\ d.id = "F3"
  BY <1>3, PsConfigured DEF Ps!cmd_req_hdlr
<1>4. CASE (cmd = "43" /\ arg = "01" /\ d.id = "F3") \/ (cmd # "43" /\ d.id # "F3")
  <2>1. e = d
    BY <1>4 DEF Ps!cmd_req_hdlr, Ps!Config43
  <2>2. QED
    BY <2>1
<1>5. QED
  BY <1>1, <1>2, <1>3, <1>4

\* A special device, too, has one of these ids.
LEMMA PsAnyDevice ==
  ASSUME NEW d \in PsAny, NEW down \in BOOLEAN, NEW cmd, NEW arg
  PROVE  /\ Ps!analog_btn_hdlr(d, down) \in PsAny
         /\ Ps!cmd_req_hdlr(d, cmd, arg) \in PsAny
<1>. DEFINE led1 == d.id = "41"
            id1 == IF d.id = "41" THEN "73" ELSE "41"
            led2 == arg = "01"
            pend2 == IF arg = "01" THEN "73" ELSE "41"
            mot3 == IF arg \in {"00", "01"} THEN d.pend ELSE "none"
            pend4 == IF arg = "FF" THEN "79" ELSE "73"
<1>1. Ps!analog_btn_hdlr(d, down) \in PsAny
  <2>1. Ps!analog_btn_hdlr(d, down)
          \in {d, [d EXCEPT !.btn = TRUE], [d EXCEPT !.btn = FALSE, !.mot = "none", !.led = led1, !.id = id1]}
    BY DEF Ps!analog_btn_hdlr
  <2>2. led1 \in BOOLEAN /\ id1 \in {"41", "73"}
    OBVIOUS
  <2>. HIDE DEF led1, id1
  <2>3. QED
    BY <2>1, <2>2 DEF PsAny, PsId
<1>2. Ps!Configured(d, cmd, arg) \in PsAny
  <2>1. Ps!Configured(d, cmd, arg)
          \in {d, [d EXCEPT !.pend = pend2, !.led = led2, !.mot = "none"], [d EXCEPT !.mot = mot3],
               [d EXCEPT !.pend = pend4]}
    BY DEF Ps!Configured
  <2>2. pend2 \in {"41", "73"} /\ led2 \in BOOLEAN /\ mot3 \in {d.pend, "none"} /\ pend4 \in {"73", "79"}
    OBVIOUS
  <2>. HIDE DEF pend2, led2, mot3, pend4
  <2>3. QED
    BY <2>1, <2>2 DEF PsAny, PsId
<1>3. Ps!Config43(d, arg) \in PsAny
  <2>1. Ps!Config43(d, arg) \in {d, [d EXCEPT !.id = d.pend], [d EXCEPT !.pend = d.id, !.id = "F3"]}
    BY DEF Ps!Config43, Ps!Enter, Ps!Leave
  <2>2. Ps!Config43(d, arg) = [d EXCEPT !.pend = d.id, !.id = "F3"] => d.id # "F3" \/ d.pend = "F3"
    BY DEF Ps!Config43, Ps!Enter, Ps!Leave, PsAny
  <2>3. QED
    BY <2>1 DEF PsAny, PsId, Ps!Config43, Ps!Enter, Ps!Leave
<1>4. QED
  BY <1>1, <1>2, <1>3 DEF Ps!cmd_req_hdlr

LEMMA PsByteIn == ASSUME PsInv, Ps!ByteIn PROVE PsInv'
<1>1. PICK b \in Ps!Bytes(psIdx) : Ps!Byte(b)
  BY DEF Ps!ByteIn
<1>. DEFINE on == ~(psIdx = 0 /\ b # "01") /\ ~Ps!Refused(b) /\ ~Ps!TapOff
            rx == IF psIdx = 0 THEN psRx ELSE [psRx EXCEPT ![psAct][psIdx] = b]
            next == IF on THEN Ps!After(psIdx) ELSE psIdx
<1>2. /\ psIdx < 14 /\ psRx' = rx /\ psOn' = on /\ psIdx' = next
      /\ psValid' = (on /\ (psValid \/ psIdx = 0))
      /\ psTap' = (psTap /\ ~Ps!TapOff)
      /\ psFresh' = IF on /\ Ps!After(psIdx) = 14 THEN psFresh \cup {psAct} ELSE psFresh
      /\ UNCHANGED <<psRoot, psAct, psId, psPend, psLed, psMot, psBtn, psShort, psHist>>
  BY <1>1 DEF Ps!Byte, Ps!Stored, Ps!End, Ps!psDev
<1>3. PsTypes /\ PsOnce /\ PsLeds
  BY DEF PsInv
<1>4. /\ psIdx \in {0} \cup PsKept /\ psAct \in 0 .. 1 /\ psRx \in [0 .. 1 -> [PsKept -> PsByte]]
      /\ psTap \in BOOLEAN /\ psValid \in BOOLEAN
  BY <1>2, <1>3 DEF PsTypes
<1>5. b \in PsByte
  BY DEF Ps!Bytes, PsByte
<1>6. Ps!After(psIdx) \in PsKept \cup {14}
  BY <1>4 DEF PsKept, Ps!After, Ps!End
<1>7. /\ rx \in [0 .. 1 -> [PsKept -> PsByte]]
      /\ rx[1 - psAct] = psRx[1 - psAct]
      /\ psIdx # 0 => rx[psAct][psIdx] = b
      /\ \A i \in PsKept : i # psIdx => rx[psAct][i] = psRx[psAct][i]
  BY <1>4, <1>5
<1>8. on \in BOOLEAN
  OBVIOUS
<1>9. psValid' \in BOOLEAN /\ psTap' \in BOOLEAN
  BY <1>2, <1>4
<1>10. PsTypes'
  BY <1>2, <1>3, <1>4, <1>6, <1>7, <1>8, <1>9 DEF PsTypes
<1>11. PsLeds'
  BY <1>2, <1>3 DEF PsLeds, Ps!Slot
<1>12. psValid' => on /\ (psIdx # 0 => psValid)
  BY <1>2
<1>13. psValid' /\ psIdx' = 14 => psAct \in psFresh'
  BY <1>2, <1>12
<1>14. psFresh \subseteq psFresh'
  BY <1>2
<1>15. (Ps!Tapped)' => Ps!Tapped
  BY <1>2 DEF Ps!Tapped
<1>16. on => ((Ps!Tapped)' <=> Ps!Tapped)
  BY <1>2, <1>4 DEF Ps!Tapped
<1>17. ASSUME psRoot = "tap", ~(Ps!Tapped)', psValid', "aborted" \notin psHist, psIdx' > 3
       PROVE  psRx'[psAct][3] \notin PsActs
  <2>1. ~Ps!Tapped /\ psIdx' = Ps!After(psIdx)
    BY <1>2, <1>12, <1>16, <1>17
  <2>2. psIdx = 3 => b \notin PsActs
    BY <2>1 DEF Ps!Bytes, PsActs
  <2>3. psIdx >= 3
    BY <1>4, <1>17, <2>1 DEF PsKept, Ps!After
  <2>4. psIdx > 3 => psRx[psAct][3] \notin PsActs
    BY <1>3, <1>12, <1>17, <2>1 DEF PsOnce
  <2>5. CASE psIdx = 3
    BY <1>2, <1>7, <2>2, <2>5
  <2>6. CASE psIdx # 3
    <3>1. psIdx > 3 /\ 3 \in PsKept
      BY <1>4, <2>3, <2>6 DEF PsKept
    <3>2. QED
      BY <1>2, <1>7, <2>4, <2>6, <3>1
  <2>7. QED
    BY <2>5, <2>6
<1>18. PsOnce'
  BY <1>2, <1>3, <1>7, <1>13, <1>14, <1>15, <1>17 DEF PsOnce
<1>19. QED
  BY <1>10, <1>11, <1>18 DEF PsInv

LEMMA PsPacketEnd == ASSUME PsInv, Ps!PacketEnd PROVE PsInv'
<1>1. /\ psIdx' = 0 /\ psOn' = TRUE /\ psValid' = FALSE /\ psAct' = Ps!NextAct
      /\ UNCHANGED <<psRoot, psRx>>
  BY DEF Ps!PacketEnd
<1>2. PsTypes /\ PsOnce /\ PsLeds
  BY DEF PsInv
<1>3. psAct \in 0 .. 1 /\ psAct' \in 0 .. 1 /\ psRx \in [0 .. 1 -> [PsKept -> PsByte]]
  BY <1>1, <1>2 DEF PsTypes, Ps!NextAct
<1>4. CASE ~Ps!Ours
  <2>1. UNCHANGED <<psTap, psId, psPend, psLed, psMot, psBtn, psFresh, psShort, psHist>> /\ psAct' = psAct
    BY <1>1, <1>4 DEF Ps!PacketEnd, Ps!NextAct, Ps!psDev
  <2>2. PsTypes'
    BY <1>1, <1>2, <2>1 DEF PsTypes
  <2>3. PsOnce'
    BY <1>1, <1>2, <2>1 DEF PsOnce, Ps!Tapped
  <2>4. PsLeds'
    BY <1>1, <1>2, <2>1 DEF PsLeds, Ps!Slot
  <2>5. QED
    BY <2>2, <2>3, <2>4 DEF PsInv
<1>5. CASE Ps!Ours
  <2>. DEFINE btn(dn) == [s \in Ps!Slots |->
                IF s \in Ps!Served THEN Ps!analog_btn_hdlr(Ps!Slot(s), dn[s]) ELSE Ps!Slot(s)]
              dev(dn) == [s \in Ps!Slots |->
                IF s \in Ps!Served
                THEN Ps!cmd_req_hdlr(btn(dn)[s], Ps!ReqCmd(s), Ps!ReqArg(s)) ELSE btn(dn)[s]]
              Asks(c, s) == s \in Ps!Served /\ Ps!ReqCmd(s) = c
              Old == {s \in Ps!Served : Ps!Acts(s) /\ Ps!ReqBuf \notin psFresh}
              aborted == IF Ps!Cut THEN {"aborted"} ELSE {}
              stale == IF \E s \in Old : ~Ps!LeftOver(s) THEN {"stale"} ELSE {}
              left == IF \E s \in Old : Ps!LeftOver(s) THEN {"left over"} ELSE {}
              stray(dn) == IF \E s \in Ps!Slots : Asks("43", s) /\ Ps!ReqArg(s) # "01" /\ btn(dn)[s].id # "F3"
                           THEN {"stray exit"} ELSE {}
              desc(dn) == IF \E s \in Ps!Slots : Asks("4F", s) /\ btn(dn)[s].id = "F3" /\ btn(dn)[s].pend = "41"
                           THEN {"described"} ELSE {}
  <2>1. PICK down \in Ps!Presses :
          /\ psId' = [s \in Ps!Slots |-> dev(down)[s].id]
          /\ psPend' = [s \in Ps!Slots |-> dev(down)[s].pend]
          /\ psLed' = [s \in Ps!Slots |-> dev(down)[s].led]
          /\ psMot' = [s \in Ps!Slots |-> dev(down)[s].mot]
          /\ psBtn' = [s \in Ps!Slots |-> dev(down)[s].btn]
          /\ psHist' = psHist \cup aborted \cup stale \cup left \cup stray(down) \cup desc(down)
    BY <1>5 DEF Ps!PacketEnd
  <2>2. /\ psTap' = IF psRoot = "tap" THEN psRx[psAct][2] # "00" ELSE psTap
        /\ psFresh' = psFresh \ {Ps!ReqBuf}
        /\ psShort' = IF Ps!Tapped THEN psShort \ {psAct} ELSE psShort \cup {psAct}
        /\ psAct' = 1 - psAct
        /\ psValid
    BY <1>1, <1>5 DEF Ps!PacketEnd, Ps!NextAct, Ps!Ours
  <2>3. psTap' \in BOOLEAN
    BY <1>2, <2>2 DEF PsTypes
  <2>4. psHist' \in SUBSET PsHists
    <3>1. /\ aborted \subseteq PsHists /\ stale \subseteq PsHists /\ left \subseteq PsHists
          /\ stray(down) \subseteq PsHists /\ desc(down) \subseteq PsHists
      BY DEF PsHists
    <3>. HIDE DEF aborted, stale, left, stray, desc
    <3>2. QED
      BY <1>2, <2>1, <3>1 DEF PsTypes
  <2>5. PsTypes'
    <3>1. psFresh' \in SUBSET (0 .. 1) /\ psShort' \in SUBSET (0 .. 1)
      BY <1>2, <1>3, <2>2 DEF PsTypes
    <3>2. QED
      BY <1>1, <1>2, <1>3, <2>3, <2>4, <3>1 DEF PsTypes
  <2>6. PsOnce'
    <3>1. ASSUME "aborted" \notin psHist'
          PROVE  /\ "stale" \notin psHist'
                 /\ (Ps!Tapped)' =>
                      \/ 1 - psAct' \in psFresh'
                      \/ /\ psRx[1 - psAct'][3] \notin PsActs
                         /\ 1 - psAct' \in psShort' \/ psRx[1 - psAct'][11] \notin PsActs
      <4>1. ~Ps!Cut /\ "aborted" \notin psHist
        BY <2>1, <3>1
      <4>2. psIdx = 14 /\ psAct \in psFresh
        BY <1>2, <2>2, <4>1 DEF PsOnce, PsTypes, PsKept, Ps!Cut, Ps!End
      <4>3. "stale" \notin psHist
        BY <1>2, <4>1 DEF PsOnce
      <4>4. stale = {}
        <5>1. CASE Ps!Tapped
          <6>1. /\ Ps!ReqBuf = 1 - psAct /\ Ps!Served = Ps!Slots
                /\ \A s \in Ps!Slots : Ps!ReqCmd(s) = psRx[1 - psAct][3 + 8 * s]
            BY <5>1 DEF Ps!ReqBuf, Ps!Served, Ps!ReqCmd
          <6>2. \/ 1 - psAct \in psFresh
                \/ /\ psRx[1 - psAct][3] \notin PsActs
                   /\ 1 - psAct \in psShort \/ psRx[1 - psAct][11] \notin PsActs
            BY <1>2, <4>1, <5>1 DEF PsOnce
          <6>3. \A s \in Ps!Slots : (s = 0 /\ 3 + 8 * s = 3) \/ (s # 0 /\ 3 + 8 * s = 11)
            BY DEF Ps!Slots
          <6>4. \A s \in Old : Ps!LeftOver(s)
            BY <5>1, <6>1, <6>2, <6>3 DEF Ps!Acts, Ps!LeftOver, PsActs
          <6>5. QED
            BY <6>4
        <5>2. CASE ~Ps!Tapped
          BY <4>2, <5>2 DEF Ps!ReqBuf
        <5>3. QED
          BY <5>1, <5>2
      <4>5. "stale" \notin psHist'
        <5>1. "stale" \notin aborted /\ "stale" \notin left /\ "stale" \notin stray(down) /\ "stale" \notin desc(down)
          OBVIOUS
        <5>. HIDE DEF aborted, stale, left, stray, desc
        <5>2. QED
          BY <2>1, <4>3, <4>4, <5>1
      <4>6. 1 - psAct' = psAct
        BY <1>3, <2>2
      <4>7. ASSUME (Ps!Tapped)'
            PROVE  psAct \in psFresh' \/ (psRx[psAct][3] \notin PsActs /\ psAct \in psShort')
        <5>1. CASE Ps!Tapped
          <6>1. Ps!ReqBuf = 1 - psAct
            BY <5>1 DEF Ps!ReqBuf
          <6>2. psAct # 1 - psAct
            BY <1>3
          <6>3. QED
            BY <2>2, <4>2, <6>1, <6>2
        <5>2. CASE ~Ps!Tapped
          <6>1. psRoot = "tap" /\ psAct \in psShort'
            BY <1>1, <2>2, <4>7, <5>2 DEF Ps!Tapped
          <6>2. QED
            BY <1>2, <2>2, <4>1, <4>2, <5>2, <6>1 DEF PsOnce
        <5>3. QED
          BY <5>1, <5>2
      <4>8. QED
        BY <4>5, <4>6, <4>7
    <3>2. QED
      BY <1>1, <3>1 DEF PsOnce
  <2>7. PsLeds'
    <3>1. \A s \in Ps!Served : down[s] \in BOOLEAN
      BY DEF Ps!Presses
    <3>2. \A s \in Ps!Slots : Ps!Slot(s) \in PsAny
      BY <1>2 DEF PsLeds, Ps!Slot, PsAny
    <3>3. \A s \in Ps!Slots : btn(down)[s] \in PsAny /\ dev(down)[s] \in PsAny
      BY <3>1, <3>2, PsAnyDevice
    <3>4. ASSUME psRoot # "special", NEW s \in Ps!Slots
          PROVE  /\ dev(down)[s] \in PsDevs
                 /\ "stray exit" \notin psHist' /\ "described" \notin psHist' => PsAgrees(dev(down)[s])
                 /\ "described" \notin psHist' => PsMapped(dev(down)[s])
      <4>1. /\ "stray exit" \notin psHist' => "stray exit" \notin psHist /\ stray(down) = {}
            /\ "described" \notin psHist' => "described" \notin psHist /\ desc(down) = {}
        BY <2>1
      <4>2. /\ Ps!Slot(s) \in PsDevs
            /\ "stray exit" \notin psHist' /\ "described" \notin psHist' => PsAgrees(Ps!Slot(s))
            /\ "described" \notin psHist' => PsMapped(Ps!Slot(s))
        BY <1>2, <3>4, <4>1 DEF PsLeds
      <4>3. CASE s \notin Ps!Served
        BY <4>2, <4>3
      <4>4. CASE s \in Ps!Served
        <5>1. /\ "stray exit" \notin psHist' =>
                   ~(Ps!ReqCmd(s) = "43" /\ Ps!ReqArg(s) # "01" /\ btn(down)[s].id # "F3")
              /\ "described" \notin psHist' =>
                   ~(Ps!ReqCmd(s) = "4F" /\ btn(down)[s].id = "F3" /\ btn(down)[s].pend = "41")
          BY <4>1, <4>4
        <5>2. btn(down)[s] = Ps!analog_btn_hdlr(Ps!Slot(s), down[s])
          BY <4>4
        <5>3. dev(down)[s] = Ps!cmd_req_hdlr(btn(down)[s], Ps!ReqCmd(s), Ps!ReqArg(s))
          BY <4>4
        <5>. HIDE DEF btn, dev, stray, desc
        <5>4. /\ btn(down)[s] \in PsDevs
              /\ "stray exit" \notin psHist' /\ "described" \notin psHist' => PsAgrees(btn(down)[s])
              /\ "described" \notin psHist' => PsMapped(btn(down)[s])
          BY <3>1, <4>2, <4>4, <5>2, PsButton
        <5>5. QED
          BY <5>1, <5>3, <5>4, PsRequest
      <4>5. QED
        BY <4>3, <4>4
    <3>. HIDE DEF dev
    <3>6. /\ psId' \in [Ps!Slots -> PsId \cup {"53", "F3"}] /\ psPend' \in [Ps!Slots -> PsId \cup {"53"}]
          /\ psLed' \in [Ps!Slots -> BOOLEAN] /\ psBtn' \in [Ps!Slots -> BOOLEAN]
          /\ psMot' \in [Ps!Slots -> PsId \cup {"53", "none"}]
      BY <2>1, <3>3 DEF PsAny
    <3>7. \A s \in Ps!Slots : (Ps!Slot(s))' = dev(down)[s]
      BY <2>1, <3>3 DEF Ps!Slot, PsAny
    <3>8. QED
      BY <1>1, <3>4, <3>6, <3>7 DEF PsLeds
  <2>8. QED
    BY <2>5, <2>6, <2>7 DEF PsInv
<1>6. QED
  BY <1>4, <1>5

LEMMA PsStep ==
  ASSUME PsInv, Ps!Next \/ UNCHANGED psVars
  PROVE  PsInv'
<1>1. CASE UNCHANGED psVars
  BY <1>1 DEF psVars, PsInv, PsTypes, PsOnce, PsLeds, Ps!Slot, Ps!Tapped
<1>2. QED
  BY <1>1, PsByteIn, PsPacketEnd DEF Ps!Next

LEMMA PsKeeps == PsInv => Ps!OnceFromWholeFrame /\ Ps!FollowsMode
<1>1. PsInv => Ps!OnceFromWholeFrame
  BY DEF PsInv, PsOnce, Ps!OnceFromWholeFrame
<1>2. ASSUME PsInv, psRoot # "special", NEW s \in Ps!Slots
      PROVE  /\ psHist \cap {"stray exit", "described"} = {} => (psLed[s] <=> Ps!PadMode(s) \in {"73", "79"})
             /\ "described" \notin psHist /\ psMot[s] # "none" => ((psMot[s] = "41") <=> (Ps!PadMode(s) = "41"))
  <2>1. /\ "stray exit" \notin psHist /\ "described" \notin psHist => PsAgrees(Ps!Slot(s))
        /\ "described" \notin psHist => PsMapped(Ps!Slot(s))
        /\ psLed[s] \in BOOLEAN
    BY <1>2 DEF PsInv, PsLeds
  <2>2. psHist \cap {"stray exit", "described"} = {} => (psLed[s] <=> Ps!PadMode(s) \in {"73", "79"})
    BY <2>1 DEF PsAgrees, Ps!Slot, Ps!PadMode
  <2>3. "described" \notin psHist /\ psMot[s] # "none" => ((psMot[s] = "41") <=> (Ps!PadMode(s) = "41"))
    BY <2>1 DEF PsMapped, Ps!Slot, Ps!PadMode
  <2>4. QED
    BY <2>2, <2>3
<1>3. QED
  BY <1>1, <1>2 DEF Ps!FollowsMode

LEMMA KbSteps == [Next]_vars /\ driver = "keyboard" => Kb!Next \/ UNCHANGED kbVars
BY DEF Next, vars

KbCodes == Seq({"make", "break"} \X Kb!Keys)
KbTypes ==
  /\ kbSystem \in {"PSX", "CDI", "SATURN"} /\ kbHeld \subseteq Kb!Keys /\ kbSeen \subseteq Kb!Keys
  /\ kbRepeat \in 0 .. 2 /\ kbTimer \in BOOLEAN /\ kbFiring \in BOOLEAN /\ kbShift \in BOOLEAN
  /\ kbQueue \in KbCodes /\ Len(kbQueue) <= KbQueue
  /\ kbHist \in [lost : SUBSET (0 .. 2), ghost : SUBSET (0 .. 2)]

\* A timer that runs, or that its callback is about to start, repeats a key that is held, or one
\* whose release came between the callback's two calls.
KbRepeats ==
  kbTimer \/ kbFiring =>
    /\ Kb!Typematic /\ kbRepeat # Kb!NoKey
    /\ kbRepeat \notin kbHist.ghost => kbRepeat \in kbHeld
KbShifts == /\ kbSystem # "CDI" => ~kbShift
            /\ kbShift => kbHeld # {} \/ kbHist.ghost # {}
KbInv == KbTypes /\ KbRepeats /\ KbShifts /\ Kb!ConsoleAgrees

\* What the console will hold a key for follows a code of that key put in the queue.
LEMMA KbAppend ==
  ASSUME NEW q \in KbCodes, NEW seen, NEW k \in Kb!Keys, NEW j \in Kb!Keys,
         NEW c \in {"make", "break"}
  PROVE  /\ Append(q, <<c, j>>) \in KbCodes
         /\ j = k => (Kb!Pressed(Append(q, <<c, j>>), seen, k) <=> c = "make")
         /\ j # k => (Kb!Pressed(Append(q, <<c, j>>), seen, k) <=> Kb!Pressed(q, seen, k))
<1> DEFINE r == Append(q, <<c, j>>)
<1>1. /\ Len(q) \in Nat /\ DOMAIN q = 1 .. Len(q)
      /\ r \in KbCodes /\ DOMAIN r = 1 .. Len(q) + 1 /\ r[Len(q) + 1] = <<c, j>>
      /\ \A i \in 1 .. Len(q) : r[i] = q[i]
  BY DEF KbCodes
<1>2. r[Len(q) + 1][1] = c /\ r[Len(q) + 1][2] = j
  BY <1>1
<1>. HIDE DEF r
<1>3. ASSUME j = k PROVE Kb!Pressed(r, seen, k) <=> c = "make"
  <2>1. Len(q) + 1 \in Kb!Codes(r, k) /\ \A i \in Kb!Codes(r, k) : i \in Int /\ i <= Len(q) + 1
    BY <1>1, <1>2, <1>3 DEF Kb!Codes
  <2>2. \A i \in Kb!Codes(r, k) : Len(q) + 1 <= i => i = Len(q) + 1
    BY <1>1, <2>1
  <2>3. QED
    BY <1>2, <2>1, <2>2 DEF Kb!Pressed
<1>4. ASSUME j # k PROVE Kb!Pressed(r, seen, k) <=> Kb!Pressed(q, seen, k)
  <2>1. Kb!Codes(r, k) = Kb!Codes(q, k) /\ \A i \in Kb!Codes(q, k) : r[i] = q[i]
    BY <1>1, <1>2, <1>4 DEF Kb!Codes
  <2>2. QED
    BY <2>1 DEF Kb!Pressed
<1>5. QED
  BY <1>1, <1>3, <1>4 DEF r

\* It stays when the console takes the first code.
LEMMA KbTail ==
  ASSUME NEW q \in KbCodes, q # <<>>, NEW seen, NEW k \in Kb!Keys
  PROVE  /\ Head(q) \in {"make", "break"} \X Kb!Keys /\ Tail(q) \in KbCodes /\ Len(Tail(q)) = Len(q) - 1
         /\ Kb!Pressed(Tail(q), Kb!Applied(seen, Head(q)), k) <=> Kb!Pressed(q, seen, k)
<1> DEFINE t == Tail(q)
           now == Kb!Applied(seen, Head(q))
<1>1. /\ Len(q) \in Nat /\ Len(q) > 0 /\ DOMAIN q = 1 .. Len(q) /\ t \in KbCodes
      /\ Len(t) = Len(q) - 1 /\ DOMAIN t = 1 .. Len(q) - 1
      /\ \A i \in 1 .. Len(q) - 1 : t[i] = q[i + 1]
      /\ Head(q) = q[1] /\ q[1] \in {"make", "break"} \X Kb!Keys
  BY DEF KbCodes
<1>2. k \in now <=> IF q[1][2] = k THEN q[1][1] = "make" ELSE k \in seen
  BY <1>1 DEF Kb!Applied
<1>. HIDE DEF t, now
<1>3. \A i \in Int : i \in Kb!Codes(t, k) <=> i + 1 \in Kb!Codes(q, k) /\ i >= 1
  BY <1>1 DEF Kb!Codes
<1>4. 1 \in Kb!Codes(q, k) <=> q[1][2] = k
  BY <1>1 DEF Kb!Codes
<1>5. Kb!Codes(t, k) \subseteq 1 .. Len(q) - 1 /\ Kb!Codes(q, k) \subseteq 1 .. Len(q)
  BY <1>1 DEF Kb!Codes
<1>6. \A i \in Kb!Codes(q, k) : i = 1 \/ i - 1 \in Kb!Codes(t, k)
  BY <1>1, <1>3, <1>5
<1>7. CASE Kb!Codes(t, k) = {}
  <2>1. \A i \in Kb!Codes(q, k) : i = 1
    BY <1>6, <1>7
  <2>2. Kb!Pressed(t, now, k) <=> k \in now
    BY <1>7 DEF Kb!Pressed
  <2>3. CASE q[1][2] = k
    <3>1. Kb!Pressed(q, seen, k) <=> q[1][1] = "make"
      BY <1>4, <2>1, <2>3 DEF Kb!Pressed
    <3>2. Kb!Pressed(t, now, k) <=> Kb!Pressed(q, seen, k)
      BY <1>2, <2>2, <2>3, <3>1
    <3>3. QED
      BY <1>1, <3>2 DEF t, now
  <2>4. CASE q[1][2] # k
    <3>1. Kb!Codes(q, k) = {}
      BY <1>4, <2>1, <2>4
    <3>2. Kb!Pressed(t, now, k) <=> Kb!Pressed(q, seen, k)
      BY <1>2, <2>2, <2>4, <3>1 DEF Kb!Pressed
    <3>3. QED
      BY <1>1, <3>2 DEF t, now
  <2>5. QED
    BY <2>3, <2>4
<1>8. CASE Kb!Codes(t, k) # {}
  <2>1. PICK n \in Kb!Codes(t, k) : TRUE
    BY <1>8
  <2>2. n \in Int /\ n + 1 \in Kb!Codes(q, k) /\ n >= 1
    BY <1>3, <1>5, <2>1
  <2>3. ASSUME NEW i \in Kb!Codes(t, k), t[i][1] = "make", \A h \in Kb!Codes(t, k) : h <= i
        PROVE  Kb!Pressed(q, seen, k)
    <3>1. i \in 1 .. Len(q) - 1 /\ i + 1 \in Kb!Codes(q, k) /\ q[i + 1][1] = "make"
      BY <1>1, <1>3, <1>5, <2>3
    <3>2. \A h \in Kb!Codes(q, k) : h <= i + 1
      BY <1>5, <1>6, <2>3, <3>1
    <3>3. QED
      BY <3>1, <3>2 DEF Kb!Pressed
  <2>4. ASSUME NEW i \in Kb!Codes(q, k), q[i][1] = "make", \A h \in Kb!Codes(q, k) : h <= i
        PROVE  Kb!Pressed(t, now, k)
    <3>1. i \in 1 .. Len(q) /\ i # 1
      BY <1>5, <2>2, <2>4
    <3>2. i - 1 \in Kb!Codes(t, k) /\ t[i - 1][1] = "make"
      BY <1>1, <1>6, <2>4, <3>1
    <3>3. \A h \in Kb!Codes(t, k) : h <= i - 1
      BY <1>3, <1>5, <2>4, <3>1
    <3>4. QED
      BY <3>2, <3>3 DEF Kb!Pressed
  <2>5. Kb!Codes(q, k) # {}
    BY <2>2
  <2>6. QED
    BY <1>1, <1>8, <2>3, <2>4, <2>5 DEF Kb!Pressed, t, now
<1>9. QED
  BY <1>7, <1>8

LEMMA KbInit == ASSUME Kb!Init PROVE KbInv
<1>1. kbQueue \in KbCodes /\ Len(kbQueue) = 0 /\ DOMAIN kbQueue = {}
  BY DEF Kb!Init, KbCodes
<1>2. KbTypes /\ KbRepeats /\ KbShifts
  <2>1. kbHist \in [lost : SUBSET (0 .. 2), ghost : SUBSET (0 .. 2)]
    BY DEF Kb!Init, Kb!Quiet
  <2>2. kbRepeat \in 0 .. 2 /\ Len(kbQueue) <= KbQueue
    BY <1>1, KbQueueAssumption DEF Kb!Init, Kb!NoKey
  <2>3. QED
    BY <1>1, <2>1, <2>2 DEF Kb!Init, KbTypes, KbRepeats, KbShifts
<1>3. Kb!ConsoleAgrees
  BY <1>1 DEF Kb!Init, Kb!ConsoleAgrees, Kb!Pressed, Kb!Codes
<1>4. QED
  BY <1>2, <1>3 DEF KbInv

\* One key of a report: its code is queued, or dropped by a full queue.
LEMMA KbTold ==
  ASSUME NEW q \in KbCodes, Len(q) <= KbQueue, NEW held \in SUBSET Kb!Keys, NEW j \in Kb!Keys, NEW seen
  PROVE  /\ Kb!Told(q, held, j) \in KbCodes /\ Len(Kb!Told(q, held, j)) <= KbQueue
         /\ \A k \in Kb!Keys : k # j =>
               (Kb!Pressed(Kb!Told(q, held, j), seen, k) <=> Kb!Pressed(q, seen, k))
         /\ j \in Kb!Changed(held) =>
              \/ j \in Kb!Dropped(q, held, j)
              \/ Kb!Pressed(Kb!Told(q, held, j), seen, j) <=> j \in held
         /\ j \notin Kb!Changed(held) => Kb!Told(q, held, j) = q
<1>1. Len(q) \in Nat /\ \A e \in {"make", "break"} \X Kb!Keys : Len(Append(q, e)) = Len(q) + 1
  BY DEF KbCodes
<1>2. CASE j \notin Kb!Changed(held)
  BY <1>2 DEF Kb!Told
<1>3. CASE j \in Kb!Changed(held) /\ Len(q) >= KbQueue
  <2>1. Kb!Told(q, held, j) = q
    BY <1>1, <1>3, KbQueueAssumption DEF Kb!Told, Kb!SetCode
  <2>2. j \in Kb!Dropped(q, held, j)
    BY <1>3 DEF Kb!Dropped
  <2>3. QED
    BY <1>3, <2>1, <2>2
<1>4. CASE j \in Kb!Changed(held) /\ Len(q) < KbQueue
  <2> DEFINE c == IF j \in held THEN "make" ELSE "break"
  <2>1. c \in {"make", "break"} /\ (c = "make" <=> j \in held)
    OBVIOUS
  <2>2. Kb!Told(q, held, j) = Append(q, <<c, j>>)
    BY <1>4 DEF Kb!Told, Kb!SetCode, Kb!Code
  <2>. HIDE DEF c
  <2>3. Kb!Told(q, held, j) \in KbCodes /\ Len(Kb!Told(q, held, j)) <= KbQueue
    <3>1. <<c, j>> \in {"make", "break"} \X Kb!Keys /\ Append(q, <<c, j>>) \in KbCodes
      BY <2>1, KbAppend
    <3>2. Len(Append(q, <<c, j>>)) = Len(q) + 1
      BY <1>1, <3>1
    <3>3. QED
      BY <1>1, <1>4, <2>2, <3>1, <3>2, KbQueueAssumption
  <2>4. \A k \in Kb!Keys : /\ j = k => (Kb!Pressed(Append(q, <<c, j>>), seen, k) <=> c = "make")
                           /\ j # k => (Kb!Pressed(Append(q, <<c, j>>), seen, k) <=> Kb!Pressed(q, seen, k))
    BY <2>1, KbAppend
  <2>5. QED
    BY <1>4, <2>1, <2>2, <2>3, <2>4
<1>5. QED
  BY <1>1, <1>2, <1>3, <1>4, KbQueueAssumption

LEMMA KbUpdate == ASSUME KbInv, NEW held \in SUBSET Kb!Keys, Kb!Update(held) PROVE KbInv'
<1> DEFINE first == Kb!Told(kbQueue, held, 1)
           second == Kb!Told(first, held, 2)
           made == held \ kbHeld
<1>1. KbTypes /\ KbRepeats /\ KbShifts /\ Kb!ConsoleAgrees
  BY DEF KbInv
<1>2. 1 \in Kb!Keys /\ 2 \in Kb!Keys /\ \A k \in Kb!Keys : k = 1 \/ k = 2
  BY DEF Kb!Keys
<1>3. /\ kbHeld' = held /\ kbQueue' = second /\ held # kbHeld
      /\ kbShift' = Kb!ShiftAfter(kbShift, Kb!Code(held, Kb!Later(Kb!Changed(held))))
      /\ kbRepeat' = IF Kb!Typematic /\ made # {} THEN Kb!Later(made) ELSE kbRepeat
      /\ kbTimer' = Kb!Armed(held)
      /\ kbHist'.lost = (kbHist.lost \ Kb!Changed(held))
                          \cup Kb!Dropped(kbQueue, held, 1) \cup Kb!Dropped(first, held, 2)
      /\ kbHist'.ghost = IF made # {} THEN {}
                         ELSE kbHist.ghost \cup (IF kbFiring THEN {kbRepeat} \ held ELSE {})
      /\ DOMAIN kbHist' = {"lost", "ghost"}
      /\ kbHist' = [lost |-> kbHist'.lost, ghost |-> kbHist'.ghost]
      /\ kbSystem' = kbSystem /\ kbFiring' = kbFiring /\ kbSeen' = kbSeen
  BY DEF Kb!Update
<1>4. Kb!Changed(held) \subseteq Kb!Keys /\ Kb!Changed(held) # {}
      /\ \A k \in Kb!Keys \ Kb!Changed(held) : k \in held <=> k \in kbHeld
  BY <1>1, <1>3 DEF KbTypes, Kb!Changed
<1>5. Kb!Later(Kb!Changed(held)) \in Kb!Changed(held) /\ (made # {} => Kb!Later(made) \in made)
  BY <1>2, <1>4 DEF Kb!Later
<1>6. /\ first \in KbCodes /\ Len(first) <= KbQueue
      /\ \A k \in Kb!Keys : k # 1 => (Kb!Pressed(first, kbSeen, k) <=> Kb!Pressed(kbQueue, kbSeen, k))
      /\ 1 \in Kb!Changed(held) => \/ 1 \in Kb!Dropped(kbQueue, held, 1)
                                   \/ Kb!Pressed(first, kbSeen, 1) <=> 1 \in held
      /\ 1 \notin Kb!Changed(held) => first = kbQueue
  <2>1. kbQueue \in KbCodes /\ Len(kbQueue) <= KbQueue
    BY <1>1 DEF KbTypes
  <2>2. QED
    BY <1>2, <2>1, KbTold
<1>. HIDE DEF first
<1>7. /\ second \in KbCodes /\ Len(second) <= KbQueue
      /\ \A k \in Kb!Keys : k # 2 => (Kb!Pressed(second, kbSeen, k) <=> Kb!Pressed(first, kbSeen, k))
      /\ 2 \in Kb!Changed(held) => \/ 2 \in Kb!Dropped(first, held, 2)
                                   \/ Kb!Pressed(second, kbSeen, 2) <=> 2 \in held
      /\ 2 \notin Kb!Changed(held) => second = first
  BY <1>2, <1>6, KbTold
<1>. HIDE DEF second
<1>8. Kb!ConsoleAgrees'
  <2>1. SUFFICES ASSUME NEW k \in Kb!Keys, k \notin kbHist'.lost
                 PROVE  Kb!Pressed(second, kbSeen, k) <=> k \in held
    BY <1>3 DEF Kb!ConsoleAgrees, Kb!Keys
  <2>2. CASE k \notin Kb!Changed(held)
    <3>1. Kb!Pressed(kbQueue, kbSeen, k) <=> k \in kbHeld
      BY <1>1, <1>3, <2>1, <2>2 DEF Kb!ConsoleAgrees
    <3>2. Kb!Pressed(second, kbSeen, k) <=> Kb!Pressed(kbQueue, kbSeen, k)
      BY <1>2, <1>6, <1>7, <2>2
    <3>3. QED
      BY <1>4, <2>2, <3>1, <3>2
  <2>3. CASE k \in Kb!Changed(held)
    <3>1. k \notin Kb!Dropped(kbQueue, held, 1) /\ k \notin Kb!Dropped(first, held, 2)
      BY <1>3, <2>1
    <3>2. QED
      BY <1>2, <1>6, <1>7, <2>3, <3>1
  <2>4. QED
    BY <2>2, <2>3
<1>9. KbTypes'
  <2>1. kbHist'.lost \in SUBSET (0 .. 2) /\ kbHist'.ghost \in SUBSET (0 .. 2)
    BY <1>1, <1>3, <1>4 DEF KbTypes, Kb!Dropped, Kb!Keys
  <2>2. kbHist' \in [lost : SUBSET (0 .. 2), ghost : SUBSET (0 .. 2)]
    BY <1>3, <2>1
  <2>3. kbRepeat' \in 0 .. 2
    BY <1>1, <1>2, <1>3, <1>5 DEF KbTypes
  <2>4. kbTimer' \in BOOLEAN /\ kbShift' \in BOOLEAN
    BY <1>1, <1>3 DEF KbTypes, Kb!Armed, Kb!ShiftAfter
  <2>5. kbHeld' \subseteq Kb!Keys
    BY <1>3
  <2>6. QED
    BY <1>1, <1>3, <1>7, <2>2, <2>3, <2>4, <2>5 DEF KbTypes, Kb!Keys
<1>10. KbRepeats'
  <2>1. kbTimer' => Kb!Typematic /\ made # {}
    <3>1. \A k \in Kb!Changed(held) : k \in held => k \in made
      BY DEF Kb!Changed
    <3>2. Kb!Armed(held) => Kb!Typematic /\ Kb!Later(Kb!Changed(held)) \in made
      BY <1>5, <3>1 DEF Kb!Armed
    <3>3. QED
      BY <1>3, <3>2
  <2>2. kbTimer' \/ kbFiring => Kb!Typematic
    BY <1>1, <2>1 DEF KbRepeats
  <2>3. kbTimer' \/ kbFiring => kbRepeat' # Kb!NoKey
    BY <1>1, <1>2, <1>3, <1>5, <2>1 DEF KbRepeats, Kb!NoKey
  <2>4. kbTimer' \/ kbFiring => (kbRepeat' \notin kbHist'.ghost => kbRepeat' \in held)
    BY <1>1, <1>3, <1>5, <2>1, <2>2 DEF KbRepeats
  <2>5. QED
    BY <1>3, <2>2, <2>3, <2>4 DEF KbRepeats, Kb!Typematic, Kb!NoKey
<1>11. KbShifts'
  <2>1. kbSystem # "CDI" => ~kbShift'
    BY <1>1, <1>3 DEF KbShifts, Kb!ShiftAfter
  <2>2. kbShift' => held # {}
    BY <1>3, <2>1 DEF Kb!ShiftAfter, Kb!Code
  <2>3. QED
    BY <1>3, <2>1, <2>2 DEF KbShifts
<1>12. QED
  BY <1>8, <1>9, <1>10, <1>11 DEF KbInv

LEMMA KbFire == ASSUME KbInv, Kb!Fire PROVE KbInv'
<1>1. KbTypes /\ KbRepeats /\ KbShifts /\ Kb!ConsoleAgrees
  BY DEF KbInv
<1>2. /\ kbTimer' = FALSE /\ kbFiring' = TRUE
      /\ kbQueue' = Kb!SetCode(kbQueue, <<"make", kbRepeat>>)
      /\ kbShift' = Kb!ShiftAfter(kbShift, <<"make", kbRepeat>>)
      /\ kbSystem' = kbSystem /\ kbHeld' = kbHeld /\ kbRepeat' = kbRepeat /\ kbSeen' = kbSeen
  BY DEF Kb!Fire
<1>3. /\ kbHist' = [lost |-> kbHist'.lost, ghost |-> kbHist.ghost] /\ kbHist'.ghost = kbHist.ghost
      /\ kbHist'.lost = IF kbRepeat \notin kbHeld THEN kbHist.lost \cup {kbRepeat}
                        ELSE IF Len(kbQueue) < KbQueue THEN kbHist.lost \ {kbRepeat} ELSE kbHist.lost
  BY <1>1 DEF Kb!Fire, KbTypes
<1>4. /\ Kb!Typematic /\ kbRepeat \in Kb!Keys
      /\ kbRepeat \notin kbHist.ghost => kbRepeat \in kbHeld
  BY <1>1 DEF Kb!Fire, KbTypes, KbRepeats, Kb!NoKey, Kb!Keys
<1>5. Len(kbQueue) \in Nat /\ \A e \in {"make", "break"} \X Kb!Keys : Len(Append(kbQueue, e)) = Len(kbQueue) + 1
  BY <1>1 DEF KbTypes, KbCodes
<1>6. KbTypes'
  <2>1. kbQueue' \in KbCodes /\ Len(kbQueue') <= KbQueue
    <3>1. Append(kbQueue, <<"make", kbRepeat>>) \in KbCodes
      BY <1>1, <1>4, KbAppend DEF KbTypes
    <3>2. Len(Append(kbQueue, <<"make", kbRepeat>>)) = Len(kbQueue) + 1
      BY <1>4, <1>5
    <3>3. QED
      BY <1>1, <1>2, <1>5, <3>1, <3>2, KbQueueAssumption DEF KbTypes, Kb!SetCode
  <2>2. kbHist'.lost \in SUBSET (0 .. 2) /\ kbHist.ghost \in SUBSET (0 .. 2)
    BY <1>1, <1>3, <1>4 DEF KbTypes, Kb!Keys
  <2>3. kbHist' \in [lost : SUBSET (0 .. 2), ghost : SUBSET (0 .. 2)]
    BY <1>3, <2>2
  <2>4. kbShift' \in BOOLEAN
    BY <1>1, <1>2 DEF KbTypes, Kb!ShiftAfter
  <2>5. QED
    BY <1>1, <1>2, <2>1, <2>3, <2>4 DEF KbTypes, Kb!Keys
<1>7. KbRepeats'
  BY <1>1, <1>2, <1>3, <1>4 DEF Kb!Fire, KbRepeats, Kb!Typematic, Kb!NoKey
<1>8. KbShifts'
  BY <1>1, <1>2, <1>3, <1>4 DEF KbShifts, Kb!ShiftAfter
<1>9. Kb!ConsoleAgrees'
  <2>1. SUFFICES ASSUME NEW k \in Kb!Keys, k \notin kbHist'.lost
                 PROVE  Kb!Pressed(kbQueue', kbSeen, k) <=> k \in kbHeld
    BY <1>2 DEF Kb!ConsoleAgrees, Kb!Keys
  <2>2. k \notin kbHist.lost => (Kb!Pressed(kbQueue, kbSeen, k) <=> k \in kbHeld)
    BY <1>1 DEF Kb!ConsoleAgrees
  <2>3. CASE Len(kbQueue) >= KbQueue
    <3>1. kbQueue' = kbQueue /\ k \notin kbHist.lost
      BY <1>2, <1>3, <1>5, <2>1, <2>3, KbQueueAssumption DEF Kb!SetCode
    <3>2. QED
      BY <2>2, <3>1
  <2>4. CASE Len(kbQueue) < KbQueue
    <3>1. kbQueue' = Append(kbQueue, <<"make", kbRepeat>>)
      BY <1>2, <2>4 DEF Kb!SetCode
    <3>2. kbQueue \in KbCodes
      BY <1>1 DEF KbTypes
    <3>3. /\ kbRepeat = k => (Kb!Pressed(kbQueue', kbSeen, k) <=> "make" = "make")
          /\ kbRepeat # k => (Kb!Pressed(kbQueue', kbSeen, k) <=> Kb!Pressed(kbQueue, kbSeen, k))
      BY <1>4, <3>1, <3>2, KbAppend
    <3>4. QED
      BY <1>3, <2>1, <2>2, <3>3
  <2>5. QED
    BY <1>5, <2>3, <2>4, KbQueueAssumption
<1>10. QED
  BY <1>6, <1>7, <1>8, <1>9 DEF KbInv

LEMMA KbStep ==
  ASSUME KbInv, Kb!Next \/ UNCHANGED kbVars
  PROVE  KbInv'
<1>1. CASE UNCHANGED kbVars
  BY <1>1 DEF kbVars, KbInv, KbTypes, KbRepeats, KbShifts, Kb!Typematic, Kb!ConsoleAgrees
<1>2. CASE Kb!Restart
  BY <1>2 DEF KbInv, KbTypes, KbRepeats, KbShifts, Kb!Typematic, Kb!ConsoleAgrees, Kb!Restart
<1>3. CASE Kb!GetCode
  <2>1. /\ kbQueue \in KbCodes /\ kbQueue # <<>> /\ Len(kbQueue) \in Nat
        /\ kbQueue' = Tail(kbQueue) /\ kbSeen' = Kb!Applied(kbSeen, Head(kbQueue))
    BY <1>3 DEF Kb!GetCode, KbInv, KbTypes, KbCodes
  <2>2. /\ Head(kbQueue) \in {"make", "break"} \X Kb!Keys /\ kbQueue' \in KbCodes
        /\ Len(kbQueue') = Len(kbQueue) - 1
    BY <2>1, KbTail DEF Kb!Keys
  <2>3. \A k \in Kb!Keys : Kb!Pressed(kbQueue', kbSeen', k) <=> Kb!Pressed(kbQueue, kbSeen, k)
    BY <2>1, KbTail
  <2>4. KbTypes'
    <3>1. Head(kbQueue)[2] \in Kb!Keys /\ kbSeen \subseteq Kb!Keys
      BY <2>2 DEF KbInv, KbTypes
    <3>2. kbSeen' \subseteq Kb!Keys
      BY <2>1, <3>1 DEF Kb!Applied
    <3>3. Len(kbQueue') <= KbQueue
      BY <2>1, <2>2, KbQueueAssumption DEF KbInv, KbTypes
    <3>4. QED
      BY <1>3, <2>2, <3>2, <3>3 DEF Kb!GetCode, KbInv, KbTypes, Kb!Keys
  <2>5. Kb!ConsoleAgrees'
    BY <1>3, <2>3 DEF Kb!GetCode, KbInv, Kb!ConsoleAgrees, Kb!Keys
  <2>6. QED
    BY <1>3, <2>4, <2>5 DEF Kb!GetCode, KbInv, KbRepeats, KbShifts, Kb!Typematic, Kb!NoKey
<1>4. QED
  BY <1>1, <1>2, <1>3, KbUpdate, KbFire DEF Kb!Next

LEMMA KbKeeps == KbInv => Kb!RepeatsHeldKey /\ Kb!ConsoleAgrees /\ Kb!ShiftIsHeld
BY DEF KbInv, KbRepeats, KbShifts, Kb!RepeatsHeldKey, Kb!ShiftIsHeld

LEMMA WiiSteps == [Next]_vars /\ driver = "wii_i2c" => Wii!Next \/ UNCHANGED wiiVars
BY DEF Next, vars

\* What byte number j of the register asked for reads as.
WiiItem(j) ==
  <<wiiHist.reg, j, IF wiiCrypt = 1 THEN wiiSeed ELSE <<0, 0>>, IF wiiHist.reg < 9 THEN wiiForm ELSE 0>>

\* The FIFO holds the bytes that are still to be read, and the key is made of the whole seed.
WiiInv ==
  /\ wiiHist \in [reg : {0, 16, 99}, byte : 0 .. 2]
  /\ wiiSeed \in [1 .. 2 -> 0 .. 2] /\ wiiKey = wiiSeed
  /\ wiiRx \in {Wii!None} \cup Wii!Reads \cup Wii!Writes
  /\ \/ wiiFifo = <<>>
     \/ wiiFifo = <<WiiItem(1), WiiItem(2)>> /\ wiiHist.byte = 0
     \/ wiiFifo = <<WiiItem(2)>> /\ wiiHist.byte = 1
  /\ wiiRx = Wii!None /\ wiiGot # <<>> => wiiGot = WiiItem(wiiHist.byte)

LEMMA WiiInit == ASSUME Wii!Init PROVE WiiInv
BY DEF Wii!Init, WiiInv

LEMMA WiiStep ==
  ASSUME WiiInv, Wii!Next \/ UNCHANGED wiiVars
  PROVE  WiiInv'
<1>1. CASE UNCHANGED wiiVars
  BY <1>1 DEF wiiVars, WiiInv, WiiItem
<1>2. CASE Wii!Transaction
  <2>1. wiiRx' # Wii!None /\ wiiRx' \in Wii!Reads \cup Wii!Writes
    BY <1>2 DEF Wii!Transaction, Wii!Reads, Wii!Writes, Wii!None
  <2>2. QED
    BY <1>2, <2>1 DEF Wii!Transaction, WiiInv, WiiItem
<1>3. CASE Wii!ReadByte
  <2>1. /\ wiiHist' = [wiiHist EXCEPT !.byte = @ + 1] /\ wiiGot' = Head(wiiFifo)
        /\ wiiFifo' = Tail(wiiFifo) /\ wiiFifo # <<>>
        /\ UNCHANGED <<wiiSeed, wiiKey, wiiCrypt, wiiForm, wiiRx>>
    BY <1>3 DEF Wii!ReadByte
  <2>2. wiiHist'.reg = wiiHist.reg /\ wiiHist'.byte = wiiHist.byte + 1
    BY <2>1 DEF WiiInv
  <2>3. \A j : WiiItem(j)' = WiiItem(j)
    BY <2>1, <2>2 DEF WiiItem
  <2>4. CASE wiiFifo = <<WiiItem(1), WiiItem(2)>> /\ wiiHist.byte = 0
    <3>1. wiiFifo' = <<WiiItem(2)>> /\ wiiGot' = WiiItem(1)
      BY <2>1, <2>4
    <3>2. wiiHist' \in [reg : {0, 16, 99}, byte : 0 .. 2] /\ wiiHist'.byte = 1
      BY <2>1, <2>4 DEF WiiInv
    <3>3. QED
      BY <2>1, <2>3, <3>1, <3>2 DEF WiiInv
  <2>5. CASE wiiFifo = <<WiiItem(2)>> /\ wiiHist.byte = 1
    <3>1. wiiFifo' = <<>> /\ wiiGot' = WiiItem(2)
      BY <2>1, <2>5
    <3>2. wiiHist' \in [reg : {0, 16, 99}, byte : 0 .. 2] /\ wiiHist'.byte = 2
      BY <2>1, <2>5 DEF WiiInv
    <3>3. QED
      BY <2>1, <2>3, <3>1, <3>2 DEF WiiInv
  <2>6. QED
    BY <2>1, <2>4, <2>5 DEF WiiInv
<1>4. CASE Wii!i2c_isr
  <2> DEFINE seed == IF wiiRx[1] = "seed" THEN [wiiSeed EXCEPT ![wiiRx[2]] = wiiRx[3]] ELSE wiiSeed
  <2>1. /\ wiiRx' = Wii!None /\ wiiSeed' = seed
        /\ wiiKey' = IF Wii!KeyMade(wiiRx) THEN seed ELSE wiiKey
        /\ wiiFifo' = Wii!Emptied(wiiFifo) \o (IF wiiRx[1] = "read" THEN Wii!Answer(wiiRx[2]) ELSE <<>>)
        /\ wiiHist' = [reg |-> IF wiiRx[1] = "read" THEN wiiRx[2] ELSE 99, byte |-> 0]
        /\ wiiGot' = <<>>
        /\ wiiRx \in Wii!Reads \cup Wii!Writes
    BY <1>4 DEF Wii!i2c_isr, WiiInv
  <2>2. wiiSeed' \in [1 .. 2 -> 0 .. 2] /\ wiiKey' = wiiSeed'
    BY <2>1 DEF WiiInv, Wii!KeyMade, Wii!Reads, Wii!Writes
  <2>3. CASE wiiRx[1] = "read"
    <3>1. wiiRx[2] \in {0, 16} /\ wiiSeed' = wiiSeed
      BY <2>1, <2>3 DEF Wii!Reads, Wii!Writes
    <3>2. wiiCrypt' = wiiCrypt /\ wiiForm' = wiiForm
      BY <1>4, <2>3 DEF Wii!i2c_isr
    <3>3. wiiHist' = [reg |-> wiiRx[2], byte |-> 0]
      BY <2>1, <2>3
    <3>4. /\ WiiItem(1)' = <<wiiRx[2], 1, IF wiiCrypt = 1 THEN wiiSeed ELSE <<0, 0>>, IF wiiRx[2] < 9 THEN wiiForm ELSE 0>>
          /\ WiiItem(2)' = <<wiiRx[2], 2, IF wiiCrypt = 1 THEN wiiSeed ELSE <<0, 0>>, IF wiiRx[2] < 9 THEN wiiForm ELSE 0>>
      BY <3>1, <3>2, <3>3 DEF WiiItem
    <3>5. Wii!Answer(wiiRx[2]) = <<WiiItem(1)', WiiItem(2)'>>
      BY <3>4 DEF Wii!Answer, Wii!Bytes, WiiInv
    <3>6. Wii!Emptied(wiiFifo) \o Wii!Answer(wiiRx[2]) = Wii!Answer(wiiRx[2])
      BY <3>5 DEF Wii!Emptied
    <3>7. wiiFifo' = <<WiiItem(1)', WiiItem(2)'>>
      BY <2>1, <2>3, <3>5, <3>6
    <3>8. wiiHist' \in [reg : {0, 16, 99}, byte : 0 .. 2] /\ wiiHist'.byte = 0
      BY <3>1, <3>3
    <3>9. QED
      BY <2>1, <2>2, <3>7, <3>8 DEF WiiInv
  <2>4. CASE wiiRx[1] # "read"
    <3>1. wiiFifo' = <<>>
      BY <2>1, <2>4 DEF Wii!Emptied
    <3>2. wiiHist' \in [reg : {0, 16, 99}, byte : 0 .. 2]
      BY <2>1, <2>4
    <3>3. QED
      BY <2>1, <2>2, <3>1, <3>2 DEF WiiInv
  <2>5. QED
    BY <2>3, <2>4
<1>5. CASE Wii!port_cfg
  BY <1>5 DEF Wii!port_cfg, WiiInv, WiiItem
<1>6. QED
  BY <1>1, <1>2, <1>3, <1>4, <1>5 DEF Wii!Next

LEMMA WiiKeeps == WiiInv => Wii!ReadsAsAsked
BY DEF WiiInv, WiiItem, Wii!ReadsAsAsked

LEMMA RowSteps == [Next]_vars /\ driver = "rows" => Row!Next \/ UNCHANGED rpVars
BY DEF Next, vars

RowSystems == {"jag", "jag_6d", "jag_6d_tt", "pce", "pce_tap", "pce_tap6", "pce_mouse", "pce_kb"}
RowCounts == [cycle : Nat, frame : Int, mouse : Int]
RowHist == [want : RowCounts, off : BOOLEAN, scan : [0 .. 3 -> {Row!None} \cup (Int \X Int)]]

\* What the console's edges lead to by where the loop is, as long as no edge and no enable came
\* between two of its steps.
RowAgrees ==
  LET want == rpHist.want
      counted == [rpCount EXCEPT !.cycle = Row!Least(rpCount.cycle + 1, Row!Cycles)] IN
  CASE rpPc = "watch" /\ rpLine = rpSeen -> want = rpCount /\ rpOut = Row!Word(want, rpLine)
    [] rpPc = "watch" /\ rpLine # rpSeen ->
         want = IF rpLine = 1 /\ rpSys # "pce" THEN counted ELSE rpCount
    [] rpPc = "count" -> want = counted /\ rpTmp = <<rpCount.cycle>> /\ rpLine = rpSeen
    [] rpPc = "show" -> want = rpCount /\ rpTmp = Row!Word(want, rpLine) /\ rpLine = rpSeen

\* The PC Engine's pads: nothing but the loop and the enable writes the row, and the loop counts
\* what the console counts.
RowInv ==
  /\ rpSys \in RowSystems
  /\ ~Row!Jag /\ rpSys # "pce_mouse" =>
       /\ rpCount \in RowCounts /\ rpHist.want \in RowCounts /\ rpHist.off \in BOOLEAN
       /\ rpHist = [want |-> rpHist.want, off |-> rpHist.off, scan |-> rpHist.scan]
       /\ rpPc \in {"watch", "count", "show"} /\ rpLine \in 0 .. 1 /\ rpSeen \in 0 .. 1
       /\ rpForce = Row!None
       /\ rpHist.want.frame = rpCount.frame
       /\ rpPc = "count" => rpTmp[1] \in Nat
       /\ ~rpHist.off => RowAgrees

LEMMA RowInit == ASSUME Row!Init PROVE RowInv
<1>1. rpSys \in RowSystems
  BY DEF Row!Init, RowSystems
<1>2. rpCount \in RowCounts /\ rpHist.want \in RowCounts /\ rpHist.off = TRUE
  BY DEF Row!Init, RowCounts
<1>3. rpHist = [want |-> rpHist.want, off |-> rpHist.off, scan |-> rpHist.scan]
  BY DEF Row!Init
<1>4. rpPc \in {"watch", "count", "show"} /\ rpLine \in 0 .. 1 /\ rpSeen \in 0 .. 1 /\ rpForce = Row!None
  BY DEF Row!Init
<1>6. rpHist.want.frame = rpCount.frame /\ rpPc = "watch"
  BY DEF Row!Init
<1>5. QED
  BY <1>1, <1>2, <1>3, <1>4, <1>6 DEF RowInv

\* A row of a pad does not depend on what the pins show, but for a mouse.
LEMMA RowWord ==
  ASSUME rpSys' = rpSys, rpSys # "pce_mouse"
  PROVE  \A count, level : Row!Word(count, level)' = Row!Word(count, level)
BY DEF Row!Word, Row!Pads

LEMMA RowStep ==
  ASSUME RowInv, Row!Next \/ UNCHANGED rpVars
  PROVE  RowInv'
<1>1. rpSys' = rpSys
  BY DEF rpVars, Row!Next, Row!Move, Row!Select, Row!OutputEnable, Row!Change, Row!Count, Row!Show,
         Row!Rest, Row!Hold, Row!ForceRead, Row!ForceWrite
<1>2. Row!Jag' = Row!Jag /\ Row!Cycles' = Row!Cycles
  BY <1>1 DEF Row!Jag, Row!Cycles
<1>3. CASE Row!Jag \/ rpSys = "pce_mouse"
  BY <1>1, <1>2, <1>3 DEF RowInv
<1>4. CASE ~Row!Jag /\ rpSys # "pce_mouse"
  <2>1. /\ rpCount \in RowCounts /\ rpHist.want \in RowCounts /\ rpHist.off \in BOOLEAN
        /\ rpHist = [want |-> rpHist.want, off |-> rpHist.off, scan |-> rpHist.scan]
        /\ rpPc \in {"watch", "count", "show"} /\ rpLine \in 0 .. 1 /\ rpSeen \in 0 .. 1
        /\ rpForce = Row!None
        /\ rpHist.want.frame = rpCount.frame
        /\ rpPc = "count" => rpTmp[1] \in Nat
        /\ ~rpHist.off => RowAgrees
    BY <1>4 DEF RowInv
  <2>2. \A count, level : Row!Word(count, level)' = Row!Word(count, level)
    BY <1>1, <1>4, RowWord
  <2>3. rpCount = [cycle |-> rpCount.cycle, frame |-> rpCount.frame, mouse |-> rpCount.mouse]
    BY <2>1 DEF RowCounts
  <2>4. Row!Cycles \in Nat /\ \A n \in Nat : Row!Least(n + 1, Row!Cycles) \in Nat
    BY DEF Row!Cycles, Row!Least
  <2> SUFFICES /\ rpCount' \in RowCounts /\ rpHist'.want \in RowCounts /\ rpHist'.off \in BOOLEAN
               /\ rpHist' = [want |-> rpHist'.want, off |-> rpHist'.off, scan |-> rpHist'.scan]
               /\ rpPc' \in {"watch", "count", "show"} /\ rpLine' \in 0 .. 1 /\ rpSeen' \in 0 .. 1
               /\ rpForce' = Row!None
               /\ rpHist'.want.frame = rpCount'.frame
               /\ rpPc' = "count" => rpTmp'[1] \in Nat
               /\ ~rpHist'.off => RowAgrees'
    BY <1>1 DEF RowInv
  <2>5. CASE UNCHANGED rpVars
    BY <2>1, <2>2, <1>2, <2>5 DEF rpVars, RowAgrees
  <2>6. CASE Row!Select
    <3>1. /\ rpLine' = 1 - rpLine /\ UNCHANGED <<rpSys, rpSeen, rpPc, rpTmp, rpOut, rpCount, rpForce>>
          /\ rpHist'.off = (rpHist.off \/ ~Row!Quiet) /\ rpHist'.scan = rpHist.scan
      BY <2>1, <2>6 DEF Row!Select
    <3>2. rpHist'.want = [rpHist.want EXCEPT !.cycle =
                 IF rpLine = 0 /\ rpSys # "pce" THEN Row!Least(@ + 1, Row!Cycles) ELSE @]
      BY <2>1, <2>6 DEF Row!Select
    <3>3. rpHist' = [want |-> rpHist'.want, off |-> rpHist'.off, scan |-> rpHist'.scan]
      BY <2>1, <2>6 DEF Row!Select
    <3>4. rpHist'.want \in RowCounts /\ rpLine' \in 0 .. 1
      BY <2>1, <2>4, <3>1, <3>2 DEF RowCounts
    <3>5. ASSUME ~rpHist'.off PROVE RowAgrees'
      <4>1. rpPc = "watch" /\ rpLine = rpSeen /\ ~rpHist.off
        BY <3>1, <3>5, <2>1 DEF Row!Quiet
      <4>2. rpHist.want = rpCount
        BY <2>1, <4>1 DEF RowAgrees
      <4>3. rpPc' = "watch" /\ rpLine' # rpSeen' /\ (rpLine' = 1 <=> rpLine = 0)
        BY <2>1, <3>1, <4>1
      <4>4. rpHist'.want = IF rpLine' = 1 /\ rpSys # "pce"
              THEN [rpCount EXCEPT !.cycle = Row!Least(rpCount.cycle + 1, Row!Cycles)] ELSE rpCount
        BY <2>1, <2>3, <3>2, <4>2, <4>3 DEF RowCounts
      <4>5. QED
        BY <1>1, <1>2, <3>1, <4>3, <4>4 DEF RowAgrees, Row!Least
    <3>6. rpHist'.want.frame = rpCount'.frame
      BY <2>1, <3>1, <3>2 DEF RowCounts
    <3>7. QED
      BY <2>1, <3>1, <3>3, <3>4, <3>5, <3>6
  <2>7. CASE Row!OutputEnable
    <3>1. /\ rpCount' = Row!Started(rpCount) /\ rpOut' = Row!Word(rpCount', rpLine)
          /\ UNCHANGED <<rpLine, rpSeen, rpPc, rpTmp, rpForce>>
          /\ rpHist'.off = ~Row!Quiet
      BY <2>1, <2>7 DEF Row!OutputEnable
    <3>2. rpHist'.want = [cycle |-> 0,
            frame |-> IF rpSys = "pce_tap6" THEN 1 - rpHist.want.frame ELSE rpHist.want.frame, mouse |-> 0]
      BY <1>4, <2>1, <2>7 DEF Row!OutputEnable
    <3>3. rpHist' = [want |-> rpHist'.want, off |-> rpHist'.off, scan |-> rpHist'.scan]
      BY <2>1, <2>7 DEF Row!OutputEnable
    <3>4. rpCount' = [cycle |-> 0,
            frame |-> IF rpSys = "pce_tap6" THEN 1 - rpCount.frame ELSE rpCount.frame, mouse |-> 0]
      BY <1>4, <3>1 DEF Row!Started
    <3>5. rpHist'.want \in RowCounts /\ rpCount' \in RowCounts
      BY <2>1, <3>2, <3>4 DEF RowCounts
    <3>6. ASSUME ~rpHist'.off PROVE RowAgrees'
      <4>1. rpPc = "watch" /\ rpLine = rpSeen
        BY <3>1, <3>6, <2>1 DEF Row!Quiet
      <4>2. rpHist'.want = rpCount'
        BY <2>1, <3>2, <3>4
      <4>3. rpOut' = Row!Word(rpHist'.want, rpLine')
        BY <3>1, <4>2
      <4>4. Row!Word(rpHist.want, rpLine)' = Row!Word(rpHist'.want, rpLine')
        BY <2>2
      <4>5. QED
        BY <3>1, <4>1, <4>2, <4>3, <4>4 DEF RowAgrees
    <3>7. rpHist'.want.frame = rpCount'.frame
      BY <2>1, <3>2, <3>4
    <3>8. QED
      BY <2>1, <3>1, <3>3, <3>5, <3>6, <3>7 DEF Row!Quiet
  <2>8. CASE Row!Change
    <3>1. /\ rpPc = "watch" /\ rpLine # rpSeen /\ rpSeen' = rpLine
          /\ UNCHANGED <<rpLine, rpCount, rpForce, rpHist, rpOut>>
          /\ IF rpLine = 1 /\ rpSys # "pce" THEN rpPc' = "count" /\ rpTmp' = <<rpCount.cycle>>
             ELSE rpPc' = "show" /\ rpTmp' = Row!Word(rpCount, rpLine)
      BY <1>4, <2>8 DEF Row!Change
    <3>2. ASSUME ~rpHist'.off PROVE RowAgrees'
      <4>1. rpHist.want = IF rpLine = 1 /\ rpSys # "pce"
              THEN [rpCount EXCEPT !.cycle = Row!Least(rpCount.cycle + 1, Row!Cycles)] ELSE rpCount
        BY <2>1, <3>1, <3>2 DEF RowAgrees
      <4>2. CASE rpLine = 1 /\ rpSys # "pce"
        BY <1>1, <1>2, <3>1, <4>1, <4>2 DEF RowAgrees, Row!Least
      <4>3. CASE ~(rpLine = 1 /\ rpSys # "pce")
        <5>1. rpPc' = "show" /\ rpTmp' = Row!Word(rpHist.want, rpLine) /\ rpHist.want = rpCount
          BY <3>1, <4>1, <4>3
        <5>2. Row!Word(rpHist.want, rpLine)' = Row!Word(rpHist'.want, rpLine')
          BY <2>2
        <5>3. QED
          BY <3>1, <5>1, <5>2 DEF RowAgrees
      <4>4. QED
        BY <4>2, <4>3
    <3>3. rpPc' \in {"count", "show"} /\ (rpPc' = "count" => rpTmp'[1] \in Nat)
      BY <2>1, <3>1 DEF RowCounts
    <3>4. QED
      BY <2>1, <3>1, <3>2, <3>3
  <2>9. CASE Row!Count
    <3>1. /\ rpPc = "count" /\ rpPc' = "show"
          /\ rpCount' = [rpCount EXCEPT !.cycle = Row!Least(rpTmp[1] + 1, Row!Cycles)]
          /\ rpTmp' = Row!Word(rpCount', rpSeen)
          /\ UNCHANGED <<rpLine, rpSeen, rpForce, rpHist>>
      BY <2>9 DEF Row!Count
    <3>2. rpCount'.frame = rpCount.frame
      BY <2>1, <3>1 DEF RowCounts
    <3>5. rpCount' \in RowCounts
      BY <2>1, <2>4, <3>1 DEF RowCounts
    <3>3. ASSUME ~rpHist'.off PROVE RowAgrees'
      <4>1. rpHist.want = [rpCount EXCEPT !.cycle = Row!Least(rpCount.cycle + 1, Row!Cycles)]
              /\ rpTmp = <<rpCount.cycle>> /\ rpLine = rpSeen
        BY <2>1, <3>1, <3>3 DEF RowAgrees
      <4>2. rpHist'.want = rpCount'
        BY <3>1, <4>1
      <4>3. rpTmp' = Row!Word(rpHist'.want, rpLine')
        BY <3>1, <4>1, <4>2
      <4>4. Row!Word(rpHist.want, rpLine)' = Row!Word(rpHist'.want, rpLine')
        BY <2>2
      <4>5. QED
        BY <2>1, <3>1, <4>1, <4>2, <4>3, <4>4 DEF RowAgrees
    <3>4. QED
      BY <2>1, <3>1, <3>2, <3>3, <3>5
  <2>10. CASE Row!Show
    <3>1. /\ rpPc = "show" /\ rpPc' = "watch" /\ rpOut' = rpTmp
          /\ UNCHANGED <<rpLine, rpSeen, rpCount, rpForce, rpHist>>
      BY <1>4, <2>10 DEF Row!Show
    <3>2. ASSUME ~rpHist'.off PROVE RowAgrees'
      <4>1. rpHist.want = rpCount /\ rpTmp = Row!Word(rpHist.want, rpLine) /\ rpLine = rpSeen
        BY <2>1, <3>1, <3>2 DEF RowAgrees
      <4>2. Row!Word(rpHist.want, rpLine)' = Row!Word(rpHist'.want, rpLine')
        BY <2>2
      <4>3. QED
        BY <3>1, <4>1, <4>2 DEF RowAgrees
    <3>3. QED
      BY <2>1, <3>1, <3>2
  <2>11. CASE Row!Rest
    <3>1. /\ rpPc = "watch" /\ rpLine = rpSeen
          /\ rpCount' = [rpCount EXCEPT !.mouse = 0]
          /\ rpHist'.want = [rpHist.want EXCEPT !.mouse = 0] /\ rpHist'.off = rpHist.off
          /\ rpHist' = [want |-> rpHist'.want, off |-> rpHist'.off, scan |-> rpHist'.scan]
          /\ UNCHANGED <<rpLine, rpSeen, rpPc, rpTmp, rpOut, rpForce>>
      BY <2>1, <2>11 DEF Row!Rest, Row!Quiet
    <3>2. rpCount' \in RowCounts /\ rpHist'.want \in RowCounts /\ rpHist'.want.frame = rpCount'.frame
      BY <2>1, <3>1 DEF RowCounts
    <3>3. ASSUME ~rpHist'.off PROVE RowAgrees'
      <4>1. rpHist.want = rpCount /\ rpOut = Row!Word(rpHist.want, rpLine)
        BY <2>1, <3>1, <3>3 DEF RowAgrees
      <4>2. rpHist'.want = rpCount'
        BY <3>1, <4>1
      <4>3. Row!Word(rpHist'.want, rpLine) = Row!Word(rpHist.want, rpLine)
        <5>1. rpHist'.want.cycle = rpHist.want.cycle /\ rpHist'.want.frame = rpHist.want.frame
          BY <2>1, <3>1 DEF RowCounts
        <5>2. QED
          BY <1>4, <5>1 DEF Row!Word
      <4>4. Row!Word(rpHist.want, rpLine)' = Row!Word(rpHist'.want, rpLine')
        BY <2>2
      <4>5. QED
        BY <3>1, <4>1, <4>2, <4>3, <4>4 DEF RowAgrees
    <3>4. QED
      BY <2>1, <3>1, <3>2, <3>3
  <2>12. CASE Row!Hold
    <3>1. UNCHANGED <<rpLine, rpSeen, rpPc, rpTmp, rpOut, rpCount, rpForce, rpHist>>
      BY <2>12 DEF Row!Hold
    <3>2. QED
      BY <1>1, <1>2, <2>1, <2>2, <3>1 DEF RowAgrees
  <2>13. CASE (\E l \in Row!Lines : Row!Move(l)) \/ Row!ForceRead \/ Row!ForceWrite
    BY <1>4, <2>1, <2>13 DEF Row!Move, Row!ForceRead, Row!ForceWrite
  <2>14. QED
    BY <2>5, <2>6, <2>7, <2>8, <2>9, <2>10, <2>11, <2>12, <2>13 DEF Row!Next
<1>5. QED
  BY <1>3, <1>4

LEMMA RowKeeps == RowInv => Row!PadAsked
BY DEF RowInv, RowAgrees, Row!PadAsked, Row!Quiet

SegaHist == [lost : SUBSET Sega!Ports, polled : SUBSET Sega!Ports, reversed : BOOLEAN,
             frame : Sega!Ports \cup {Sega!None}]
SegaTypes ==
  /\ sgType \in [Sega!Ports -> {"3BTNS", "6BTNS", "TWH"}]
  /\ sgTh \in [Sega!Ports -> BOOLEAN] /\ sgSeen \in [Sega!Ports -> BOOLEAN]
  /\ sgOut \in [Sega!Ports -> 0 .. 10] /\ sgCopy \in [Sega!Ports -> 0 .. 10]
  /\ sgIdx \in Sega!Ports /\ sgHist \in SegaHist

SegaPolls == sgPc.kind \in {"arm", "wait", "twh"}

\* The pins of a port that is in step show the half its level asks for, and the copy of them is
\* what is written again: but for the port whose handshake answers now.
SegaShown ==
  /\ \A q \in Sega!Ports : sgOut[q] = sgCopy[q] \/ (sgOut[q] = Sega!Nibble /\ sgCopy[q] = 0)
  /\ SegaPolls => sgPc.phase \in 0 .. 6
  /\ sgPc.kind \in {"arm", "wait"} =>
       sgOut[sgPc.port] = sgPc.phase \/ (sgOut[sgPc.port] = Sega!Nibble /\ sgPc.phase = 0)
  /\ sgPc.kind = "twh" => sgOut[sgPc.port] = Sega!Nibble
  /\ \A q \in Sega!Ports \ sgHist.lost :
       \/ sgPc.kind = "twh" /\ q = sgPc.port
       \/ sgOut[q] = Sega!Idle
       \/ Sega!High(sgOut[q]) = sgSeen[q]

\* Frames are counted by the Mega Drive's loop alone, once a poll is over, for the port it polled.
SegaFrames ==
  /\ ~Sega!Genesis => ~sgStall /\ sgHist.frame = Sega!None /\ \A p \in Sega!Ports : sgType[p] = "TWH"
  /\ SegaPolls => sgHist.frame = Sega!None
  /\ Sega!Genesis /\ SegaPolls /\ ~sgHist.reversed => sgIdx \in sgHist.polled
  /\ Sega!FrameForPolled

SegaInv == SegaStall /\ SegaTypes /\ SegaShown /\ SegaFrames

LEMMA SegaHigh ==
  /\ ~Sega!High(0) /\ Sega!High(1) /\ ~Sega!High(Sega!Nibble)
  /\ \A n \in 0 .. 6 : Sega!High(n + 1) = ~Sega!High(n)
<1>1. ~Sega!High(0) /\ Sega!High(1) /\ ~Sega!High(Sega!Nibble)
  BY DEF Sega!High, Sega!Nibble
<1>2. \A n \in 0 .. 6 : Sega!High(n + 1) = ~Sega!High(n)
  BY DEF Sega!High
<1>3. QED
  BY <1>1, <1>2

LEMMA SegaInit == ASSUME Sega!Init PROVE SegaInv
<1>1. SegaTypes
  <2>1. sgType \in [Sega!Ports -> {"3BTNS", "6BTNS", "TWH"}]
    BY DEF Sega!Init
  <2>2. sgHist \in SegaHist
    BY DEF Sega!Init, SegaHist, Sega!Ports, Sega!None
  <2>3. QED
    BY <2>1, <2>2 DEF Sega!Init, SegaTypes, Sega!Ports, Sega!Idle
<1>2. sgPc.kind = "top" /\ sgStall = FALSE /\ sgHist.frame = Sega!None /\ sgOut = sgCopy
  BY DEF Sega!Init, Sega!Top, Sega!At
<1>3. SegaShown
  BY <1>2 DEF Sega!Init, SegaShown, SegaPolls
<1>4. SegaFrames
  BY <1>2 DEF Sega!Init, SegaFrames, SegaPolls, Sega!Genesis, Sega!FrameForPolled
<1>5. QED
  BY <1>1, <1>3, <1>4, SegaStallInit DEF SegaInv

\* A poll begins: the port polled shows what its level asks for, whatever the other does.
LEMMA SegaBegins ==
  ASSUME SegaTypes, SegaShown, SegaFrames, NEW p \in Sega!Ports, NEW hist \in SegaHist,
         Sega!Start(p, hist), sgSeen' = sgTh, UNCHANGED <<sgSys, sgType, sgTh>>,
         hist.lost = sgHist.lost \cup Sega!Changed, hist.frame = Sega!None, sgPc.kind # "twh"
  PROVE  SegaTypes' /\ SegaShown' /\ SegaFrames'
<1>1. ASSUME NEW q \in Sega!Ports \ hist.lost
      PROVE  sgCopy[q] = Sega!Idle \/ Sega!High(sgCopy[q]) = sgTh[q]
  <2>1. sgSeen[q] = sgTh[q] /\ q \notin sgHist.lost
    BY <1>1 DEF Sega!Changed
  <2>2. sgOut[q] = Sega!Idle \/ Sega!High(sgOut[q]) = sgSeen[q]
    BY <1>1, <2>1 DEF SegaShown
  <2>3. sgOut[q] = sgCopy[q] \/ (sgOut[q] = Sega!Nibble /\ sgCopy[q] = 0)
    BY <1>1 DEF SegaShown
  <2>4. CASE sgOut[q] = sgCopy[q]
    BY <2>1, <2>2, <2>4
  <2>5. CASE sgOut[q] = Sega!Nibble /\ sgCopy[q] = 0
    <3>1. Sega!High(sgOut[q]) = FALSE /\ Sega!High(sgCopy[q]) = FALSE /\ sgOut[q] # Sega!Idle
      BY <2>5, SegaHigh DEF Sega!Nibble, Sega!Idle
    <3>2. sgTh[q] \in BOOLEAN
      BY DEF SegaTypes
    <3>3. QED
      BY <2>1, <2>2, <3>1, <3>2
  <2>6. QED
    BY <2>3, <2>4, <2>5
<1>2. ASSUME NEW shown \in 0 .. 10, NEW n \in 0 .. 10, Sega!Write(p, shown, n)
      PROVE  /\ sgOut' \in [Sega!Ports -> 0 .. 10] /\ sgCopy' \in [Sega!Ports -> 0 .. 10]
             /\ sgOut'[p] = shown /\ sgCopy'[p] = n
             /\ \A q \in Sega!Ports \ {p} : sgOut'[q] = sgCopy[q] /\ sgCopy'[q] = sgCopy[q]
  BY <1>2 DEF Sega!Write, Sega!Copied, SegaTypes
<1>3. sgTh \in [Sega!Ports -> BOOLEAN] /\ sgType \in [Sega!Ports -> {"3BTNS", "6BTNS", "TWH"}]
  BY DEF SegaTypes
<1>4. CASE Sega!StartsHigh(p)
  <2>1. /\ Sega!Write(p, 1, 1) /\ sgStall' = TRUE /\ sgPc' = Sega!At("arm", p, 1) /\ sgIdx' = sgIdx
        /\ sgHist' = [hist EXCEPT !.lost = @ \ {p}, !.reversed = TRUE]
    BY <1>4 DEF Sega!Start
  <2>2. sgTh[p] = TRUE /\ Sega!Genesis
    BY <1>3, <1>4 DEF Sega!StartsHigh
  <2>3. sgPc'.kind = "arm" /\ sgPc'.port = p /\ sgPc'.phase = 1
    BY <2>1 DEF Sega!At
  <2>4. sgHist' \in SegaHist /\ sgHist'.lost = hist.lost \ {p} /\ sgHist'.reversed = TRUE
          /\ sgHist'.frame = Sega!None
    BY <2>1 DEF SegaHist
  <2>5. SegaTypes'
    BY <1>2, <2>1, <2>4 DEF SegaTypes
  <2>6. SegaShown'
    <3>1. \A q \in Sega!Ports : sgOut'[q] = sgCopy'[q]
      BY <1>2, <2>1
    <3>2. \A q \in Sega!Ports \ sgHist'.lost : sgOut'[q] = Sega!Idle \/ Sega!High(sgOut'[q]) = sgSeen'[q]
      <4>1. Sega!High(sgOut'[p]) = sgSeen'[p]
        <5>1. sgOut'[p] = 1 /\ sgSeen'[p] = TRUE
          BY <1>2, <2>1, <2>2
        <5>2. Sega!High(sgOut'[p]) = TRUE
          BY <5>1, SegaHigh DEF Sega!High
        <5>3. QED
          BY <5>1, <5>2
      <4>2. ASSUME NEW q \in Sega!Ports \ sgHist'.lost, q # p
            PROVE  sgOut'[q] = Sega!Idle \/ Sega!High(sgOut'[q]) = sgSeen'[q]
        BY <1>1, <1>2, <2>1, <2>4, <4>2
      <4>3. QED
        BY <4>1, <4>2
    <3>3. QED
      BY <1>2, <2>1, <2>3, <3>1, <3>2 DEF SegaShown, SegaPolls, Sega!High, Sega!Idle, Sega!Nibble
  <2>7. SegaFrames'
    BY <2>2, <2>3, <2>4 DEF SegaFrames, SegaPolls, Sega!Genesis, Sega!FrameForPolled
  <2>8. QED
    BY <2>5, <2>6, <2>7
<1>5. CASE ~Sega!StartsHigh(p)
  <2> DEFINE shown == IF sgType[p] = "TWH" THEN Sega!Nibble ELSE 0
             kind == IF sgType[p] = "TWH" THEN "twh" ELSE "arm"
  <2>1. /\ Sega!Write(p, shown, 0) /\ sgStall' = (sgType[p] # "TWH") /\ sgPc' = Sega!At(kind, p, 0)
        /\ sgIdx' = IF Sega!Genesis THEN p ELSE sgIdx
        /\ sgHist' = [hist EXCEPT !.lost = @ \ {p}, !.polled = @ \cup {p}]
    BY <1>5 DEF Sega!Start, Sega!Index
  <2>2. sgPc'.kind = kind /\ sgPc'.port = p /\ sgPc'.phase = 0
    BY <2>1 DEF Sega!At
  <2>3. sgHist' \in SegaHist /\ sgHist'.lost = hist.lost \ {p} /\ sgHist'.polled = hist.polled \cup {p}
          /\ sgHist'.frame = Sega!None
    BY <2>1 DEF SegaHist
  <2>4. shown \in 0 .. 10 /\ 0 \in 0 .. 10
    BY DEF Sega!Nibble
  <2>5. /\ sgOut' \in [Sega!Ports -> 0 .. 10] /\ sgCopy' \in [Sega!Ports -> 0 .. 10]
        /\ sgOut'[p] = shown /\ sgCopy'[p] = 0
        /\ \A q \in Sega!Ports \ {p} : sgOut'[q] = sgCopy[q] /\ sgCopy'[q] = sgCopy[q]
    BY <1>2, <2>1, <2>4
  <2>6. SegaTypes'
    BY <2>1, <2>3, <2>5 DEF SegaTypes
  <2>7. SegaShown'
    <3>1. \A q \in Sega!Ports : sgOut'[q] = sgCopy'[q] \/ (sgOut'[q] = Sega!Nibble /\ sgCopy'[q] = 0)
      BY <2>5
    <3>2. ~Sega!High(shown)
      BY SegaHigh
    <3>3. kind = "arm" => sgTh[p] = FALSE
      BY <1>3, <1>5 DEF Sega!StartsHigh, SegaFrames
    <3>4. \A q \in Sega!Ports \ sgHist'.lost :
            (kind = "twh" /\ q = p) \/ sgOut'[q] = Sega!Idle \/ Sega!High(sgOut'[q]) = sgSeen'[q]
      <4>1. kind = "twh" \/ Sega!High(sgOut'[p]) = sgSeen'[p]
        <5>1. CASE kind = "arm"
          <6>1. Sega!High(sgOut'[p]) = FALSE
            BY <2>5, <3>2 DEF Sega!High
          <6>2. QED
            BY <3>3, <5>1, <6>1
        <5>2. QED
          BY <5>1
      <4>2. ASSUME NEW q \in Sega!Ports \ sgHist'.lost, q # p
            PROVE  sgOut'[q] = Sega!Idle \/ Sega!High(sgOut'[q]) = sgSeen'[q]
        BY <1>1, <2>3, <2>5, <4>2
      <4>3. QED
        BY <4>1, <4>2
    <3>5. QED
      BY <2>2, <2>5, <3>1, <3>4 DEF SegaShown, SegaPolls, Sega!High, Sega!Idle, Sega!Nibble
  <2>8. SegaFrames'
    <3>1. Sega!Genesis' = Sega!Genesis
      BY DEF Sega!Genesis
    <3>2. ~Sega!Genesis => ~sgStall' /\ \A q \in Sega!Ports : sgType'[q] = "TWH"
      BY <2>1 DEF SegaFrames
    <3>3. Sega!Genesis => sgIdx' \in sgHist'.polled
      BY <2>1, <2>3
    <3>4. QED
      BY <2>3, <3>1, <3>2, <3>3 DEF SegaFrames, Sega!FrameForPolled
  <2>9. QED
    BY <2>6, <2>7, <2>8
<1>6. QED
  BY <1>4, <1>5

\* A poll is over: its frame is counted, or not.
LEMMA SegaEnds ==
  ASSUME SegaTypes, NEW hist \in SegaHist, NEW lock \in BOOLEAN, Sega!NextPoll(hist, lock, sgIdx)
  PROVE  /\ ~SegaPolls' /\ sgPc'.kind = "begin" /\ sgStall' = FALSE /\ sgIdx' = sgIdx
         /\ sgHist' \in SegaHist
         /\ sgHist'.lost = hist.lost /\ sgHist'.polled = hist.polled /\ sgHist'.reversed = hist.reversed
         /\ sgHist'.frame = IF lock THEN sgIdx ELSE Sega!None
<1>1. sgPc' = Sega!At("begin", 0, 0) /\ sgStall' = FALSE /\ sgIdx' = sgIdx
  BY DEF Sega!NextPoll, Sega!Unlocked, Sega!Begin
<1>2. ~SegaPolls' /\ sgPc'.kind = "begin"
  BY <1>1 DEF Sega!At, SegaPolls
<1>3. sgHist' = [hist EXCEPT !.frame = IF lock THEN sgIdx ELSE Sega!None]
  BY DEF Sega!NextPoll, Sega!Frame
<1>4. QED
  BY <1>1, <1>2, <1>3 DEF SegaHist, SegaTypes

LEMMA SegaStep ==
  ASSUME SegaInv, Sega!Next \/ UNCHANGED sgVars
  PROVE  SegaInv'
<1>1. SegaStall'
  BY SegaStallStep DEF SegaInv
<1>2. SegaTypes /\ SegaShown /\ SegaFrames /\ sgPc \in SegaPlaces /\ sgStall \in BOOLEAN
  BY DEF SegaInv, SegaStall
<1>3. sgSys' = sgSys /\ sgType' = sgType /\ Sega!Genesis' = Sega!Genesis
  BY DEF sgVars, Sega!Next, Sega!Toggle, Sega!Arm, Sega!TopEdge, Sega!WaitEdge, Sega!SaturnEdge,
         Sega!Timeout, Sega!HandshakeEnd, Sega!Genesis
<1>4. ASSUME NEW p \in Sega!Ports, NEW n \in 0 .. 10, Sega!Write(p, n, n)
      PROVE  /\ sgOut' \in [Sega!Ports -> 0 .. 10] /\ sgCopy' \in [Sega!Ports -> 0 .. 10]
             /\ sgOut'[p] = n
             /\ \A q \in Sega!Ports : sgOut'[q] = sgCopy'[q]
             /\ \A q \in Sega!Ports \ {p} : sgOut'[q] = sgCopy[q]
  BY <1>2, <1>4 DEF Sega!Write, Sega!Copied, SegaTypes
<1>5. ASSUME NEW q \in Sega!Ports, sgOut[q] = Sega!Idle \/ Sega!High(sgOut[q]) = sgSeen[q]
      PROVE  sgCopy[q] = Sega!Idle \/ Sega!High(sgCopy[q]) = sgSeen[q]
  <2>1. sgOut[q] = sgCopy[q] \/ (sgOut[q] = Sega!Nibble /\ sgCopy[q] = 0)
    BY <1>2 DEF SegaShown
  <2>2. CASE sgOut[q] = Sega!Nibble /\ sgCopy[q] = 0
    <3>1. Sega!High(sgOut[q]) = FALSE /\ Sega!High(sgCopy[q]) = FALSE /\ sgOut[q] # Sega!Idle
      BY <2>2, SegaHigh DEF Sega!High, Sega!Nibble, Sega!Idle
    <3>2. QED
      BY <1>5, <3>1
  <2>3. CASE sgOut[q] = sgCopy[q]
    BY <1>5, <2>3
  <2>4. QED
    BY <2>1, <2>2, <2>3
<1> SUFFICES SegaTypes' /\ SegaShown' /\ SegaFrames'
  BY <1>1 DEF SegaInv
<1>10. CASE UNCHANGED sgVars
  BY <1>2, <1>10 DEF sgVars, SegaTypes, SegaShown, SegaFrames, SegaPolls, Sega!Genesis,
     Sega!FrameForPolled
<1>11. CASE \E p \in Sega!Ports : Sega!Toggle(p)
  <2>1. sgTh' \in [Sega!Ports -> BOOLEAN]
          /\ UNCHANGED <<sgSys, sgType, sgSeen, sgPc, sgOut, sgCopy, sgStall, sgIdx, sgHist>>
    BY <1>2, <1>11 DEF Sega!Toggle, SegaTypes
  <2>2. QED
    BY <1>2, <2>1 DEF SegaTypes, SegaShown, SegaFrames, SegaPolls, Sega!Genesis, Sega!FrameForPolled
<1>12. CASE Sega!Arm
  <2>1. /\ sgPc.kind \in {"begin", "arm"} /\ sgSeen' = sgTh
        /\ sgPc' = [sgPc EXCEPT !.kind = IF @ = "begin" THEN "top" ELSE "wait"]
        /\ sgHist' = [sgHist EXCEPT !.lost = @ \cup Sega!Changed]
        /\ UNCHANGED <<sgTh, sgOut, sgCopy, sgStall, sgIdx>>
    BY <1>12 DEF Sega!Arm
  <2>2. /\ sgPc'.kind = (IF sgPc.kind = "begin" THEN "top" ELSE "wait")
        /\ sgPc'.port = sgPc.port /\ sgPc'.phase = sgPc.phase
    BY <1>2, <2>1 DEF SegaPlaces
  <2>3. /\ sgHist' \in SegaHist /\ sgHist'.lost = sgHist.lost \cup Sega!Changed
        /\ sgHist'.polled = sgHist.polled /\ sgHist'.reversed = sgHist.reversed
        /\ sgHist'.frame = sgHist.frame
    <3>1. Sega!Changed \in SUBSET Sega!Ports
      BY DEF Sega!Changed
    <3>2. QED
      BY <1>2, <2>1, <3>1 DEF SegaTypes, SegaHist
  <2>4. SegaTypes'
    BY <1>2, <1>3, <2>1, <2>3 DEF SegaTypes
  <2>5. SegaPolls' = SegaPolls
    BY <2>1, <2>2 DEF SegaPolls
  <2>6. SegaShown'
    <3>1. \A q \in Sega!Ports \ sgHist'.lost : sgOut'[q] = Sega!Idle \/ Sega!High(sgOut'[q]) = sgSeen'[q]
      <4>1. SUFFICES ASSUME NEW q \in Sega!Ports \ sgHist'.lost
                     PROVE  sgOut'[q] = Sega!Idle \/ Sega!High(sgOut'[q]) = sgSeen'[q]
        OBVIOUS
      <4>2. q \notin sgHist.lost /\ sgSeen'[q] = sgSeen[q]
        BY <2>1, <2>3, <4>1 DEF Sega!Changed
      <4>3. sgOut[q] = Sega!Idle \/ Sega!High(sgOut[q]) = sgSeen[q]
        BY <1>2, <2>1, <4>1, <4>2 DEF SegaShown
      <4>4. QED
        BY <2>1, <4>2, <4>3
    <3>2. QED
      BY <1>2, <2>1, <2>2, <3>1 DEF SegaShown, SegaPolls, Sega!High
  <2>7. SegaFrames'
    BY <1>2, <1>3, <2>1, <2>3, <2>5 DEF SegaFrames, Sega!FrameForPolled
  <2>8. QED
    BY <2>4, <2>6, <2>7
<1>13. CASE Sega!TopEdge
  <2> DEFINE hist == [lost |-> sgHist.lost \cup Sega!Changed, polled |-> {}, reversed |-> FALSE,
                      frame |-> Sega!None]
             p == IF 0 \in Sega!Changed THEN 0 ELSE 1
  <2>1. Sega!Start(p, hist) /\ sgSeen' = sgTh /\ UNCHANGED <<sgSys, sgType, sgTh>>
    BY <1>13 DEF Sega!TopEdge
  <2>2. hist \in SegaHist
    BY <1>2 DEF SegaTypes, SegaHist, Sega!Changed
  <2>3. p \in Sega!Ports /\ hist.lost = sgHist.lost \cup Sega!Changed /\ hist.frame = Sega!None
    BY DEF Sega!Ports
  <2> HIDE DEF hist, p
  <2>4. sgPc.kind # "twh"
    BY <1>13 DEF Sega!TopEdge
  <2>5. QED
    BY <1>2, <2>1, <2>2, <2>3, <2>4, SegaBegins
<1>14. CASE Sega!WaitEdge
  <2>1. PICK p \in Sega!Ports : p = sgPc.port
    BY <1>2 DEF SegaPlaces
  <2>2. /\ Sega!Genesis /\ sgPc.kind = "wait" /\ Sega!Changed # {} /\ sgSeen' = sgTh /\ sgTh' = sgTh
        /\ sgHist.frame = Sega!None
    BY <1>2, <1>14 DEF Sega!WaitEdge, SegaFrames, SegaPolls
  <2>3. CASE 1 - p \in Sega!Changed
    <3> DEFINE hist == [sgHist EXCEPT !.lost = @ \cup Sega!Changed]
    <3>1. Sega!Start(1 - p, hist) /\ UNCHANGED <<sgSys, sgType, sgTh>>
      BY <1>14, <2>1, <2>3 DEF Sega!WaitEdge
    <3>2. hist \in SegaHist /\ hist.lost = sgHist.lost \cup Sega!Changed /\ hist.frame = Sega!None
      <4>1. Sega!Changed \in SUBSET Sega!Ports
        BY DEF Sega!Changed
      <4>2. QED
        BY <1>2, <2>2, <4>1 DEF SegaTypes, SegaHist
    <3>3. 1 - p \in Sega!Ports
      BY DEF Sega!Ports
    <3> HIDE DEF hist
    <3>4. QED
      BY <1>2, <2>2, <3>1, <3>2, <3>3, SegaBegins
  <2>4. CASE 1 - p \notin Sega!Changed
    <3> DEFINE n == sgPc.phase + 1
    <3>1. Sega!Write(p, n, n)
      BY <1>14, <2>1, <2>4 DEF Sega!WaitEdge
    <3>2. n \in 0 .. 10 /\ sgPc.phase \in 0 .. 6
      BY <1>2, <2>2 DEF SegaShown, SegaPolls
    <3>3. /\ sgOut' \in [Sega!Ports -> 0 .. 10] /\ sgCopy' \in [Sega!Ports -> 0 .. 10]
          /\ sgOut'[p] = n
          /\ \A q \in Sega!Ports : sgOut'[q] = sgCopy'[q]
          /\ \A q \in Sega!Ports \ {p} : sgOut'[q] = sgCopy[q]
      BY <1>4, <3>1, <3>2
    <3>4. p \in Sega!Changed /\ \A q \in Sega!Ports \ {p} : q \notin Sega!Changed
      BY <2>1, <2>2, <2>4 DEF Sega!Changed, Sega!Ports
    <3>5. ASSUME NEW q \in Sega!Ports \ sgHist.lost
          PROVE  sgOut'[q] = Sega!Idle \/ Sega!High(sgOut'[q]) = sgSeen'[q]
      <4>1. sgOut[q] = Sega!Idle \/ Sega!High(sgOut[q]) = sgSeen[q]
        BY <1>2, <2>2, <3>5 DEF SegaShown
      <4>2. CASE q = p
        <5>1. sgOut[p] = sgPc.phase \/ (sgOut[p] = Sega!Nibble /\ sgPc.phase = 0)
          BY <1>2, <2>1, <2>2 DEF SegaShown
        <5>2. Sega!High(sgOut[p]) = Sega!High(sgPc.phase) /\ sgOut[p] # Sega!Idle
          <6>1. CASE sgOut[p] = sgPc.phase
            BY <3>2, <6>1 DEF Sega!Idle
          <6>2. CASE sgOut[p] = Sega!Nibble /\ sgPc.phase = 0
            BY <6>2, SegaHigh DEF Sega!High, Sega!Idle, Sega!Nibble
          <6>3. QED
            BY <5>1, <6>1, <6>2
        <5>3. sgTh[p] # sgSeen[p] /\ sgTh[p] \in BOOLEAN /\ sgSeen[p] \in BOOLEAN
          BY <1>2, <3>4 DEF Sega!Changed, SegaTypes
        <5>4. Sega!High(n) = ~Sega!High(sgPc.phase)
          BY <3>2, SegaHigh
        <5>5. Sega!High(sgPc.phase) = sgSeen[p]
          BY <4>1, <4>2, <5>2
        <5>6. Sega!High(sgOut'[q]) = Sega!High(n) /\ sgSeen'[q] = sgTh[p]
          BY <2>2, <3>3, <4>2
        <5> HIDE DEF n
        <5>7. QED
          BY <5>3, <5>4, <5>5, <5>6
      <4>3. CASE q # p
        <5>1. sgOut'[q] = sgCopy[q] /\ sgSeen'[q] = sgSeen[q]
          BY <2>2, <3>3, <3>4, <3>5, <4>3 DEF Sega!Changed
        <5>2. QED
          BY <1>5, <3>5, <4>1, <5>1
      <4>4. QED
        BY <4>2, <4>3
    <3>6. CASE n < Sega!Last(p)
      <4>1. sgPc' = Sega!At("arm", p, n) /\ sgStall' = TRUE /\ UNCHANGED <<sgIdx, sgHist>>
        BY <1>14, <2>1, <2>4, <3>6 DEF Sega!WaitEdge
      <4>2. sgPc'.kind = "arm" /\ sgPc'.port = p /\ sgPc'.phase = n
        BY <4>1 DEF Sega!At
      <4>3. n \in 0 .. 6
        BY <3>2, <3>6 DEF Sega!Last
      <4>4. SegaTypes'
        BY <1>2, <1>3, <2>2, <3>3, <4>1 DEF SegaTypes
      <4> HIDE DEF n
      <4>5. SegaShown'
        BY <3>3, <3>5, <4>1, <4>2, <4>3 DEF SegaShown, SegaPolls, Sega!High
      <4>6. SegaFrames'
        BY <1>2, <1>3, <2>2, <4>1, <4>2 DEF SegaFrames, SegaPolls, Sega!FrameForPolled
      <4>7. QED
        BY <4>4, <4>5, <4>6
    <3>7. CASE ~(n < Sega!Last(p))
      <4>1. Sega!NextPoll(sgHist, TRUE, sgIdx)
        BY <1>14, <2>1, <2>4, <3>7 DEF Sega!WaitEdge
      <4>2. /\ ~SegaPolls' /\ sgPc'.kind = "begin" /\ sgStall' = FALSE /\ sgIdx' = sgIdx
            /\ sgHist' \in SegaHist
            /\ sgHist'.lost = sgHist.lost /\ sgHist'.polled = sgHist.polled
            /\ sgHist'.reversed = sgHist.reversed /\ sgHist'.frame = sgIdx
        BY <1>2, <4>1, SegaEnds DEF SegaTypes
      <4>4. SegaTypes'
        BY <1>2, <1>3, <2>2, <3>3, <4>2 DEF SegaTypes
      <4>5. SegaShown'
        BY <3>3, <3>5, <4>2 DEF SegaShown, SegaPolls, Sega!High
      <4>6. SegaFrames'
        <5>1. ~sgHist.reversed => sgIdx \in sgHist.polled
          BY <1>2, <2>2 DEF SegaFrames, SegaPolls
        <5>2. QED
          BY <1>3, <2>2, <4>2, <5>1 DEF SegaFrames, Sega!FrameForPolled
      <4>7. QED
        BY <4>4, <4>5, <4>6
    <3>8. QED
      BY <3>6, <3>7
  <2>5. QED
    BY <2>3, <2>4
<1>15. CASE Sega!SaturnEdge
  <2>1. PICK p \in Sega!Ports : p = sgPc.port
    BY <1>2 DEF SegaPlaces
  <2> DEFINE hist == [sgHist EXCEPT !.lost = @ \cup (Sega!Changed \ {p}) \cup (IF sgTh[p] THEN {} ELSE {p})]
  <2>2. /\ ~Sega!Genesis /\ sgPc.kind = "wait" /\ sgSeen' = sgTh /\ sgTh' = sgTh
        /\ Sega!Write(p, 1, 1) /\ Sega!NextPoll(hist, FALSE, sgIdx)
    BY <1>15, <2>1 DEF Sega!SaturnEdge
  <2>3. hist \in SegaHist /\ hist.lost = sgHist.lost \cup (Sega!Changed \ {p}) \cup (IF sgTh[p] THEN {} ELSE {p})
    <3>1. (Sega!Changed \ {p}) \cup (IF sgTh[p] THEN {} ELSE {p}) \in SUBSET Sega!Ports
      BY DEF Sega!Changed
    <3>2. QED
      BY <1>2, <3>1 DEF SegaTypes, SegaHist
  <2> HIDE DEF hist
  <2>4. /\ ~SegaPolls' /\ sgPc'.kind = "begin" /\ sgStall' = FALSE /\ sgIdx' = sgIdx
        /\ sgHist' \in SegaHist /\ sgHist'.lost = hist.lost /\ sgHist'.frame = Sega!None
    BY <1>2, <2>2, <2>3, SegaEnds
  <2>5. /\ sgOut' \in [Sega!Ports -> 0 .. 10] /\ sgCopy' \in [Sega!Ports -> 0 .. 10]
        /\ sgOut'[p] = 1
        /\ \A q \in Sega!Ports : sgOut'[q] = sgCopy'[q]
        /\ \A q \in Sega!Ports \ {p} : sgOut'[q] = sgCopy[q]
    BY <1>4, <2>2
  <2>6. ASSUME NEW q \in Sega!Ports \ sgHist'.lost
        PROVE  sgOut'[q] = Sega!Idle \/ Sega!High(sgOut'[q]) = sgSeen'[q]
    <3>1. CASE q = p
      <4>1. sgTh[p] = TRUE
        BY <1>2, <2>3, <2>4, <2>6, <3>1 DEF SegaTypes
      <4>2. Sega!High(sgOut'[q]) = TRUE
        BY <2>5, <3>1, SegaHigh DEF Sega!High
      <4>3. QED
        BY <2>2, <3>1, <4>1, <4>2
    <3>2. CASE q # p
      <4>1. q \notin sgHist.lost /\ sgSeen'[q] = sgSeen[q]
        BY <2>2, <2>3, <2>4, <2>6, <3>2 DEF Sega!Changed
      <4>2. sgOut[q] = Sega!Idle \/ Sega!High(sgOut[q]) = sgSeen[q]
        BY <1>2, <2>2, <2>6, <4>1 DEF SegaShown
      <4>3. QED
        BY <1>5, <2>5, <2>6, <3>2, <4>1, <4>2
    <3>3. QED
      BY <3>1, <3>2
  <2>7. SegaTypes'
    BY <1>2, <1>3, <2>2, <2>4, <2>5 DEF SegaTypes
  <2>8. SegaShown'
    BY <2>4, <2>5, <2>6 DEF SegaShown, SegaPolls, Sega!High
  <2>9. SegaFrames'
    BY <1>2, <1>3, <2>2, <2>4 DEF SegaFrames, Sega!FrameForPolled
  <2>10. QED
    BY <2>7, <2>8, <2>9
<1>16. CASE Sega!Timeout
  <2>1. /\ sgPc.kind = "wait" /\ Sega!NextPoll(sgHist, sgStall, sgIdx)
        /\ UNCHANGED <<sgTh, sgSeen, sgOut, sgCopy>>
    BY <1>16 DEF Sega!Timeout
  <2>2. /\ ~SegaPolls' /\ sgPc'.kind = "begin" /\ sgStall' = FALSE /\ sgIdx' = sgIdx
        /\ sgHist' \in SegaHist
        /\ sgHist'.lost = sgHist.lost /\ sgHist'.polled = sgHist.polled
        /\ sgHist'.reversed = sgHist.reversed
        /\ sgHist'.frame = IF sgStall THEN sgIdx ELSE Sega!None
    BY <1>2, <2>1, SegaEnds DEF SegaTypes
  <2>3. SegaTypes'
    BY <1>2, <1>3, <2>1, <2>2 DEF SegaTypes
  <2>4. SegaShown'
    BY <1>2, <2>1, <2>2 DEF SegaShown, SegaPolls, Sega!High
  <2>5. SegaFrames'
    <3>1. sgStall => Sega!Genesis /\ (~sgHist.reversed => sgIdx \in sgHist.polled)
      BY <1>2, <2>1 DEF SegaFrames, SegaPolls
    <3>2. QED
      BY <1>2, <1>3, <2>2, <3>1 DEF SegaFrames, Sega!FrameForPolled
  <2>6. QED
    BY <2>3, <2>4, <2>5
<1>17. CASE Sega!HandshakeEnd
  <2>1. PICK p \in Sega!Ports : p = sgPc.port
    BY <1>2 DEF SegaPlaces
  <2>2. /\ sgPc.kind = "twh" /\ sgTh' = sgTh
        /\ sgSeen' = [sgSeen EXCEPT ![p] = sgTh[p]]
        /\ sgOut[p] = Sega!Nibble
    BY <1>2, <1>17, <2>1 DEF Sega!HandshakeEnd, SegaShown
  <2>3. /\ sgSeen' \in [Sega!Ports -> BOOLEAN] /\ sgSeen'[p] = sgTh[p] /\ sgTh[p] \in BOOLEAN
        /\ \A q \in Sega!Ports \ {p} : sgSeen'[q] = sgSeen[q]
    BY <1>2, <2>2 DEF SegaTypes
  <2>4. ASSUME NEW q \in Sega!Ports \ sgHist.lost, q # p
        PROVE  sgOut[q] = Sega!Idle \/ Sega!High(sgOut[q]) = sgSeen[q]
    BY <1>2, <2>1, <2>4 DEF SegaShown
  <2>5. CASE sgTh[p]
    <3>1. Sega!Write(p, 1, 1) /\ Sega!NextPoll(sgHist, FALSE, sgIdx)
      BY <1>17, <2>1, <2>5 DEF Sega!HandshakeEnd
    <3>2. /\ ~SegaPolls' /\ sgPc'.kind = "begin" /\ sgStall' = FALSE /\ sgIdx' = sgIdx
          /\ sgHist' \in SegaHist /\ sgHist'.lost = sgHist.lost /\ sgHist'.frame = Sega!None
      BY <1>2, <3>1, SegaEnds DEF SegaTypes
    <3>3. /\ sgOut' \in [Sega!Ports -> 0 .. 10] /\ sgCopy' \in [Sega!Ports -> 0 .. 10]
          /\ sgOut'[p] = 1
          /\ \A q \in Sega!Ports : sgOut'[q] = sgCopy'[q]
          /\ \A q \in Sega!Ports \ {p} : sgOut'[q] = sgCopy[q]
      BY <1>4, <3>1
    <3>4. Sega!High(sgOut'[p]) = TRUE
      BY <3>3, SegaHigh DEF Sega!High
    <3>5. SegaTypes'
      BY <1>2, <1>3, <2>2, <2>3, <3>2, <3>3 DEF SegaTypes
    <3>6. SegaShown'
      <4>1. \A q \in Sega!Ports \ sgHist.lost : sgOut'[q] = Sega!Idle \/ Sega!High(sgOut'[q]) = sgSeen'[q]
        <5>1. Sega!High(sgOut'[p]) = sgSeen'[p]
          BY <2>3, <2>5, <3>4
        <5>2. ASSUME NEW q \in Sega!Ports \ sgHist.lost, q # p
              PROVE  sgOut'[q] = Sega!Idle \/ Sega!High(sgOut'[q]) = sgSeen'[q]
          BY <1>5, <2>3, <2>4, <3>3, <5>2
        <5>3. QED
          BY <5>1, <5>2
      <4>2. QED
        BY <3>2, <3>3, <4>1 DEF SegaShown, SegaPolls, Sega!High
    <3>7. SegaFrames'
      BY <1>2, <1>3, <3>2 DEF SegaFrames, Sega!FrameForPolled
    <3>8. QED
      BY <3>5, <3>6, <3>7
  <2>6. CASE ~sgTh[p]
    <3>1. sgPc' = Sega!At("arm", p, 0) /\ UNCHANGED <<sgOut, sgCopy, sgStall, sgIdx, sgHist>>
      BY <1>17, <2>1, <2>6 DEF Sega!HandshakeEnd
    <3>2. sgPc'.kind = "arm" /\ sgPc'.port = p /\ sgPc'.phase = 0
      BY <3>1 DEF Sega!At
    <3>3. SegaTypes'
      BY <1>2, <1>3, <2>2, <2>3, <3>1 DEF SegaTypes
    <3>4. SegaShown'
      <4>1. \A q \in Sega!Ports \ sgHist.lost : sgOut[q] = Sega!Idle \/ Sega!High(sgOut[q]) = sgSeen'[q]
        <5>1. Sega!High(sgOut[p]) = FALSE
          BY <2>2, SegaHigh DEF Sega!High
        <5>2. Sega!High(sgOut[p]) = sgSeen'[p]
          BY <2>3, <2>6, <5>1
        <5>3. \A q \in Sega!Ports \ sgHist.lost : q # p =>
                sgOut[q] = Sega!Idle \/ Sega!High(sgOut[q]) = sgSeen'[q]
          BY <2>3, <2>4
        <5>4. QED
          BY <5>2, <5>3
      <4>2. QED
        BY <1>2, <2>2, <3>1, <3>2, <4>1 DEF SegaShown, SegaPolls, Sega!High
    <3>5. SegaFrames'
      BY <1>2, <1>3, <2>2, <3>1, <3>2 DEF SegaFrames, SegaPolls, Sega!FrameForPolled
    <3>6. QED
      BY <3>3, <3>4, <3>5
  <2>7. QED
    BY <2>5, <2>6
<1>18. QED
  BY <1>10, <1>11, <1>12, <1>13, <1>14, <1>15, <1>16, <1>17 DEF Sega!Next

LEMMA SegaKeeps == SegaInv => Sega!StallOnlyInPoll /\ Sega!InStep /\ Sega!FrameForPolled
BY DEF SegaInv, SegaStall, SegaShown, SegaFrames, Sega!InStep

LEMMA NpSteps == [Next]_vars /\ driver = "npiso_io" => Npiso!Next \/ UNCHANGED npVars
BY DEF Next, vars

NpLines == {0, 1, Npiso!L, Npiso!S}
NpKeys == {Npiso!Blank} \cup (Int \X {0, 1})
NpHist == [clocks : [Npiso!Ports -> Int], slip : SUBSET Npiso!Ports, speed : BOOLEAN, held : Int, key : NpKeys]
NpTypes ==
  /\ npPend \in SUBSET NpLines /\ npIsr \in SUBSET npPend
  /\ npLatch \in BOOLEAN /\ npSel \in BOOLEAN
  /\ npCnt \in [Npiso!Ports -> Int]
  /\ npKb = [column |-> npKb.column, nibble |-> npKb.nibble] /\ npKb.column \in Int
  /\ npHist = [clocks |-> npHist.clocks, slip |-> npHist.slip, speed |-> npHist.speed,
               held |-> npHist.held, key |-> npHist.key]
  /\ npHist.clocks \in [Npiso!Ports -> Int] /\ npHist.slip \in SUBSET Npiso!Ports /\ npHist.key \in NpKeys

\* Bit n on the lines of port p.
NpShown(p, n) == IF npKind = "kb" THEN <<Npiso!Bytes(p + 1, 1, n), Npiso!Blank>> ELSE Npiso!Shown(p, n)

\* Where the clocks of a port that did not slip are: before a latch is served, at most the one that
\* is pending has come since; once it was, the counter is one ahead of the clocks, but for the
\* one that is pending.
NpCounted(p) ==
  LET due == IF p \in npPend THEN 1 ELSE 0 IN
  IF Npiso!L \in npPend
  THEN npHist.clocks[p] = IF p \in npPend /\ (Npiso!L \in npIsr \/ p \notin npIsr) THEN 1 ELSE 0
  ELSE /\ npCnt[p] = npHist.clocks[p] + 1 - due
       /\ p \notin npPend => npOut[p] = NpShown(p, npHist.clocks[p])

\* A clock of such a port that is still to be served came with the latch low, and found it so.
NpLow(p) == p \in npPend /\ ~(Npiso!L \in npPend \ npIsr /\ p \in npIsr) => ~npLatch

NpClocked == \A p \in Npiso!Ports \ npHist.slip : NpCounted(p) /\ NpLow(p)

\* The keyboard's column is the one its place asked for leads to, once the edge pending is served.
NpColumn ==
  LET key == npHist.key IN
  npKind = "kb" /\ key # Npiso!Blank =>
    /\ key[2] = 1 => npSel
    /\ Npiso!L \in npPend => key = <<0, 0>> /\ Npiso!S \notin npPend
    /\ Npiso!L \notin npPend /\ Npiso!S \in npPend =>
         npKb.column = key[1] /\ key[2] = IF npSel THEN 1 ELSE 0
    /\ Npiso!L \notin npPend /\ Npiso!S \notin npPend =>
         npKb.column = key[1] + key[2] /\ npKb.nibble = key

NpInv == NpTypes /\ NpClocked /\ NpColumn

LEMMA NpInit == ASSUME Npiso!Init PROVE NpInv
<1>1. /\ npPend = {} /\ npIsr = {} /\ npLatch = FALSE /\ npSel = TRUE
      /\ npCnt = [p \in Npiso!Ports |-> 0]
      /\ npKb = [column |-> 0, nibble |-> <<0, 0>>]
  BY DEF Npiso!Init
<1>2. npHist = [clocks |-> [p \in Npiso!Ports |-> 0], slip |-> Npiso!Ports, speed |-> FALSE, held |-> 0,
                key |-> <<0, 0>>]
  BY DEF Npiso!Init
<1>3. NpTypes
  <2>1. npHist.key = <<0, 0>> /\ npHist.key \in NpKeys
    BY <1>2 DEF NpKeys
  <2>2. npKb = [column |-> npKb.column, nibble |-> npKb.nibble] /\ npKb.column \in Int
    BY <1>1
  <2>3. /\ npHist = [clocks |-> npHist.clocks, slip |-> npHist.slip, speed |-> npHist.speed,
                      held |-> npHist.held, key |-> npHist.key]
        /\ npHist.clocks \in [Npiso!Ports -> Int] /\ npHist.slip \in SUBSET Npiso!Ports
    BY <1>2
  <2>4. npCnt \in [Npiso!Ports -> Int]
    BY <1>1
  <2>5. QED
    BY <1>1, <2>1, <2>2, <2>3, <2>4 DEF NpTypes
<1>4. NpClocked
  BY <1>2 DEF NpClocked
<1>5. NpColumn
  <2>1. npHist.key = <<0, 0>> /\ npKb.column = 0 /\ npKb.nibble = <<0, 0>>
    BY <1>1, <1>2
  <2>2. QED
    BY <1>1, <2>1 DEF NpColumn
<1>6. QED
  BY <1>3, <1>4, <1>5 DEF NpInv

\* What a bit shows changes with the multitap's mode alone.
LEMMA NpShownKept ==
  ASSUME UNCHANGED <<npKind, npType, npTap>>
  PROVE  \A p, n : NpShown(p, n)' = NpShown(p, n)
BY DEF NpShown, Npiso!Shown, Npiso!PadShown

\* A routine is done: each port it served has counted, and shows its bit.
LEMMA NpServed ==
  ASSUME NpTypes, Npiso!Leave
  PROVE  /\ npCnt' \in [Npiso!Ports -> Int]
         /\ npHist'.clocks = npHist.clocks /\ npHist'.slip = npHist.slip /\ npHist'.key = npHist.key
         /\ npHist' = [clocks |-> npHist'.clocks, slip |-> npHist'.slip, speed |-> npHist'.speed,
                       held |-> npHist'.held, key |-> npHist'.key]
         /\ \A p \in Npiso!Ports :
              LET base == IF Npiso!L \in npIsr THEN 1 ELSE npCnt[p] IN
              /\ p \in npIsr /\ ~npLatch =>
                   npCnt'[p] = base + 1 /\ npOut'[p] = NpShown(p, base)
              /\ p \notin npIsr =>
                   /\ npCnt'[p] = base
                   /\ npOut'[p] = IF Npiso!L \in npIsr THEN NpShown(p, 0) ELSE npOut[p]
<1>1. npCnt \in [Npiso!Ports -> Int]
  BY DEF NpTypes
<1>2. CASE npKind = "kb"
  <2>1. /\ npCnt' = [p \in Npiso!Ports |->
              (IF Npiso!L \in npIsr THEN 1 ELSE npCnt[p]) + (IF p \in npIsr THEN 1 ELSE 0)]
        /\ npOut' = [p \in Npiso!Ports |-> IF npIsr \cap {p, Npiso!L} # {}
              THEN <<Npiso!Bytes(p + 1, 1, npCnt'[p] - 1), Npiso!Blank>> ELSE npOut[p]]
        /\ npHist' = npHist
    BY <1>2 DEF Npiso!Leave, Npiso!KbLeave
  <2>2. npCnt' \in [Npiso!Ports -> Int]
    BY <1>1, <2>1
  <2>3. ASSUME NEW p \in Npiso!Ports
        PROVE  LET base == IF Npiso!L \in npIsr THEN 1 ELSE npCnt[p] IN
              /\ p \in npIsr => npCnt'[p] = base + 1 /\ npOut'[p] = NpShown(p, base)
              /\ p \notin npIsr =>
                   /\ npCnt'[p] = base
                   /\ npOut'[p] = IF Npiso!L \in npIsr THEN NpShown(p, 0) ELSE npOut[p]
    <3> DEFINE base == IF Npiso!L \in npIsr THEN 1 ELSE npCnt[p]
    <3>1. base \in Int
      BY <1>1
    <3>2. npCnt'[p] = base + (IF p \in npIsr THEN 1 ELSE 0)
      BY <2>1
    <3>3. npOut'[p] = IF npIsr \cap {p, Npiso!L} # {}
              THEN <<Npiso!Bytes(p + 1, 1, npCnt'[p] - 1), Npiso!Blank>> ELSE npOut[p]
      BY <2>1
    <3>4. p \in npIsr => npCnt'[p] = base + 1 /\ npCnt'[p] - 1 = base
      BY <3>1, <3>2
    <3>5. p \notin npIsr => npCnt'[p] = base
      BY <3>1, <3>2
    <3>6. Npiso!L \in npIsr => base = 1
      OBVIOUS
    <3>7. p \in npIsr => npOut'[p] = NpShown(p, base)
      BY <1>2, <3>3, <3>4 DEF NpShown
    <3>8. p \notin npIsr => npOut'[p] = IF Npiso!L \in npIsr THEN NpShown(p, 0) ELSE npOut[p]
      <4>1. CASE Npiso!L \in npIsr /\ p \notin npIsr
        <5>1. npCnt'[p] - 1 = 0
          BY <3>5, <3>6, <4>1
        <5>2. QED
          BY <1>2, <3>3, <4>1, <5>1 DEF NpShown
      <4>2. CASE Npiso!L \notin npIsr /\ p \notin npIsr
        BY <3>3, <4>2
      <4>3. QED
        BY <4>1, <4>2
    <3>9. QED
      BY <3>4, <3>5, <3>7, <3>8
  <2>4. QED
    BY <2>1, <2>2, <2>3 DEF NpTypes
<1>3. CASE npKind # "kb"
  <2>1. Npiso!PadsLeave
    BY <1>3 DEF Npiso!Leave
  <2>2. ASSUME NEW p \in Npiso!Ports
        PROVE  LET base == IF Npiso!L \in npIsr THEN 1 ELSE npCnt[p] IN
              /\ npCnt'[p] = IF p \in npIsr /\ (npKind = "tap5" => ~npLatch) THEN base + 1 ELSE base
              /\ npOut'[p] = IF p \in npIsr /\ (npKind = "tap5" => ~npLatch) /\ ~(npType[p] = "mouse" /\ npLatch)
                             THEN Npiso!Shown(p, base)
                             ELSE IF Npiso!L \in npIsr THEN Npiso!Shown(p, 0) ELSE npOut[p]
    BY <2>1 DEF Npiso!PadsLeave
  <2>3. npCnt' \in [Npiso!Ports -> Int]
    BY <1>1, <2>1 DEF Npiso!PadsLeave
  <2>4. npHist' = [npHist EXCEPT !.speed = @ /\ npMouse'.speed = npMouse.speed]
    BY <2>1 DEF Npiso!PadsLeave
  <2>5. /\ npHist'.clocks = npHist.clocks /\ npHist'.slip = npHist.slip /\ npHist'.key = npHist.key
        /\ npHist' = [clocks |-> npHist'.clocks, slip |-> npHist'.slip, speed |-> npHist'.speed,
                       held |-> npHist'.held, key |-> npHist'.key]
    BY <2>4 DEF NpTypes
  <2>6. ASSUME NEW p \in Npiso!Ports
        PROVE  LET base == IF Npiso!L \in npIsr THEN 1 ELSE npCnt[p] IN
              /\ p \in npIsr /\ ~npLatch =>
                   npCnt'[p] = base + 1 /\ npOut'[p] = NpShown(p, base)
              /\ p \notin npIsr =>
                   /\ npCnt'[p] = base
                   /\ npOut'[p] = IF Npiso!L \in npIsr THEN NpShown(p, 0) ELSE npOut[p]
    BY <1>3, <2>2 DEF NpShown
  <2>7. QED
    BY <2>3, <2>5, <2>6
<1>4. QED
  BY <1>2, <1>3

LEMMA NpLatchRise == ASSUME NpInv, Npiso!LatchRise PROVE NpInv'
<1>1. NpTypes /\ NpClocked /\ NpColumn
  BY DEF NpInv
<1>2. /\ ~npLatch /\ npLatch' = TRUE /\ npPend' = npPend \cup {Npiso!L}
      /\ UNCHANGED <<npKind, npType, npSel, npIsr, npCnt, npOut, npMouse, npTap, npKb>>
  BY DEF Npiso!LatchRise
<1>3. /\ npHist'.clocks = [p \in Npiso!Ports |-> 0]
      /\ npHist'.slip = IF Npiso!L \in npPend THEN Npiso!Ports ELSE (npPend \ npIsr) \cap Npiso!Ports
      /\ npHist'.key = IF {Npiso!L, Npiso!S} \cap npPend = {} THEN <<0, 0>> ELSE Npiso!Blank
      /\ npHist' = [clocks |-> npHist'.clocks, slip |-> npHist'.slip, speed |-> npHist'.speed,
                    held |-> npHist'.held, key |-> npHist'.key]
  BY <1>1 DEF Npiso!LatchRise, NpTypes
<1>4. NpTypes'
  <2>1. npHist'.key \in NpKeys
    BY <1>3 DEF NpKeys
  <2>2. npHist'.slip \in SUBSET Npiso!Ports /\ npHist'.clocks \in [Npiso!Ports -> Int]
    BY <1>3
  <2>3. npPend' \in SUBSET NpLines /\ npIsr' \in SUBSET npPend'
    BY <1>1, <1>2 DEF NpTypes, NpLines
  <2>4. QED
    BY <1>1, <1>2, <1>3, <2>1, <2>2, <2>3 DEF NpTypes
<1>5. NpClocked'
  <2>1. SUFFICES ASSUME NEW p \in Npiso!Ports \ npHist'.slip
                 PROVE  NpCounted(p)' /\ NpLow(p)'
    BY DEF NpClocked
  <2>2. Npiso!L \notin npPend /\ (p \in npPend => p \in npIsr) /\ p # Npiso!L
    BY <1>3, <2>1 DEF Npiso!L, Npiso!Ports
  <2>3. Npiso!L \in npPend' /\ Npiso!L \notin npIsr' /\ npHist'.clocks[p] = 0 /\ (p \in npPend' => p \in npIsr')
    BY <1>1, <1>2, <1>3, <2>2 DEF NpTypes
  <2>4. QED
    BY <2>3 DEF NpCounted, NpLow
<1>6. NpColumn'
  <2>1. npHist'.key # Npiso!Blank => npHist'.key = <<0, 0>> /\ Npiso!S \notin npPend' /\ Npiso!L \in npPend'
    BY <1>2, <1>3 DEF Npiso!L, Npiso!S
  <2>2. QED
    BY <2>1 DEF NpColumn
<1>7. QED
  BY <1>4, <1>5, <1>6 DEF NpInv

LEMMA NpClock == ASSUME NpInv, NEW p \in Npiso!Ports, Npiso!Clock(p) PROVE NpInv'
<1>1. NpTypes /\ NpClocked /\ NpColumn
  BY DEF NpInv
<1>2. /\ npPend' = npPend \cup {p}
      /\ UNCHANGED <<npKind, npType, npLatch, npSel, npIsr, npCnt, npOut, npMouse, npTap, npKb>>
  BY DEF Npiso!Clock
<1>3. /\ npHist'.clocks = [npHist.clocks EXCEPT ![p] = @ + 1]
      /\ npHist'.slip = IF p \in npPend \/ npLatch THEN npHist.slip \cup {p} ELSE npHist.slip
      /\ npHist'.key = npHist.key
      /\ npHist' = [clocks |-> npHist'.clocks, slip |-> npHist'.slip, speed |-> npHist'.speed,
                    held |-> npHist'.held, key |-> npHist'.key]
  BY <1>1 DEF Npiso!Clock, NpTypes
<1>4. NpTypes'
  <2>1. npHist'.slip \in SUBSET Npiso!Ports /\ npHist'.clocks \in [Npiso!Ports -> Int]
    BY <1>1, <1>3 DEF NpTypes
  <2>2. npPend' \in SUBSET NpLines /\ npIsr' \in SUBSET npPend'
    BY <1>1, <1>2 DEF NpTypes, NpLines, Npiso!Ports
  <2>3. QED
    BY <1>1, <1>2, <1>3, <2>1, <2>2 DEF NpTypes
<1>5. \A n : NpShown(p, n)' = NpShown(p, n) /\ \A q : NpShown(q, n)' = NpShown(q, n)
  BY <1>2, NpShownKept
<1>6. p # Npiso!L /\ p # Npiso!S
  BY DEF Npiso!L, Npiso!S, Npiso!Ports
<1>7. NpClocked'
  <2>1. SUFFICES ASSUME NEW q \in Npiso!Ports \ npHist'.slip
                 PROVE  NpCounted(q)' /\ NpLow(q)'
    BY DEF NpClocked
  <2>2. q \notin npHist.slip /\ NpCounted(q) /\ NpLow(q)
    BY <1>1, <1>3, <2>1 DEF NpClocked
  <2>3. npHist.clocks[q] \in Int /\ npCnt[q] \in Int
    BY <1>1, <2>1 DEF NpTypes
  <2>4. CASE q = p
    <3>1. p \notin npPend /\ ~npLatch /\ p \notin npIsr
      BY <1>1, <1>3, <2>1, <2>4 DEF NpTypes
    <3>2. npHist'.clocks[q] = npHist.clocks[q] + 1 /\ q \in npPend'
      BY <1>1, <1>2, <1>3, <2>4 DEF NpTypes
    <3>3. NpCounted(q)'
      BY <1>2, <1>6, <2>2, <2>3, <2>4, <3>1, <3>2 DEF NpCounted
    <3>4. QED
      BY <1>2, <3>1, <3>3 DEF NpLow
  <2>5. CASE q # p
    <3>1. npHist'.clocks[q] = npHist.clocks[q] /\ (q \in npPend' <=> q \in npPend)
            /\ (Npiso!L \in npPend' <=> Npiso!L \in npPend)
      BY <1>1, <1>2, <1>3, <1>6, <2>5 DEF NpTypes
    <3>2. NpCounted(q)'
      BY <1>2, <1>5, <2>2, <3>1 DEF NpCounted
    <3>3. QED
      BY <1>2, <2>2, <3>1, <3>2 DEF NpLow
  <2>6. QED
    BY <2>4, <2>5
<1>8. NpColumn'
  BY <1>1, <1>2, <1>3, <1>6 DEF NpColumn
<1>9. QED
  BY <1>4, <1>7, <1>8 DEF NpInv

LEMMA NpSelect == ASSUME NpInv, Npiso!Select PROVE NpInv'
<1>1. NpTypes /\ NpClocked /\ NpColumn
  BY DEF NpInv
<1>2. /\ npSel' = ~npSel
      /\ npPend' = IF npKind = "kb" THEN npPend \cup {Npiso!S} ELSE npPend
      /\ UNCHANGED <<npKind, npType, npLatch, npIsr, npCnt, npOut, npMouse, npTap, npKb>>
  BY DEF Npiso!Select
<1>3. /\ npHist'.clocks = npHist.clocks /\ npHist'.slip = npHist.slip
      /\ npHist'.key = IF npKind # "kb" THEN npHist.key ELSE IF Npiso!L \in npPend THEN Npiso!Blank
                       ELSE Npiso!Asked(npHist.key, ~npSel)
      /\ npHist' = [clocks |-> npHist'.clocks, slip |-> npHist'.slip, speed |-> npHist'.speed,
                    held |-> npHist'.held, key |-> npHist'.key]
  BY <1>1 DEF Npiso!Select, NpTypes
<1>4. npHist'.key \in NpKeys
  <2>1. npHist.key \in NpKeys
    BY <1>1 DEF NpTypes
  <2>2. CASE npHist.key = Npiso!Blank
    BY <1>3, <2>2 DEF NpKeys, Npiso!Asked
  <2>3. CASE npHist.key \in Int \X {0, 1}
    <3>1. /\ <<npHist.key[1], 1>> \in Int \X {0, 1} /\ <<npHist.key[1] + 1, 0>> \in Int \X {0, 1}
      BY <2>3
    <3>2. QED
      BY <1>3, <2>1, <3>1 DEF NpKeys, Npiso!Asked
  <2>4. QED
    BY <2>1, <2>2, <2>3 DEF NpKeys
<1>5. NpTypes'
  <2>1. npPend' \in SUBSET NpLines /\ npIsr' \in SUBSET npPend' /\ npSel' \in BOOLEAN
    BY <1>1, <1>2 DEF NpTypes, NpLines
  <2>2. QED
    BY <1>1, <1>2, <1>3, <1>4, <2>1 DEF NpTypes
<1>6. NpClocked'
  <2>1. SUFFICES ASSUME NEW p \in Npiso!Ports \ npHist'.slip
                 PROVE  NpCounted(p)' /\ NpLow(p)'
    BY DEF NpClocked
  <2>2. p \notin npHist.slip /\ NpCounted(p) /\ NpLow(p)
    BY <1>1, <1>3, <2>1 DEF NpClocked
  <2>3. (p \in npPend' <=> p \in npPend) /\ (Npiso!L \in npPend' <=> Npiso!L \in npPend)
    BY <1>2, <2>1 DEF Npiso!Ports, Npiso!L, Npiso!S
  <2>4. \A n : NpShown(p, n)' = NpShown(p, n)
    BY <1>2, NpShownKept
  <2>5. QED
    BY <1>2, <1>3, <2>2, <2>3, <2>4 DEF NpCounted, NpLow
<1>7. NpColumn'
  <2>1. SUFFICES ASSUME npKind = "kb", npHist'.key # Npiso!Blank
                 PROVE  /\ npHist'.key[2] = 1 => npSel'
                        /\ Npiso!L \notin npPend' /\ Npiso!S \in npPend'
                        /\ npKb.column = npHist'.key[1] /\ npHist'.key[2] = IF npSel' THEN 1 ELSE 0
    BY <1>2 DEF NpColumn
  <2>2. Npiso!L \notin npPend /\ npHist'.key = Npiso!Asked(npHist.key, ~npSel)
    BY <1>3, <2>1
  <2>3. npHist.key # Npiso!Blank /\ Npiso!S \notin npPend
    BY <2>1, <2>2 DEF Npiso!Asked
  <2>4. npHist.key \in Int \X {0, 1}
    BY <1>1, <2>3 DEF NpTypes, NpKeys
  <2>5. /\ npHist.key[2] = 1 => npSel
        /\ npKb.column = npHist.key[1] + npHist.key[2]
    BY <1>1, <2>1, <2>2, <2>3 DEF NpColumn
  <2>6. npHist.key[1] \in Int /\ npHist.key[2] \in {0, 1} /\ npSel \in BOOLEAN
    BY <1>1, <2>4 DEF NpTypes
  <2>7. npHist'.key = IF ~npSel THEN <<npHist.key[1], 1>>
                      ELSE IF npHist.key[2] = 1 THEN <<npHist.key[1] + 1, 0>> ELSE npHist.key
    BY <2>2, <2>3 DEF Npiso!Asked
  <2>8. Npiso!L \notin npPend' /\ Npiso!S \in npPend'
    BY <1>2, <2>1, <2>2 DEF Npiso!L, Npiso!S
  <2>13. npHist.key[2] = 1 => npSel = TRUE
    BY <2>5, <2>6
  <2>9. CASE ~npSel
    <3>1. npHist'.key[1] = npHist.key[1] /\ npHist'.key[2] = 1
      BY <2>6, <2>7, <2>9
    <3>2. npSel' = TRUE
      BY <1>2, <2>6, <2>9
    <3>3. npKb.column = npHist.key[1]
      BY <2>5, <2>6, <2>9, <2>13
    <3>4. QED
      BY <2>8, <3>1, <3>2, <3>3
  <2>10. CASE npSel /\ npHist.key[2] = 1
    <3>1. npHist'.key[1] = npHist.key[1] + 1 /\ npHist'.key[2] = 0
      BY <2>6, <2>7, <2>10
    <3>2. npSel' = FALSE
      BY <1>2, <2>6, <2>10
    <3>3. npKb.column = npHist.key[1] + 1
      BY <2>5, <2>6, <2>10
    <3>4. QED
      BY <2>8, <3>1, <3>2, <3>3
  <2>11. CASE npSel /\ npHist.key[2] = 0
    <3>1. npHist'.key[1] = npHist.key[1] /\ npHist'.key[2] = 0
      BY <2>6, <2>7, <2>11
    <3>2. npSel' = FALSE
      BY <1>2, <2>6, <2>11
    <3>3. npKb.column = npHist.key[1]
      BY <2>5, <2>6, <2>11
    <3>4. QED
      BY <2>8, <3>1, <3>2, <3>3
  <2>12. QED
    BY <2>6, <2>9, <2>10, <2>11
<1>8. QED
  BY <1>5, <1>6, <1>7 DEF NpInv

LEMMA NpEnter == ASSUME NpInv, Npiso!Enter PROVE NpInv'
<1>1. NpTypes /\ NpClocked /\ NpColumn
  BY DEF NpInv
<1>2. /\ npIsr = {} /\ npIsr' = npPend
      /\ UNCHANGED <<npKind, npType, npLatch, npSel, npPend, npCnt, npOut, npMouse, npKb>>
      /\ Npiso!L \notin npPend => UNCHANGED <<npTap, npHist>>
  BY DEF Npiso!Enter
<1>3. /\ npHist'.clocks = npHist.clocks /\ npHist'.slip = npHist.slip /\ npHist'.key = npHist.key
      /\ npHist' = [clocks |-> npHist'.clocks, slip |-> npHist'.slip, speed |-> npHist'.speed,
                    held |-> npHist'.held, key |-> npHist'.key]
  BY <1>1 DEF Npiso!Enter, NpTypes
<1>4. NpTypes'
  BY <1>1, <1>2, <1>3 DEF NpTypes
<1>5. NpClocked'
  <2>1. SUFFICES ASSUME NEW p \in Npiso!Ports \ npHist'.slip
                 PROVE  NpCounted(p)' /\ NpLow(p)'
    BY DEF NpClocked
  <2>2. p \notin npHist.slip /\ NpCounted(p) /\ NpLow(p)
    BY <1>1, <1>3, <2>1 DEF NpClocked
  <2>3. Npiso!L \notin npPend => \A n : NpShown(p, n)' = NpShown(p, n)
    BY <1>2, NpShownKept
  <2>4. NpCounted(p)'
    BY <1>2, <1>3, <2>2, <2>3 DEF NpCounted
  <2>5. QED
    BY <1>2, <2>2, <2>4 DEF NpLow
<1>6. NpColumn'
  BY <1>1, <1>2, <1>3 DEF NpColumn
<1>7. QED
  BY <1>4, <1>5, <1>6 DEF NpInv

LEMMA NpLeave == ASSUME NpInv, Npiso!Leave PROVE NpInv'
<1>1. NpTypes /\ NpClocked /\ NpColumn
  BY DEF NpInv
<1>2. /\ npIsr' = {} /\ npPend' = npPend \ npIsr
      /\ UNCHANGED <<npKind, npType, npLatch, npSel, npTap>>
  BY DEF Npiso!Leave, Npiso!Acknowledged
<1>3. /\ npCnt' \in [Npiso!Ports -> Int]
      /\ npHist'.clocks = npHist.clocks /\ npHist'.slip = npHist.slip /\ npHist'.key = npHist.key
      /\ npHist' = [clocks |-> npHist'.clocks, slip |-> npHist'.slip, speed |-> npHist'.speed,
                    held |-> npHist'.held, key |-> npHist'.key]
      /\ \A p \in Npiso!Ports :
           LET base == IF Npiso!L \in npIsr THEN 1 ELSE npCnt[p] IN
           /\ p \in npIsr /\ ~npLatch =>
                npCnt'[p] = base + 1 /\ npOut'[p] = NpShown(p, base)
           /\ p \notin npIsr =>
                /\ npCnt'[p] = base
                /\ npOut'[p] = IF Npiso!L \in npIsr THEN NpShown(p, 0) ELSE npOut[p]
  BY <1>1, NpServed
<1>4. IF npKind = "kb"
      THEN npKb' = IF Npiso!L \in npIsr THEN [column |-> 0, nibble |-> <<0, 0>>]
                   ELSE IF Npiso!S \in npIsr
                   THEN IF npSel THEN [column |-> npKb.column + 1, nibble |-> <<npKb.column, 1>>]
                        ELSE [npKb EXCEPT !.nibble = <<npKb.column, 0>>]
                   ELSE npKb
      ELSE npKb' = npKb
  BY DEF Npiso!Leave, Npiso!KbLeave, Npiso!PadsLeave
<1>5. NpTypes'
  <2>1. npPend' \in SUBSET NpLines /\ npIsr' \in SUBSET npPend'
    BY <1>1, <1>2 DEF NpTypes
  <2>2. npKb' = [column |-> npKb'.column, nibble |-> npKb'.nibble] /\ npKb'.column \in Int
    BY <1>1, <1>4 DEF NpTypes
  <2>3. QED
    BY <1>1, <1>2, <1>3, <2>1, <2>2 DEF NpTypes
<1>6. NpClocked'
  <2>1. SUFFICES ASSUME NEW p \in Npiso!Ports \ npHist'.slip
                 PROVE  NpCounted(p)' /\ NpLow(p)'
    BY DEF NpClocked
  <2>2. p \notin npHist.slip /\ NpCounted(p) /\ NpLow(p)
    BY <1>1, <1>3, <2>1 DEF NpClocked
  <2>3. npHist.clocks[p] \in Int /\ npCnt[p] \in Int /\ npIsr \subseteq npPend
    BY <1>1, <2>1 DEF NpTypes
  <2>4. \A n : NpShown(p, n)' = NpShown(p, n)
    BY <1>2, NpShownKept
  <2>5. (p \in npPend' <=> p \in npPend /\ p \notin npIsr)
          /\ (Npiso!L \in npPend' <=> Npiso!L \in npPend /\ Npiso!L \notin npIsr)
    BY <1>2
  <2>6. CASE Npiso!L \in npPend /\ Npiso!L \notin npIsr
    BY <1>2, <1>3, <2>2, <2>5, <2>6 DEF NpCounted, NpLow
  <2>7. CASE ~(Npiso!L \in npPend /\ Npiso!L \notin npIsr)
    <3> DEFINE base == IF Npiso!L \in npIsr THEN 1 ELSE npCnt[p]
    <3>1. NpLow(p)'
      BY <1>2, <2>2, <2>5, <2>7 DEF NpLow
    <3>2. /\ p \in npIsr => npCnt'[p] = base + 1 /\ npOut'[p] = NpShown(p, base)
          /\ p \notin npIsr =>
                /\ npCnt'[p] = base
                /\ npOut'[p] = IF Npiso!L \in npIsr THEN NpShown(p, 0) ELSE npOut[p]
      BY <1>3, <2>1, <2>2, <2>3, <2>7 DEF NpLow
    <3>3. base + (IF p \in npIsr THEN 1 ELSE 0) = npHist.clocks[p] + 1 - (IF p \in npPend' THEN 1 ELSE 0)
      BY <2>2, <2>3, <2>5, <2>7 DEF NpCounted
    <3>4. base \in Int
      BY <2>3
    <3>5. npCnt'[p] = npHist'.clocks[p] + 1 - (IF p \in npPend' THEN 1 ELSE 0)
      BY <1>3, <2>3, <3>2, <3>3, <3>4
    <3>6. p \notin npPend' => npOut'[p] = NpShown(p, npHist.clocks[p])
      <4>1. CASE p \in npIsr
        <5>1. base = npHist.clocks[p]
          BY <2>3, <2>5, <3>3, <3>4, <4>1
        <5>2. QED
          BY <3>2, <4>1, <5>1
      <4>2. CASE p \notin npIsr /\ p \notin npPend /\ Npiso!L \in npIsr
        <5>1. npHist.clocks[p] = 0
          BY <2>3, <2>5, <3>3, <4>2
        <5>2. QED
          BY <3>2, <4>2, <5>1
      <4>3. CASE p \notin npPend /\ Npiso!L \notin npIsr
        <5>1. npOut[p] = NpShown(p, npHist.clocks[p])
          BY <2>2, <2>7, <4>3 DEF NpCounted
        <5>2. QED
          BY <2>3, <3>2, <4>3, <5>1
      <4>4. QED
        BY <2>3, <2>5, <4>1, <4>2, <4>3
    <3> HIDE DEF base
    <3>7. NpShown(p, npHist.clocks[p])' = NpShown(p, npHist'.clocks[p])
      BY <2>4
    <3>8. npHist'.clocks[p] = npHist.clocks[p] /\ Npiso!L \notin npPend'
      BY <1>3, <2>5, <2>7
    <3>9. NpCounted(p)'
      BY <2>4, <3>5, <3>6, <3>8 DEF NpCounted
    <3>10. QED
      BY <3>1, <3>9
  <2>8. QED
    BY <2>6, <2>7
<1>7. NpColumn'
  <2>1. SUFFICES ASSUME npKind = "kb", npHist.key # Npiso!Blank PROVE NpColumn'
    BY <1>2, <1>3 DEF NpColumn
  <2>2. /\ npHist.key[2] = 1 => npSel
        /\ Npiso!L \in npPend => npHist.key = <<0, 0>> /\ Npiso!S \notin npPend
        /\ Npiso!L \notin npPend /\ Npiso!S \in npPend =>
             npKb.column = npHist.key[1] /\ npHist.key[2] = IF npSel THEN 1 ELSE 0
        /\ Npiso!L \notin npPend /\ Npiso!S \notin npPend =>
             npKb.column = npHist.key[1] + npHist.key[2] /\ npKb.nibble = npHist.key
    BY <1>1, <2>1 DEF NpColumn
  <2>3. npHist.key \in Int \X {0, 1} /\ npIsr \subseteq npPend
    BY <1>1, <2>1 DEF NpTypes, NpKeys
  <2>4. npHist.key = <<npHist.key[1], npHist.key[2]>> /\ npHist.key[1] \in Int /\ npHist.key[2] \in {0, 1}
    BY <2>3
  <2>5. CASE Npiso!L \in npPend
    <3>1. CASE Npiso!L \in npIsr
      <4>1. npKb'.column = 0 /\ npKb'.nibble = <<0, 0>>
        BY <1>4, <2>1, <3>1
      <4>2. QED
        BY <1>2, <1>3, <2>2, <2>4, <2>5, <3>1, <4>1 DEF NpColumn
    <3>2. CASE Npiso!L \notin npIsr
      BY <1>2, <1>3, <2>2, <2>5, <3>2 DEF NpColumn
    <3>3. QED
      BY <3>1, <3>2
  <2>6. CASE Npiso!L \notin npPend /\ Npiso!S \in npPend
    <3>1. CASE Npiso!S \in npIsr /\ npSel
      <4>1. npKb'.column = npKb.column + 1 /\ npKb'.nibble = <<npKb.column, 1>>
        BY <1>4, <2>1, <2>3, <2>6, <3>1
      <4>2. QED
        BY <1>2, <1>3, <2>2, <2>4, <2>6, <3>1, <4>1 DEF NpColumn
    <3>2. CASE Npiso!S \in npIsr /\ ~npSel
      <4>1. npKb'.column = npKb.column /\ npKb'.nibble = <<npKb.column, 0>>
        BY <1>1, <1>4, <2>1, <2>3, <2>6, <3>2 DEF NpTypes
      <4>2. QED
        BY <1>2, <1>3, <2>2, <2>4, <2>6, <3>2, <4>1 DEF NpColumn
    <3>3. CASE Npiso!S \notin npIsr
      <4>1. npKb' = npKb
        BY <1>4, <2>3, <2>6, <3>3
      <4>2. QED
        BY <1>2, <1>3, <2>2, <2>6, <3>3, <4>1 DEF NpColumn
    <3>4. QED
      BY <3>1, <3>2, <3>3
  <2>7. CASE Npiso!L \notin npPend /\ Npiso!S \notin npPend
    <3>1. npKb' = npKb
      BY <1>4, <2>3, <2>7
    <3>2. QED
      BY <1>2, <1>3, <2>2, <2>7, <3>1 DEF NpColumn
  <2>8. QED
    BY <2>5, <2>6, <2>7
<1>8. QED
  BY <1>5, <1>6, <1>7 DEF NpInv

LEMMA NpStep ==
  ASSUME NpInv, Npiso!Next \/ UNCHANGED npVars
  PROVE  NpInv'
<1>1. CASE UNCHANGED npVars
  BY <1>1 DEF npVars, NpInv, NpTypes, NpClocked, NpCounted, NpLow, NpShown, Npiso!Shown,
     Npiso!PadShown, NpColumn
<1>2. CASE Npiso!LatchFall
  <2>1. npLatch' = FALSE
          /\ UNCHANGED <<npKind, npType, npSel, npPend, npIsr, npCnt, npOut, npMouse, npTap, npKb, npHist>>
    BY <1>2 DEF Npiso!LatchFall
  <2>2. \A p, n : NpShown(p, n)' = NpShown(p, n)
    BY <2>1, NpShownKept
  <2>3. NpClocked'
    BY <2>1, <2>2 DEF NpInv, NpClocked, NpCounted, NpLow
  <2>4. QED
    BY <2>1, <2>3 DEF NpInv, NpTypes, NpColumn
<1>3. QED
  BY <1>1, <1>2, NpLatchRise, NpClock, NpSelect, NpEnter, NpLeave DEF Npiso!Next

LEMMA NpKeeps == NpInv => Npiso!BitAsked /\ Npiso!KeyAsked
<1>1. SUFFICES ASSUME NpInv PROVE Npiso!BitAsked /\ Npiso!KeyAsked
  OBVIOUS
<1>2. Npiso!BitAsked
  BY <1>1 DEF NpInv, NpClocked, NpCounted, NpShown, Npiso!BitAsked
<1>3. Npiso!KeyAsked
  BY <1>1 DEF NpInv, NpColumn, Npiso!KeyAsked
<1>4. QED
  BY <1>2, <1>3

\* A byte of a report, but the first, comes after the one before it.
Whole(s) == \A i \in 2 .. Len(s) : s[i][2] > 1 => s[i - 1] = <<s[i][1], s[i][2] - 1>>

LEMMA SeqLength ==
  ASSUME NEW S, NEW s \in Seq(S), s # <<>>
  PROVE  Len(s) # 0
OBVIOUS

LEMMA SeqBefore ==
  ASSUME NEW S, NEW s \in Seq(S), NEW t \in Seq(S)
  PROVE  \A i \in 1 .. Len(s) : (s \o t)[i] = s[i]
OBVIOUS

LEMMA WholeTail ==
  ASSUME NEW S, NEW s \in Seq(S), s # <<>>, Whole(s)
  PROVE  Whole(Tail(s))
<1>1. Len(Tail(s)) = Len(s) - 1 /\ Len(s) \in Nat
  OBVIOUS
<1>2. \A i \in 1 .. Len(Tail(s)) : Tail(s)[i] = s[i + 1]
  OBVIOUS
<1>3. SUFFICES ASSUME NEW i \in 2 .. Len(Tail(s)), Tail(s)[i][2] > 1
               PROVE  Tail(s)[i - 1] = <<Tail(s)[i][1], Tail(s)[i][2] - 1>>
  BY DEF Whole
<1>4. i + 1 \in 2 .. Len(s) /\ i - 1 \in 1 .. Len(Tail(s)) /\ i \in 1 .. Len(Tail(s))
  BY <1>1
<1>5. Tail(s)[i] = s[i + 1] /\ Tail(s)[i - 1] = s[i]
  BY <1>2, <1>4
<1>6. (i + 1) - 1 = i
  OBVIOUS
<1>7. s[(i + 1) - 1] = <<s[i + 1][1], s[i + 1][2] - 1>>
  BY <1>3, <1>4, <1>5 DEF Whole
<1>8. QED
  BY <1>5, <1>6, <1>7

LEMMA WholeAppend ==
  ASSUME NEW S, NEW s \in Seq(S), NEW e, Whole(s),
         e[2] > 1 /\ s # <<>> => s[Len(s)] = <<e[1], e[2] - 1>>
  PROVE  Whole(Append(s, e))
<1> DEFINE t == Append(s, e)
<1>1. Len(t) = Len(s) + 1 /\ Len(s) \in Nat /\ t[Len(s) + 1] = e
  OBVIOUS
<1>2. \A i \in 1 .. Len(s) : t[i] = s[i]
  OBVIOUS
<1>3. Len(s) > 0 => s # <<>>
  OBVIOUS
<1> HIDE DEF t
<1>4. SUFFICES ASSUME NEW i \in 2 .. Len(t), t[i][2] > 1
               PROVE  t[i - 1] = <<t[i][1], t[i][2] - 1>>
  BY DEF Whole, t
<1>5. CASE i = Len(s) + 1
  <2>1. i - 1 = Len(s) /\ i - 1 \in 1 .. Len(s) /\ t[i] = e
    BY <1>1, <1>5
  <2>2. t[i - 1] = s[Len(s)] /\ s # <<>>
    BY <1>2, <1>3, <2>1
  <2>3. QED
    BY <1>4, <2>1, <2>2
<1>6. CASE i # Len(s) + 1
  <2>1. i \in 2 .. Len(s) /\ i \in 1 .. Len(s) /\ i - 1 \in 1 .. Len(s)
    BY <1>1, <1>6
  <2>2. t[i] = s[i] /\ t[i - 1] = s[i - 1]
    BY <1>2, <2>1
  <2>3. QED
    BY <1>4, <2>1, <2>2 DEF Whole
<1>7. QED
  BY <1>5, <1>6

LEMMA WholeJoined ==
  ASSUME NEW S, NEW s \in Seq(S), NEW r \in Seq(S), Whole(s), Whole(r), ~(r[1][2] > 1)
  PROVE  Whole(s \o r)
<1> DEFINE t == s \o r
<1>1. Len(t) = Len(s) + Len(r) /\ Len(s) \in Nat /\ Len(r) \in Nat
  OBVIOUS
<1>2. \A i \in 1 .. Len(s) : t[i] = s[i]
  OBVIOUS
<1>3. \A i \in Len(s) + 1 .. Len(t) : t[i] = r[i - Len(s)]
  OBVIOUS
<1> HIDE DEF t
<1>4. SUFFICES ASSUME NEW i \in 2 .. Len(t), t[i][2] > 1
               PROVE  t[i - 1] = <<t[i][1], t[i][2] - 1>>
  BY DEF Whole, t
<1>5. CASE i <= Len(s)
  <2>1. i \in 2 .. Len(s) /\ i \in 1 .. Len(s) /\ i - 1 \in 1 .. Len(s)
    BY <1>1, <1>5
  <2>2. t[i] = s[i] /\ t[i - 1] = s[i - 1]
    BY <1>2, <2>1
  <2>3. QED
    BY <1>4, <2>1, <2>2 DEF Whole
<1>6. CASE i > Len(s)
  <2>1. i \in Len(s) + 1 .. Len(t)
    BY <1>1, <1>6
  <2>2. t[i] = r[i - Len(s)]
    BY <1>3, <2>1
  <2>3. i - Len(s) # 1
    BY <1>4, <2>2
  <2>4. i - Len(s) \in 2 .. Len(r) /\ i - 1 \in Len(s) + 1 .. Len(t) /\ (i - 1) - Len(s) = (i - Len(s)) - 1
    BY <1>1, <1>6, <2>3
  <2>5. t[i - 1] = r[(i - Len(s)) - 1]
    BY <1>3, <2>4
  <2>6. QED
    BY <1>4, <2>2, <2>4, <2>5 DEF Whole
<1>7. QED
  BY <1>1, <1>5, <1>6

\* The id and the report that answer a rise of RTS are whole.
LEMMA CdiAnnouncedWhole ==
  ASSUME CdiStuck
  PROVE  Whole(Cdi!Announced) /\ ~(Cdi!Announced[1][2] > 1)
<1> DEFINE r == Cdi!Report(cdBuf)
           a == <<Cdi!Id>>
<1>1. cdLen \in Nat /\ cdBuf \in 0 .. 1
  BY DEF CdiStuck
<1>2. \A j \in 1 .. cdLen : <<cdBuf, j>> \in Int \X Int
  BY <1>1
<1>3. r \in [1 .. cdLen -> Int \X Int]
  BY <1>2 DEF Cdi!Report
<1>4. r \in Seq(Int \X Int) /\ Len(r) = cdLen
  BY <1>1, <1>3
<1>5. a \in Seq(Int \X Int) /\ Len(a) = 1 /\ a[1] = <<2, 0>>
  BY DEF Cdi!Id
<1>6. \A j \in 1 .. cdLen : r[j] = <<cdBuf, j>>
  BY DEF Cdi!Report
<1>7. Whole(r)
  <2>1. SUFFICES ASSUME NEW i \in 2 .. Len(r) PROVE r[i - 1] = <<r[i][1], r[i][2] - 1>>
    BY DEF Whole
  <2>2. i \in 1 .. cdLen /\ i - 1 \in 1 .. cdLen
    BY <1>1, <1>4, <2>1
  <2>3. QED
    BY <1>6, <2>2
<1>8. Whole(a)
  BY <1>5 DEF Whole
<1>9. ~(r[1][2] > 1)
  <2>1. 1 \in 1 .. cdLen
    BY DEF CdiStuck
  <2>2. QED
    BY <1>6, <2>1
<1>10. Cdi!Announced = a \o r
  BY DEF Cdi!Announced
<1> HIDE DEF a, r
<1>11. Whole(Cdi!Announced)
  BY <1>4, <1>5, <1>7, <1>8, <1>9, <1>10, WholeJoined
<1>12. Cdi!Announced[1] = <<2, 0>>
  <2>1. 1 \in 1 .. Len(a)
    BY <1>5
  <2>2. (a \o r)[1] = a[1]
    BY <1>4, <1>5, <2>1, SeqBefore
  <2>3. QED
    BY <1>5, <1>10, <2>2
<1>13. QED
  BY <1>11, <1>12

\* While the loop writes a report RTS keeps still, and what is left of the FIFO ends with the byte
\* written last, unless an edge came into the loop.
CdiSent ==
  ~cdHist.mixed =>
    /\ Whole(cdFifo)
    /\ cdTx # 0 => cdIsr = "idle" /\ ~cdPend
    /\ cdTx > 1 /\ cdRts /\ cdFifo # <<>> => cdFifo[Len(cdFifo)] = <<cdBuf, cdTx - 1>>

CdiInv == CdiStuck /\ CdiSent

LEMMA CdiInit == ASSUME Cdi!Init PROVE CdiInv
<1>1. cdFifo = <<>> /\ cdTx = 0
  BY DEF Cdi!Init
<1>2. CdiSent
  BY <1>1 DEF CdiSent, Whole
<1>3. QED
  BY <1>2, CdiStuckInit DEF CdiInv

LEMMA CdiStep ==
  ASSUME CdiInv, Cdi!Next \/ UNCHANGED cdVars
  PROVE  CdiInv'
<1>1. CdiStuck' /\ CdiStuck /\ CdiSent
  BY CdiStuckStep DEF CdiInv
<1>2. /\ cdFifo \in Seq(CdiBytes) /\ cdLen \in 2 .. 4 /\ cdTx \in 0 .. cdLen
      /\ cdHist \in [mixed : BOOLEAN, lost : BOOLEAN]
  BY <1>1 DEF CdiStuck
<1> SUFFICES CdiSent'
  BY <1>1 DEF CdiInv
<1>3. CASE UNCHANGED cdVars
  BY <1>1, <1>3 DEF cdVars, CdiSent, Whole
<1>4. CASE Cdi!Rts
  <2>1. cdHist'.mixed = (cdHist.mixed \/ cdTx # 0) /\ UNCHANGED <<cdTx, cdFifo, cdBuf, cdIsr>>
    BY <1>4 DEF Cdi!Rts
  <2>2. ~cdHist'.mixed => ~cdHist.mixed /\ cdTx' = 0
    BY <1>2, <2>1
  <2>3. QED
    BY <1>1, <1>2, <2>1, <2>2 DEF CdiSent, Whole
<1>5. CASE Cdi!RtsEnter
  <2>1. cdHist'.mixed = (cdHist.mixed \/ cdTx # 0) /\ UNCHANGED <<cdTx, cdFifo, cdBuf, cdPend>>
    BY <1>2, <1>5 DEF Cdi!RtsEnter
  <2>2. ~cdHist'.mixed => ~cdHist.mixed /\ cdTx' = 0
    BY <1>2, <2>1
  <2>3. QED
    BY <1>1, <1>2, <2>1, <2>2 DEF CdiSent, Whole
<1>6. CASE Cdi!RtsLeave
  <2>1. cdIsr # "idle" /\ UNCHANGED <<cdTx, cdBuf, cdRts, cdHist>>
    BY <1>6 DEF Cdi!RtsLeave
  <2>2. SUFFICES ASSUME ~cdHist.mixed PROVE Whole(cdFifo')
    BY <1>1, <1>2, <2>1 DEF CdiSent, Whole
  <2>3. CASE cdIsr = "rise"
    <3>1. cdFifo' = cdFifo \o Cdi!Announced
      BY <1>6, <2>3 DEF Cdi!RtsLeave
    <3>2. Whole(cdFifo)
      BY <1>1, <2>2 DEF CdiSent
    <3>3. QED
      BY <1>1, <1>2, <3>1, <3>2, CdiReport, CdiAnnouncedWhole, WholeJoined
  <2>4. CASE cdIsr # "rise"
    <3>1. cdFifo' = <<>>
      BY <1>6, <2>4 DEF Cdi!RtsLeave
    <3>2. QED
      BY <3>1 DEF Whole
  <2>5. QED
    BY <2>3, <2>4
<1>7. CASE Cdi!Shift
  <2>1. /\ cdFifo # <<>> /\ cdFifo' = Tail(cdFifo)
        /\ cdHist'.mixed = (cdHist.mixed /\ ~(Len(cdFifo) = 1 /\ cdTx = 0))
        /\ UNCHANGED <<cdRts, cdPend, cdIsr, cdTx, cdBuf>>
    BY <1>2, <1>7 DEF Cdi!Shift
  <2>2. Len(cdFifo) = 1 => cdFifo' = <<>>
    BY <1>2, <2>1
  <2>3. CASE cdHist.mixed /\ Len(cdFifo) = 1 /\ cdTx = 0
    <3>1. cdFifo' = <<>> /\ cdTx' = 0
      BY <2>1, <2>2, <2>3
    <3>2. QED
      BY <3>1 DEF CdiSent, Whole
  <2>4. CASE ~cdHist.mixed
    <3>1. Whole(cdFifo')
      BY <1>1, <1>2, <2>1, <2>4, WholeTail DEF CdiSent
    <3>2. cdFifo' # <<>> => cdFifo'[Len(cdFifo')] = cdFifo[Len(cdFifo)]
      <4>1. Len(cdFifo') = Len(cdFifo) - 1 /\ Len(cdFifo) \in Nat /\ cdFifo' \in Seq(CdiBytes)
        BY <1>2, <2>1
      <4>2. \A i \in 1 .. Len(Tail(cdFifo)) : Tail(cdFifo)[i] = cdFifo[i + 1]
        BY <1>2, <2>1
      <4>3. cdFifo' # <<>> => Len(cdFifo') # 0
        BY <4>1, SeqLength
      <4>4. cdFifo' # <<>> => Len(cdFifo') \in 1 .. Len(Tail(cdFifo)) /\ Len(cdFifo') + 1 = Len(cdFifo)
        BY <2>1, <4>1, <4>3
      <4>5. QED
        BY <2>1, <4>2, <4>4
    <3>3. QED
      BY <1>1, <2>1, <2>4, <3>1, <3>2 DEF CdiSent, Whole
  <2>5. QED
    BY <1>2, <2>1, <2>3, <2>4 DEF CdiSent
<1>8. CASE Cdi!uart_isr
  <2>1. UNCHANGED <<cdLen, cdRts, cdPend, cdIsr, cdTx, cdBuf, cdFifo, cdHist>>
    BY <1>8 DEF Cdi!uart_isr
  <2>2. QED
    BY <1>1, <2>1 DEF CdiSent, Whole
<1>9. CASE Cdi!Load
  <2>1. /\ cdIsr = "idle" /\ cdTx' = 1 /\ cdHist'.mixed = (cdHist.mixed \/ cdPend)
        /\ UNCHANGED <<cdPend, cdIsr, cdFifo>>
    BY <1>2, <1>9 DEF Cdi!Load
  <2>2. cdPend \in BOOLEAN
    BY <1>1 DEF CdiStuck
  <2>3. ~cdHist'.mixed => ~cdHist.mixed /\ ~cdPend'
    BY <1>2, <2>1, <2>2
  <2>4. QED
    BY <1>1, <2>1, <2>3 DEF CdiSent, Whole
<1>10. CASE Cdi!Byte
  <2>1. /\ cdTx # 0 /\ cdIsr = "idle"
        /\ cdFifo' = IF cdRts THEN Append(cdFifo, <<cdBuf, cdTx>>) ELSE cdFifo
        /\ cdTx' = IF cdTx = cdLen THEN 0 ELSE cdTx + 1
        /\ UNCHANGED <<cdRts, cdPend, cdIsr, cdBuf, cdHist>>
    BY <1>10 DEF Cdi!Byte
  <2>2. SUFFICES ASSUME ~cdHist.mixed PROVE CdiSent'
    BY <2>1 DEF CdiSent
  <2>3. /\ Whole(cdFifo) /\ ~cdPend
        /\ cdTx > 1 /\ cdRts /\ cdFifo # <<>> => cdFifo[Len(cdFifo)] = <<cdBuf, cdTx - 1>>
    BY <1>1, <2>1, <2>2 DEF CdiSent
  <2> DEFINE e == <<cdBuf, cdTx>>
  <2>4. CASE cdRts
    <3>1. e[1] = cdBuf /\ e[2] = cdTx
      OBVIOUS
    <3> HIDE DEF e
    <3>2. e[2] > 1 /\ cdFifo # <<>> => cdFifo[Len(cdFifo)] = <<e[1], e[2] - 1>>
      BY <2>3, <2>4, <3>1
    <3>3. Whole(Append(cdFifo, e))
      BY <1>2, <2>3, <3>2, WholeAppend
    <3>4. cdFifo' = Append(cdFifo, e)
      BY <2>1, <2>4 DEF e
    <3>5. cdFifo'[Len(cdFifo')] = e
      BY <1>2, <3>4
    <3>6. cdTx' > 1 => e = <<cdBuf', cdTx' - 1>>
      BY <1>2, <2>1 DEF e
    <3>7. QED
      BY <2>1, <2>3, <3>3, <3>4, <3>5, <3>6 DEF CdiSent, Whole
  <2>5. CASE ~cdRts
    BY <2>1, <2>3, <2>5 DEF CdiSent, Whole
  <2>6. QED
    BY <2>4, <2>5
<1>11. QED
  BY <1>3, <1>4, <1>5, <1>6, <1>7, <1>8, <1>9, <1>10 DEF Cdi!Next

LEMMA CdiKeeps == CdiInv => Cdi!NeverStuck /\ Cdi!WholeReports
BY CdiNotStuck DEF CdiInv, CdiSent, Whole, Cdi!WholeReports

\* What the driver that runs keeps to.
DriverInv ==
  /\ driver = "ps_spi" => PsInv
  /\ driver = "nsi" => NsiInv
  /\ driver = "maple" => MapleInv
  /\ driver = "sega_io" => SegaInv
  /\ driver = "cdi_uart" => CdiInv
  /\ driver = "npiso_io" => NpInv
  /\ driver = "rows" => RowInv
  /\ driver = "wii_i2c" => WiiInv
  /\ driver = "keyboard" => KbInv
  /\ driver = "mouse" => MouseInv
  /\ driver = "stall" => StallInv

LEMMA DriverInit == Init => DriverInv
BY PsInit, NsiInit, MapleInit, SegaInit, NpInit, RowInit, CdiInit, WiiInit, KbInit, MouseInit,
   StallInit
   DEF Init, DriverInv

LEMMA DriverStep == DriverInv /\ [Next]_vars => DriverInv'
<1>1. SUFFICES ASSUME DriverInv, [Next]_vars
               PROVE  DriverInv'
  OBVIOUS
<1>2. driver' = driver
  BY <1>1, DriverStays
<1>3. driver = "ps_spi" => PsInv'
  BY <1>1, PsSteps, PsStep DEF DriverInv
<1>4. driver = "nsi" => NsiInv'
  BY <1>1, NsiSteps, NsiStep DEF DriverInv
<1>5. driver = "maple" => MapleInv'
  BY <1>1, MapleSteps, MapleStep DEF DriverInv
<1>6. driver = "sega_io" => SegaInv'
  BY <1>1, SegaSteps, SegaStep DEF DriverInv
<1>7. driver = "cdi_uart" => CdiInv'
  BY <1>1, CdiSteps, CdiStep DEF DriverInv
<1>8. driver = "keyboard" => KbInv'
  BY <1>1, KbSteps, KbStep DEF DriverInv
<1>9. driver = "mouse" => MouseInv'
  BY <1>1, MouseSteps, MouseStep DEF DriverInv
<1>10. driver = "stall" => StallInv'
  BY <1>1, StallSteps, StallStep DEF DriverInv
<1>11. driver = "npiso_io" => NpInv'
  BY <1>1, NpSteps, NpStep DEF DriverInv
<1>12. driver = "rows" => RowInv'
  BY <1>1, RowSteps, RowStep DEF DriverInv
<1>13. driver = "wii_i2c" => WiiInv'
  BY <1>1, WiiSteps, WiiStep DEF DriverInv
<1>14. QED
  BY <1>2, <1>3, <1>4, <1>5, <1>6, <1>7, <1>8, <1>9, <1>10, <1>11, <1>12, <1>13 DEF DriverInv

LEMMA DriverKept == Spec => []DriverInv
BY DriverInit, DriverStep, PTL DEF Spec

\* Nobody is left waiting for what can no longer come: the Mega Drive's loop lets core 0 go
\* whichever way it leaves a poll (sega_io.c), the CD-i's port hears of its transmitter or of RTS
\* (cdi_uart.c), and core 1's core0_stall_end is answered unless a start crossed it
\* (core0_stall.c), for any queue, frame and counter bounds.
THEOREM NobodyLeftWaiting == Spec => []NeverLeftWaiting
<1>1. DriverInv => NeverLeftWaiting
  BY CdiKeeps, StallAnswers, SegaKeeps DEF DriverInv, NeverLeftWaiting
<1>2. QED
  BY <1>1, DriverKept, PTL

\* The adapter's feedback follows the console: a PlayStation pad's LED its mode whatever the frames
\* and the analog button do (ps_spi.c), the Nintendo 64's pak status every change of bank or pak
\* and the rumble each port's own motor (nsi.c), and the Dreamcast's rumble what SET_CONDITION
\* last asked (maple.c), however many frames and changes of configuration there are.
THEOREM FeedbackIsFollowed == Spec => []FeedbackFollows
<1>1. DriverInv => FeedbackFollows
  BY PsKeeps DEF DriverInv, FeedbackFollows, NsiInv, PakInv, MotorInv, MapleInv
<1>2. QED
  BY <1>1, DriverKept, PTL

\* What a console reads is what its own edges, clocks and requests lead to: the half of the Mega
\* Drive's cycle and the port a frame counts for (sega_io.c), the bit of a NES, SNES or VB pad and
\* the Famicom keyboard's nibble (npiso_io.c), the PC Engine's pad (pce_io.c), the bytes of a CD-i
\* report (cdi_uart.c), the Wii extension's register (wii_i2c.c) and a GameCube's buttons (nsi.c),
\* however wide a report is and however many clocks, frames and bytes there are.
THEOREM ReadsAreAsked == Spec => []ReadsAsAsked
<1>1. DriverInv => ReadsAsAsked
  BY SegaKeeps, NpKeeps, RowKeeps, CdiKeeps, WiiKeeps
     DEF DriverInv, ReadsAsAsked, NsiInv, OriginInv, Nsi!LastReportStands, Nsi!TriggerDelayed
<1>2. QED
  BY <1>1, DriverKept, PTL

\* Keys and motion reach the console as made: the key that repeats is held, the keys the console
\* will hold for pressed once it has read the queue are (kb_monitor.c), for a queue of any length,
\* and a mouse's motion is sent once and in range whenever the cores' steps fall
\* (load_mouse_axes), for any number of reports.
THEOREM InputIsKept == Spec => []InputKept
<1>1. DriverInv => InputKept
  BY KbKeeps DEF DriverInv, InputKept, MouseInv
<1>2. QED
  BY <1>1, DriverKept, PTL

\* A request of a PlayStation, a Nintendo 64 or a Dreamcast takes effect once and when received
\* whole (ps_spi.c, nsi.c, maple.c); the frames of the JVS node, which a recursive function
\* parses, are left to the run.
THEOREM RequestsOnce == Spec => [](driver # "jvs_uart" => RequestsTakeEffectOnce)
<1>1. DriverInv => (driver # "jvs_uart" => RequestsTakeEffectOnce)
  BY PsKeeps DEF DriverInv, RequestsTakeEffectOnce, NsiInv, PakInv, MapleInv
<1>2. QED
  BY <1>1, DriverKept, PTL
=============================================================================
