---------------------------- MODULE WiredDrivers ----------------------------
(***************************************************************************)
(* The wired side of the adapter.  wired_bare_init starts the driver of    *)
(* the one console the adapter is plugged into (wired_init, a table by     *)
(* system), and from then on core 1 runs that driver alone: a step of this *)
(* specification is a step of the driver chosen at boot, of its console,   *)
(* or of core 0 as far as it writes what the driver sends.                 *)
(*                                                                         *)
(* Four parts stand for what several drivers share: the keyboard's queue   *)
(* of scancodes, the motion of a mouse, the lock that stalls core 0, and   *)
(* the conversion of a controller's report into a console's.               *)
(* The variables of a part that does not run are "off".                    *)
(***************************************************************************)
EXTENDS Integers, Sequences

CONSTANTS PsFrames, NsiUpdate, NsiChanges, MplFrames, NpBits, NpLoad, NpWrap, NpClocks, CdFifo,
  JvCmds, KbQueue, MmReports, WrCoins, WrLines, WrKeys

\* A slot appears empty for some frames (0x20 of them, nsi.c).
ASSUME NsiUpdateAssumption == NsiUpdate \in Nat \ {0}

\* A keyboard's queue holds 16 codes (kb_monitor.c).
ASSUME KbQueueAssumption == KbQueue \in Nat

VARIABLES
  driver,     \* what runs
  psRoot, psTap, psIdx, psValid, psOn, psAct, psRx, psId, psPend, psLed, psMot, psBtn,
  psFresh, psShort, psHist, psFrames,
  nsiSys, nsiCfg, nsiPak, nsiRum, nsiTrig, nsiCmd, nsiOut, nsiHist, nsiCount,
  mplCfg, mplRumble, mplCard, mplSent, mplHist, mplFrames,
  sgSys, sgType, sgTh, sgSeen, sgPc, sgOut, sgCopy, sgStall, sgIdx, sgHist,
  npKind, npType, npLatch, npSel, npPend, npIsr, npCnt, npOut, npMouse, npTap, npKb, npHist,
  rpSys, rpLine, rpSeen, rpPc, rpTmp, rpOut, rpStall, rpBank, rpCount, rpForce, rpHist,
  cdLen, cdRts, cdPend, cdIsr, cdTx, cdBuf, cdFifo, cdDone, cdBusy, cdHist,
  jvNode, jvSense, jvBuf, jvSent, jvHist,
  wiiOn, wiiSeed, wiiKey, wiiCrypt, wiiForm, wiiRx, wiiFifo, wiiGot, wiiHist,
  kbSystem, kbHeld, kbRepeat, kbTimer, kbFiring, kbShift, kbQueue, kbSeen, kbHist,
  mmSys, mmRaw, mmRel, mmPc, mmCopy, mmReport, mmGot, mmHist, mmCount,
  csLock, csOne, csZero, csIrq, csStart, csEnd, csQuick,
  wrSys, wrCfg, wrOn, wrVal, wrPort, wrHist

Ps    == INSTANCE PsPort
Nsi   == INSTANCE NsiPorts
Maple == INSTANCE MaplePorts
Sega  == INSTANCE SegaPorts
Npiso == INSTANCE NpisoPorts
Row   == INSTANCE RowPorts
Cdi   == INSTANCE CdiPort
Jvs   == INSTANCE JvsNode
Wii   == INSTANCE WiiPort
Kb    == INSTANCE KbMonitor
Mouse == INSTANCE MouseMotion
Stall == INSTANCE CoreStall
Rep   == INSTANCE WiredReports

psVars == <<psRoot, psTap, psIdx, psValid, psOn, psAct, psRx, psId, psPend, psLed, psMot, psBtn,
  psFresh, psShort, psHist, psFrames>>
nsiVars == <<nsiSys, nsiCfg, nsiPak, nsiRum, nsiTrig, nsiCmd, nsiOut, nsiHist, nsiCount>>
mplVars == <<mplCfg, mplRumble, mplCard, mplSent, mplHist, mplFrames>>
sgVars == <<sgSys, sgType, sgTh, sgSeen, sgPc, sgOut, sgCopy, sgStall, sgIdx, sgHist>>
npVars == <<npKind, npType, npLatch, npSel, npPend, npIsr, npCnt, npOut, npMouse, npTap, npKb,
  npHist>>
rpVars == <<rpSys, rpLine, rpSeen, rpPc, rpTmp, rpOut, rpStall, rpBank, rpCount, rpForce, rpHist>>
cdVars == <<cdLen, cdRts, cdPend, cdIsr, cdTx, cdBuf, cdFifo, cdDone, cdBusy, cdHist>>
jvVars == <<jvNode, jvSense, jvBuf, jvSent, jvHist>>
wiiVars == <<wiiOn, wiiSeed, wiiKey, wiiCrypt, wiiForm, wiiRx, wiiFifo, wiiGot, wiiHist>>
kbVars == <<kbSystem, kbHeld, kbRepeat, kbTimer, kbFiring, kbShift, kbQueue, kbSeen, kbHist>>
mmVars == <<mmSys, mmRaw, mmRel, mmPc, mmCopy, mmReport, mmGot, mmHist, mmCount>>
csVars == <<csLock, csOne, csZero, csIrq, csStart, csEnd, csQuick>>
wrVars == <<wrSys, wrCfg, wrOn, wrVal, wrPort, wrHist>>
vars == <<driver, psVars, nsiVars, mplVars, sgVars, npVars, rpVars, cdVars, jvVars, wiiVars, kbVars,
  mmVars, csVars, wrVars>>

Off == "off"
PsOff ==
  /\ psRoot = Off /\ psTap = Off /\ psIdx = Off /\ psValid = Off /\ psOn = Off /\ psAct = Off
  /\ psRx = Off /\ psId = Off /\ psPend = Off /\ psLed = Off /\ psMot = Off /\ psBtn = Off
  /\ psFresh = Off /\ psShort = Off /\ psHist = Off /\ psFrames = Off
NsiOff ==
  /\ nsiSys = Off /\ nsiCfg = Off /\ nsiPak = Off /\ nsiRum = Off /\ nsiTrig = Off
  /\ nsiCmd = Off /\ nsiOut = Off /\ nsiHist = Off /\ nsiCount = Off
MapleOff ==
  /\ mplCfg = Off /\ mplRumble = Off /\ mplCard = Off /\ mplSent = Off /\ mplHist = Off
  /\ mplFrames = Off
SegaOff ==
  /\ sgSys = Off /\ sgType = Off /\ sgTh = Off /\ sgSeen = Off /\ sgPc = Off /\ sgOut = Off
  /\ sgCopy = Off /\ sgStall = Off /\ sgIdx = Off /\ sgHist = Off
NpisoOff ==
  /\ npKind = Off /\ npType = Off /\ npLatch = Off /\ npSel = Off /\ npPend = Off /\ npIsr = Off
  /\ npCnt = Off /\ npOut = Off /\ npMouse = Off /\ npTap = Off /\ npKb = Off /\ npHist = Off
RowOff ==
  /\ rpSys = Off /\ rpLine = Off /\ rpSeen = Off /\ rpPc = Off /\ rpTmp = Off /\ rpOut = Off
  /\ rpStall = Off /\ rpBank = Off /\ rpCount = Off /\ rpForce = Off /\ rpHist = Off
CdiOff ==
  /\ cdLen = Off /\ cdRts = Off /\ cdPend = Off /\ cdIsr = Off /\ cdTx = Off /\ cdBuf = Off
  /\ cdFifo = Off /\ cdDone = Off /\ cdBusy = Off /\ cdHist = Off
JvsOff ==
  /\ jvNode = Off /\ jvSense = Off /\ jvBuf = Off /\ jvSent = Off /\ jvHist = Off
WiiOff ==
  /\ wiiOn = Off /\ wiiSeed = Off /\ wiiKey = Off /\ wiiCrypt = Off /\ wiiForm = Off
  /\ wiiRx = Off /\ wiiFifo = Off /\ wiiGot = Off /\ wiiHist = Off
KbOff ==
  /\ kbSystem = Off /\ kbHeld = Off /\ kbRepeat = Off /\ kbTimer = Off /\ kbFiring = Off
  /\ kbShift = Off /\ kbQueue = Off /\ kbSeen = Off /\ kbHist = Off
MouseOff ==
  /\ mmSys = Off /\ mmRaw = Off /\ mmRel = Off /\ mmPc = Off /\ mmCopy = Off /\ mmReport = Off
  /\ mmGot = Off /\ mmHist = Off /\ mmCount = Off
StallOff ==
  /\ csLock = Off /\ csOne = Off /\ csZero = Off /\ csIrq = Off /\ csStart = Off /\ csEnd = Off
  /\ csQuick = Off
ReportsOff ==
  /\ wrSys = Off /\ wrCfg = Off /\ wrOn = Off /\ wrVal = Off /\ wrPort = Off /\ wrHist = Off

\* The parts that do not run (wired_bare_init calls one entry of the table).
OthersOff(d) ==
  /\ IF d = "ps_spi" THEN TRUE ELSE PsOff
  /\ IF d = "nsi" THEN TRUE ELSE NsiOff
  /\ IF d = "maple" THEN TRUE ELSE MapleOff
  /\ IF d = "sega_io" THEN TRUE ELSE SegaOff
  /\ IF d = "npiso_io" THEN TRUE ELSE NpisoOff
  /\ IF d = "rows" THEN TRUE ELSE RowOff
  /\ IF d = "cdi_uart" THEN TRUE ELSE CdiOff
  /\ IF d = "jvs_uart" THEN TRUE ELSE JvsOff
  /\ IF d = "wii_i2c" THEN TRUE ELSE WiiOff
  /\ IF d = "keyboard" THEN TRUE ELSE KbOff
  /\ IF d = "mouse" THEN TRUE ELSE MouseOff
  /\ IF d = "stall" THEN TRUE ELSE StallOff
  /\ IF d = "reports" THEN TRUE ELSE ReportsOff

Init ==
  \/ driver = "ps_spi" /\ Ps!Init /\ OthersOff("ps_spi")
  \/ driver = "nsi" /\ Nsi!Init /\ OthersOff("nsi")
  \/ driver = "maple" /\ Maple!Init /\ OthersOff("maple")
  \/ driver = "sega_io" /\ Sega!Init /\ OthersOff("sega_io")
  \/ driver = "npiso_io" /\ Npiso!Init /\ OthersOff("npiso_io")
  \/ driver = "rows" /\ Row!Init /\ OthersOff("rows")
  \/ driver = "cdi_uart" /\ Cdi!Init /\ OthersOff("cdi_uart")
  \/ driver = "jvs_uart" /\ Jvs!Init /\ OthersOff("jvs_uart")
  \/ driver = "wii_i2c" /\ Wii!Init /\ OthersOff("wii_i2c")
  \/ driver = "keyboard" /\ Kb!Init /\ OthersOff("keyboard")
  \/ driver = "mouse" /\ Mouse!Init /\ OthersOff("mouse")
  \/ driver = "stall" /\ Stall!Init /\ OthersOff("stall")
  \/ driver = "reports" /\ Rep!Init /\ OthersOff("reports")

Next ==
  \/ driver = "ps_spi" /\ Ps!Next
     /\ UNCHANGED <<driver, nsiVars, mplVars, sgVars, npVars,
        rpVars, cdVars, jvVars, wiiVars, kbVars, mmVars, csVars, wrVars>>
  \/ driver = "nsi" /\ Nsi!Next
     /\ UNCHANGED <<driver, psVars, mplVars, sgVars, npVars,
        rpVars, cdVars, jvVars, wiiVars, kbVars, mmVars, csVars, wrVars>>
  \/ driver = "maple" /\ Maple!Next
     /\ UNCHANGED <<driver, psVars, nsiVars, sgVars, npVars,
        rpVars, cdVars, jvVars, wiiVars, kbVars, mmVars, csVars, wrVars>>
  \/ driver = "sega_io" /\ Sega!Next
     /\ UNCHANGED <<driver, psVars, nsiVars, mplVars, npVars,
        rpVars, cdVars, jvVars, wiiVars, kbVars, mmVars, csVars, wrVars>>
  \/ driver = "npiso_io" /\ Npiso!Next
     /\ UNCHANGED <<driver, psVars, nsiVars, mplVars,
        sgVars, rpVars, cdVars, jvVars, wiiVars, kbVars, mmVars, csVars, wrVars>>
  \/ driver = "rows" /\ Row!Next
     /\ UNCHANGED <<driver, psVars, nsiVars, mplVars, sgVars,
        npVars, cdVars, jvVars, wiiVars, kbVars, mmVars, csVars, wrVars>>
  \/ driver = "cdi_uart" /\ Cdi!Next
     /\ UNCHANGED <<driver, psVars, nsiVars, mplVars, sgVars,
        npVars, rpVars, jvVars, wiiVars, kbVars, mmVars, csVars, wrVars>>
  \/ driver = "jvs_uart" /\ Jvs!Next
     /\ UNCHANGED <<driver, psVars, nsiVars, mplVars, sgVars,
        npVars, rpVars, cdVars, wiiVars, kbVars, mmVars, csVars, wrVars>>
  \/ driver = "wii_i2c" /\ Wii!Next
     /\ UNCHANGED <<driver, psVars, nsiVars, mplVars, sgVars,
        npVars, rpVars, cdVars, jvVars, kbVars, mmVars, csVars, wrVars>>
  \/ driver = "keyboard" /\ Kb!Next
     /\ UNCHANGED <<driver, psVars, nsiVars, mplVars, sgVars,
        npVars, rpVars, cdVars, jvVars, wiiVars, mmVars, csVars, wrVars>>
  \/ driver = "mouse" /\ Mouse!Next
     /\ UNCHANGED <<driver, psVars, nsiVars, mplVars, sgVars,
        npVars, rpVars, cdVars, jvVars, wiiVars, kbVars, csVars, wrVars>>
  \/ driver = "stall" /\ Stall!Next
     /\ UNCHANGED <<driver, psVars, nsiVars, mplVars, sgVars,
        npVars, rpVars, cdVars, jvVars, wiiVars, kbVars, mmVars, wrVars>>
  \/ driver = "reports" /\ Rep!Next
     /\ UNCHANGED <<driver, psVars, nsiVars, mplVars, sgVars,
        npVars, rpVars, cdVars, jvVars, wiiVars, kbVars, mmVars, csVars>>

Spec == Init /\ [][Next]_vars

(***************************************************************************)
(* Properties: those of the parts, each while its part runs.               *)
(***************************************************************************)

\* The variables of the driver that runs have their types.
TypeOK ==
  CASE driver = "ps_spi" -> Ps!TypeOK
    [] driver = "nsi" -> Nsi!TypeOK
    [] driver = "maple" -> Maple!TypeOK
    [] driver = "sega_io" -> Sega!TypeOK
    [] driver = "npiso_io" -> Npiso!TypeOK
    [] driver = "rows" -> Row!TypeOK
    [] driver = "cdi_uart" -> Cdi!TypeOK
    [] driver = "jvs_uart" -> Jvs!TypeOK
    [] driver = "wii_i2c" -> Wii!TypeOK
    [] driver = "keyboard" -> Kb!TypeOK
    [] driver = "mouse" -> Mouse!TypeOK
    [] driver = "stall" -> Stall!TypeOK
    [] driver = "reports" -> Rep!TypeOK

\* A request takes effect once, where the console means it, and only when received whole:
\* the mode, motor or LED a PlayStation pad is told; the pak a write goes to; the cell of a VMU
\* a write was acknowledged for; the report each command of a JVS frame has, its retransmission,
\* and the address the next node is told of.  (A PlayStation's request can act again after a cut
\* frame and, behind the multitap, after single-pad frames: see Ps!OnceFromWholeFrame.)
RequestsTakeEffectOnce ==
  /\ driver = "ps_spi" => Ps!OnceFromWholeFrame
  /\ driver = "nsi" => Nsi!WritesWhereSeen
  /\ driver = "maple" => Maple!AckedIsStored
  /\ driver = "jvs_uart" =>
       Jvs!SenseTellsAddress /\ Jvs!RetransmitSame /\ Jvs!ReportsInOrder

\* What the adapter turns into a message or a status follows the console and the player: the LED
\* and the motors of a PlayStation pad its mode, the pak's status each change of pak, the rumble
\* of a controller the motor of its own port.
FeedbackFollows ==
  /\ driver = "ps_spi" => Ps!FollowsMode
  /\ driver = "nsi" => Nsi!PakChangeTold /\ Nsi!RumbleFollows
  /\ driver = "maple" => Maple!RumbleAsAsked

\* What a console reads on its lines is what its own edges, clocks and requests lead to, taken
\* from the report as it stands: the half of the Mega Drive's cycle, the bit of a NES, SNES or VB
\* pad and the nibble of the Famicom keyboard, the pad of the PC Engine's multitap, the bytes of
\* a CD-i report, the register of the Wii's extension, the buttons of a GameCube.
ReadsAsAsked ==
  /\ driver = "nsi" => Nsi!LastReportStands /\ Nsi!TriggerDelayed
  /\ driver = "sega_io" => Sega!InStep /\ Sega!FrameForPolled
  /\ driver = "npiso_io" => Npiso!BitAsked /\ Npiso!KeyAsked
  /\ driver = "rows" => Row!PadAsked
  /\ driver = "cdi_uart" => Cdi!WholeReports
  /\ driver = "wii_i2c" => Wii!ReadsAsAsked

\* Nobody waits for what can no longer come: core 0 is not held by the Mega Drive's loop outside
\* a poll, the CD-i's port is not left waiting for its transmitter, and core 1 is not left
\* waiting for core 0, but where two halves of the lock cross.
NeverLeftWaiting ==
  /\ driver = "sega_io" => Sega!StallOnlyInPoll
  /\ driver = "cdi_uart" => Cdi!NeverStuck
  /\ driver = "stall" => Stall!EndAnswered

\* A report leaves the port as the controllers and the special actions mean it: nothing reads as
\* pressed once all is released and no turbo outlives its button, a turbo shows and hides its
\* wire, an axis at its end or at rest has the code of that place, and a special action is taken
\* once per press and release.
ReportsSettle ==
  driver = "reports" =>
    /\ Rep!NothingSticks
    /\ Rep!TurboEnds
    /\ Rep!TurboBlinks
    /\ Rep!AxisEnds
    /\ Rep!SpecialOnce

\* Keys and motion reach the console as made: no key repeats that is not held, the keys a console
\* holds for pressed are, a motion is sent once, in the next poll, as far as the format goes. What
\* is beyond the format is dropped with that poll, and nothing else of a motion is.
InputKept ==
  /\ driver = "keyboard" => Kb!RepeatsHeldKey /\ Kb!ConsoleAgrees /\ Kb!ShiftIsHeld
  /\ driver = "mouse" => Mouse!Conserved /\ Mouse!CutToRange

\* A step changes only what was asked for: one port's pins when the other is polled, the speed of
\* a mouse once for a request, the multitap's mode after buttons held in NpLoad latches, the bank
\* of the rows between two scans; a report changes the wires of the buttons it maps and no other,
\* moves an axis the way it was moved, and drops no key that is held.
ChangesOnlyAsAsked ==
  [][ /\ driver = "sega_io" => Sega!OtherPort
      /\ driver = "npiso_io" => Npiso!Speed /\ Npiso!Switch
      /\ driver = "rows" => Row!Scan
      /\ driver = "reports" =>
           Rep!ShownAsPressed /\ Rep!AxisInOrder /\ Rep!KeysStay /\ Rep!MenuHolds ]_vars
=============================================================================
