------------------------------ MODULE HostSide ------------------------------
(***************************************************************************)
(* Core 0 of the adapter: the Bluetooth host, the configuration and the    *)
(* system manager.  Each part below has the tasks, callbacks and peers     *)
(* that meet in it as its own actions; what a part takes from another (a   *)
(* link going down, a file rewritten, a device becoming ready) is an       *)
(* action of its environment.  A behaviour of this specification is one of *)
(* the part chosen at the start; the parts share the variables of          *)
(* HostParts, which has those whose invariants are proved.                 *)
(***************************************************************************)
EXTENDS HostParts

CONSTANTS SpDevs, SpDist, SpLinks, SpCap, AfLinks, AfParts, AfPackets, AfSends, AfQueue,
  TlBlock, TlBlocks, TlHdr, TlLens, TlWriters, TlRecords, MpCommands, RrHeld, HpHeld, HpDevices

VARIABLE
  part      \* what runs; the variables it has no use for are "off"

Smp == INSTANCE SmpPair WITH
  spDev <- s1, spPeer <- s2, spSent <- s3, spRandQ <- s4, spEncQ <- s5, spCmds <- s6, spRnd <- s7,
  spKeys <- s8, spLinks <- s9, spOdd <- s10
Acl == INSTANCE AclFlow WITH
  afWire <- s1, afBuf <- s2, afSize <- s3, afGot <- s4, afIds <- s5, afTxq <- s6, afReady <- s7,
  afHas <- s8, afSent <- s9, afSends <- s10
Mon == INSTANCE TraceLog WITH
  tlOffset <- s1, tlHdr <- s2, tlCard <- s3, tlPc <- s4, tlRec <- s5, tlLog <- s6, tlSpilt <- s7
Mp == INSTANCE Mapping WITH
  mpMap <- s1, mpSource <- s2, mpOut <- s3, mpMacro <- s4, mpHist <- s5
Raw == INSTANCE RawReports WITH
  rrPad <- s1, rrDev <- s2, rrHeard <- s3, rrBase <- s4
Hp == INSTANCE HidPads WITH
  hpPad <- s1, hpDev <- s2, hpHeard <- s3, hpHist <- s4

state == <<s1, s2, s3, s4, s5, s6, s7, s8, s9, s10, s11, s12, s13, s14, s15, s16, s17, s18, s19,
           s20, s21, s22>>
vars == <<part, state>>
rest12 == <<s13, s14, s15, s16, s17, s18, s19, s20, s21, s22>>
rest11 == <<s12, rest12>>
rest10 == <<s11, rest11>>
rest9 == <<s10, rest10>>
rest8 == <<s9, rest9>>
rest7 == <<s8, rest8>>
rest6 == <<s7, rest7>>
rest5 == <<s6, rest6>>
rest4 == <<s5, rest5>>

Off == "off"
Off12 == /\ s13 = Off /\ s14 = Off /\ s15 = Off /\ s16 = Off /\ s17 = Off
         /\ s18 = Off /\ s19 = Off /\ s20 = Off /\ s21 = Off /\ s22 = Off
Off11 == s12 = Off /\ Off12
Off10 == s11 = Off /\ Off11
Off9 == s10 = Off /\ Off10
Off8 == s9 = Off /\ Off9
Off7 == s8 = Off /\ Off8
Off6 == s7 = Off /\ Off7
Off5 == s6 = Off /\ Off6
Off4 == s5 = Off /\ Off5

Init ==
  \/ part = "link" /\ Hid!Init /\ Off10
  \/ part = "switch" /\ Sw!Init /\ Off7
  \/ part = "wii" /\ Wx!Init /\ Off9
  \/ part = "pairing" /\ Smp!Init /\ Off10
  \/ part = "services" /\ Att!Init /\ Off11
  \/ part = "keys" /\ Keys!Init /\ Off8
  \/ part = "packets" /\ Acl!Init /\ Off10
  \/ part = "upgrade" /\ Up!Init /\ Off6
  \/ part = "settings" /\ Cfg!Init /\ Off12
  \/ part = "reads" /\ Rd!Init /\ Off9
  \/ part = "trace" /\ Mon!Init /\ Off7
  \/ part = "ports" /\ Map!Init
  \/ part = "manager" /\ Sys!Init
  \/ part = "mapping" /\ Mp!Init /\ Off5
  \/ part = "pads" /\ Raw!Init /\ Off4
  \/ part = "described" /\ Hp!Init /\ Off4

Next ==
  \/ part = "link" /\ Hid!Next /\ UNCHANGED <<part, rest10>>
  \/ part = "switch" /\ Sw!Next /\ UNCHANGED <<part, rest7>>
  \/ part = "wii" /\ Wx!Next /\ UNCHANGED <<part, rest9>>
  \/ part = "pairing" /\ Smp!Next /\ UNCHANGED <<part, rest10>>
  \/ part = "services" /\ Att!Next /\ UNCHANGED <<part, rest11>>
  \/ part = "keys" /\ Keys!Next /\ UNCHANGED <<part, rest8>>
  \/ part = "packets" /\ Acl!Next /\ UNCHANGED <<part, rest10>>
  \/ part = "upgrade" /\ Up!Next /\ UNCHANGED <<part, rest6>>
  \/ part = "settings" /\ Cfg!Next /\ UNCHANGED <<part, rest12>>
  \/ part = "reads" /\ Rd!Next /\ UNCHANGED <<part, rest9>>
  \/ part = "trace" /\ Mon!Next /\ UNCHANGED <<part, rest7>>
  \/ part = "ports" /\ Map!Next /\ UNCHANGED part
  \/ part = "manager" /\ Sys!Next /\ UNCHANGED part
  \/ part = "mapping" /\ Mp!Next /\ UNCHANGED <<part, rest5>>
  \/ part = "pads" /\ Raw!Next /\ UNCHANGED <<part, rest4>>
  \/ part = "described" /\ Hp!Next /\ UNCHANGED <<part, rest4>>

Spec == Init /\ [][Next]_vars

(***************************************************************************)
(* Properties: those of the parts, each while its part runs.               *)
(***************************************************************************)

\* The variables of the part that runs have their types.
TypeOK ==
  CASE part = "link" -> Hid!TypeOK
    [] part = "switch" -> Sw!TypeOK
    [] part = "wii" -> Wx!TypeOK
    [] part = "pairing" -> Smp!TypeOK
    [] part = "services" -> Att!TypeOK
    [] part = "keys" -> Keys!TypeOK
    [] part = "packets" -> Acl!TypeOK
    [] part = "upgrade" -> Up!TypeOK
    [] part = "settings" -> Cfg!TypeOK
    [] part = "reads" -> Rd!TypeOK
    [] part = "trace" -> Mon!TypeOK
    [] part = "ports" -> Map!TypeOK
    [] part = "manager" -> Sys!TypeOK
    [] part = "mapping" -> Mp!TypeOK
    [] part = "pads" -> Raw!TypeOK
    [] part = "described" -> Hp!TypeOK

\* A controller is set up for what it is, once, from all it said and in the order it needs: its
\* type from its name (hidp.c:93), its vendor and its reports from the answers to both searches
\* (host.c:297), its steps, calibration and extension from its own answers, and only an
\* initialised one is sent rumble and LEDs (host.c:275).
SetUpForWhatItIs ==
  /\ part = "link" =>
       Hid!RightInit /\ Hid!InitOnce /\ Hid!ParsesWhole /\ Hid!DoneIsInitialised /\ Hid!ControlFirst
  /\ part = "switch" => Sw!StepsTaken /\ Sw!CallbacksEnd
  /\ part = "wii" => Wx!Reporting /\ Wx!TypeIsPlugged

\* Who has a key gets through and who has none pairs: BR/EDR peers that can encrypt are asked to
\* (hci.c:1491); two LE pairings at once keep their numbers apart (smp.c:270), the adapter's keys
\* leave encrypted (smp.c:284) and a key refused is not tried again (hci.c:1564); the table
\* answers a peer once, with its last key (host.c:684, 728), after a restart too if the file of the
\* last change could be written and read (host.c:117, 135).
KeysRight ==
  /\ part = "link" => Hid!EncryptedIfOffered
  /\ part = "pairing" =>
       /\ Smp!PairsWhole /\ Smp!InStep /\ Smp!KeysEncrypted
       /\ Smp!LookedUp /\ Smp!PairsAfterRefusal
  /\ part = "keys" => Keys!OneEntryEach /\ Keys!AnswersRight

\* What comes in pieces is used whole: the packets of a link (host.c:323), one at a time towards
\* the controller (host.c:186), the report map and the reports of an LE controller (att_hid.c:210,
\* 324), in bounds unless its service goes on behind a full table or its map is larger than the
\* buffer (att_hid.c:233, 323), the records of the trace (mon.c:75), in bounds (mon.c:87).
PiecesPutTogether ==
  /\ part = "packets" => Acl!WholeIfAlone /\ Acl!OneAtATime
  /\ part = "services" => Att!TableRight /\ Att!MapWhole /\ Att!InTable
  /\ part = "trace" => Mon!AloneIsWhole /\ Mon!EndKept

\* What the user configured is there and in use, in the file it was meant for, whole: after an
\* upgrade (config.c:147), after the power went (config.c:351), whichever game runs (config.c:419),
\* as long as the files could be opened (config.c:381) and read (config.c:345): the client is
\* answered the same.
ConfigurationKept ==
  /\ part = "upgrade" => Up!CombosOnce /\ Up!MappingKept /\ Up!FileIsRam /\ Up!WholeOrReset
  /\ part = "settings" => Cfg!RightFile /\ Cfg!ToldIsKept /\ Cfg!SourceThere

\* What a client of the configuration service reads is what there is: every service and
\* characteristic (att_cfg.c:154), a mapping (att_cfg.c:256) and the card (memory_card.c:167)
\* without gap or repetition, and one directory, which is closed once unless a client had asked for
\* its end (att_cfg.c:512).
AnswersWhole ==
  part = "reads" => Rd!FoundRight /\ Rd!WindowWhole /\ Rd!CardInOrder /\ Rd!OneDirectory

\* The devices, their ports, the driver, the player LEDs and the adapter's own agree on who plays
\* where once a pass of wired_port_hdl is over, whatever the Bluetooth callback did between two
\* steps of it (manager.c:289, 294, 327), and who is gone leaves no button pressed.
PlayersAgree ==
  part = "ports" =>
    Map!InOrder /\ Map!DriverTold /\ Map!PlayerLedTold /\ Map!LedsRight /\ Map!GoneReleased

\* Only the holds and presses meant for it erase the firmware's data or switch the console off;
\* off, it stays off and the adapter does not search (manager.c:260, 366, 386).
PowerAsPressed ==
  part = "manager" =>
    Sys!ErasedOnHold /\ Sys!OffOnDouble /\ Sys!QuietWhenOff /\ Sys!StaysOff

\* What the player does is what the game is told: the keys that are held, however the controller
\* reports them and whenever it was set up (sw.c:284, wii.c:332), or wherever the description it
\* sends of itself places them (hid_parser.c:490, hid_generic.c:575), its axes as far as they are
\* pushed (ps.c:140, xbox.c:190, hid_generic.c:709), each taken to the port's buttons by all of the
\* mappings it has and to the whole of an axis by the strongest (adapter.c:66, 150), and a chord is
\* one command (macro.c:47).  What the game does is felt in the motors of a controller that
\* described them (hid_generic.c:812).
AsPlayed ==
  /\ part = "pads" => Raw!HeardAsHeld /\ Raw!AxesAsPushed /\ Raw!NothingLost /\ Raw!GuessedOnce
  /\ part = "described" =>
       Hp!HeardAsHeld /\ Hp!AxesAsPushed /\ Hp!NothingLost /\ Hp!FeltAsSent
  /\ part = "mapping" =>
       Mp!StrongestWins /\ Mp!FullTravel /\ Mp!NothingSticks /\ Mp!OncePerChord

\* The search for services moves on with each answer, unless the last service has a single handle
\* (att_hid.c:177), and a peer leaves the table of keys only for want of a free entry, because
\* its key was refused, or because the power went with a key on its way.
PeersMoveOn ==
  [][ /\ part = "services" => Att!MovesOn
      /\ part = "keys" => Keys!Leaves ]_vars
=============================================================================
