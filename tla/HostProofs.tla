----------------------------- MODULE HostProofs -----------------------------
(***************************************************************************)
(* The theorems about core 0, whatever part of it runs: the invariant of a *)
(* part, which HostParts proves of the part's own steps, holds in every    *)
(* behaviour in which the part runs.                                       *)
(***************************************************************************)
EXTENDS HostSide, TLAPS

\* What runs is chosen at the start.
LEMMA PartStays == [Next]_vars => part' = part
BY DEF Next, vars

\* The invariant of the manager holds while it runs.
LEMMA ManagerInvariant == Spec => [](part = "manager" => Sys!Ind)
<1>1. Init => (part = "manager" => Sys!Ind)
  BY ManagerInit DEF Init
<1>2. (part = "manager" => Sys!Ind) /\ [Next]_vars => (part = "manager" => Sys!Ind)'
  <2>1. SUFFICES ASSUME part = "manager" => Sys!Ind, [Next]_vars, part' = "manager"
                 PROVE  Sys!Ind'
    OBVIOUS
  <2>2. part = "manager"
    BY <2>1, PartStays
  <2>3. Sys!Next \/ UNCHANGED Sys!syVars
    BY <2>1, <2>2 DEF Next, vars, state, Sys!syVars
  <2>4. QED
    BY <2>1, <2>2, <2>3, ManagerStep
<1>3. QED
  BY <1>1, <1>2, PTL DEF Spec

\* PowerAsPressed holds for every queue, thresholds and times: the firmware is erased and the
\* console switched off only by the holds and presses meant for it, and what is off stays off.
THEOREM PowerTheorem == Spec => []PowerAsPressed
<1>1. (part = "manager" => Sys!Ind) => PowerAsPressed
  BY DEF PowerAsPressed, Sys!Ind, Sys!Causes
<1>2. QED
  BY <1>1, ManagerInvariant, PTL

\* The invariant of the ports holds while they run.
LEMMA PortsInvariant == Spec => [](part = "ports" => Map!Ind)
<1>1. Init => (part = "ports" => Map!Ind)
  BY PortsInit DEF Init
<1>2. (part = "ports" => Map!Ind) /\ [Next]_vars => (part = "ports" => Map!Ind)'
  <2>1. SUFFICES ASSUME part = "ports" => Map!Ind, [Next]_vars, part' = "ports"
                 PROVE  Map!Ind'
    OBVIOUS
  <2>2. part = "ports"
    BY <2>1, PartStays
  <2>3. Map!Next \/ UNCHANGED Map!pmVars
    BY <2>1, <2>2 DEF Next, vars, state, Map!pmVars, Map!mapVars, Map!devVars, Map!histVars
  <2>4. QED
    BY <2>1, <2>2, <2>3, PortsStep
<1>3. QED
  BY <1>1, <1>2, PTL DEF Spec

\* PlayersAgree holds for every number of ports and devices, and however often anything changes:
\* once a pass is over the devices have the free ports in their order, the driver and the LEDs
\* have been told, and the devices that are gone hold no button.
THEOREM PlayersTheorem == Spec => []PlayersAgree
<1>1. (part = "ports" => Map!Ind) => PlayersAgree
  BY PortsAgree DEF PlayersAgree
<1>2. QED
  BY <1>1, PortsInvariant, PTL

\* The invariant of the reads holds while they run.
LEMMA ReadsInvariant == Spec => [](part = "reads" => Rd!Ind)
<1>1. Init => (part = "reads" => Rd!Ind)
  BY ReadsInit DEF Init
<1>2. (part = "reads" => Rd!Ind) /\ [Next]_vars => (part = "reads" => Rd!Ind)'
  <2>1. SUFFICES ASSUME part = "reads" => Rd!Ind, [Next]_vars, part' = "reads"
                 PROVE  Rd!Ind'
    OBVIOUS
  <2>2. part = "reads"
    BY <2>1, PartStays
  <2>3. Rd!Next \/ UNCHANGED Rd!crVars
    BY <2>1, <2>2 DEF Next, vars, state, Rd!crVars
  <2>4. QED
    BY <2>1, <2>2, <2>3, ReadsStep
<1>3. QED
  BY <1>1, <1>2, PTL DEF Spec

\* AnswersWhole holds for every MTU, mapping, card and number of clients: a client finds all that
\* is declared, reads a window of the mapping whole and the card without a gap, and a directory is
\* closed a second time only where a client had asked for its end, and then opens or closes another.
THEOREM ReadsTheorem == Spec => []AnswersWhole
<1>1. (part = "reads" => Rd!Ind) => AnswersWhole
  BY ReadsAnswers DEF AnswersWhole
<1>2. QED
  BY <1>1, ReadsInvariant, PTL

\* The invariant of the upgrade holds while it runs.
LEMMA UpgradeInvariant == Spec => [](part = "upgrade" => Up!Ind)
<1>1. Init => (part = "upgrade" => Up!Ind)
  BY UpgradeInit DEF Init
<1>2. (part = "upgrade" => Up!Ind) /\ [Next]_vars => (part = "upgrade" => Up!Ind)'
  <2>1. SUFFICES ASSUME part = "upgrade" => Up!Ind, [Next]_vars, part' = "upgrade"
                 PROVE  Up!Ind'
    OBVIOUS
  <2>2. part = "upgrade"
    BY <2>1, PartStays
  <2>3. Up!Next \/ UNCHANGED Up!cuVars
    BY <2>1, <2>2 DEF Next, vars, state, Up!cuVars
  <2>4. QED
    BY <2>1, <2>2, <2>3, UpgradeStep
<1>3. QED
  BY <1>1, <1>2, PTL DEF Spec

\* The invariant of the settings holds while they run.
LEMMA SettingsInvariant == Spec => [](part = "settings" => Cfg!Ind)
<1>1. Init => (part = "settings" => Cfg!Ind)
  BY SettingsInit DEF Init
<1>2. (part = "settings" => Cfg!Ind) /\ [Next]_vars => (part = "settings" => Cfg!Ind)'
  <2>1. SUFFICES ASSUME part = "settings" => Cfg!Ind, [Next]_vars, part' = "settings"
                 PROVE  Cfg!Ind'
    OBVIOUS
  <2>2. part = "settings"
    BY <2>1, PartStays
  <2>3. Cfg!Next \/ UNCHANGED Cfg!csvVars
    BY <2>1, <2>2 DEF Next, vars, state, Cfg!csvVars
  <2>4. QED
    BY <2>1, <2>2, <2>3, SettingsStep
<1>3. QED
  BY <1>1, <1>2, PTL DEF Spec

\* ConfigurationKept holds for every size of a mapping, number of devices, games, edits and power
\* cuts, and whichever file cannot be opened or read: an upgrade keeps a user's mapping and gives it
\* the combos once, what is in use is whole, and what the file has unless that could not be opened,
\* and an edit is only in the files it was meant for.
THEOREM ConfigurationTheorem == Spec => []ConfigurationKept
<1>1. (part = "upgrade" => Up!Ind) /\ (part = "settings" => Cfg!Ind) => ConfigurationKept
  BY UpgradeKeeps, SettingsKeeps DEF ConfigurationKept
<1>2. QED
  BY <1>1, UpgradeInvariant, SettingsInvariant, PTL

\* The invariant of the keys holds while they are used.
LEMMA KeysInvariant == Spec => [](part = "keys" => Keys!Ind)
<1>1. Init => (part = "keys" => Keys!Ind)
  BY KeysInit DEF Init
<1>2. (part = "keys" => Keys!Ind) /\ [Next]_vars => (part = "keys" => Keys!Ind)'
  <2>1. SUFFICES ASSUME part = "keys" => Keys!Ind, [Next]_vars, part' = "keys"
                 PROVE  Keys!Ind'
    OBVIOUS
  <2>2. part = "keys"
    BY <2>1, PartStays
  <2>3. Keys!Next \/ UNCHANGED Keys!lkVars
    BY <2>1, <2>2 DEF Next, vars, state, Keys!lkVars
  <2>4. QED
    BY <2>1, <2>2, <2>3, KeysStep
<1>3. QED
  BY <1>1, <1>2, PTL DEF Spec

\* The invariant of the services holds while they are looked for.
LEMMA ServicesInvariant == Spec => [](part = "services" => Att!Ind)
<1>1. Init => (part = "services" => Att!Ind)
  BY ServicesInit DEF Init
<1>2. (part = "services" => Att!Ind) /\ [Next]_vars => (part = "services" => Att!Ind)'
  <2>1. SUFFICES ASSUME part = "services" => Att!Ind, [Next]_vars, part' = "services"
                 PROVE  Att!Ind'
    OBVIOUS
  <2>2. part = "services"
    BY <2>1, PartStays
  <2>3. Att!Next \/ UNCHANGED Att!acVars
    BY <2>1, <2>2 DEF Next, vars, state, Att!acVars
  <2>4. QED
    BY <2>1, <2>2, <2>3, ServicesStep
<1>3. QED
  BY <1>1, <1>2, PTL DEF Spec

\* PeersMoveOn holds for every table, number of peers, pairings and power cuts, and however many
\* attributes an answer has: an answered search is followed by one further on, and a peer leaves
\* the table only for a reason.
THEOREM MovesTheorem == Spec => PeersMoveOn
<1> DEFINE Moves == /\ part = "services" => Att!MovesOn
                    /\ part = "keys" => Keys!Leaves
<1>1. ASSUME part = "services" => Att!Ind, part = "keys" => Keys!Ind, [Next]_vars
      PROVE  [Moves]_vars
  <2>1. CASE Next /\ part = "services"
    <3>1. Att!Next
      BY <2>1 DEF Next
    <3>2. Att!MovesOn
      BY <1>1, <2>1, <3>1, ServicesMove
    <3>3. QED
      BY <2>1, <3>2
  <2>2. CASE Next /\ part = "keys"
    <3>1. Keys!Next
      BY <2>2 DEF Next
    <3>2. Keys!Leaves
      BY <1>1, <2>2, <3>1, KeysLeave
    <3>3. QED
      BY <2>2, <3>2
  <2>3. CASE part # "services" /\ part # "keys"
    BY <2>3
  <2>4. QED
    BY <1>1, <2>1, <2>2, <2>3
<1> HIDE DEF Moves
<1>2. Spec => [][Moves]_vars
  BY <1>1, KeysInvariant, ServicesInvariant, PTL DEF Spec
<1>3. QED
  BY <1>2 DEF Moves, PeersMoveOn

\* The invariant of a Switch controller holds while one is initialised.
LEMMA SwitchInvariant == Spec => [](part = "switch" => Sw!Ind)
<1>1. Init => (part = "switch" => Sw!Ind)
  BY SwitchInit DEF Init
<1>2. (part = "switch" => Sw!Ind) /\ [Next]_vars => (part = "switch" => Sw!Ind)'
  <2>1. SUFFICES ASSUME part = "switch" => Sw!Ind, [Next]_vars, part' = "switch"
                 PROVE  Sw!Ind'
    OBVIOUS
  <2>2. part = "switch"
    BY <2>1, PartStays
  <2>3. Sw!Next \/ UNCHANGED Sw!swVars
    BY <2>1, <2>2 DEF Next, vars, state, Sw!swVars
  <2>4. QED
    BY <2>1, <2>2, <2>3, SwitchStep
<1>3. QED
  BY <1>1, <1>2, PTL DEF Spec

\* The invariant of a Wii remote holds while one is played with.
LEMMA WiiInvariant == Spec => [](part = "wii" => Wx!Ind)
<1>1. Init => (part = "wii" => Wx!Ind)
  BY WiiInit DEF Init
<1>2. (part = "wii" => Wx!Ind) /\ [Next]_vars => (part = "wii" => Wx!Ind)'
  <2>1. SUFFICES ASSUME part = "wii" => Wx!Ind, [Next]_vars, part' = "wii"
                 PROVE  Wx!Ind'
    OBVIOUS
  <2>2. part = "wii"
    BY <2>1, PartStays
  <2>3. Wx!Next \/ UNCHANGED Wx!wxVars
    BY <2>1, <2>2 DEF Next, vars, state, Wx!wxVars
  <2>4. QED
    BY <2>1, <2>2, <2>3, WiiStep
<1>3. QED
  BY <1>1, <1>2, PTL DEF Spec

\* The invariant of a BR/EDR controller holds while one has the slot.
LEMMA LinkInvariant == Spec => [](part = "link" => Hid!Ind)
<1>1. Init => (part = "link" => Hid!Ind)
  BY HidInitStep DEF Init
<1>2. (part = "link" => Hid!Ind) /\ [Next]_vars => (part = "link" => Hid!Ind)'
  <2>1. SUFFICES ASSUME part = "link" => Hid!Ind, [Next]_vars, part' = "link"
                 PROVE  Hid!Ind'
    OBVIOUS
  <2>2. part = "link"
    BY <2>1, PartStays
  <2>3. Hid!Next \/ UNCHANGED Hid!hlVars
    BY <2>1, <2>2 DEF Next, vars, state, Hid!hlVars
  <2>4. QED
    BY <2>1, <2>2, <2>3, HidStep
<1>3. QED
  BY <1>1, <1>2, PTL DEF Spec

\* SetUpForWhatItIs holds for every number and kind of peers, of messages and of retries, and
\* however often an extension is changed: a controller is initialised for what it is, once, from
\* the whole of its answers; a Switch controller's init takes its steps and its timer ends; and a
\* Wii remote reports, as what is plugged into it.
THEOREM SetUpTheorem == Spec => []SetUpForWhatItIs
<1>1. (part = "link" => Hid!Ind) /\ (part = "switch" => Sw!Ind) /\ (part = "wii" => Wx!Ind)
         => SetUpForWhatItIs
  BY HidSetUp, SwitchEnds, WiiSettled DEF SetUpForWhatItIs
<1>2. QED
  BY <1>1, LinkInvariant, SwitchInvariant, WiiInvariant, PTL
=============================================================================
