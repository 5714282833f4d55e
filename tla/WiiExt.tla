------------------------------ MODULE WiiExt -------------------------------
(***************************************************************************)
(* A Wii remote and the extension in its port (hidp/wii.c): plugged or     *)
(* pulled, the remote says so in a status report and falls silent until    *)
(* the adapter sets the reporting mode; before that the adapter opens the  *)
(* extension with two writes, reads its type, and switches a classic       *)
(* controller to its long report and reads the type again.                 *)
(*                                                                         *)
(* The remote carries out the adapter's requests in their order and        *)
(* answers in that order; extensions come and go while they are on their   *)
(* way, and hid_state alone says what an acknowledgment was for.           *)
(***************************************************************************)
EXTENDS Integers, Sequences

CONSTANT
  WxChanges   \* how often the extension is changed

VARIABLES
  wxPlug,     \* the extension in the port
  wxOpen,     \* how far the extension has been opened: 0, 1, 2, or 3 for the long report
  wxReports,  \* the remote sends its reports
  wxState,    \* hid_state
  wxType,     \* ids.subtype, as far as the extension decides it
  wxOut,      \* requests on their way to the remote
  wxIn,       \* what the remote has sent
  wxCount,    \* changes so far
  wxOdd       \* "mixed": a status came while an initialisation was under way

wxVars == <<wxPlug, wxOpen, wxReports, wxState, wxType, wxOut, wxIn, wxCount, wxOdd>>

\* bt_wii_exec_next_state.
Request(s) ==
  CASE s = 0 -> <<"init0">> [] s = 1 -> <<"init1">> [] s = 3 -> <<"8bit">>
    [] s \in {2, 4} -> <<"type">> [] OTHER -> <<>>

\* bt_hid_wii_init has set the reporting mode.
Init ==
  /\ wxPlug = "none" /\ wxOpen = 0 /\ wxReports = TRUE /\ wxState = 0 /\ wxType = "none"
  /\ wxOut = <<>> /\ wxIn = <<>> /\ wxCount = 0 /\ wxOdd = {}

Plugs(p) ==
  /\ wxCount < WxChanges /\ p # wxPlug
  /\ wxPlug' = p /\ wxOpen' = 0 /\ wxReports' = FALSE
  /\ wxIn' = Append(wxIn, <<"status", p # "none">>) /\ wxCount' = wxCount + 1
  /\ wxOdd' = wxOdd \cup (IF wxOut # <<>> \/ wxIn # <<>> THEN {"mixed"} ELSE {})
  /\ UNCHANGED <<wxState, wxType, wxOut>>

\* What the extension says it is; nothing that the table knows when it is not open.
Answer == CASE wxOpen < 2 -> "unknown"
            [] wxPlug = "classic" /\ wxOpen = 3 -> "classic 8 bit" [] OTHER -> wxPlug
\* The remote carries out the oldest request, and a write to the port of nothing fails.
Serves ==
  /\ wxOut # <<>> /\ wxOut' = Tail(wxOut)
  /\ LET req == Head(wxOut) IN
     CASE req = "rep" -> wxReports' = TRUE /\ UNCHANGED <<wxOpen, wxIn>>
       [] req = "type" -> wxIn' = Append(wxIn, <<"data", Answer>>) /\ UNCHANGED <<wxOpen, wxReports>>
       [] OTHER ->
            /\ wxOpen' = CASE wxPlug = "none" -> 0 [] req = "init0" -> 1
                           [] req = "init1" -> IF wxOpen = 1 THEN 2 ELSE wxOpen
                           [] OTHER -> IF wxOpen = 2 THEN 3 ELSE wxOpen
            /\ wxIn' = Append(wxIn, <<"ack", wxPlug = "none">>) /\ UNCHANGED wxReports
  /\ UNCHANGED <<wxPlug, wxState, wxType, wxCount, wxOdd>>

\* BT_HIDP_WII_STATUS.
Status(plugged) ==
  IF plugged THEN [state |-> 0, out |-> <<"init0">>] ELSE [state |-> wxState, out |-> <<"rep">>]

\* BT_HIDP_WII_RD_DATA: a type the table knows is taken over.
Typed(t) == IF t = "unknown" THEN wxType ELSE t

\* BT_HIDP_WII_RD_DATA, what is asked for next.
Data(t) ==
  IF t = "classic" /\ wxState < 3 THEN [state |-> 3, out |-> Request(3)]
                                  ELSE [state |-> wxState, out |-> <<"rep">>]

\* BT_HIDP_WII_ACK of a write: a refused one is sent again as hid_state says.
Ack(err) ==
  IF err THEN [state |-> wxState, out |-> Request(wxState)]
         ELSE [state |-> wxState + 1, out |-> Request(wxState + 1)]

Takes ==
  /\ wxIn # <<>> /\ wxIn' = Tail(wxIn)
  /\ LET msg == Head(wxIn)
         does == CASE msg[1] = "status" -> Status(msg[2])
                   [] msg[1] = "data" -> Data(msg[2]) [] OTHER -> Ack(msg[2])
     IN /\ wxState' = does.state /\ wxOut' = wxOut \o does.out
        /\ wxType' = CASE msg[1] = "status" -> "none" [] msg[1] = "data" -> Typed(msg[2])
                       [] OTHER -> wxType
  /\ UNCHANGED <<wxPlug, wxOpen, wxReports, wxCount, wxOdd>>

Next == Serves \/ Takes \/ \E p \in {"none", "nunchuk", "classic"} : Plugs(p)

Spec == Init /\ [][Next]_wxVars

TypeOK ==
  /\ wxOpen \in 0..3 /\ wxReports \in BOOLEAN /\ wxState \in 0..8 /\ wxCount \in 0..WxChanges
  /\ wxType \in {"none", "nunchuk", "classic", "classic 8 bit"}

Quiet == wxOut = <<>> /\ wxIn = <<>>

\* When nothing is on its way the remote reports: each status it sent, and with it fell silent, has
\* been followed by the reporting mode (wii.c:168, 191).
Reporting == Quiet => wxReports

\* ... and the reports are read as those of the extension in the port (wii.c:176), opened and in
\* the long form of it if it has one, unless it was changed while another was being opened.
TypeIsPlugged ==
  (Quiet /\ "mixed" \notin wxOdd)
     => wxType = IF wxPlug = "classic" THEN "classic 8 bit" ELSE wxPlug

(***************************************************************************)
(* What is inductive.  Silent and with only writes and acknowledgments on  *)
(* their way, the remote is before the step whose acknowledgment asks for  *)
(* the type; and an initialisation that nothing comes between goes through *)
(* its steps one by one.                                                   *)
(***************************************************************************)
Plugged == {"none", "nunchuk", "classic"}
Known == Plugged \cup {"classic 8 bit"}
Writes == {"init0", "init1", "8bit"}
Messages == ({"status", "ack"} \X BOOLEAN) \cup ({"data"} \X (Known \cup {"unknown"}))

Types ==
  /\ wxPlug \in Plugged /\ wxOpen \in 0..3 /\ wxReports \in BOOLEAN /\ wxState \in Nat
  /\ wxType \in Known /\ wxOut \in Seq(Writes \cup {"type", "rep"}) /\ wxIn \in Seq(Messages)
  /\ wxCount \in Nat

Answered ==
  (~wxReports /\ wxOut \in Seq(Writes) /\ wxIn \in Seq({"ack"} \X BOOLEAN))
     => ~Quiet /\ wxState <= 3

Shown == wxType = IF wxPlug = "classic" THEN "classic 8 bit" ELSE wxPlug
Sent(req, state, open) ==
  wxOut = <<req>> /\ wxIn = <<>> /\ wxState = state /\ wxOpen = open /\ wxPlug # "none"
Said(msg, state, open) ==
  wxOut = <<>> /\ wxIn = <<msg>> /\ wxState = state /\ wxOpen = open /\ wxPlug # "none"
Done == <<"ack", FALSE>>
Opening ==
  \/ Sent("init0", 0, 0) \/ Said(Done, 0, 1) \/ Sent("init1", 1, 1) \/ Said(Done, 1, 2)
  \/ Sent("type", 2, 2) \/ Said(<<"data", wxPlug>>, 2, 2)
Longer ==
  /\ wxPlug = "classic"
  /\ \/ Sent("8bit", 3, 2) \/ Said(Done, 3, 3)
     \/ Sent("type", 4, 3) \/ Said(<<"data", "classic 8 bit">>, 4, 3)
Phase ==
  \/ (wxOut = <<>> \/ wxOut = <<"rep">>) /\ wxIn = <<>> /\ Shown
  \/ wxOut = <<>> /\ wxIn = <<<<"status", wxPlug # "none">>>> /\ wxOpen = 0
  \/ Opening \/ Longer
Orderly == "mixed" \notin wxOdd => Phase

Ind == Types /\ Answered /\ Orderly
============================================================================
