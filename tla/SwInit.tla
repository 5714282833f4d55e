------------------------------ MODULE SwInit -------------------------------
(***************************************************************************)
(* The initialisation of a Switch controller (hidp/sw.c): four steps, each *)
(* ended by the controller's acknowledgment, the second of them a chain of *)
(* four reads of its flash.  A timer sends the step again when no answer   *)
(* has come for 100 ms, and moves on after SW_INIT_STATE_RETRY_MAX times.  *)
(*                                                                         *)
(* The timer's callback runs in the esp_timer task and the handler of the  *)
(* acknowledgments in the Bluetooth callback, so one can come between two  *)
(* steps of the other; and an answer that is late has a second one behind  *)
(* it, for which the handler moves on once more.                           *)
(***************************************************************************)
EXTENDS Integers, Sequences

CONSTANTS
  SwRetry,   \* SW_INIT_STATE_RETRY_MAX
  SwFlight   \* requests on their way to the controller

VARIABLES
  swState,   \* hid_state: 0 READ_INFO, 1 READ_CALIB, 2 EN_RUMBLE, 3 SET_LED
  swRetries, \* hid_retry_cnt
  swTimer,   \* the timer: armed, its callback about to arm it again, expired for good, deleted
  swSent,    \* the requests the controller has not answered
  swFlags,   \* BT_DEV_CALIB_SET, BT_DEV_HID_INIT_DONE, and the steps the controller has taken
  swFired,   \* the callback's runs
  swOdd      \* "late": an answer came for another step than the present; "silent": one never came

swVars == <<swState, swRetries, swTimer, swSent, swFlags, swFired, swOdd>>

SetLed == 3
\* As often as the callback can run before the last step is given up.
Fires == (SetLed + 1) * (SwRetry + 2)
\* bt_hid_sw_exec_next_state.
Request(s) == CASE s = 0 -> "info" [] s = 1 -> "603D" [] s = 2 -> "rumble" [] OTHER -> "led"

Init ==
  /\ swState = 0 /\ swRetries = 0 /\ swTimer = "armed" /\ swSent = <<>>
  /\ swFlags = {} /\ swFired = 0 /\ swOdd = {}

\* The callback has tried the last step often enough: it deletes the timer.
GivesUp == swState = SetLed

\* bt_hid_sw_init_callback, up to the request it sends.
Fire ==
  /\ swTimer = "armed" /\ Len(swSent) < SwFlight /\ swFired <= Fires
  /\ swFired' = swFired + 1
  /\ IF swRetries <= SwRetry
       THEN /\ swRetries' = swRetries + 1 /\ swState' = swState /\ swTimer' = "callback"
            /\ swSent' = Append(swSent, Request(swState))
     ELSE IF GivesUp
       THEN /\ swTimer' = "deleted" /\ swRetries' = swRetries + 1
            /\ UNCHANGED <<swState, swSent>>
       ELSE /\ swRetries' = 0 /\ swState' = swState + 1 /\ swTimer' = "callback"
            /\ swSent' = Append(swSent, Request(swState + 1))
  /\ UNCHANGED <<swFlags, swOdd>>

\* ... and from there: the timer is armed again, unless the handler deleted it meanwhile.
Rearm ==
  /\ swTimer \in {"callback", "callback deleted"}
  /\ swTimer' = IF swTimer = "callback" THEN "armed" ELSE "deleted"
  /\ swFlags' = swFlags \cup {"done"}
  /\ UNCHANGED <<swState, swRetries, swSent, swFired, swOdd>>

\* Mutant of NextRead: the chain of reads ends with its second.
NextReadShort(of) == IF of = "603D" THEN "6086" ELSE "none"

\* What the answer to a read is followed by.
NextRead(of) ==
  CASE of = "603D" -> "6086" [] of = "6086" -> "6098" [] of = "6098" -> "8010" [] OTHER -> "none"

\* The step a request belongs to.
Step(of) == CASE of = "info" -> 0 [] of = "rumble" -> 2 [] of = "led" -> SetLed [] OTHER -> 1
Deleted == IF swTimer \in {"callback", "callback deleted"} THEN "callback deleted" ELSE "deleted"
\* esp_timer_restart arms a timer that is there; the callback about to arm it does so anyway.
Moves(of) ==
  /\ swState' = swState + 1 /\ swSent' = Append(Tail(swSent), Request(swState + 1))
  /\ swOdd' = swOdd \cup (IF Step(of) # swState THEN {"late"} ELSE {})
  /\ UNCHANGED swTimer

\* BT_HIDP_SW_SUBCMD_ACK: the controller has carried out the oldest request.
Ack ==
  /\ swSent # <<>>
  /\ LET of == Head(swSent) IN
     /\ swFlags' = swFlags \cup {of} \cup (IF of = "8010" THEN {"calib"} ELSE {})
     /\ CASE of = "led" ->
               swTimer' = Deleted /\ swSent' = Tail(swSent) /\ UNCHANGED <<swState, swOdd>>
          [] NextRead(of) # "none" /\ of \notin {"info", "rumble", "8010"} ->
               swSent' = Append(Tail(swSent), NextRead(of)) /\ UNCHANGED <<swTimer, swState, swOdd>>
          [] OTHER -> Moves(of)
  /\ UNCHANGED <<swRetries, swFired>>

\* The controller does not answer.
Lost ==
  /\ swSent # <<>> /\ swSent' = Tail(swSent) /\ swOdd' = swOdd \cup {"silent"}
  /\ UNCHANGED <<swState, swRetries, swTimer, swFlags, swFired>>

Next == Fire \/ Rearm \/ Ack \/ Lost

Spec == Init /\ [][Next]_swVars

TypeOK ==
  /\ swState \in 0..(Fires + 1) /\ swRetries \in 0..(SwRetry + 2) /\ Len(swSent) <= SwFlight
  /\ swTimer \in {"armed", "callback", "callback deleted", "deleted"}

\* When the adapter is done with the last step, the calibration is read and the rumble on
\* (sw.c:404, 113): a step is passed over only when the controller left a request unanswered, or
\* answered one after the timer had sent it again (sw.c:282: any answer moves on).
StepsTaken ==
  (swTimer = "deleted" /\ swOdd = {}) => {"calib", "rumble", "led"} \subseteq swFlags

\* The timer ends: no more callbacks than the four steps have retries, whatever is lost, unless
\* a late answer carried hid_state past the last step, where sw.c:220 waits for it.
CallbacksEnd == "late" \notin swOdd => swFired <= Fires

(***************************************************************************)
(* The inductive invariant.                                                *)
(***************************************************************************)
Requests == {"info", "603D", "6086", "6098", "8010", "rumble", "led"}

Types ==
  /\ swState \in Nat /\ swFired \in Nat /\ swRetries \in Nat /\ swRetries <= SwRetry + 2
  /\ swTimer \in {"armed", "callback", "callback deleted", "deleted"}
  /\ swSent \in Seq(Requests) /\ Len(swSent) <= SwFlight

\* The last step is not asked for before.
Reached == swState < SetLed => swSent \in Seq(Requests \ {"led"})

\* The callback ran as often as the steps passed and the retries of this one account for.
Counted == swFired <= swState * (SwRetry + 2) + swRetries

\* The last step is only passed by an answer to another; the callback runs no more when the
\* timer is deleted.
LastStep ==
  /\ "late" \notin swOdd => swState <= SetLed
  /\ swTimer # "deleted" => swRetries <= SwRetry + 1

\* While all is answered in its step, what the callback has sent is on its way, in one form or
\* another, until the last answer, and the steps behind have been taken.
InStep ==
  swOdd = {} =>
    /\ swTimer \in {"armed", "callback"} => Len(swSent) = swFired /\ swRetries = swFired
    /\ swState >= 2 => "calib" \in swFlags
    /\ swState >= SetLed => "rumble" \in swFlags
    /\ swTimer \in {"callback deleted", "deleted"} => {"calib", "rumble", "led"} \subseteq swFlags

Ind == Types /\ Reached /\ Counted /\ LastStep /\ InStep
============================================================================
