------------------------------ MODULE KbMonitor ------------------------------
(***************************************************************************)
(* adapter/kb_monitor.c with the scan codes of adapter/wired/ps.c, cdi.c   *)
(* and saturn.c: a keyboard's reports become make and break codes in a     *)
(* queue the console empties, and the last key pressed repeats by a timer. *)
(*                                                                         *)
(* The timer's callback runs in the esp_timer task, where a report may     *)
(* interrupt it: its two calls are two steps.  kbmon_update is one step.   *)
(***************************************************************************)
EXTENDS Naturals, Sequences

CONSTANT KbQueue    \* codes the queue holds, 16 in the code

VARIABLES
  kbSystem,    \* "PSX", "CDI" or "SATURN", which has no typematic (tm_state)
  kbHeld,      \* keys_state
  kbRepeat,    \* tm_key_id
  kbTimer,     \* the timer is armed
  kbFiring,    \* the callback is between its make code and its esp_timer_start_once
  kbShift,     \* CD-i: the special keys as kept in output[4]
  kbQueue,     \* scq_hdl, codes <<type, key>>
  kbSeen,      \* the keys the console holds for pressed
  kbHist       \* history: keys whose last code was refused or a repeat made after the
               \* release, and the key a callback that was interrupted may go on to repeat

kbVars == <<kbSystem, kbHeld, kbRepeat, kbTimer, kbFiring, kbShift, kbQueue, kbSeen, kbHist>>

Keys == 1 .. 2       \* on the CD-i, both shift keys
NoKey == 0
Typematic == kbSystem # "SATURN"
Quiet == [lost |-> {}, ghost |-> {}]

Init ==
  /\ kbSystem \in {"PSX", "CDI", "SATURN"}
  /\ kbHeld = {} /\ kbRepeat = NoKey /\ kbTimer = FALSE /\ kbFiring = FALSE
  /\ kbShift = FALSE /\ kbQueue = <<>> /\ kbSeen = {} /\ kbHist = Quiet

SetCode(q, code) == IF Len(q) < KbQueue THEN Append(q, code) ELSE q

\* ps_kb_id_to_scancode, cdi_kb_id_to_scancode, saturn_kb_id_to_scancode.
Code(held, k) == <<IF k \in held THEN "make" ELSE "break", k>>

\* The CD-i's SHIFT goes with the first of the two keys released.
ShiftAfter(shift, code) == IF kbSystem = "CDI" THEN code[1] = "make" ELSE shift

Applied(seen, code) == IF code[1] = "make" THEN seen \cup {code[2]} ELSE seen \ {code[2]}

\* What a report does for one key: a code if the key changed, for which the queue may be full.
Changed(held) == {k \in Keys : (k \in held) # (k \in kbHeld)}
Told(q, held, k) == IF k \in Changed(held) THEN SetCode(q, Code(held, k)) ELSE q
Dropped(q, held, k) == {k} \cap {j \in Changed(held) : Len(q) >= KbQueue}

Later(keys) == IF 2 \in keys THEN 2 ELSE 1

\* Each change stops the timer, and a key pressed starts it.
Armed(held) == Typematic /\ Later(Changed(held)) \in held

\* kbmon_update, which takes the keys in order.
Update(held) ==
  LET made == held \ kbHeld
      first == Told(kbQueue, held, 1) IN
  /\ held # kbHeld
  /\ kbHeld' = held
  /\ kbQueue' = Told(first, held, 2)
  /\ kbShift' = ShiftAfter(kbShift, Code(held, Later(Changed(held))))
  /\ kbRepeat' = IF Typematic /\ made # {} THEN Later(made) ELSE kbRepeat
  /\ kbTimer' = Armed(held)
  /\ kbHist' = [lost |-> (kbHist.lost \ Changed(held))
                           \cup Dropped(kbQueue, held, 1) \cup Dropped(first, held, 2),
                ghost |-> IF made # {} THEN {}
                          ELSE kbHist.ghost \cup (IF kbFiring THEN {kbRepeat} \ held ELSE {})]
  /\ UNCHANGED <<kbSystem, kbFiring, kbSeen>>

\* kbmon_typematic_cb: the make code, then the timer, unless it runs already.
Fire ==
  /\ kbTimer /\ ~kbFiring
  /\ kbTimer' = FALSE /\ kbFiring' = TRUE
  /\ kbQueue' = SetCode(kbQueue, <<"make", kbRepeat>>)
  /\ kbShift' = ShiftAfter(kbShift, <<"make", kbRepeat>>)
  /\ kbHist' = [kbHist EXCEPT !.lost =
       IF kbRepeat \notin kbHeld THEN @ \cup {kbRepeat}
       ELSE IF Len(kbQueue) < KbQueue THEN @ \ {kbRepeat} ELSE @]
  /\ UNCHANGED <<kbSystem, kbHeld, kbRepeat, kbSeen>>

Restart ==
  /\ kbFiring
  /\ kbTimer' = TRUE /\ kbFiring' = FALSE
  /\ UNCHANGED <<kbSystem, kbHeld, kbRepeat, kbShift, kbQueue, kbSeen, kbHist>>

\* kbmon_get_code, by the console's driver on the other core.
GetCode ==
  /\ kbQueue # <<>>
  /\ kbQueue' = Tail(kbQueue) /\ kbSeen' = Applied(kbSeen, Head(kbQueue))
  /\ UNCHANGED <<kbSystem, kbHeld, kbRepeat, kbTimer, kbFiring, kbShift, kbHist>>

Next ==
  \/ \E held \in SUBSET Keys : Update(held)
  \/ Fire \/ Restart \/ GetCode

Spec == Init /\ [][Next]_kbVars

(***************************************************************************)
(* Properties.                                                             *)
(***************************************************************************)
TypeOK ==
  /\ kbHeld \subseteq Keys /\ kbSeen \subseteq Keys
  /\ kbRepeat \in Keys \cup {NoKey} /\ Len(kbQueue) <= KbQueue

\* Only a key that is held repeats: a release stops the timer, except one that
\* falls between the two calls of the callback, which arms it again.
RepeatsHeldKey == kbTimer /\ kbRepeat \notin kbHist.ghost => kbRepeat \in kbHeld

\* What the console holds key k for once it has read every code: what the last code of the key
\* says, or what it holds it for already.
Codes(q, k) == {i \in DOMAIN q : q[i][2] = k}
Pressed(q, seen, k) ==
  \/ Codes(q, k) = {} /\ k \in seen
  \/ \E i \in Codes(q, k) : q[i][1] = "make" /\ \A j \in Codes(q, k) : j <= i

\* When the console has read every code it holds the keys for pressed that are,
\* but for a key whose last code found the queue full, and one repeated after its
\* release.
ConsoleAgrees ==
  \A k \in Keys \ kbHist.lost : Pressed(kbQueue, kbSeen, k) <=> k \in kbHeld

\* The CD-i sees SHIFT only with a shift key held.
ShiftIsHeld == kbShift => kbHeld # {} \/ kbHist.ghost # {}
=============================================================================
