----------------------------- MODULE FbFeedback -----------------------------
(***************************************************************************)
(* Rumble, from the console to the controller: adapter.c (adapter_q_fb,    *)
(* adapter_toggle_fb and the fb timers), the FB_TYPE_RUMBLE branch of      *)
(* bt_fb_task (bluetooth/host.c) and dc_fb_to_generic (wired/dc.c).        *)
(*                                                                         *)
(* Two kinds of systems use the timers, never together.  On the Dreamcast  *)
(* bt_fb_task itself arms one for each rumble request, since the console   *)
(* sends none to end it.  On the N64 and the GameCube the firmware buzzes  *)
(* the controller to confirm a mode change: adapter_toggle_fb, called from *)
(* the Bluetooth callback, shuts the console's feedback out (rumble_mute)  *)
(* and arms one.  The callback of either is adapter_fb_stop_cb.            *)
(*                                                                         *)
(* All of it but the console's calls of adapter_q_fb runs on core 0 at     *)
(* fixed priorities, Bluetooth callback > esp_timer task > bt_fb_task, so  *)
(* that adapter_toggle_fb is one step to the others, and the timer's       *)
(* callback may cut into bt_fb_task but not the reverse.  A port's         *)
(* controller stays connected.                                             *)
(***************************************************************************)
EXTENDS Integers, Sequences, FiniteSets, TLAPS

CONSTANTS
  Ports,       \* wired ports, each with its controller
  Timers,      \* esp_timer objects: a bound on those alive at a time
  QueueSize,   \* free slots of the feedback queue (queue_bss_init's item_num - 1)
  Systems,     \* the systems: TRUE one that calls adapter_toggle_fb, FALSE the Dreamcast
  NULL

ASSUME SystemsAssumption == Systems \subseteq BOOLEAN
ASSUME QueueSizeAssumption == QueueSize \in Nat
ASSUME NullAssumption ==
  NULL \notin Timers /\ NULL \notin Ports /\ NULL \notin [port : Ports, on : BOOLEAN]

VARIABLES
  toggles,     \* wired_adapter.system_id: which of the systems it is
  rumble_mute,
  hdl,         \* wired_adapter.data[].fb_timer_hdl of each port
  tstate,      \* esp_timer objects: "free", "made", "armed", "expired"
  tport,       \* their argument
  q,           \* rumble messages of the feedback queue; other feedback is left out
  out,         \* rumble of each port's controller: "off", "console" (the console
               \* ends it) or "timed" (a timer of the firmware ends it)
  cb,          \* adapter_fb_stop_cb, in the esp_timer task
  fb,          \* bt_fb_task in the rumble branch
  lost         \* history: ports whose last stop message was refused

timerVars == <<hdl, tstate, tport>>
vars == <<toggles, rumble_mute, timerVars, q, out, cb, fb, lost>>

Message == [port : Ports, on : BOOLEAN]
CbIdle == [pc |-> "idle", port |-> NULL]
FbIdle == [pc |-> "idle", msg |-> NULL, reg |-> NULL]

Init ==
  /\ toggles \in Systems
  /\ rumble_mute = FALSE
  /\ hdl = [p \in Ports |-> NULL]
  /\ tstate = [t \in Timers |-> "free"] /\ tport = [t \in Timers |-> NULL]
  /\ q = <<>>
  /\ out = [p \in Ports |-> "off"]
  /\ cb = CbIdle /\ fb = FbIdle
  /\ lost = {}

(***************************************************************************)
(* ESP-IDF.  esp_timer_delete refuses a timer that is armed: nothing       *)
(* changes.  Deleting a deleted timer is undefined: no step is given.      *)
(***************************************************************************)
esp_timer_create(t, p, state) ==
  /\ tstate[t] = "free"
  /\ hdl' = [hdl EXCEPT ![p] = t]
  /\ tstate' = [tstate EXCEPT ![t] = state]
  /\ tport' = [tport EXCEPT ![t] = p]

esp_timer_delete(t) ==
  /\ tstate[t] # "free"
  /\ tstate' = IF tstate[t] = "armed" THEN tstate ELSE [tstate EXCEPT ![t] = "free"]
  /\ UNCHANGED <<hdl, tport>>

(***************************************************************************)
(* adapter_q_fb by the console's driver, on core 1.  Refused when muted or *)
(* when the queue is full; the driver does not look at the outcome.        *)
(***************************************************************************)
Accepts == ~rumble_mute /\ Len(q) < QueueSize

ConsoleFb(p, on) ==
  /\ Accepts
  /\ q' = Append(q, [port |-> p, on |-> on])
  /\ UNCHANGED <<toggles, rumble_mute, timerVars, out, cb, fb, lost>>

(***************************************************************************)
(* adapter_toggle_fb: mute, adapter_fb_stop_timer_start (which leaves the  *)
(* timer alone when the port has a handle), then the controller buzzes.    *)
(***************************************************************************)
Toggle(p) ==
  /\ toggles
  /\ rumble_mute' = TRUE
  /\ \/ hdl[p] # NULL /\ UNCHANGED timerVars
     \/ hdl[p] = NULL /\ \E t \in Timers : esp_timer_create(t, p, "armed")
  /\ out' = [out EXCEPT ![p] = "timed"]
  /\ lost' = lost \ {p}
  /\ UNCHANGED <<toggles, q, cb, fb>>

(***************************************************************************)
(* adapter_fb_stop_cb.                                                     *)
(***************************************************************************)
TimerFires(t) ==
  /\ tstate[t] = "armed" /\ cb = CbIdle
  /\ tstate' = [tstate EXCEPT ![t] = "expired"]
  /\ cb' = [pc |-> "delete", port |-> tport[t]]
  /\ UNCHANGED <<toggles, rumble_mute, hdl, tport, q, out, fb, lost>>

\* adapter_fb_stop_timer_stop, when the port has a handle: esp_timer_delete ...
CbDelete ==
  /\ cb.pc = "delete"
  /\ \/ hdl[cb.port] = NULL /\ cb' = [cb EXCEPT !.pc = "unmute"] /\ UNCHANGED timerVars
     \/ hdl[cb.port] # NULL /\ cb' = [cb EXCEPT !.pc = "null"] /\ esp_timer_delete(hdl[cb.port])
  /\ UNCHANGED <<toggles, rumble_mute, q, out, fb, lost>>

\* ... and fb_timer_hdl = NULL
\* Mutant of CbNull: fb_timer_hdl keeps the deleted timer.
CbNullKept ==
  /\ cb.pc = "null"
  /\ cb' = [cb EXCEPT !.pc = "unmute"]
  /\ UNCHANGED <<toggles, rumble_mute, timerVars, q, out, fb, lost>>

CbNull ==
  /\ cb.pc = "null"
  /\ hdl' = [hdl EXCEPT ![cb.port] = NULL]
  /\ cb' = [cb EXCEPT !.pc = "unmute"]
  /\ UNCHANGED <<toggles, rumble_mute, tstate, tport, q, out, fb, lost>>

CbUnmute ==
  /\ cb.pc = "unmute"
  /\ rumble_mute' = FALSE
  /\ cb' = [cb EXCEPT !.pc = "queue"]
  /\ UNCHANGED <<toggles, timerVars, q, out, fb, lost>>

\* Mutant of CbQueue: a full queue is not noticed.
CbQueueUnchecked ==
  /\ cb.pc = "queue"
  /\ q' = Append(q, [port |-> cb.port, on |-> FALSE])
  /\ cb' = CbIdle
  /\ UNCHANGED <<toggles, rumble_mute, timerVars, out, fb, lost>>

\* adapter_q_fb of the message without data that ends the rumble
CbQueue ==
  /\ cb.pc = "queue"
  /\ \/ Accepts /\ q' = Append(q, [port |-> cb.port, on |-> FALSE]) /\ UNCHANGED lost
     \/ ~Accepts /\ lost' = lost \cup {cb.port} /\ UNCHANGED q
  /\ cb' = CbIdle
  /\ UNCHANGED <<toggles, rumble_mute, timerVars, out, fb>>

(***************************************************************************)
(* bt_fb_task: one message of the queue, whenever nothing above runs.      *)
(***************************************************************************)
FbRuns(pc) == fb.pc = pc /\ cb = CbIdle
FbGoto(pc) == fb' = [fb EXCEPT !.pc = pc]
FbPort == fb.msg.port

FbTake ==
  /\ FbRuns("idle") /\ q # <<>>
  /\ q' = Tail(q)
  /\ fb' = [pc |-> IF toggles THEN "apply" ELSE "stop", msg |-> Head(q), reg |-> NULL]
  /\ lost' = lost \ {Head(q).port}
  /\ UNCHANGED <<toggles, rumble_mute, timerVars, out, cb>>

AfterStop == IF fb.msg.on THEN "create" ELSE "apply"

\* dc_fb_to_generic: adapter_fb_stop_timer_stop tests the handle, ...
FbStop ==
  /\ FbRuns("stop")
  /\ fb' = IF hdl[FbPort] = NULL
           THEN [fb EXCEPT !.pc = AfterStop]
           ELSE [fb EXCEPT !.pc = "delete", !.reg = hdl[FbPort]]
  /\ UNCHANGED <<toggles, rumble_mute, timerVars, q, out, cb, lost>>

\* ... deletes what it has tested ...
FbDelete ==
  /\ FbRuns("delete")
  /\ esp_timer_delete(fb.reg)
  /\ FbGoto("null")
  /\ UNCHANGED <<toggles, rumble_mute, q, out, cb, lost>>

\* ... and forgets it.
FbNull ==
  /\ FbRuns("null")
  /\ hdl' = [hdl EXCEPT ![FbPort] = NULL]
  /\ fb' = [fb EXCEPT !.pc = AfterStop, !.reg = NULL]
  /\ UNCHANGED <<toggles, rumble_mute, tstate, tport, q, out, cb, lost>>

\* adapter_fb_stop_timer_start: esp_timer_create ...
FbCreate ==
  /\ FbRuns("create")
  /\ hdl[FbPort] = NULL
  /\ \E t \in Timers : esp_timer_create(t, FbPort, "made")
  /\ FbGoto("start")
  /\ UNCHANGED <<toggles, rumble_mute, q, out, cb, lost>>

\* ... and esp_timer_start_once, which refuses the NULL that an older timer's
\* callback may have put there meanwhile.
\* Mutant of FbStart: esp_timer_start_once is forgotten.
FbStartForgotten ==
  /\ FbRuns("start")
  /\ FbGoto("apply")
  /\ UNCHANGED <<toggles, rumble_mute, timerVars, q, out, cb, lost>>

FbStart ==
  /\ FbRuns("start")
  /\ tstate' = IF hdl[FbPort] = NULL THEN tstate ELSE [tstate EXCEPT ![hdl[FbPort]] = "armed"]
  /\ FbGoto("apply")
  /\ UNCHANGED <<toggles, rumble_mute, hdl, tport, q, out, cb, lost>>

\* wireless_fb_from_generic and queue_bss_return
FbApply ==
  /\ FbRuns("apply")
  /\ out' = [out EXCEPT ![FbPort] =
               IF ~fb.msg.on THEN "off" ELSE IF toggles THEN "console" ELSE "timed"]
  /\ fb' = FbIdle
  /\ UNCHANGED <<toggles, rumble_mute, timerVars, q, cb, lost>>

CbStep == CbDelete \/ CbNull \/ CbUnmute \/ CbQueue
FbStep == FbTake \/ FbStop \/ FbDelete \/ FbNull \/ FbCreate \/ FbStart \/ FbApply

Next ==
  \/ \E p \in Ports, on \in BOOLEAN : ConsoleFb(p, on)
  \/ \E p \in Ports : Toggle(p)
  \/ \E t \in Timers : TimerFires(t)
  \/ CbStep
  \/ FbStep

Spec == Init /\ [][Next]_vars

\* An armed timer fires and the tasks of core 0 run; nobody has to press a
\* button or send feedback.
FairSpec ==
  Spec /\ WF_vars(\E t \in Timers : TimerFires(t)) /\ WF_vars(CbStep) /\ WF_vars(FbStep)

(***************************************************************************)
(* Properties.                                                             *)
(***************************************************************************)
CbPc == {"delete", "null", "unmute", "queue"}
FbPc == {"stop", "delete", "null", "create", "start", "apply"}

TypeOK ==
  /\ toggles \in Systems
  /\ rumble_mute \in BOOLEAN
  /\ hdl \in [Ports -> Timers \cup {NULL}]
  /\ tstate \in [Timers -> {"free", "made", "armed", "expired"}]
  /\ tport \in [Timers -> Ports \cup {NULL}]
  /\ q \in Seq(Message) /\ Len(q) <= QueueSize
  /\ out \in [Ports -> {"off", "console", "timed"}]
  /\ cb \in {CbIdle} \cup [pc : CbPc, port : Ports]
  /\ fb \in {FbIdle} \cup [pc : FbPc, msg : Message, reg : Timers \cup {NULL}]
  /\ lost \subseteq Ports

ArmedFor(p) == \E t \in Timers : tstate[t] = "armed" /\ tport[t] = p

\* The console's feedback is never shut out for good: whoever mutes it leaves
\* an armed timer behind, or the callback still has the unmuting ahead, however
\* the two threads interleave.
MuteEnds == rumble_mute ~> ~rumble_mute

\* A rumble that the firmware has to end has something that ends it: an armed
\* timer, the callback before its message, or a message queued or being handled
\* for the port.  The exception is a stop message that was refused.
RumbleBounded ==
  \A p \in Ports : out[p] = "timed" =>
    \/ ArmedFor(p)
    \/ cb.port = p
    \/ \E i \in 1 .. Len(q) : q[i].port = p
    \/ fb.msg # NULL /\ FbPort = p
    \/ p \in lost

\* "Always stop current timer when we get new fb data" (main/adapter/wired/
\* dc.c:467): once bt_fb_task is past that, no timer of the port is armed.
TimerStoppedByNewData == fb.pc = "create" => ~ArmedFor(FbPort)

-----------------------------------------------------------------------------
\* Proofs, for every number of ports and of timers, every length of the queue and both kinds of
\* systems: the types, and that a rumble the firmware has to end has something that ends it.

(***************************************************************************)
(* The inductive invariant.  RumbleBounded alone says nothing of the time  *)
(* between the creation of a timer and the report that starts the rumble,  *)
(* nor that the handle adapter_toggle_fb finds belongs to a timer that     *)
(* will still fire.                                                        *)
(***************************************************************************)
Queued(p) == \E i \in 1 .. Len(q) : q[i].port = p

\* What ends the rumble of a port, other than the message being handled.
Ender(p) == ArmedFor(p) \/ cb.port = p \/ Queued(p) \/ p \in lost

ArmedHasPort == \A t \in Timers : tstate[t] = "armed" => tport[t] \in Ports
HdlHasPort   == \A p \in Ports : hdl[p] # NULL => tport[hdl[p]] \in Ports

TypeInv == TypeOK /\ ArmedHasPort /\ HdlHasPort

\* adapter_toggle_fb: bt_fb_task keeps off the timers, and a port's handle is
\* that of an armed timer of the port until the callback is about to drop it.
ToggleInv ==
  toggles =>
    /\ fb.pc \in {"idle", "apply"}
    /\ \A p \in Ports : hdl[p] # NULL =>
         \/ tstate[hdl[p]] = "armed" /\ tport[hdl[p]] = p
         \/ cb.port = p /\ cb.pc \in {"delete", "null"}

\* Dreamcast: between esp_timer_create and esp_timer_start_once the port has
\* its new timer, or an older one's callback has taken the handle away and is
\* itself the one that will end the rumble.
StartInv ==
  fb.pc = "start" =>
    \/ hdl[FbPort] # NULL /\ tport[hdl[FbPort]] = FbPort
    \/ hdl[FbPort] = NULL /\ Ender(FbPort)

ApplyInv == fb.pc = "apply" /\ fb.msg.on /\ ~toggles => Ender(FbPort)

IInv == TypeInv /\ ToggleInv /\ StartInv /\ ApplyInv /\ RumbleBounded

(***************************************************************************)
(* The queue.                                                              *)
(***************************************************************************)
LEMMA AppendQueue ==
  ASSUME NEW s \in Seq(Message), NEW m \in Message
  PROVE  /\ Append(s, m) \in Seq(Message)
         /\ Len(Append(s, m)) = Len(s) + 1
         /\ \A p : (\E i \in 1 .. Len(s) : s[i].port = p) =>
                     \E i \in 1 .. Len(Append(s, m)) : Append(s, m)[i].port = p
         /\ \E i \in 1 .. Len(Append(s, m)) : Append(s, m)[i].port = m.port
OBVIOUS

LEMMA TailQueue ==
  ASSUME NEW s \in Seq(Message), s # <<>>
  PROVE  /\ Head(s) \in Message
         /\ Tail(s) \in Seq(Message)
         /\ Len(Tail(s)) = Len(s) - 1
         /\ \A p : (\E i \in 1 .. Len(s) : s[i].port = p) =>
                     \/ Head(s).port = p
                     \/ \E i \in 1 .. Len(Tail(s)) : Tail(s)[i].port = p
<1>1. Len(s) \in Nat /\ Len(s) # 0
  OBVIOUS
<1>2. Head(s) = s[1] /\ Head(s) \in Message
  BY <1>1
<1>3. Tail(s) \in Seq(Message) /\ Len(Tail(s)) = Len(s) - 1
  BY <1>1
<1>4. \A i \in 1 .. Len(s) : i # 1 => i - 1 \in 1 .. Len(Tail(s)) /\ Tail(s)[i - 1] = s[i]
  BY <1>1, <1>3
<1>5. ASSUME NEW p, NEW i \in 1 .. Len(s), s[i].port = p, Head(s).port # p
      PROVE  \E j \in 1 .. Len(Tail(s)) : Tail(s)[j].port = p
  BY <1>2, <1>4, <1>5
<1>6. QED
  BY <1>2, <1>3, <1>5

(***************************************************************************)
(* Type correctness.                                                       *)
(***************************************************************************)
LEMMA InitType == Init => TypeInv
<1> SUFFICES ASSUME Init PROVE TypeInv
  OBVIOUS
<1>1. q \in Seq(Message) /\ Len(q) <= QueueSize
  BY QueueSizeAssumption DEF Init
<1>2. /\ hdl \in [Ports -> Timers \cup {NULL}] /\ tport \in [Timers -> Ports \cup {NULL}]
      /\ tstate \in [Timers -> {"free", "made", "armed", "expired"}]
      /\ out \in [Ports -> {"off", "console", "timed"}]
  BY DEF Init
<1>3. TypeOK
  BY <1>1, <1>2 DEF Init, TypeOK
<1>4. QED
  BY <1>3 DEF Init, TypeInv, ArmedHasPort, HdlHasPort

\* What the types say of the callback and of bt_fb_task while they are busy.
LEMMA Busy ==
  ASSUME TypeOK
  PROVE  /\ cb.pc # "idle" => cb.port \in Ports /\ cb \in [pc : CbPc, port : Ports]
         /\ fb.pc # "idle" => /\ fb \in [pc : FbPc, msg : Message, reg : Timers \cup {NULL}]
                              /\ fb.msg # NULL /\ FbPort \in Ports /\ fb.msg.on \in BOOLEAN
         /\ fb.pc = "idle" => fb = FbIdle
         /\ cb.pc = "idle" => cb = CbIdle
BY NullAssumption DEF TypeOK, CbIdle, FbIdle, CbPc, FbPc, FbPort, Message

\* A new timer, an old one deleted, and a handle forgotten, leave the timers
\* what they are.
LEMMA Timer ==
  ASSUME TypeInv
  PROVE  /\ \A t \in Timers, p \in Ports, s \in {"made", "armed"} :
              esp_timer_create(t, p, s) =>
                /\ hdl' \in [Ports -> Timers \cup {NULL}]
                /\ tstate' \in [Timers -> {"free", "made", "armed", "expired"}]
                /\ tport' \in [Timers -> Ports \cup {NULL}]
                /\ ArmedHasPort' /\ HdlHasPort'
         /\ \A t : esp_timer_delete(t) =>
                /\ tstate' \in [Timers -> {"free", "made", "armed", "expired"}]
                /\ hdl' = hdl /\ tport' = tport
                /\ \A u \in Timers : tstate'[u] = "armed" <=> tstate[u] = "armed"
<1> USE NullAssumption DEF TypeInv, TypeOK
<1>1. ASSUME NEW t \in Timers, NEW p \in Ports, NEW s \in {"made", "armed"}, esp_timer_create(t, p, s)
      PROVE  /\ hdl' \in [Ports -> Timers \cup {NULL}]
             /\ tstate' \in [Timers -> {"free", "made", "armed", "expired"}]
             /\ tport' \in [Timers -> Ports \cup {NULL}]
             /\ ArmedHasPort' /\ HdlHasPort'
  <2>1. /\ hdl' = [hdl EXCEPT ![p] = t] /\ tport' = [tport EXCEPT ![t] = p]
        /\ tstate' = [tstate EXCEPT ![t] = s]
    BY <1>1 DEF esp_timer_create
  <2>2. \A u \in Timers : tport'[u] = (IF u = t THEN p ELSE tport[u])
    BY <2>1
  <2>3. \A r \in Ports : hdl'[r] = (IF r = p THEN t ELSE hdl[r])
    BY <2>1
  <2>4. ArmedHasPort'
    BY <2>1, <2>2 DEF ArmedHasPort
  <2>5. HdlHasPort'
    BY <2>2, <2>3 DEF HdlHasPort
  <2>6. QED
    BY <2>1, <2>4, <2>5
<1>2. ASSUME NEW t, esp_timer_delete(t)
      PROVE  /\ tstate' \in [Timers -> {"free", "made", "armed", "expired"}]
             /\ hdl' = hdl /\ tport' = tport
             /\ \A u \in Timers : tstate'[u] = "armed" <=> tstate[u] = "armed"
  BY <1>2 DEF esp_timer_delete
<1>3. QED
  BY <1>1, <1>2

LEMMA NextType == TypeInv /\ [Next]_vars => TypeInv'
<1> SUFFICES ASSUME TypeInv, [Next]_vars PROVE TypeInv'
  OBVIOUS
<1> USE DEF timerVars
<1>a. TypeOK /\ ArmedHasPort /\ HdlHasPort
  BY DEF TypeInv
<1>1. ASSUME NEW p \in Ports, NEW on \in BOOLEAN, ConsoleFb(p, on) PROVE TypeInv'
  <2>1. [port |-> p, on |-> on] \in Message
    BY DEF Message
  <2>2. q' \in Seq(Message) /\ Len(q') <= QueueSize
    BY <1>1, <1>a, <2>1, AppendQueue, QueueSizeAssumption DEF ConsoleFb, Accepts, TypeOK
  <2>3. QED
    BY <1>1, <1>a, <2>2 DEF ConsoleFb, TypeInv, TypeOK, ArmedHasPort, HdlHasPort
<1>2. ASSUME NEW p \in Ports, Toggle(p) PROVE TypeInv'
  <2>1. /\ hdl' \in [Ports -> Timers \cup {NULL}]
        /\ tstate' \in [Timers -> {"free", "made", "armed", "expired"}]
        /\ tport' \in [Timers -> Ports \cup {NULL}]
        /\ ArmedHasPort' /\ HdlHasPort'
    <3>1. CASE hdl[p] # NULL /\ UNCHANGED timerVars
      BY <1>a, <3>1 DEF TypeOK, ArmedHasPort, HdlHasPort
    <3>2. CASE \E t \in Timers : esp_timer_create(t, p, "armed")
      BY <3>2, Timer
    <3>3. QED
      BY <1>2, <3>1, <3>2 DEF Toggle
  <2>2. QED
    BY <1>2, <1>a, <2>1 DEF Toggle, TypeInv, TypeOK
<1>3. ASSUME NEW t \in Timers, TimerFires(t) PROVE TypeInv'
  <2>1. tport[t] \in Ports
    BY <1>3, <1>a DEF TimerFires, ArmedHasPort
  <2>2. cb' \in [pc : CbPc, port : Ports]
    BY <1>3, <2>1 DEF TimerFires, CbPc
  <2>3. QED
    BY <1>3, <1>a, <2>2 DEF TimerFires, TypeInv, TypeOK, ArmedHasPort, HdlHasPort
<1>4. CASE CbDelete
  <2>1. cb \in [pc : CbPc, port : Ports]
    BY <1>4, <1>a, Busy DEF CbDelete
  <2>2. cb' \in [pc : CbPc, port : Ports]
    BY <1>4, <2>1 DEF CbDelete, CbPc
  <2>3. QED
    BY <1>4, <1>a, <2>2, Timer DEF CbDelete, TypeInv, TypeOK, ArmedHasPort, HdlHasPort
<1>5. CASE CbNull
  <2>1. cb \in [pc : CbPc, port : Ports]
    BY <1>5, <1>a, Busy DEF CbNull
  <2>2. cb' \in [pc : CbPc, port : Ports]
    BY <1>5, <2>1 DEF CbNull, CbPc
  <2>3. QED
    BY <1>5, <1>a, <2>2 DEF CbNull, TypeInv, TypeOK, ArmedHasPort, HdlHasPort
<1>6. CASE CbUnmute
  <2>1. cb \in [pc : CbPc, port : Ports]
    BY <1>6, <1>a, Busy DEF CbUnmute
  <2>2. cb' \in [pc : CbPc, port : Ports]
    BY <1>6, <2>1 DEF CbUnmute, CbPc
  <2>3. QED
    BY <1>6, <1>a, <2>2 DEF CbUnmute, TypeInv, TypeOK, ArmedHasPort, HdlHasPort
<1>7. CASE CbQueue
  <2>1. cb.port \in Ports
    BY <1>7, <1>a, Busy DEF CbQueue
  <2>2. [port |-> cb.port, on |-> FALSE] \in Message
    BY <2>1 DEF Message
  <2>3. q' \in Seq(Message) /\ Len(q') <= QueueSize
    <3>1. CASE Accepts /\ q' = Append(q, [port |-> cb.port, on |-> FALSE])
      BY <1>a, <2>2, <3>1, AppendQueue, QueueSizeAssumption DEF Accepts, TypeOK
    <3>2. CASE UNCHANGED q
      BY <1>a, <3>2 DEF TypeOK
    <3>3. QED
      BY <1>7, <3>1, <3>2 DEF CbQueue
  <2>4. QED
    BY <1>7, <1>a, <2>1, <2>3 DEF CbQueue, TypeInv, TypeOK, ArmedHasPort, HdlHasPort
<1>8. CASE FbTake
  <2>1. /\ Head(q) \in Message /\ q' \in Seq(Message) /\ Len(q') <= QueueSize
    BY <1>8, <1>a, TailQueue, QueueSizeAssumption DEF FbTake, TypeOK
  <2>2. fb' \in [pc : FbPc, msg : Message, reg : Timers \cup {NULL}]
    BY <1>8, <2>1 DEF FbTake, FbPc
  <2>3. QED
    BY <1>8, <1>a, <2>1, <2>2 DEF FbTake, TypeInv, TypeOK, ArmedHasPort, HdlHasPort
<1>9. CASE FbStop
  <2>1. fb \in [pc : FbPc, msg : Message, reg : Timers \cup {NULL}] /\ FbPort \in Ports
    BY <1>9, <1>a, Busy DEF FbStop, FbRuns
  <2>2. fb' \in [pc : FbPc, msg : Message, reg : Timers \cup {NULL}]
    BY <1>9, <1>a, <2>1 DEF FbStop, AfterStop, FbPc, TypeOK
  <2>3. QED
    BY <1>9, <1>a, <2>2 DEF FbStop, TypeInv, TypeOK, ArmedHasPort, HdlHasPort
<1>10. CASE FbDelete
  <2>1. fb \in [pc : FbPc, msg : Message, reg : Timers \cup {NULL}]
    BY <1>10, <1>a, Busy DEF FbDelete, FbRuns
  <2>2. fb' \in [pc : FbPc, msg : Message, reg : Timers \cup {NULL}]
    BY <1>10, <2>1 DEF FbDelete, FbGoto, FbPc
  <2>3. QED
    BY <1>10, <1>a, <2>2, Timer DEF FbDelete, TypeInv, TypeOK, ArmedHasPort, HdlHasPort
<1>11. CASE FbNull
  <2>1. fb \in [pc : FbPc, msg : Message, reg : Timers \cup {NULL}]
    BY <1>11, <1>a, Busy DEF FbNull, FbRuns
  <2>2. fb' \in [pc : FbPc, msg : Message, reg : Timers \cup {NULL}]
    BY <1>11, <2>1 DEF FbNull, AfterStop, FbPc
  <2>3. QED
    BY <1>11, <1>a, <2>2 DEF FbNull, TypeInv, TypeOK, ArmedHasPort, HdlHasPort
<1>12. CASE FbCreate
  <2>1. fb \in [pc : FbPc, msg : Message, reg : Timers \cup {NULL}] /\ FbPort \in Ports
    BY <1>12, <1>a, Busy DEF FbCreate, FbRuns
  <2>2. fb' \in [pc : FbPc, msg : Message, reg : Timers \cup {NULL}]
    BY <1>12, <2>1 DEF FbCreate, FbGoto, FbPc
  <2>3. /\ hdl' \in [Ports -> Timers \cup {NULL}]
        /\ tstate' \in [Timers -> {"free", "made", "armed", "expired"}]
        /\ tport' \in [Timers -> Ports \cup {NULL}]
        /\ ArmedHasPort' /\ HdlHasPort'
    BY <1>12, <2>1, Timer DEF FbCreate
  <2>4. QED
    BY <1>12, <1>a, <2>2, <2>3 DEF FbCreate, TypeInv, TypeOK
<1>13. CASE FbStart
  <2>1. fb \in [pc : FbPc, msg : Message, reg : Timers \cup {NULL}] /\ FbPort \in Ports
    BY <1>13, <1>a, Busy DEF FbStart, FbRuns
  <2>2. fb' \in [pc : FbPc, msg : Message, reg : Timers \cup {NULL}]
    BY <1>13, <2>1 DEF FbStart, FbGoto, FbPc
  <2>3. tstate' \in [Timers -> {"free", "made", "armed", "expired"}] /\ ArmedHasPort'
    BY <1>13, <1>a, <2>1, NullAssumption DEF FbStart, TypeOK, ArmedHasPort, HdlHasPort
  <2>4. QED
    BY <1>13, <1>a, <2>2, <2>3 DEF FbStart, TypeInv, TypeOK, HdlHasPort
<1>14. CASE FbApply
  <2>1. FbPort \in Ports
    BY <1>14, <1>a, Busy DEF FbApply, FbRuns
  <2>2. QED
    BY <1>14, <1>a, <2>1 DEF FbApply, TypeInv, TypeOK, ArmedHasPort, HdlHasPort
<1>15. CASE UNCHANGED vars
  BY <1>15, <1>a DEF vars, TypeInv, TypeOK, ArmedHasPort, HdlHasPort
<1>16. QED
  BY <1>1, <1>2, <1>3, <1>4, <1>5, <1>6, <1>7, <1>8, <1>9, <1>10, <1>11, <1>12, <1>13, <1>14, <1>15
  DEF Next, CbStep, FbStep

\* In every reachable state the variables have the types they are declared with,
\* and the argument of every armed timer is a port.
THEOREM TypeCorrect == Spec => []TypeOK
<1>1. TypeInv => TypeOK
  BY DEF TypeInv
<1>2. QED
  BY InitType, NextType, <1>1, PTL DEF Spec

(***************************************************************************)
(* A rumble keeps what ends it.                                            *)
(***************************************************************************)
\* A timer that is armed stays armed, but for the one that fires.
LEMMA ArmedStays ==
  ASSUME TypeInv, [Next]_vars, NEW p \in Ports, ArmedFor(p)
  PROVE  ArmedFor(p)' \/ cb'.port = p
<1> USE DEF timerVars
<1>1. PICK t \in Timers : tstate[t] = "armed" /\ tport[t] = p
  BY DEF ArmedFor
<1>2. TypeOK
  BY DEF TypeInv
<1>3. ASSUME NEW u \in Timers, NEW r \in Ports, NEW s \in {"made", "armed"}, esp_timer_create(u, r, s)
      PROVE  ArmedFor(p)'
  <2>1. tstate'[t] = "armed" /\ tport'[t] = p
    BY <1>1, <1>2, <1>3 DEF esp_timer_create, TypeOK
  <2>2. QED
    BY <2>1 DEF ArmedFor
<1>4. ASSUME NEW u, esp_timer_delete(u) PROVE ArmedFor(p)'
  BY <1>1, <1>4, Timer DEF ArmedFor
<1>5. ASSUME UNCHANGED <<tstate, tport>> PROVE ArmedFor(p)'
  BY <1>1, <1>5 DEF ArmedFor
<1>6. ASSUME NEW r \in Ports, Toggle(r) PROVE ArmedFor(p)'
  BY <1>3, <1>5, <1>6 DEF Toggle
<1>7. ASSUME NEW u \in Timers, TimerFires(u) PROVE ArmedFor(p)' \/ cb'.port = p
  <2>1. CASE u = t
    BY <1>1, <1>7, <2>1 DEF TimerFires
  <2>2. CASE u # t
    <3>1. tstate'[t] = "armed" /\ tport'[t] = p
      BY <1>1, <1>7, <2>2 DEF TimerFires
    <3>2. QED
      BY <3>1 DEF ArmedFor
  <2>3. QED
    BY <2>1, <2>2
<1>8. CASE CbDelete
  BY <1>4, <1>5, <1>8 DEF CbDelete
<1>9. CASE FbDelete
  BY <1>4, <1>9 DEF FbDelete
<1>10. CASE FbCreate
  <2>1. FbPort \in Ports
    BY <1>2, <1>10, Busy DEF FbCreate, FbRuns
  <2>2. QED
    BY <1>3, <1>10, <2>1 DEF FbCreate
<1>11. CASE FbStart
  <2>1. tstate'[t] = "armed" /\ tport'[t] = p
    BY <1>1, <1>2, <1>11 DEF FbStart, TypeOK
  <2>2. QED
    BY <2>1 DEF ArmedFor
<1>12. QED
  BY <1>5, <1>6, <1>7, <1>8, <1>9, <1>10, <1>11
  DEF Next, ConsoleFb, CbStep, CbNull, CbUnmute, CbQueue, FbStep, FbTake, FbStop, FbNull, FbApply, vars

\* Once the firmware has shaken a controller its rumble has something that ends
\* it, for the handle the port had is that of a timer about to fire.
LEMMA ToggleArms ==
  ASSUME TypeInv, ToggleInv, NEW p \in Ports, Toggle(p)
  PROVE  Ender(p)'
<1>1. CASE hdl[p] # NULL /\ UNCHANGED timerVars
  <2>1. (tstate[hdl[p]] = "armed" /\ tport[hdl[p]] = p) \/ cb.port = p
    BY <1>1 DEF Toggle, ToggleInv
  <2>2. hdl[p] \in Timers
    BY <1>1 DEF TypeInv, TypeOK
  <2>3. QED
    BY <1>1, <2>1, <2>2 DEF Toggle, timerVars, Ender, ArmedFor
<1>2. ASSUME NEW t \in Timers, esp_timer_create(t, p, "armed") PROVE Ender(p)'
  <2>1. tstate'[t] = "armed" /\ tport'[t] = p
    BY <1>2 DEF esp_timer_create, TypeInv, TypeOK
  <2>2. QED
    BY <2>1 DEF Ender, ArmedFor
<1>3. QED
  BY <1>1, <1>2 DEF Toggle

\* What ends a rumble gives way only to another, or to bt_fb_task at work for
\* the port.
LEMMA EnderStays ==
  ASSUME TypeInv, ToggleInv, [Next]_vars, NEW p \in Ports, Ender(p)
  PROVE  Ender(p)' \/ (FbTake /\ Head(q).port = p)
<1> USE DEF timerVars
<1>a. TypeOK /\ NULL # p
  BY NullAssumption DEF TypeInv
<1>1. CASE ArmedFor(p)
  BY <1>1, ArmedStays DEF Ender
<1>2. CASE cb.port = p
  <2>1. ASSUME NEW t \in Timers, TimerFires(t) PROVE Ender(p)'
    BY <1>a, <1>2, <2>1 DEF TimerFires, CbIdle
  <2>2. CASE CbDelete
    BY <1>2, <2>2, <1>a, Busy DEF CbDelete, Ender, CbPc
  <2>3. CASE CbNull
    BY <1>2, <2>3, <1>a, Busy DEF CbNull, Ender, CbPc
  <2>4. CASE CbUnmute
    BY <1>2, <2>4, <1>a, Busy DEF CbUnmute, Ender, CbPc
  <2>5. CASE CbQueue
    <3>1. [port |-> p, on |-> FALSE] \in Message
      BY DEF Message
    <3>2. CASE q' = Append(q, [port |-> p, on |-> FALSE])
      BY <1>a, <3>1, <3>2, AppendQueue DEF TypeOK, Ender, Queued
    <3>3. CASE lost' = lost \cup {p}
      BY <3>3 DEF Ender
    <3>4. QED
      BY <1>2, <2>5, <3>2, <3>3 DEF CbQueue
  <2>6. CASE UNCHANGED cb
    BY <1>2, <2>6 DEF Ender
  <2>7. QED
    BY <2>1, <2>2, <2>3, <2>4, <2>5, <2>6
    DEF Next, ConsoleFb, Toggle, CbStep, FbStep, FbTake, FbStop, FbDelete, FbNull, FbCreate, FbStart,
        FbApply, vars
<1>3. CASE Queued(p)
  <2>1. ASSUME NEW r \in Ports, NEW on \in BOOLEAN, ConsoleFb(r, on) PROVE Queued(p)'
    <3>1. [port |-> r, on |-> on] \in Message
      BY DEF Message
    <3>2. QED
      BY <1>a, <1>3, <2>1, <3>1, AppendQueue DEF ConsoleFb, TypeOK, Queued
  <2>2. CASE CbQueue
    <3>1. cb.port \in Ports
      BY <1>a, <2>2, Busy DEF CbQueue
    <3>2. [port |-> cb.port, on |-> FALSE] \in Message
      BY <3>1 DEF Message
    <3>3. CASE q' = Append(q, [port |-> cb.port, on |-> FALSE])
      BY <1>a, <1>3, <3>2, <3>3, AppendQueue DEF TypeOK, Queued, Ender
    <3>4. CASE UNCHANGED q
      BY <1>3, <3>4 DEF Queued, Ender
    <3>5. QED
      BY <2>2, <3>3, <3>4 DEF CbQueue, Ender
  <2>3. CASE FbTake
    <3>1. q \in Seq(Message) /\ q # <<>> /\ q' = Tail(q)
      BY <1>a, <2>3 DEF FbTake, TypeOK
    <3>2. \E i \in 1 .. Len(q) : q[i].port = p
      BY <1>3 DEF Queued
    <3>3. Head(q).port = p \/ \E i \in 1 .. Len(Tail(q)) : Tail(q)[i].port = p
      BY <3>1, <3>2, TailQueue
    <3>4. QED
      BY <2>3, <3>1, <3>3 DEF Queued, Ender
  <2>4. CASE UNCHANGED q
    BY <1>3, <2>4 DEF Queued, Ender
  <2>5. QED
    BY <2>1, <2>2, <2>3, <2>4
    DEF Ender, Next, Toggle, TimerFires, CbStep, CbDelete, CbNull, CbUnmute, FbStep, FbStop, FbDelete,
        FbNull, FbCreate, FbStart, FbApply, vars
<1>4. CASE p \in lost
  <2>1. ASSUME NEW r \in Ports, Toggle(r) PROVE Ender(p)'
    BY <1>4, <2>1, ToggleArms DEF Toggle, Ender
  <2>2. CASE CbQueue
    BY <1>4, <2>2 DEF CbQueue, Ender
  <2>3. CASE FbTake
    BY <1>4, <2>3 DEF FbTake, Ender
  <2>4. CASE UNCHANGED lost
    BY <1>4, <2>4 DEF Ender
  <2>5. QED
    BY <2>1, <2>2, <2>3, <2>4
    DEF Next, ConsoleFb, TimerFires, CbStep, CbDelete, CbNull, CbUnmute, FbStep, FbStop, FbDelete,
        FbNull, FbCreate, FbStart, FbApply, vars
<1>5. QED
  BY <1>1, <1>2, <1>3, <1>4 DEF Ender

\* The handles of a system that buzzes its controllers.
LEMMA NextToggle == TypeInv /\ ToggleInv /\ [Next]_vars => ToggleInv'
<1> SUFFICES ASSUME TypeInv, ToggleInv, [Next]_vars, toggles' PROVE ToggleInv'
  BY DEF ToggleInv
<1> USE DEF timerVars
<1>a. TypeOK
  BY DEF TypeInv
<1>b. toggles /\ fb.pc \in {"idle", "apply"}
  BY DEF ToggleInv, Next, ConsoleFb, Toggle, TimerFires, CbStep, CbDelete, CbNull, CbUnmute, CbQueue,
         FbStep, FbTake, FbStop, FbDelete, FbNull, FbCreate, FbStart, FbApply, vars
<1>c. \A p \in Ports : hdl[p] # NULL =>
        \/ tstate[hdl[p]] = "armed" /\ tport[hdl[p]] = p
        \/ cb.port = p /\ cb.pc \in {"delete", "null"}
  BY <1>b DEF ToggleInv
<1>d. \A p \in Ports : hdl[p] # NULL => hdl[p] \in Timers
  BY <1>a DEF TypeOK
<1>1. CASE fb'.pc \in {"idle", "apply"} /\ UNCHANGED <<hdl, tstate, tport, cb>>
  BY <1>c, <1>1 DEF ToggleInv
<1>2. ASSUME NEW p \in Ports, Toggle(p) PROVE ToggleInv'
  <2>1. CASE UNCHANGED timerVars
    BY <1>2, <1>1, <1>b, <2>1 DEF Toggle
  <2>2. ASSUME NEW t \in Timers, esp_timer_create(t, p, "armed") PROVE ToggleInv'
    <3>1. ASSUME NEW r \in Ports, hdl'[r] # NULL
          PROVE  \/ tstate'[hdl'[r]] = "armed" /\ tport'[hdl'[r]] = r
                 \/ cb'.port = r /\ cb'.pc \in {"delete", "null"}
      <4>1. CASE r = p
        BY <1>a, <2>2, <4>1 DEF esp_timer_create, TypeOK
      <4>2. CASE r # p
        <5>1. hdl'[r] = hdl[r] /\ hdl[r] \in Timers
          BY <1>a, <1>d, <2>2, <3>1, <4>2 DEF esp_timer_create, TypeOK
        <5>2. tstate[t] = "free" /\ cb' = cb
          BY <1>2, <2>2 DEF Toggle, esp_timer_create
        <5>3. CASE hdl[r] = t
          BY <1>c, <3>1, <5>1, <5>2, <5>3
        <5>4. CASE hdl[r] # t
          <6>1. tstate'[hdl[r]] = tstate[hdl[r]] /\ tport'[hdl[r]] = tport[hdl[r]]
            BY <1>a, <2>2, <5>1, <5>4 DEF esp_timer_create, TypeOK
          <6>2. QED
            BY <1>c, <3>1, <5>1, <5>2, <6>1
        <5>5. QED
          BY <5>3, <5>4
      <4>3. QED
        BY <4>1, <4>2
    <3>2. QED
      BY <1>2, <1>b, <3>1 DEF Toggle, ToggleInv
  <2>3. QED
    BY <1>2, <2>1, <2>2 DEF Toggle
<1>3. ASSUME NEW t \in Timers, TimerFires(t) PROVE ToggleInv'
  <2>1. ASSUME NEW r \in Ports, hdl'[r] # NULL
        PROVE  \/ tstate'[hdl'[r]] = "armed" /\ tport'[hdl'[r]] = r
               \/ cb'.port = r /\ cb'.pc \in {"delete", "null"}
    <3>1. hdl' = hdl /\ tport' = tport /\ hdl[r] \in Timers
      BY <1>3, <1>d, <2>1 DEF TimerFires
    <3>2. tstate[hdl[r]] = "armed" /\ tport[hdl[r]] = r
      BY <1>3, <1>c, <2>1, <3>1, NullAssumption DEF TimerFires, CbIdle
    <3>3. CASE hdl[r] = t
      BY <1>3, <3>2, <3>3 DEF TimerFires
    <3>4. CASE hdl[r] # t
      BY <1>3, <1>a, <3>1, <3>2, <3>4 DEF TimerFires, TypeOK
    <3>5. QED
      BY <3>3, <3>4
  <2>2. QED
    BY <1>3, <1>b, <2>1 DEF TimerFires, ToggleInv
<1>4. CASE CbDelete
  <2>1. cb.port \in Ports /\ cb'.port = cb.port /\ UNCHANGED <<fb, hdl, tport>>
    BY <1>4, <1>a, Busy, Timer DEF CbDelete, CbPc
  <2>2. CASE hdl[cb.port] = NULL
    <3>1. UNCHANGED tstate
      BY <1>4, <2>2 DEF CbDelete
    <3>2. QED
      BY <1>b, <1>c, <2>1, <2>2, <3>1 DEF ToggleInv
  <2>3. CASE hdl[cb.port] # NULL
    <3>1. \A u \in Timers : tstate'[u] = "armed" <=> tstate[u] = "armed"
      BY <1>4, <2>3, Timer DEF CbDelete
    <3>2. cb'.pc = "null"
      BY <1>4, <1>a, <2>3, Busy DEF CbDelete
    <3>3. QED
      BY <1>b, <1>c, <1>d, <2>1, <3>1, <3>2 DEF ToggleInv
  <2>4. QED
    BY <2>2, <2>3
<1>5. CASE CbNull
  <2>1. cb.port \in Ports /\ UNCHANGED <<fb, tstate, tport>>
    BY <1>5, <1>a, Busy DEF CbNull
  <2>2. \A r \in Ports : hdl'[r] = IF r = cb.port THEN NULL ELSE hdl[r]
    BY <1>5, <1>a DEF CbNull, TypeOK
  <2>3. QED
    BY <1>b, <1>c, <2>1, <2>2 DEF ToggleInv
<1>6. CASE CbUnmute \/ CbQueue
  BY <1>6, <1>b, <1>c DEF CbUnmute, CbQueue, ToggleInv
<1>7. CASE FbStep
  BY <1>7, <1>1, <1>b DEF FbStep, FbTake, FbStop, FbDelete, FbNull, FbCreate, FbStart, FbApply, FbRuns, FbIdle
<1>8. QED
  BY <1>1, <1>2, <1>3, <1>4, <1>5, <1>6, <1>7, <1>b DEF Next, ConsoleFb, CbStep, vars

\* Where bt_fb_task goes from each of its steps, always with the same message.
LEMMA FbMoves ==
  ASSUME TypeOK, FbStop \/ FbDelete \/ FbNull \/ FbCreate \/ FbStart
  PROVE  /\ fb.pc # "idle" /\ fb'.msg = fb.msg
         /\ FbCreate => fb'.pc = "start"
         /\ FbStart => fb'.pc = "apply"
         /\ ~FbCreate => fb'.pc # "start"
         /\ ~FbStart => fb'.pc # "apply" \/ ~fb'.msg.on
<1>1. fb \in [pc : FbPc, msg : Message, reg : Timers \cup {NULL}] /\ fb.pc # "idle"
  BY Busy DEF FbStop, FbDelete, FbNull, FbCreate, FbStart, FbRuns
<1>2. AfterStop \in {"create", "apply"} /\ (AfterStop = "apply" => ~fb.msg.on)
  BY DEF AfterStop
<1>3. CASE FbStop \/ FbNull
  <2>1. fb'.msg = fb.msg /\ fb'.pc \in {AfterStop, "delete"}
    BY <1>1, <1>3 DEF FbStop, FbNull
  <2>2. fb.pc \in {"stop", "null"}
    BY <1>3 DEF FbStop, FbNull, FbRuns
  <2>3. ~FbCreate /\ ~FbStart
    BY <2>2 DEF FbCreate, FbStart, FbRuns
  <2>4. fb'.pc # "start" /\ (fb'.pc = "apply" => ~fb'.msg.on)
    BY <1>2, <2>1
  <2>5. QED
    BY <1>1, <2>1, <2>3, <2>4
<1>4. CASE FbDelete \/ FbCreate \/ FbStart
  BY <1>1, <1>4 DEF FbDelete, FbCreate, FbStart, FbRuns, FbGoto
<1>5. QED
  BY <1>3, <1>4

\* The handle bt_fb_task has just made.
LEMMA NextStart == TypeInv /\ ToggleInv /\ StartInv /\ [Next]_vars => StartInv'
<1> SUFFICES ASSUME TypeInv, ToggleInv, StartInv, [Next]_vars, fb'.pc = "start" PROVE StartInv'
  BY DEF StartInv
<1> USE DEF timerVars
<1>a. TypeOK
  BY DEF TypeInv
<1>1. CASE FbCreate
  <2>1. FbPort \in Ports /\ fb'.msg = fb.msg
    BY <1>1, <1>a, Busy DEF FbCreate, FbRuns, FbGoto
  <2>2. PICK t \in Timers : esp_timer_create(t, FbPort, "made")
    BY <1>1 DEF FbCreate
  <2>3. hdl'[FbPort] = t /\ tport'[t] = FbPort
    BY <1>a, <2>1, <2>2 DEF esp_timer_create, TypeOK
  <2>4. FbPort' = FbPort /\ t # NULL
    BY <2>1, NullAssumption DEF FbPort
  <2>5. QED
    BY <2>3, <2>4 DEF StartInv
<1>2. CASE fb.pc = "start" /\ fb' = fb
  <2>1. FbPort \in Ports /\ FbPort' = FbPort /\ ~toggles
    BY <1>2, <1>a, Busy DEF ToggleInv, FbPort
  <2>2. Ender(FbPort) => Ender(FbPort)'
    <3>1. ASSUME NEW r \in Ports, Ender(r) PROVE Ender(r)'
      BY <1>2, <3>1, EnderStays DEF FbTake, FbRuns
    <3>2. QED
      BY <2>1, <3>1 DEF Ender, ArmedFor, Queued
  <2>3. CASE hdl'[FbPort] = hdl[FbPort] /\ tport' = tport
    BY <1>2, <2>1, <2>2, <2>3 DEF StartInv
  <2>4. CASE CbNull
    <3>1. cb.port \in Ports /\ cb'.port = cb.port
      BY <1>a, <2>4, Busy DEF CbNull
    <3>2. CASE cb.port = FbPort
      BY <1>a, <2>1, <2>4, <3>1, <3>2 DEF CbNull, TypeOK, StartInv, Ender
    <3>3. CASE cb.port # FbPort
      BY <1>a, <2>1, <2>3, <2>4, <3>1, <3>3 DEF CbNull, TypeOK
    <3>4. QED
      BY <3>2, <3>3
  <2>5. CASE CbDelete
    BY <2>3, <2>5, Timer DEF CbDelete
  <2>6. QED
    BY <1>2, <2>1, <2>3, <2>4, <2>5
    DEF Next, ConsoleFb, Toggle, TimerFires, CbStep, CbUnmute, CbQueue, FbStep, FbTake, FbStop, FbDelete,
        FbNull, FbCreate, FbStart, FbApply, FbRuns, FbGoto, vars
<1>3. CASE FbTake \/ FbApply
  BY <1>3 DEF FbTake, FbApply, FbIdle
<1>4. QED
  BY <1>1, <1>2, <1>3, <1>a, FbMoves
  DEF Next, ConsoleFb, Toggle, TimerFires, CbStep, CbDelete, CbNull, CbUnmute, CbQueue, FbStep, vars

\* What bt_fb_task is about to start, and every rumble that runs, has something
\* that ends it.
LEMMA NextApply ==
  TypeInv /\ ToggleInv /\ StartInv /\ ApplyInv /\ [Next]_vars => ApplyInv'
<1> SUFFICES ASSUME TypeInv, ToggleInv, StartInv, ApplyInv, [Next]_vars,
                    fb'.pc = "apply", fb'.msg.on, ~toggles'
             PROVE  Ender(FbPort)'
  BY DEF ApplyInv
<1> USE DEF timerVars
<1>a. TypeOK
  BY DEF TypeInv
<1>b. ~toggles
  BY DEF Next, ConsoleFb, Toggle, TimerFires, CbStep, CbDelete, CbNull, CbUnmute, CbQueue,
         FbStep, FbTake, FbStop, FbDelete, FbNull, FbCreate, FbStart, FbApply, vars
<1>c. ASSUME NEW p \in Ports, Ender(p), ~FbTake PROVE Ender(p)'
  BY <1>c, EnderStays
<1>d. ASSUME FbPort \in Ports, Ender(FbPort), ~FbTake, fb'.msg = fb.msg PROVE Ender(FbPort)'
  <2>1. \A p \in Ports : p = FbPort => Ender(p)'
    BY <1>c, <1>d DEF Ender, ArmedFor, Queued
  <2>2. QED
    BY <1>d, <2>1 DEF FbPort, Ender, ArmedFor, Queued
<1>1. CASE FbStart
  <2>1. FbPort \in Ports /\ fb'.msg = fb.msg /\ fb.pc = "start"
    BY <1>1, <1>a, Busy DEF FbStart, FbRuns, FbGoto
  <2>2. CASE hdl[FbPort] # NULL /\ tport[hdl[FbPort]] = FbPort
    <3>1. hdl[FbPort] \in Timers /\ tstate' = [tstate EXCEPT ![hdl[FbPort]] = "armed"] /\ tport' = tport
      BY <1>1, <1>a, <2>1, <2>2 DEF FbStart, TypeOK
    <3>2. tstate'[hdl[FbPort]] = "armed" /\ tport'[hdl[FbPort]] = FbPort
      BY <1>a, <2>2, <3>1 DEF TypeOK
    <3>3. QED
      BY <2>1, <3>1, <3>2 DEF Ender, ArmedFor, FbPort
  <2>3. CASE Ender(FbPort)
    BY <1>d, <2>1, <2>3 DEF FbTake, FbRuns
  <2>4. QED
    BY <2>1, <2>2, <2>3 DEF StartInv
<1>2. CASE fb' = fb
  <2>1. Ender(FbPort) /\ FbPort \in Ports
    BY <1>2, <1>a, <1>b, Busy DEF ApplyInv
  <2>2. QED
    BY <1>2, <1>d, <2>1 DEF FbTake, FbRuns
<1>3. CASE FbTake \/ FbApply
  BY <1>3, <1>b DEF FbTake, FbApply, FbIdle
<1>4. CASE FbStop \/ FbDelete \/ FbNull \/ FbCreate
  <2>1. CASE FbStart
    BY <1>1, <2>1
  <2>2. QED
    BY <1>4, <1>a, <2>1, FbMoves
<1>5. QED
  BY <1>1, <1>2, <1>3, <1>4
  DEF Next, ConsoleFb, Toggle, TimerFires, CbStep, CbDelete, CbNull, CbUnmute, CbQueue, FbStep, vars

LEMMA NextBounded ==
  TypeInv /\ ToggleInv /\ ApplyInv /\ RumbleBounded /\ [Next]_vars => RumbleBounded'
<1> SUFFICES ASSUME TypeInv, ToggleInv, ApplyInv, RumbleBounded, [Next]_vars,
                    NEW p \in Ports, out'[p] = "timed"
             PROVE  Ender(p)' \/ (fb'.msg # NULL /\ FbPort' = p)
  BY DEF RumbleBounded, Ender, Queued
<1> USE DEF timerVars
<1>a. TypeOK
  BY DEF TypeInv
<1>b. ASSUME Ender(p) PROVE Ender(p)' \/ (fb'.msg # NULL /\ FbPort' = p)
  <2>1. CASE FbTake /\ Head(q).port = p
    <3>1. Head(q) \in Message /\ fb'.msg = Head(q)
      BY <1>a, <2>1, TailQueue DEF FbTake, TypeOK
    <3>2. QED
      BY <2>1, <3>1, NullAssumption DEF Message, FbPort
  <2>2. QED
    BY <1>b, <2>1, EnderStays
<1>c. ASSUME out[p] = "timed", ~FbTake, fb'.msg = fb.msg
      PROVE  Ender(p)' \/ (fb'.msg # NULL /\ FbPort' = p)
  BY <1>b, <1>c DEF RumbleBounded, Ender, Queued, FbPort
<1>1. ASSUME NEW r \in Ports, Toggle(r) PROVE Ender(p)' \/ (fb'.msg # NULL /\ FbPort' = p)
  <2>1. CASE r = p
    BY <1>1, <2>1, ToggleArms
  <2>2. CASE r # p
    <3>1. out[p] = "timed" /\ fb' = fb /\ q' = q
      BY <1>a, <1>1, <2>2 DEF Toggle, TypeOK
    <3>2. CASE FbTake
      BY <1>1, <3>1, <3>2, NullAssumption DEF FbTake, FbIdle, Toggle
    <3>3. QED
      BY <1>c, <3>1, <3>2
  <2>3. QED
    BY <2>1, <2>2
<1>2. CASE FbApply
  <2>1. FbPort \in Ports /\ fb.pc = "apply" /\ ~FbTake
    BY <1>2, <1>a, Busy DEF FbApply, FbRuns, FbTake
  <2>2. CASE FbPort = p
    <3>1. fb.msg.on /\ ~toggles
      BY <1>2, <1>a, <2>1, <2>2 DEF FbApply, TypeOK
    <3>2. QED
      BY <1>b, <2>1, <2>2, <3>1 DEF ApplyInv
  <2>3. CASE FbPort # p
    <3>1. out[p] = "timed"
      BY <1>2, <1>a, <2>1, <2>3 DEF FbApply, TypeOK
    <3>2. Ender(p)
      BY <2>3, <3>1 DEF RumbleBounded, Ender, Queued
    <3>3. QED
      BY <1>b, <3>2
  <2>4. QED
    BY <2>2, <2>3
<1>3. CASE FbTake
  <2>1. out[p] = "timed" /\ fb.msg = NULL
    BY <1>3, <1>a, Busy DEF FbTake, FbRuns, FbIdle
  <2>2. QED
    BY <1>b, <2>1 DEF RumbleBounded, Ender, Queued
<1>4. CASE UNCHANGED <<out, fb>>
  <2>1. CASE FbTake
    BY <1>3, <2>1
  <2>2. QED
    BY <1>4, <1>c, <2>1
<1>5. CASE FbStop \/ FbDelete \/ FbNull \/ FbCreate \/ FbStart
  <2>1. out' = out /\ fb'.msg = fb.msg /\ fb.pc # "idle"
    BY <1>5, <1>a, FbMoves DEF FbStop, FbDelete, FbNull, FbCreate, FbStart
  <2>2. QED
    BY <1>c, <2>1 DEF FbTake, FbRuns
<1>6. QED
  BY <1>1, <1>2, <1>3, <1>4, <1>5
  DEF Next, ConsoleFb, TimerFires, CbStep, CbDelete, CbNull, CbUnmute, CbQueue, FbStep, vars

\* However the callback of a timer cuts into bt_fb_task, a rumble the console
\* does not end is never left without an armed timer, the callback before its
\* message, a message for the port, or a stop message that was refused.
THEOREM RumbleEnds == Spec => []RumbleBounded
<1>1. Init => IInv
  <2>1. ASSUME Init PROVE ToggleInv /\ StartInv /\ ApplyInv /\ RumbleBounded
    BY <2>1 DEF Init, FbIdle, ToggleInv, StartInv, ApplyInv, RumbleBounded
  <2>2. QED
    BY <2>1, InitType DEF IInv
<1>2. IInv /\ [Next]_vars => IInv'
  BY NextType, NextToggle, NextStart, NextApply, NextBounded DEF IInv
<1>3. IInv => RumbleBounded
  BY DEF IInv
<1>4. QED
  BY <1>1, <1>2, <1>3, PTL DEF Spec
=============================================================================
