------------------------------- MODULE PortMap -------------------------------
(***************************************************************************)
(* wired_port_hdl of main/system/manager.c: every 32nd turn sys_mgr_task   *)
(* goes through the Bluetooth devices and gives each the next console port *)
(* without a wired controller, sets the port LEDs, and tells the driver    *)
(* which ports are used (wired_bare_port_cfg).  Between two of its steps a *)
(* wired controller is plugged or pulled, and the Bluetooth callback       *)
(* starts, readies or resets a device, delivers its reports to the port    *)
(* its out_idx names at that moment, and bt_fb_task sends player LEDs.     *)
(* The callback may also come in the middle of a device of the pass:       *)
(* between reading its flag, giving it its port, and using both.           *)
(*                                                                         *)
(* The HW2 build is modelled: HW1 boards have no sense pins.  A device's   *)
(* mapping is taken to reach its own port only (adapter_get_out_mask).     *)
(***************************************************************************)
EXTENDS Integers, FiniteSets

CONSTANTS
  PmPorts,     \* hw_config.port_cnt
  PmDevs,      \* Bluetooth slots (BT_MAX_DEV)
  PmChanges    \* bound: plugs, lost devices and inquiry changes

Ports == 0 .. PmPorts - 1
Devs == 0 .. PmDevs - 1
NoPort == -1
NoDev == -1
Indexes == 0 .. PmPorts + PmDevs - 1

VARIABLES
  pmHot,       \* hw_config.hotplug
  pmWired,     \* ports a wired controller is plugged in
  pmStage,     \* devices: "none", "link", "lit" (player LED set), "ready"
  pmOut,       \* ids.out_idx
  pmShown,     \* the player LED a device shows
  pmHeld,      \* wired_adapter.data: the device whose pressed button it holds
  pmInquiry,   \* an inquiry is running
  pmPass,      \* the pass: [i, j, idx, mask, update, pulsed]
  pmStep,      \* where in the pass's device it is: "look", "place", "show"
  pmReady,     \* bt_ready: what was read of it
  pmPrev,      \* prev_idx: the port it had
  pmMask,      \* port_state, as the driver was told
  pmLed,       \* port LEDs: "off", "on", "pulse"
  pmPulse,     \* current_pulse_led: the port it belongs to
  pmTell,      \* PLAYER_LED messages queued for bt_fb_task (a set: a repeated one changes nothing)
  pmSeen,      \* history: the last pass: the devices it read as ready, pulse (pmPulse
               \* when it began), calm (no inquiry change during it) and plug (a
               \* wired controller was plugged or pulled since it began)
  pmAway,      \* history: devices reset since the last pass came by
  pmRaced,     \* history: devices moved between their LED and INIT_DONE
  pmShifted,   \* history: a device had another port than its own number
  pmStale,     \* history: a device was reset since the driver was last told
  pmCrossed,   \* history: in the last pass a device was reset between its port and its LED
  pmCount      \* changes so far

pmVars == <<pmHot, pmWired, pmStage, pmOut, pmShown, pmHeld, pmInquiry, pmPass,
            pmStep, pmReady, pmPrev, pmMask, pmLed, pmPulse, pmTell, pmSeen, pmAway,
            pmRaced, pmShifted, pmStale, pmCrossed, pmCount>>
atVars == <<pmStep, pmReady, pmPrev>>
mapVars == <<pmPass, atVars, pmMask, pmLed, pmPulse, pmSeen>>
devVars == <<pmStage, pmOut, pmShown, pmHeld, pmTell>>
histVars == <<pmAway, pmRaced, pmShifted, pmStale, pmCrossed>>

Between == pmPass.i = 0
NewPass == [i |-> 0, j |-> 0, idx |-> 0, mask |-> {}, update |-> FALSE, pulsed |-> FALSE]

\* The table of devices is cleared memory: every out_idx is 0 until a slot is used.
Init ==
  /\ pmHot \in BOOLEAN
  /\ pmWired = {}
  /\ pmStage = [d \in Devs |-> "none"]
  /\ pmOut = [d \in Devs |-> 0]
  /\ pmShown = [d \in Devs |-> NoPort]
  /\ pmHeld = [x \in Indexes |-> NoDev]
  /\ pmInquiry = FALSE
  /\ pmPass = NewPass
  /\ pmStep = "look" /\ pmReady = FALSE /\ pmPrev = 0
  /\ pmMask = {}
  /\ pmLed = [p \in Ports |-> "off"]
  /\ pmPulse = 0
  /\ pmTell = {}
  /\ pmSeen = [ready |-> {}, pulse |-> 0, calm |-> TRUE, plug |-> FALSE]
  /\ pmAway = Devs
  /\ pmRaced = {}
  /\ pmShifted = FALSE
  /\ pmStale = TRUE
  /\ pmCrossed = FALSE
  /\ pmCount = 0

Change == pmCount < PmChanges /\ pmCount' = pmCount + 1

(***************************************************************************)
(* The world around the task.                                              *)
(***************************************************************************)
Plug(p) ==
  /\ Change
  /\ pmWired' = IF p \in pmWired THEN pmWired \ {p} ELSE pmWired \cup {p}
  /\ pmSeen' = [pmSeen EXCEPT !.plug = TRUE]
  /\ UNCHANGED <<pmHot, devVars, pmInquiry, pmPass, atVars, pmMask, pmLed, pmPulse, histVars>>

InquiryChanges ==
  /\ Change
  /\ pmInquiry' = ~pmInquiry
  /\ pmSeen' = [pmSeen EXCEPT !.calm = @ /\ Between]
  /\ UNCHANGED <<pmHot, pmWired, devVars, pmPass, atVars, pmMask, pmLed, pmPulse, histVars>>

\* adapter_init_buffer(dev_id): the buffer of the device's number, whatever
\* port it was writing to.
Released(d) == [pmHeld EXCEPT ![d] = NoDev]

\* The device whose LED is to be set has its port.
Showing(d) == pmStep = "show" /\ d = pmPass.i - 1

\* bt_host_reset_dev, when a slot is taken and when its device is gone.
Reset(d, stage) ==
  /\ pmHeld' = Released(d)
  /\ pmStage' = [pmStage EXCEPT ![d] = stage]
  /\ pmOut' = [pmOut EXCEPT ![d] = d]
  /\ pmAway' = pmAway \cup {d}
  /\ pmRaced' = pmRaced \ {d}
  /\ pmStale' = TRUE
  /\ pmCrossed' = (pmCrossed \/ Showing(d))
  /\ UNCHANGED <<pmHot, pmWired, pmShown, pmInquiry, mapVars, pmTell, pmShifted>>

Link(d) == pmStage[d] = "none" /\ Reset(d, "link") /\ UNCHANGED pmCount
Gone(d) == pmStage[d] # "none" /\ Reset(d, "none") /\ Change

\* The device's initialisation sends it its player LED, then marks it INIT_DONE.
Lights(d) ==
  /\ pmStage[d] = "link"
  /\ pmStage' = [pmStage EXCEPT ![d] = "lit"]
  /\ pmShown' = [pmShown EXCEPT ![d] = pmOut[d]]
  /\ UNCHANGED <<pmHot, pmWired, pmOut, pmHeld, pmInquiry, mapVars, pmTell, histVars, pmCount>>

Ready(d) ==
  /\ pmStage[d] = "lit"
  /\ pmStage' = [pmStage EXCEPT ![d] = "ready"]
  /\ UNCHANGED <<pmHot, pmWired, pmOut, pmShown, pmHeld, pmInquiry, mapVars, pmTell, histVars,
                 pmCount>>

\* A report: adapter_bridge writes the buffer of the device's out_idx.
Report(d) ==
  /\ pmStage[d] = "ready"
  /\ \E holder \in {d, NoDev} : pmHeld' = [pmHeld EXCEPT ![pmOut[d]] = holder]
  /\ UNCHANGED <<pmHot, pmWired, pmStage, pmOut, pmShown, pmInquiry, mapVars, pmTell, histVars,
                 pmCount>>

\* bt_fb_task takes a PLAYER_LED message: it goes to the first ready device
\* with that out_idx, which shows the out_idx it has by now.
TakeLed ==
  \E p \in pmTell :
    LET there == {d \in Devs : pmStage[d] = "ready" /\ pmOut[d] = p} IN
    /\ pmTell' = pmTell \ {p}
    /\ pmShown' = [d \in Devs |->
         IF d \in there /\ \A e \in there : d <= e THEN p ELSE pmShown[d]]
    /\ UNCHANGED <<pmHot, pmWired, pmStage, pmOut, pmHeld, pmInquiry, mapVars, histVars, pmCount>>

(***************************************************************************)
(* wired_port_hdl.                                                         *)
(***************************************************************************)
\* Ports from j on with a wired controller, up to the first empty one.
Skipped(j) == {p \in Ports : p >= j /\ \A q \in j .. p : q \in pmWired}

NextIdx(idx) == idx + 1

\* The first device that is not ready may pulse its port's LED.
Pulses(ready) == ~ready /\ ~pmPass.pulsed

Tells(moved, ready, idx) == IF moved /\ ready THEN pmTell \cup {idx} ELSE pmTell

\* A device of the pass: whether it is ready is read (manager.c:289).
Look ==
  /\ pmPass.i < PmDevs /\ pmStep = "look"
  /\ pmStep' = "place" /\ pmReady' = (pmStage[pmPass.i] = "ready")
  /\ UNCHANGED <<pmHot, pmWired, devVars, pmInquiry, pmPass, pmPrev, pmMask, pmLed, pmPulse,
                 pmSeen, histVars, pmCount>>

\* It is given the next port without a wired controller (manager.c:280, which only Plug could
\* cross, and 294).
Place ==
  LET d == pmPass.i
      skip == Skipped(pmPass.j)
      idx == pmPass.idx + Cardinality(skip)
      next == pmPass.j + Cardinality(skip) + 1
  IN
  /\ pmStep = "place" /\ pmStep' = "show" /\ UNCHANGED pmReady
  /\ pmPrev' = pmOut[d] /\ pmOut' = [pmOut EXCEPT ![d] = idx]
  /\ pmLed' = [p \in Ports |-> IF p \in skip THEN "off" ELSE pmLed[p]]
  /\ pmPass' = [i |-> d + 1, j |-> IF next > PmPorts THEN PmPorts ELSE next,
                idx |-> NextIdx(idx),
                mask |-> IF pmReady \/ ~pmHot THEN pmPass.mask \cup {idx} ELSE pmPass.mask,
                update |-> pmPass.update, pulsed |-> pmPass.pulsed]
  /\ LET before == IF Between
                   THEN [ready |-> {}, pulse |-> pmPulse, calm |-> TRUE, plug |-> FALSE]
                   ELSE pmSeen
     IN
       pmSeen' = [before EXCEPT !.ready = @ \cup (IF pmReady THEN {d} ELSE {})]
  /\ pmAway' = pmAway \ {d}
  /\ pmRaced' = IF pmOut[d] # idx /\ (pmStage[d] = "lit" \/ (pmStage[d] = "ready" /\ ~pmReady))
                THEN pmRaced \cup {d} ELSE pmRaced
  /\ pmShifted' = (pmShifted \/ idx # d)
  /\ pmCrossed' = (pmCrossed /\ ~Between)
  /\ UNCHANGED <<pmHot, pmWired, pmStage, pmShown, pmHeld, pmInquiry, pmMask, pmPulse, pmTell,
                 pmStale, pmCount>>

\* The LED of the port it has by now, and a message where that is another (manager.c:301-336),
\* for what was read of it.
Show ==
  LET d == pmPass.i - 1
      mine == IF pmOut[d] \in Ports THEN pmOut[d] ELSE NoPort
      moved == pmOut[d] # pmPrev
      pulse == Pulses(pmReady)
  IN
  /\ pmStep = "show" /\ pmStep' = "look" /\ pmReady' = FALSE /\ pmPrev' = 0
  /\ pmLed' = [p \in Ports |->
       IF p # mine THEN pmLed[p]
       ELSE IF pmReady THEN "on"
       ELSE IF pulse /\ pmInquiry THEN "pulse"
       ELSE IF p # pmPulse THEN "off" ELSE pmLed[p]]
  /\ pmPulse' = IF pulse THEN IF pmInquiry THEN mine ELSE NoPort ELSE pmPulse
  /\ pmTell' = Tells(moved, pmReady, pmOut[d])
  /\ pmPass' = [i |-> pmPass.i, j |-> pmPass.j, idx |-> pmPass.idx, mask |-> pmPass.mask,
                update |-> pmPass.update \/ moved,
                pulsed |-> pmPass.pulsed \/ (pulse /\ pmInquiry)]
  /\ UNCHANGED <<pmHot, pmWired, pmStage, pmOut, pmShown, pmHeld, pmInquiry, pmMask, pmSeen,
                 histVars, pmCount>>

\* Mutant of Updates: a changed set of ports is no reason to tell the driver.
UpdatesMoved == pmPass.update

Updates == pmPass.update \/ (pmHot /\ pmMask # pmPass.mask)

\* The end of the pass: wired_bare_port_cfg when a device moved or, with
\* hotplug, when the set of ports is another.
Finish ==
  /\ pmPass.i = PmDevs /\ pmStep = "look"
  /\ pmPass' = NewPass
  /\ pmMask' = IF Updates THEN pmPass.mask ELSE pmMask
  /\ pmStale' = IF Updates THEN pmAway # {} ELSE pmStale
  /\ UNCHANGED <<pmHot, pmWired, devVars, pmInquiry, atVars, pmLed, pmPulse, pmSeen, pmAway,
                 pmRaced, pmShifted, pmCrossed, pmCount>>

Next ==
  \/ \E p \in Ports : Plug(p)
  \/ InquiryChanges
  \/ \E d \in Devs : Link(d) \/ Gone(d) \/ Lights(d) \/ Ready(d) \/ Report(d)
  \/ TakeLed
  \/ Look \/ Place \/ Show
  \/ Finish

Spec == Init /\ [][Next]_pmVars

(***************************************************************************)
(* Properties.                                                             *)
(***************************************************************************)
Flags == {pmHot, pmInquiry, pmShifted, pmStale, pmCrossed, pmReady} \subseteq BOOLEAN

Records ==
  /\ pmPass \in [i : 0 .. PmDevs, j : 0 .. PmPorts, idx : 0 .. PmPorts + PmDevs,
                mask : SUBSET Indexes, update : BOOLEAN, pulsed : BOOLEAN]
  /\ pmSeen \in [ready : SUBSET Devs, pulse : Ports \cup {NoPort}, calm : BOOLEAN, plug : BOOLEAN]

\* Type invariant.
TypeOK ==
  /\ Flags /\ Records
  /\ pmWired \subseteq Ports
  /\ pmStage \in [Devs -> {"none", "link", "lit", "ready"}]
  /\ pmOut \in [Devs -> Indexes]
  /\ pmShown \in [Devs -> Indexes \cup {NoPort}]
  /\ pmHeld \in [Indexes -> Devs \cup {NoDev}]
  /\ pmStep \in {"look", "place", "show"} /\ pmPrev \in Indexes
  /\ pmMask \subseteq Indexes
  /\ pmLed \in [Ports -> {"off", "on", "pulse"}]
  /\ pmPulse \in Ports \cup {NoPort}
  /\ pmTell \subseteq Indexes
  /\ pmAway \subseteq Devs /\ pmRaced \subseteq Devs

\* wired_port_hdl gives the devices the free ports in their order: between two
\* passes no two devices write to one port, the players keep their order, and
\* nobody writes to a port that had a wired controller all through the pass; only
\* a device reset since (bt_host_reset_dev puts its own number back) may.
InOrder ==
  Between =>
    \A d \in Devs \ pmAway :
      /\ pmSeen.plug \/ pmOut[d] \notin pmWired
      /\ \A e \in Devs \ pmAway : d < e => pmOut[d] < pmOut[e]

\* The driver answers on the ports the devices are on, once a pass is over:
\* with hotplug those of the controllers that are ready, else all of them.
\* Without hotplug a reset hides a move from wired_port_hdl, which then leaves
\* the driver with the ports of before.
DriverTold ==
  Between /\ pmAway = {} /\ (pmHot \/ ~pmStale) =>
    pmMask = {pmOut[d] : d \in IF pmHot THEN pmSeen.ready ELSE Devs}

\* A controller shows the number of the port it plays on, once bt_fb_task has
\* no player LED message left, unless it was moved between getting its LED and
\* being seen to be ready (then nobody tells it).
PlayerLedTold ==
  Between /\ pmTell = {} =>
    \A d \in Devs \ pmRaced : pmStage[d] = "ready" => pmShown[d] = pmOut[d]

\* The LEDs of the adapter: a lit port is one whose device was ready when the
\* pass came by (the one that pulsed last goes out a pass later), and at most
\* one pulses to say who may connect (the inquiry may change within a pass, and a
\* device that is reset between its port and its LED has the LED of its own number
\* set, which may be another's port: the next pass sets it right).
LedsRight ==
  Between =>
    /\ ~pmCrossed => \A p \in Ports : (\E d \in Devs \ pmAway : pmOut[d] = p /\ d \in pmSeen.ready)
                                      => pmLed[p] = "on"
    /\ pmAway = {} => \A p \in Ports \ {pmSeen.pulse} : pmLed[p] = "on" =>
                         \E d \in pmSeen.ready : pmOut[d] = p
    /\ pmSeen.calm /\ ~pmCrossed => \A p, q \in Ports : pmLed[p] = "pulse" /\ pmLed[q] = "pulse" => p = q

\* A device that is gone leaves no button pressed, as long as no wired controller
\* has put a device on another port than its own number: bt_host_reset_dev
\* clears the buffer of the number, not that of the port.
GoneReleased ==
  \A x \in Indexes : pmHeld[x] # NoDev /\ ~pmShifted => pmStage[pmHeld[x]] = "ready"

(***************************************************************************)
(* The inductive invariant.                                                *)
(***************************************************************************)
\* The pass, or with none under way the last one, has come by the device.
Come(d) == Between \/ d < pmPass.i

\* idx counts the devices and the ports passed over, j the ports up to the last.
Counted ==
  /\ pmPass.i <= pmPass.idx /\ pmPass.j <= pmPass.idx /\ pmPass.idx <= pmPass.j + pmPass.i
  /\ pmPass.j < PmPorts => pmPass.idx = pmPass.j
  /\ pmPass.i <= pmPass.j \/ pmPass.j = PmPorts
  /\ Between => pmPass = NewPass /\ pmStep # "show"
  /\ pmStep = "place" => pmPass.i < PmDevs
  /\ \A d \in pmSeen.ready : Come(d)

\* The device whose LED is to be set has the last port given, unless it was reset since.
Placed ==
  \A d \in Devs : Showing(d) =>
    /\ d \in pmAway => pmCrossed
    /\ d \notin pmAway => pmOut[d] = pmPass.idx - 1 /\ (pmReady <=> d \in pmSeen.ready)
    /\ pmOut[d] < pmPass.idx

\* A device that was reset has its own number, any other one at least that.
Own ==
  \A d \in Devs :
    IF d \in pmAway THEN pmOut[d] \in {0, d} /\ (pmStage[d] # "none" => pmOut[d] = d)
    ELSE pmOut[d] >= d

\* The devices are in order, but for those the pass has yet to move.
Order ==
  /\ \A d \in Devs : d < pmPass.i => pmOut[d] < pmPass.idx
  /\ \A e \in Devs, d \in Devs \ pmAway :
       e < d => pmOut[e] < pmOut[d] \/ (pmPass.i <= d /\ pmOut[d] < pmPass.idx)
  /\ \A d \in Devs \ pmAway : Come(d) => pmSeen.plug \/ pmOut[d] \notin pmWired

\* The mask is that of the devices the pass has come by, and without hotplug the driver's is that
\* of all until one is moved or reset.
Masks ==
  /\ ~Between /\ (\A d \in pmAway : ~Come(d)) =>
       pmPass.mask = {pmOut[d] : d \in {c \in Devs : Come(c) /\ (pmHot => c \in pmSeen.ready)}}
  /\ pmHot /\ Between /\ pmAway = {} => pmMask = {pmOut[d] : d \in pmSeen.ready}
  /\ ~pmHot /\ ~pmStale /\ ~pmPass.update /\ (\A d \in Devs : Showing(d) => pmOut[d] = pmPrev) =>
       pmMask = {pmOut[d] : d \in Devs}

\* A controller shows its port, or is going to be told, or to be moved.
Shown ==
  \A d \in Devs :
    /\ d \in pmAway /\ pmStage[d] \in {"lit", "ready"} => pmShown[d] = pmOut[d]
    /\ d \notin pmRaced /\ pmStage[d] = "lit" => pmShown[d] = pmOut[d]
    /\ d \notin pmRaced /\ pmStage[d] = "ready" =>
         \/ pmShown[d] = pmOut[d] \/ pmOut[d] \in pmTell \/ (pmPass.i <= d /\ pmOut[d] < pmPass.idx)
         \/ Showing(d) /\ pmReady /\ pmOut[d] # pmPrev

\* The LEDs of the ports the pass has come by, but for the one that is yet to be set.
Lit ==
  /\ ~pmCrossed => \A d \in pmSeen.ready \ pmAway :
       pmOut[d] \in Ports /\ ~Showing(d) => pmLed[pmOut[d]] = "on"
  /\ (\A d \in pmAway : ~Come(d)) =>
       \A p \in Ports \ {pmSeen.pulse} :
         (Between \/ p < pmPass.j) /\ pmLed[p] = "on" =>
           (\E d \in pmSeen.ready : pmOut[d] = p) \/ (pmStep = "show" /\ p = pmPass.idx - 1)

\* The one that pulses is current_pulse_led, or was before the inquiry ended.
Pulse ==
  /\ ~Between => pmPulse \in {pmSeen.pulse, NoPort} \/ pmPulse < pmPass.j
  /\ pmStep = "show" /\ pmPulse = pmPass.idx - 1 => pmPulse = pmSeen.pulse
  /\ pmSeen.calm /\ ~pmCrossed /\ ~Between =>
       \A p \in Ports : p < pmPass.j /\ pmLed[p] = "pulse" =>
         \/ pmStep = "show" /\ p = pmPass.idx - 1
         \/ IF pmPass.pulsed THEN p = pmPulse
            ELSE ~pmInquiry /\ pmPulse = NoPort /\ p = pmSeen.pulse
  /\ pmSeen.calm /\ ~pmCrossed /\ Between =>
       \A p, q \in Ports : pmLed[p] = "pulse" /\ pmLed[q] = "pulse" => p = q

\* Until a device is shifted each has its own number and its own buffer.
Buffers ==
  ~pmShifted =>
    /\ \A d \in Devs : pmOut[d] \in {0, d} /\ (pmStage[d] # "none" => pmOut[d] = d)
    /\ \A x \in Indexes : pmHeld[x] # NoDev => pmHeld[x] = x /\ pmStage[x] = "ready"

Ind == TypeOK /\ Counted /\ Placed /\ Own /\ Order /\ Masks /\ Shown /\ Lit /\ Pulse /\ Buffers
=============================================================================
