# BlueRetro in TLA+

BlueRetro is firmware for the ESP32 that connects Bluetooth controllers to old
game consoles.  This directory holds TLA+ models of its stateful parts, the TLC
configurations that check them and TLAPS proofs about them.  Every definition
follows the C sources under `src/`; `PROJECT.json` maps each one to its lines.

1. Inventory: the system's parts and what makes each correct
2. Modules: which module models which part
3. Runs: what TLC checks, with which bounds and which fairness
4. Proofs: what TLAPS proves for every value of the constants, and how
5. Where the code falls short: findings and named exceptions
6. What is not modelled, and what is left to prove

## 1. Inventory

### Who runs where

| context | core | code | priority |
|---|---|---|---|
| wired driver: a polling loop or interrupt handlers | 1 (bare metal, no RTOS) | `main/wired/*` | - |
| Bluetooth callbacks of the controller | 0 | `bt_host_rx_pkt` -> `bt_hci_evt_hdlr`, `bt_host_acl_hdlr` | 23 |
| `esp_timer` task | 0 | `mc_store_cb`, `adapter_fb_stop_cb`, `kbmon_typematic_cb`, controllers' timers | 22 |
| `bt_tx_task` | 0 | sends what `bt_host_txq_add` queued | 11 |
| `bt_fb_task` (every 100 ms) | 0 | takes the feedback queue apart | 10 |
| `bt_host_task` (16 ms), `sys_mgr_task` (10 ms) | 0 | SDP parsing; buttons, power, reset | 5 |
| `wl_init_task` | 0 | boot: files, configuration, memory card, Bluetooth | boot |

Core 1 waits only for `config.magic`, so that it is running while `wl_init_task`
still sets up the memory card.  A higher priority on core 0 preempts a lower one
anywhere; core 1 runs truly in parallel, except while it holds core 0 in
`core0_stall`.

### Components

| component | state | operations | how it meets the others | hard behaviours | correct when |
|---|---|---|---|---|---|
| feedback queue (`queue_bss.c`) | two rings, the slots | enqueue, dequeue, return | producers: drivers on core 1, `esp_timer`, `sys_mgr`, BLE service; consumer: `bt_fb_task` | two producers in one call; full queue | bounded FIFO; a slot has one owner; the pool recovers |
| memory card (`memory_card.c`) | RAM blocks, `mc_block_state`, timer, file | `mc_read`, `mc_write`, storing one block per timer | written by core 1 and the BLE service; the feedback queue wakes the storing | power cut, write during storing, refused message, failing `fopen`/`fwrite` | what differs from the file is marked; what is marked gets stored |
| rumble (`adapter.c`, `bt_fb_task`, `dc.c`, `n64.c`, `gc.c`) | `rumble_mute`, a timer handle per port | `adapter_q_fb`, `adapter_toggle_fb`, timer callback | console -> queue -> `bt_fb_task` -> controller | handle tested, then deleted by another thread; refused stop message | a rumble ends; the mute ends |
| links (`hci.c`, `host.c`) | `bt_dev[7]`, inquiry state and counter | an event handler per HCI event; buttons | commands through `txq_hdl`, events from the controller | crossing pages, retries, full table, lost links | one slot per peer and handle; no leaked slot or link; never deaf |
| HCI configuration (`hci.c`) | `bt_config_state`, retry counter | next command on each Command Complete | `bt_tx_task`, controller | failing answers, stray answers, start-over | every command is in force; all stored peers accepted |
| authentication, link keys (`hci.c`, `host.c`) | key ring of 16, LE keys, files | load, store, clear | HCI and SMP handlers | rewritten file and power cut; slot reuse | a stored key is found; a cleared one is not |
| LE links, SMP (`hci.c`, `smp.c`) | accept list, FIFO of encryption requests | pairing messages | HCI LE encrypt answers in order | answers matched by position only | keys of one peer never go to another |
| L2CAP, SDP (`l2cap.c`, `sdp.c`) | channels' flags and ids | connection and configuration handshake | ACL handler, `bt_host_task` parses SDP | duplicate or crossing requests, reset while parsing | both HID channels open before HID starts; a peer is set up for what it is |
| HID host (`hidp/*.c`, `att_hid.c`) | `hid_state`, retries, timers | vendor init sequences, GATT discovery | reports to `adapter_bridge` | retry racing the answer, timer after reset | the sequence ends in a ready device |
| ACL packets (`host.c`) | one fragment buffer, transmit queue | reassemble, send, pause | controller callback, `bt_tx_task` | fragments of two links interleaved | packets whole and one at a time |
| BLE configuration (`att_cfg.c`) | offsets, OTA handle | read/write characteristics | `config.c`, `memory_card.c` | abort and disconnect midway, a second client | what a client reads is there, whole and once |
| trace (`mon.c`) | offset, header | append a record | `mc_write` | two tasks, block boundary | records are contiguous and in bounds |
| system manager (`manager.c`) | power, reset, port state | button state machine, port assignment, LEDs | links, feedback queue, drivers | preempted by callbacks | buttons act on the real state; all agree who plays where |
| configuration, game id (`config.c`, `gameid.c`) | `config`, current id | load, migrate, store | BLE service, `bt_fb_task` | migration chain, short file, power cut | every version migrates; the right file holds the edit |
| wireless conversions (`adapter/wireless/*`, `mapping_quirks.c`) | tables copied at the first report, calibration | report -> generic | HID host | a pad changes to another kind of report | what is held is heard, axes as pushed |
| mapping, macros (`adapter.c`, `macro.c`) | masks, ranges, held macros | generic -> `ctrl_output` | manager's commands | several sources on one axis, two reports per pad | strongest source wins; one command per chord |
| wired conversions (`adapter/wired/*`) | `wired_data` of a port, turbo counters, alternate modes | `ctrl_output` -> the console's report | drivers read it on core 1 | two pads on one port, mode change, turbo over release | nothing sticks; axes in order; a special action once |
| keyboard monitor (`kb_monitor.c`) | keys held, code queue, repeat timer | report -> make and break codes | `esp_timer`, drivers | full queue, release inside the timer's callback | the console's view of the keys agrees; no ghost repeats |
| wired drivers (`main/wired/*`) | per protocol | answer the console | wired data, feedback queue | console aborts or repeats a command, edges lost | the answer fits the question, feedback follows |
| core 0 stall (`core0_stall*`) | lock, flags, level 5 interrupt | start, end | drivers' loops | a start right after an end | core 1 never waits for ever |
| HID parser (`hid_parser.c`, `hid_generic.c`) | the reports parsed, the tables of a slot | parse a description, make the tables, read a report, write the rumble | SDP and ATT bring descriptions, the HID host reports | a description after its first reports, the tables of the former device, several reports of one device | a report is heard as what the device describes; motors are felt as asked |
| boot, detection (`main.c`, `detect.c`) | `system_id`, `config.magic` | start both cores | all | order of the two cores | nothing used before it is made (not modelled) |

## 2. Modules

The mutants of a module (`...Once`, `...Twice`, `...Untested`, ...) stand right
before the definition they change; they document which bug each property finds.
History variables only record what happened; no guard of the code's actions
reads them.  They make the exceptions of a property exact: `DirtyUnlessRaced`
says that the *only* way to lose a mark is a memcpy that falls into the storing
of its block.

### Core services

| module | models | main correspondence |
|---|---|---|
| `FbChannel` | what the feedback queue promises (abstract) | `Send`, `Receive`, `Release` |
| `QueueBss` | `components/queue_bss/queue_bss.c` | `Enq*` = `queue_bss_enqueue`, `Deq*` = `queue_bss_dequeue`, `Ret*` = `queue_bss_return`; `freeq`, `itemq` = the two rings |
| `MemCard` | `adapter/memory_card.c` | `Write*` = `mc_write`, `Spread*` = `mc_store_spread`, `StorageUpdate` = `mc_storage_update`, `McInit`, `Restore*`, `Create*` = `mc_init` |
| `FbFeedback` | rumble in `adapter.c`, `bt_fb_task`, `dc.c` | `Toggle` = `adapter_toggle_fb`, `Cb*` = `adapter_fb_stop_cb`, `Fb*` = `bt_fb_task` with `dc_fb_to_generic` |
| `LinkTable` | links and inquiry in `hci.c`, `host.c`, `manager.c` | one action per HCI event; `Press*` = buttons, `Pass*`, `Sys*` = `power_on_hdl`, `override` = `inquiry_override`; `Ctrl*`, `PeerActs` = the controller and the peers |
| `HciConfig` | the table `bt_hci_config` in `hci.c` | `conf`, `retry`, `nextKey` = `bt_config_state`, `bt_hci_pkt_retry`, the static index over the LE keys; `CmdDone`, `CmdFailed` = Command Complete |

`QueueBss` implements `FbChannel` (`ImplementsChannel`, a refinement mapping
that reads the pending messages out of the ring).  `MemCard` and `FbFeedback`
use the queue by what it promises: a bounded number of messages, any of which
may be refused.  The rings of `QueueBss` come from liblfds, whose directory is an
absent submodule; they are modelled as the bounded single-producer
single-consumer ring their name says, with the access to the element and the
move of the index as separate steps.  That a second producer breaks them is not
built in: it follows from these two steps.

`LinkTable` models the controller from the HCI rules the firmware relies on: it
takes commands in order, refuses one that does not fit its state (the firmware
only prints the Command Status), and reports the end of each attempt.  The
inquiry mode is the default `INQ_AUTO`, and handles are above 0.  A pass of
`power_on_hdl` sets or clears `inquiry_override` by the console's power and stops
the inquiry in steps of its own, so that a handler may be between the override's
test and its commands; the initial states have the override set or not.
`HciConfig` takes the link from request to completion as one event; its exceptions are what
the code does not recover from: a stray answer in the middle of the table, a
refused peer, a start-over (which leaves the accept list empty and slots without
links), a failed command after the table's end, and a command the controller does
not know: `BT_HCI_ERR_UNKNOWN_CMD` passes as success (`hci.c:1621`) and the table
goes on without it.  `Optional` are the entries that may be unknown; that the
reset and the inquiry are known is taken for granted.

### The host side: `HostSide`

`HostSide` composes the parts of core 0.  They have no state in common but what
their own actions of the environment stand for (a link going down, a file
rewritten), so a behaviour is one of the part chosen at the start, and the parts
share the variables `s1` ... `s22` by `INSTANCE ... WITH`.

| module | models |
|---|---|
| `HidLink` | a slot of `bt_dev[]` from `CONN_COMPLETE` to the end of the init: authentication, L2CAP channels, both SDP searches, `bt_hid_init`, `bt_host_task`, the init timers (`hci.c`, `l2cap.c`, `sdp.c`, `hidp.c`, `hidp/ps.c`, `ps3.c`) |
| `SwInit` | the Switch init chain with its 100 ms retries (`hidp/sw.c`) |
| `WiiExt` | the Wii remote's extension, plugged and pulled while it is opened (`hidp/wii.c`) |
| `SmpPair` | LE pairing, the two callback queues of `LE_RAND` and `LE_ENCRYPT`, key distribution (`smp.c`, `hci.c`) |
| `AttChain` | the twelve states of the LE HID discovery (`att_hid.c`) |
| `LinkKeys` | the BR/EDR and the LE key stores and their files (`host.c`) |
| `AclFlow` | reassembly in the one `frag_buf`, flow control of sending (`host.c`) |
| `CfgUpgrade` | `config_init` with the upgrade chain and power cuts (`config.c`) |
| `CfgService`, `CfgReads` | what the BLE service writes and answers (`att_cfg.c`, `config.c`, `gameid.c`) |
| `TraceLog` | `bt_mon_tx` on the memory card's blocks (`mon.c`) |
| `PortMap` | `wired_port_hdl`, three steps a device: reading `INIT_DONE`, its port, its LED and message, with the Bluetooth callback between them (`manager.c`) |
| `SysTask` | the button, the commands and the console's power (`manager.c`) |
| `RawReports` over `Controllers` | a controller's report and what is heard in it, over the tables and the quirks (`adapter/wireless/*`, `mapping_quirks.c`) |
| `HidPads` over `Controllers` | devices that describe their own reports: the parser's result, the tables made from it, reports and the rumble (`hid_parser.c`, `adapter/wireless/hid_generic.c`, `host.c`, `hidp/generic.c`) |
| `Mapping` over `ReportRules` | the list of mappings, scaling, turbo and the macros (`adapter.c`, `macro.c`) |

### The wired side: `WiredDrivers`

`wired_bare_init` starts one driver, the one of the console the adapter is
plugged into; `WiredDrivers` takes one part per behaviour and the variables of
the others are `"off"`.

| module | models |
|---|---|
| `PsPort` | a PlayStation port, pad or multitap, frame by byte: a single pad's frame ends after 9 bytes and a multitap's goes on, requests 0x43, 0x44, 0x4D, 0x4F (`ps_spi.c`) |
| `NsiPorts` | N64 and GameCube: paks and banks, rumble, origin and trigger (`nsi.c`, `adapter/wired/n64.c`, `gc.c`) |
| `MaplePorts` | Dreamcast: VMU blocks, rumble, damaged frames (`maple.c`) |
| `SegaPorts` | Mega Drive and Saturn: TH edges, timeouts, the stall, handshakes (`sega_io.c`) |
| `NpisoPorts` | NES, SNES, Virtual Boy: three interrupt routines and their lost edges (`npiso_io.c`) |
| `RowPorts` | Jaguar and PC Engine: rows, banks, multitap, mouse (`jag_io.c`, `pce_io.c`) |
| `CdiPort` | CD-i: RTS, ids, the report FIFO (`cdi_uart.c`) |
| `JvsNode` | a JVS node: frames of commands, retransmission (`jvs_uart.c`) |
| `WiiPort` | the Wii extension port, its key and its FIFO (`wii_i2c.c`) |
| `KbMonitor` | keyboards for PlayStation, CD-i and Saturn (`kb_monitor.c`) |
| `MouseMotion` | a mouse axis between the cores, in each console's format (`load_mouse_axes`) |
| `CoreStall` | the lock that stalls core 0 (`core0_stall.c`, `core0_stall_highint_hdl.S`) |
| `WiredReports` over `ReportRules` | the conversions of all consoles, a port as reports come in (`adapter/wired/*`) |

### Proofs

`QueueBssProofs`, `HciConfigProofs`, `LinkTableProofs`, `WiredProofs`,
`HostParts` and `HostProofs`; `MemCard` and `FbFeedback` hold their own.
`HostParts`, which `HostSide` extends, instantiates the parts of core 0 that are
proved about, each followed by its lemmas: see section 4.

## 3. Runs

| run | shows | bounds and why they are enough |
|---|---|---|
| `queue_spsc` | type invariant, the refinement of `FbChannel`, replenished pool | one producer, ring of 4: indices wrap several times, the pool of 3 runs dry |
| `queue_two` | exclusive slots and no full ring while calls do not overlap | 2 producers, ring of 3 |
| `queue_race` | (violation) the producers the firmware has take the same slot | as `queue_two` |
| `memcard` | marks, wake-ups, storing | 2 blocks, 1 writer, 3 writes, 1 power cut, 2 messages, 2 descriptors: a write can hit the stored block, the other one, and follow a cut |
| `fb` | the mute ends and so does a rumble | 2 ports, 2 timers, queue of 2: full while a callback has to send |
| `fb_stop` | (violation) new data does not stop the timer | 3 timers, one more than ports: a leaked one fires late |
| `link_safe` | consistency of table, links and inquiry | 2 slots, 2 peers, 2 acts of peers, 2 failures, 1 button press or pass of the power management (`MaxSys`), the override set or not at first: crossing pages, exhausted retries and a table that empties under the override happen |
| `link_live` | a waiting slot is decided | 1 slot, 2 peers: the second finds the table full; 3 acts, 2 failures, no buttons |
| `hci` | every command in force, whole accept list, reachable when alone; the table ends | 7 entries (the ones with an effect and one of the rest), 2 stored peers, retry limit 1, 3 failures, 1 link that comes and goes, a controller that may not know the list's or the advertising command (`Optional`): the table starts over, also with a link up |
| `wired` | the drivers, the reports, keyboards, mice and the stall | 5 frames of a PlayStation (one cut), so that single-pad frames come between a multitap's, 3 of the other consoles (2 ports each), 2 configuration changes, a code queue of 2 that overflows, 3 mouse reports, 6 clocks on 2-bit pads, 3 wires and 3 keys: every exception named in section 5 occurs |
| `host` | the host's parts, the configuration, the manager, the pads and mappings | 2 peers, 2 devices and ports, tables of 2 or 3 entries so that they fill, 2 retries, 1 or 2 power cuts, blocks of 2; 4 pairings of 3 peers for 2 keys; 6 LE controllers, of which one fills the table of reports, one has more and one a longer map than the buffer; 2 edits of the configuration, the second of which turns the debug trace on, and one unusual event (a file that cannot be opened or read, a changed game, an open update) and, at the ports, one plug, lost device or change of inquiry, of all of which the theorems take any number; any of the 10 devices that describe themselves and one that comes after it in the slot (`Comes`: one read with tables of the same kind), a control held or an axis pushed at a time |
| `trace` | (violation) a record crosses a block | blocks of 2, records of up to 2 behind a header |

The constants of a composed run carry the prefix of the part they bound.  A
property of `wired` and `host` is a conjunction of the parts' own properties,
each under the part that runs, and says in its comment what they are together:
`ReadsAsAsked`, for instance, is that each console reads what its own edges,
clocks and requests lead to.  Each property has a mutant of the code that breaks
it under the run's own configuration.

The constants differ from the code's where a smaller number shows the same:
BT_MAX_RETRY is 3 in the code (`bluetooth/host.h:18`) and 1 or 2 in the runs, a
key store has 16 entries and 2 in the run, a block 4096 bytes and 2 cells.

Of a bound on events (`MaxWrites`, `MaxPeer`, ...) the run sees behaviours in which
they stop.  So `EventuallyStored` does not speak of a console that writes without
pause, which postpones the storing for as long (`memory_card.c:98`), and
`DirtyUnlessRaced` speaks of a card whose file is complete after boot: a file cut
short at its creation, or a torn block, is restored as it is.

Fairness.  Tasks of the firmware are loops that never end, a call that was
entered returns, an armed `esp_timer` fires, and the controller ends every
attempt it has started: these get weak fairness.  A flash write that is retried
for ever succeeds some day (strong fairness of `SpreadWritten`).  Nothing is
assumed of consoles, peers and users.  The liveness properties are `PoolRecovers`,
`EventuallyStored`, `MuteEnds`, `SlotDecided` and `SetUpDone`; the composed runs
state safety only.  `CHECK_DEADLOCK FALSE` is set where the bounds end the
behaviour, or where the code would follow a garbage pointer or delete a deleted
timer, whose outcome is undefined: the model gives no step.

## 4. Proofs

A theorem holds for every value of the constants under the assumptions named in
the modules (`ItemNumAssumption`, `GarbageAssumption`, `NumBlocksAssumption`,
`BoundsAssumption`, `NsiUpdateAssumption`, `KbQueueAssumption`, ...), which are
what the code's `#define`s satisfy and which TLC evaluates on every run.  Each
inductive invariant below was checked by TLC before it was proved.

* **`QueueBssProofs`**: `TypeCorrect`, `Exclusive`, `NeverFull`.  The latter two
  are not inductive.  `IInv` adds that without overlap at most one producer is
  inside the call, what each ring holds beyond its indices while a slot is being
  taken or stored, and a count: the slots in the two rings and in the hands of
  producer and consumer are never more than `ItemNum - 1`, which is why a ring
  of `ItemNum` cannot be full.

  `ChannelUntilOverlap` is the refinement, step by step: for any number of
  producers, up to the first overlap of two calls, each step of the rings is a
  send, a receive, a refusal or a stutter of `FbChannel`; `ChannelAlone` says
  that one producer never overlaps and refines it for good.  The mapping reads
  the pending messages out of the ring by `Place`, so the proof needs how places
  move with the indices modulo `ItemNum` (`PlaceOf`, `Places`, `PlacesMoved`),
  what a push and a pop do to the sequence (`PushedItem`, `PoppedItem`), and
  the invariant `Copied`: a slot whose index was stored in the item ring holds
  its message.  That a send finds room in the bounded channel is the count of
  `IInv` again.
* **`MemCard`**: `TypeCorrect`, `MarkedOnItsWay`, `DirtyTracking`.  The
  second needs that a running callback implies a timer; the third needs `CardInv`:
  during boot the blocks already restored or created are clean, and during
  storing the value that was read is the one in RAM unless a racing `mc_write`
  is recorded.
* **`FbFeedback`**: `TypeCorrect`, `RumbleEnds`.  `RumbleBounded` says who
  will end a rumble (an armed timer, a callback on its way, a queued message, or
  the recorded loss of one).  It needs what each thread has still to do: `ToggleInv`
  (`adapter_toggle_fb` between its steps), `StartInv` (the timer `bt_fb_task`
  is about to start) and `ApplyInv` (the message being applied), over `TypeInv`,
  in which the handle of a port names a timer that was created.  `EnderStays` is
  the lemma they share: a step that takes one ender away puts another in its place.
* **`HciConfigProofs`**: `TypeCorrect`, `TableInForce`, `AllPeersAccepted`,
  `ReachableWhenAlone`, each but for the commands the controller does not know.  `TableInv`
  says that exactly one command or answer of the table is under way while it is gone through and none after its end; `ListInv`
  where the index over the stored peers stands against the accept list;
  `LinksInv` counts the links that are up against the ends on their way; `AdvInv`
  follows the order off-then-on of the advertising commands in the queue.
* **`LinkTableProofs`**: `TypeCorrect`, `LookupsUnambiguous`, `LinksAccountedFor`,
  `InquiryInStep`.  The handlers are first brought to a few shapes
  (`HandlerShape`: an event passes, enters a slot, connects it, retries or frees
  it) and so is the controller (`CtrlShape`); the queues are reasoned about by
  patterns (`Has`, `Before`, `Followed`, `Apart`) that popping and pushing keep.
  `HandleInv` says that a handle in a slot has its link or its end on the way,
  `PeersInv` what is on its way for a peer by where its link stands, and
  `AttemptsInv` that a slot that waits has exactly one attempt under way.
  `InquiryInStep` needs the last switch in the command queue (`Switched`), and
  where the manager's pass stands: with the override set and no pass or handler
  between its test and its commands that switch is off.

  The first attempt at `LinksAccountedFor` failed for a reason: the property as
  it was checked at first, that no link lacks a slot, is false with more acts of
  peers than that run allowed.  A name request that fails after its link has
  ended finds the peer's next attempt by address, counts against it, and may
  reset its slot (`hci.c:1512`); with one peer, 5 acts and a retry limit of 1,
  or 7 and 2, TLC shows it.  `LeavesLink` and the history of the model now record
  such attempts, and `SlotsFollowLinks` names them.
* **`WiredProofs`**: `NobodyLeftWaiting`, `FeedbackIsFollowed`, `InputIsKept`,
  `RequestsOnce`, `ReadsAreAsked`.  Only one driver runs, so the invariant is a conjunction
  `DriverInv`: the one that runs keeps its own.  `StallInv` says where core 0
  can be by what core 1 has done, as long as no start crossed an end.  `SegaStall`
  follows core 0's stall through the places of the loop, `CdiStuck` the UART's
  FIFO, its TX_DONE and the pending edges.  `MouseInv` keeps the sum of motion
  sent, dropped and waiting: a poll takes the axis whole and drops what is beyond
  the console's range.  `MapleInv` ties the shared rumble registers to the
  last asker and the card to the acknowledged writes.  `NsiInv` has `PakInv` (a
  pak's change not yet told is still being announced), `MotorInv` and
  `OriginInv`.  `PsInv` has `PsOnce` (what the buffers hold that was received in
  this frame, which single-pad frames do not overwrite beyond their ninth byte) and
  `PsLeds` (a slot's LED and motor map agree with its mode through the
  configuration mode, whose id hides it).  `KbInv` says whom the repeat timer
  serves, and its `Pressed` is what the console will hold a key for once it has
  read the queue, which a code appended or taken changes as it should
  (`KbAppend`, `KbTail`).  `RequestsOnce` leaves the JVS node out, whose frames a
  recursive function parses.  For `ReadsAreAsked`, `CdiSent` says that RTS keeps
  still while the loop writes a report, unless an edge came into it; `SegaShown`
  that the pins of a port that is in step show the half its level asks for;
  `SegaFrames` that a frame is counted only for the port that was polled;
  `NpClocked` and `NpColumn` where a port's clocks and the keyboard's column
  stand before, while and after `npiso_isr` serves the latch; `RowAgrees` where
  the PC Engine's row is by the place of the loop; `WiiInv` what the extension's
  FIFO still holds of the register asked for.
* **`HostParts`** and **`HostProofs`**: `PowerTheorem`, `PlayersTheorem`,
  `ReadsTheorem`, `ConfigurationTheorem`, `MovesTheorem`, `SetUpTheorem`.  A section of
  `HostParts` has a part, what the proofs take for granted of its constants, and
  the lemmas: the invariant `Ind`, stated in the part's module, holds at first,
  is kept by the part's steps and implies its properties.  `HostProofs` carries
  them over to `HostSide`, where the part that is chosen at the start is the one
  that runs (`PartStays`).

  *The manager* (`SysTask`).  `Quick`: the time since the first of two presses and
  what is left of the inhibit count add up to the whole count, so that a second
  press that is taken is a double press in time.  `Causes` ties the order to
  erase to the hold that gave it and a console that is off to nobody being in,
  or on the way in without having been told to leave.  `ManagerAssumption`:
  there are at most three thresholds, as many as `sw_io0_hold_thres_ms` has.

  *The ports* (`PortMap`).  The properties speak of the time between two passes
  of `wired_port_hdl`; the invariant says what holds in the middle of one, of the
  devices and the ports it has come by: `Counted` (the running index is between
  the two loop indices), `Order` (those it has come by are in order, the others
  may be where they were), `Placed` (the device whose LED is next has the last port
  given, unless it was reset since, which `pmCrossed` records), `Masks`, `Shown`,
  `Lit`, `Pulse`.  `PortsAssumption`: no more ports than devices.

  A device of the pass takes three steps: its flag is read (`Look`), it gets its
  port (`Place`), its LED is set and its move told (`Show`).  The search for the
  port is one step with its assignment, as only a plug could come between; so are
  the uses of `out_idx` within `Show`, which a reset could still separate: it would
  set the LED or name the port of one of the two, as `pmCrossed` already allows.

  *The reads* (`CfgReads`).  `Searches` says which handles a client has by where
  its search stands; `Reading` and `Carding` that what it got is the beginning of
  the window, or the card up to where the next read starts; `Directory` that what the
  static pointer names is open until a client asks for its end, and what was used
  after that (`crDir.bad`).  `ReadsAssumption`:
  no client's MTU is less than the default, among those there is a longest, and a
  word of the card fits the shortest.

  *The configuration* (`CfgUpgrade`, `CfgService`).  `KeptAllAlong` follows the
  user's mapping through the upgrades, which begin again after a power cut that
  left the file as it was; `Roomy` that there is room for the combos until they
  are appended; `DoneAllAlong` that they are appended once.  `Alone` says where
  the Bluetooth callback and the feedback task can be while only one of them is at
  the files; a file that could not be opened for its last change (`"unsaved"`) or
  read (`"unread"`) is what the promises except, since nobody is told of either; `Target`
  is the file that `config` goes to next, and `Meant` that what
  is in `config` was meant for it.  `UpgradeAssumption`: a default mapping and the
  combos fit the table (115 entries of `KBM_MAX`, ten combos, 128);
  `SettingsAssumption`: no game's file has the default one's name.

  *The keys and the search* (`LinkKeys`, `AttChain`), of whose steps `MovesTheorem`
  speaks.  The search for an LE controller's services goes on behind the last
  attribute of an answer, which has at least one (`ServicesAssumption`); `InStep`
  says that the request on its way is that of the present state, a second start
  aside.  A key that leaves the table is the oldest one, of a full table, because
  the table is filled from its beginning (`Filled`), the entry overwritten next is
  that of the peer that came first, and so on around the table (`InTurn`), and who is
  not in it any more came before all who are (`Left`).  Who came when is the
  history `lkNews`, the pairing with which a peer came into the table last.
  `KeysAssumption`: the table has an entry, and no peer has the address of zeros
  that marks a free one.

  *A BR/EDR controller* (`HidLink`).  `Counts` and `InOrder` say what the flags and the
  two messages that are counted tell of a channel's configuration; `Behind`, that
  the searches and their answers come after the interrupt channel is ready;
  `Initialised`, that a slot is ready when an init has run, and whose timers are
  armed; `Stage` goes through the two searches and their parsing one by one;
  `Noted` is what `bt_host_task` took of the slot before it parses; `Offered` says
  what is owed before the first channel opens, and gives
  `EncryptedIfOffered` of `KeysRight` too.

  *A Switch controller* (`SwInit`).  `Counted` bounds the callbacks of the timer by the
  steps passed and the retries of the present one; `LastStep` says that the last
  step is passed by late answers only; `InStep`, that while each step is answered
  in time the steps behind were taken.  `SwitchAssumption`: a request is answered
  or lost before its step is given up.

  *A Wii remote* (`WiiExt`).  `Answered`: a silent remote with only acknowledgments on
  their way is before the step whose acknowledgment asks for the type.  `Phase`
  goes through an initialisation that nothing comes between, message by message.

  Two of the models were rewritten so as to be reasoned about: the upgrade's
  sizes by a recursive function instead of a RECURSIVE operator, and the press of
  the button as an operator of its own (`Pressed`).

Only model-checked, and why:

* liveness and everything with fairness (`PoolRecovers`, `EventuallyStored`,
  `MuteEnds`, `SlotDecided`, `SetUpDone`, the liveness of `ImplementsChannel`):
  beyond the prover, as is ENABLED;
* what a recursive definition computes: the JVS parser;
* of `HostSide`, `KeysRight`: its parts of the link and of the key store are lemmas
  (`HidSetUp`, `KeysOne`, `KeysAnswer`), that of the pairing is not proved;
  `PiecesPutTogether` and `AsPlayed`: the table an LE controller's reports are
  entered into and what is heard in a report are folds over sequences, on which
  every claim would be an induction over data; and `TypeOK` of all parts, those
  included;
* the other properties of `WiredDrivers` (`TypeOK` of all parts,
  `ReportsSettle`, `ChangesOnlyAsAsked`): their reports run through the folds
  and the tables of `ReportRules`.

## 5. Where the code falls short

Three runs document disagreements of the code with what it says of itself
(`findings` in `PROJECT.json`):

* `queue_race`: a queue built from a single-producer ring has several producers
  that preempt one another (`adapter.c:503`, `queue_bss/CMakeLists.txt:1`);
* `fb_stop`: new feedback data is meant to stop the timer, whose deletion
  ESP-IDF refuses while it is armed; the handle is forgotten
  (`adapter.c:475`, `wired/dc.c:467`);
* `trace`: a trace record may cross a block, which `mc_write` assumes does not
  happen (`mon.c:99`, `memory_card.c:167`).

Elsewhere a property holds but for a circumstance the model names in a history
variable or a premise.  They are what a reader of the code should know of:

*Bluetooth.*  A failed name request of an ended link counts against the peer's
next attempt and may reset its slot (`hci.c:1512`).  A peer whose interrupt
channel is ready before its name is known is set up as a generic one; a channel
configured again repeats the init; a reset while the SDP answer is parsed, or an
init timer of the former peer, reaches the next one in the slot
(`hidp/ps3.c:40`).  Features that come after the authentication leave the link
unencrypted.  A late acknowledgment moves the Switch chain on twice; an
extension pulled during its init leaves the type of the former.  A second start
of the LE search wipes the first's result; the table of reports and the buffer of
the map are only looked at once an answer is through, so that a service that goes
on behind a full table, or a longer map, is written past the end
(`att_hid.c:240`, 323).  Keys are distributed in clear when the peer asks for
none.  A refused `LE_RAND` or `LE_ENCRYPT` leaves its callback queued, and every
later answer goes one further.  A cleared LE key leaves a hole that is not used
again; a power cut during a rewrite loses a store, and a key file that cannot be
opened is not written, or not read, without a word (`host.c:117`, 135).  A
handler that has passed the override's test when the manager stops the inquiry
starts it again; a command the controller does not know counts as carried out
(`hci.c:1621`).  Fragments of two links are
joined in the one buffer.

*Configuration and trace.*  A file of version 0 is upgraded through the layout of
the present version; the combos may be appended twice; the magic of the present
version is stored by every step, so that a cut leaves half an upgrade that is
taken for a whole one.  `config_init` of a new game races the client's write.  A
file that cannot be opened is not written and the client is answered as if it were
(`config.c:381`, `att_cfg.c:714`); one that cannot be read leaves `config` what it
was.  Every write request turns the debug trace off in memory, stored or not
(`att_cfg.c:706`), and the command to delete takes any name, the default file's too.
Offsets, MTU and the open directory outlive the client: a second end closes a
closed directory, and the next file is asked of it (`att_cfg.c:362`, 512).  The trace counts no header at the end of the
card, and its two writers share the offset.

*Manager.*  A reset clears a report by the slot's number where the console reads
by port (`host.c:590`), and puts the number back as port while another device
holds it; where that comes between the device's port and its LED in a pass, the LED
set is that of the port its number names, until the next pass.  A device that moves between its first report and its player LED's
message is not told.  A disconnection that comes late switches a console on
again.

*Pads and mappings.*  Joy-Con L and ZL (R and ZR) are swapped between the HID
and the native table; an N64 pad before its calibration is read with the
Brawler64's table; a DS3 key held at set-up stays unheard on PlayStation systems;
a second report that comes first calibrates from beyond its end (`xbox.c:208`); a
pad with a blank calibration inherits the slot's earlier one.  Of devices that
describe themselves: a report that comes before the description is read with the
former device's, whose tables stay if the report has the same id
(`host.c:795`); where the buttons come in two reports, each adds its masks to
those of the other (`hid_generic.c:582`); a keyboard that sends keys one by one
is not read once a bitmap was seen in the slot (`hid_generic.c:107`); the last
piece of a bitmap whose length is a multiple of 32 has no size
(`hid_parser.c:517`); the fifth button of a mouse is lost to a shadowed index
(`hid_generic.c:264`); a signed axis below zero at the first report is
calibrated without its sign (`hid_generic.c:699`); a usage that stands for
several fields keeps the first only (`hid_parser.c:494`), so that the rumble
report of Xbox controllers in their generic guise is short; consumer buttons
placed before the others would be read from the wrong bit
(`hid_generic.c:570`, no device of the model has them).  The Xbox report 2
drops a macro's chord, so that its command is given early.  A macro's mode change
meets a `ctrl_output` described for the old mode.

*Wired.*  A `core0_stall_start` right after an end, or a second one, makes both
cores wait for ever.  `npiso_isr` acknowledges at its end what came meanwhile
and loses edges.  `jag_io_force_update` writes a row that is stale by then.  The
frames after single-pad ones carry out, for the slots behind a PlayStation multitap,
requests an earlier multitap frame left in the buffer; a digital pad described with
0x4F becomes an analog one whose LED stays off, whose analog button is ignored
(id 0x79).  A rise
and a fall of RTS in one interrupt leave the CD-i port silent until RTS moves.  A
JVS frame with a bad checksum is parsed, a Dreamcast frame with one is
acknowledged and not stored.  A mouse's motion is counted twice when a poll falls
between the store and the write-back of the flags, and what a poll takes beyond the
range of the console's mouse is dropped.  The repeat timer is armed
again when a release falls inside its callback.  Two controllers on one port
override each other; a button released while another source holds the wire keeps
its turbo count; GameCube and Wii triggers wrap.

## 6. Not modelled, and what is left

* The order of boot and the detection of the console (`main.c`, `detect.c`):
  sequential, to be modelled next.
* How far an axis of a device that describes itself goes (`abs_max`, and the
  little it is pulled back), descriptions longer than the tables.
* What is in memory after the writes past a table or a buffer named in section 5, or
  after a closed directory was used: the models record that it happens.
* A `malloc` that fails, a file system that is full in the middle of an `fwrite`
  (but for the memory card's), link key and memory card files removed by the
  configuration service's command, and the conversions' own changes of `banksel` in the
  configuration (`adapter/wired/n64.c:229`, `sea.c:161`).
* LED reports sent to controllers, and rumble reports but for who gets them and
  for the devices that describe theirs; PIN codes,
  role switch and sniff mode; the master-inquiry and manual modes; bit timing of
  the consoles; deep sleep; texts and names.
* The vendored USB stack and Zephyr headers, GPIO and FPGA register set-up,
  development tools.

Left to prove: the pairing's part of `KeysRight`, whose invariant needs to follow two
queues of callbacks against the commands they belong to.
