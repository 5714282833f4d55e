------------------------------- MODULE MemCard -------------------------------
(***************************************************************************)
(* main/adapter/memory_card.c: the 128 KB memory card kept in RAM for the  *)
(* console (mc_write is called by the wired drivers on core 1 and by the   *)
(* BLE configuration service on core 0) and its copy on the SPIFFS file.   *)
(*                                                                         *)
(* mc_write marks the block dirty in mc_block_state and asks, through the  *)
(* feedback queue, bt_fb_task to arm mc_timer; mc_store_spread, in the     *)
(* esp_timer task, stores one dirty block each time the timer fires and    *)
(* re-arms it while some remain.  Power may be cut at any time.            *)
(*                                                                         *)
(* The persistent memory card is on (banksel < CONFIG_BANKSEL_MAX).  Other *)
(* feedback shares the queue, and rumble_mute closes it: that is why a     *)
(* message may be refused at any time.                                     *)
(***************************************************************************)
EXTENDS Integers, FiniteSets, TLAPS

CONSTANTS
  NumBlocks,   \* MC_BUFFER_BLOCK_CNT
  Writers,     \* callers of mc_write
  Data,        \* contents of a block
  Garbage,     \* contents of malloc'ed memory
  Torn,        \* contents of a file block whose writing was not completed
  MaxFiles,    \* files the card's code may leave open before fopen fails
  MaxMsgs,     \* bound: FB_TYPE_MEM_WRITE messages in the queue
  MaxWrites,   \* bound: calls of mc_write
  MaxCuts      \* bound: power cuts

Blocks == 0 .. NumBlocks - 1
None == -1

ASSUME NumBlocksAssumption == NumBlocks \in Nat \ {0}
ASSUME BoundsAssumption ==
  MaxFiles \in Nat /\ MaxMsgs \in Nat \ {0} /\ MaxWrites \in Nat /\ MaxCuts \in Nat

VARIABLES
  boot,        \* progress of mc_init: "mem", "restore", "create", "up"
  ridx,        \* loop index of mc_restore / mc_store
  buf,         \* mc_buffer
  dirty,       \* mc_block_state, as the set of its bits
  timer,       \* mc_timer_hdl: "null", "stopped", "fresh" (just armed), "due"
  msgs,        \* FB_TYPE_MEM_WRITE messages in the feedback queue
  wpc, wblk,   \* where each writer is in mc_write, and its block
  sp, sblk,    \* where mc_store_spread is, and its block
  sval,        \* contents of that block when fwrite began
  sok,         \* fwrite wrote the whole block (count == 1)
  files,       \* files left open by mc_store_spread
  fstate,      \* MEMORY_CARD_FILE: "missing", "short", "full"
  file,        \* its blocks
  writes, cuts,  \* counters of the bounds
  wrace,       \* history: the writer's memcpy fell into the storing of its block
  raced,       \* history: blocks changed in RAM while being stored
  lost         \* history: a wake-up of the storing was lost, none came since

memVars  == <<buf, dirty, raced>>
wVars    == <<wpc, wblk, wrace, writes>>
spVars   == <<sp, sblk, sval, sok, files>>
fsVars   == <<fstate, file>>
bootVars == <<boot, ridx, cuts>>
wakeVars == <<timer, msgs, lost>>
vars == <<memVars, wVars, spVars, fsVars, bootVars, wakeVars>>

(***************************************************************************)
(* Power on: wl_init_task runs mc_init_mem.  The wired driver of core 1 is *)
(* already running then: it only waits for the configuration.              *)
(***************************************************************************)
Init ==
  /\ boot = "mem" /\ ridx = 0
  /\ buf = [b \in Blocks |-> Garbage]
  /\ dirty = {} /\ raced = {}
  /\ timer = "null" /\ msgs = 0 /\ lost = FALSE
  /\ wpc = [w \in Writers |-> "idle"] /\ wblk = [w \in Writers |-> None]
  /\ wrace = [w \in Writers |-> FALSE]
  /\ sp = "idle" /\ sblk = None /\ sval = Garbage /\ sok = FALSE /\ files = 0
  /\ \/ fstate = "missing" /\ file = [b \in Blocks |-> Garbage]
     \/ fstate = "full" /\ file \in [Blocks -> Data]
  /\ writes = 0 /\ cuts = 0

\* The power is cut, and comes back: RAM is lost, the file stays as it is.
PowerCut ==
  /\ cuts < MaxCuts
  /\ boot' = "mem" /\ ridx' = 0
  /\ buf' = [b \in Blocks |-> Garbage]
  /\ dirty' = {} /\ raced' = {}
  /\ timer' = "null" /\ msgs' = 0 /\ lost' = FALSE
  /\ wpc' = [w \in Writers |-> "idle"] /\ wblk' = [w \in Writers |-> None]
  /\ wrace' = [w \in Writers |-> FALSE]
  /\ sp' = "idle" /\ sblk' = None /\ sval' = Garbage /\ sok' = FALSE /\ files' = 0
  /\ cuts' = cuts + 1
  /\ UNCHANGED <<fsVars, writes>>

\* mc_store_spread is between the start of b's fwrite and the clearing of its bit.
Storing(b) == sp \in {"fwrite", "fclose"} /\ sblk = b

(***************************************************************************)
(* mc_init, in wl_init_task.                                               *)
(***************************************************************************)
\* esp_timer_create, then mc_restore: stat tells whether the file exists;
\* if it does not mc_store creates it, and opening it "wb" leaves it empty.  Both
\* fopen succeed: nothing has a file open yet.
McInit ==
  /\ boot = "mem"
  /\ timer' = "stopped"
  /\ IF fstate = "missing"
     THEN boot' = "create" /\ fstate' = "short"
     ELSE boot' = "restore" /\ UNCHANGED fstate
  /\ UNCHANGED <<memVars, wVars, spVars, file, ridx, cuts, msgs, lost>>

\* One turn of mc_restore's loop.
RestoreBlock ==
  /\ boot = "restore" /\ fstate = "full"
  /\ buf' = [buf EXCEPT ![ridx] = file[ridx]]
  /\ IF ridx = NumBlocks - 1
     THEN boot' = "up" /\ ridx' = 0
     ELSE ridx' = ridx + 1 /\ UNCHANGED boot
  /\ raced' = IF Storing(ridx) THEN raced \cup {ridx} ELSE raced
  /\ UNCHANGED <<dirty, wVars, spVars, fsVars, cuts, wakeVars>>

\* "restore failed!": the file is short, its first blocks only are read.
RestoreShort ==
  /\ boot = "restore" /\ fstate = "short"
  /\ \E n \in Blocks : buf' = [b \in Blocks |-> IF b < n THEN file[b] ELSE buf[b]]
  /\ boot' = "up"
  /\ UNCHANGED <<ridx, dirty, raced, wVars, spVars, fsVars, cuts, wakeVars>>

\* One turn of mc_store's loop; after the last mc_block_state is reset whole.
CreateBlock ==
  /\ boot = "create"
  /\ file' = [file EXCEPT ![ridx] = buf[ridx]]
  /\ IF ridx = NumBlocks - 1
     THEN boot' = "up" /\ ridx' = 0 /\ fstate' = "full" /\ dirty' = {} /\ raced' = raced \cup dirty
     ELSE ridx' = ridx + 1 /\ UNCHANGED <<boot, fstate, dirty, raced>>
  /\ UNCHANGED <<buf, wVars, spVars, cuts, wakeVars>>

\* An fwrite of that loop fails: the file stays short, and no mark is reset.
CreateFails ==
  /\ boot = "create"
  /\ file' = [file EXCEPT ![ridx] = Torn]
  /\ boot' = "up" /\ ridx' = 0
  /\ UNCHANGED <<fstate, memVars, wVars, spVars, cuts, wakeVars>>

(***************************************************************************)
(* mc_write: memcpy, then the mark, then the message.                      *)
(***************************************************************************)
WriteCopy(w, b, d) ==
  /\ wpc[w] = "idle" /\ writes < MaxWrites
  /\ buf' = [buf EXCEPT ![b] = d]
  /\ wpc' = [wpc EXCEPT ![w] = "copied"]
  /\ wblk' = [wblk EXCEPT ![w] = b]
  /\ wrace' = [wrace EXCEPT ![w] = Storing(b)]
  /\ writes' = writes + 1
  /\ UNCHANGED <<dirty, raced, spVars, fsVars, bootVars, wakeVars>>

\* atomic_set_bit(&mc_block_state, block)
WriteMark(w) ==
  /\ wpc[w] = "copied"
  /\ dirty' = dirty \cup {wblk[w]}
  /\ raced' = IF wrace[w] THEN raced \cup {wblk[w]} ELSE raced
  /\ wpc' = [wpc EXCEPT ![w] = "marked"]
  /\ UNCHANGED <<buf, wblk, wrace, writes, spVars, fsVars, bootVars, wakeVars>>

EndWrite(w) ==
  /\ wpc[w] = "marked"
  /\ wpc' = [wpc EXCEPT ![w] = "idle"]
  /\ wblk' = [wblk EXCEPT ![w] = None]
  /\ wrace' = [wrace EXCEPT ![w] = FALSE]

\* adapter_q_fb(&fb_data)
WriteNotify(w) ==
  /\ EndWrite(w)
  /\ msgs < MaxMsgs
  /\ msgs' = msgs + 1
  /\ UNCHANGED <<memVars, writes, spVars, fsVars, bootVars, timer, lost>>

\* "Best efford only on fb": rumble_mute is set or the queue has no free slot.
WriteNotifyLost(w) ==
  /\ EndWrite(w)
  /\ lost' = TRUE
  /\ UNCHANGED <<memVars, writes, spVars, fsVars, bootVars, timer, msgs>>

(***************************************************************************)
(* bt_fb_task: FB_TYPE_MEM_WRITE calls mc_storage_update, which arms the   *)
(* timer afresh (1 s from now), whether it was armed or not.               *)
(***************************************************************************)
\* Mutant of mc_start_update_timer: esp_timer_stop without esp_timer_start_once.
mc_stop_update_timer ==
  IF timer = "null" THEN UNCHANGED timer ELSE timer' = "stopped"

mc_start_update_timer ==
  IF timer = "null" THEN UNCHANGED timer ELSE timer' = "fresh"

StorageUpdate ==
  /\ msgs > 0
  /\ msgs' = msgs - 1
  /\ mc_start_update_timer
  /\ lost' = (timer = "null" /\ (lost \/ dirty # {}))
  /\ UNCHANGED <<memVars, wVars, spVars, fsVars, bootVars>>

(***************************************************************************)
(* esp_timer: time passes, then the callback mc_store_cb runs.             *)
(***************************************************************************)
TimerElapses ==
  /\ timer = "fresh"
  /\ timer' = "due"
  /\ UNCHANGED <<memVars, wVars, spVars, fsVars, bootVars, msgs, lost>>

TimerFires ==
  /\ timer = "due" /\ sp = "idle"
  /\ timer' = "stopped"
  /\ sp' = "fopen"
  /\ UNCHANGED <<memVars, wVars, sblk, sval, sok, files, fsVars, bootVars, msgs, lost>>

\* fopen "r+b" fails: no file, or every descriptor in use.  Nothing is re-armed.
SpreadOpenFails ==
  /\ sp = "fopen"
  /\ fstate = "missing" \/ files >= MaxFiles
  /\ sp' = "idle"
  /\ lost' = (lost \/ timer \notin {"fresh", "due"})
  /\ UNCHANGED <<memVars, wVars, sblk, sval, sok, files, fsVars, bootVars, timer, msgs>>

\* The file is open and __builtin_ffs(mc_block_state) finds a block, whose
\* writing begins: the file's old contents of the block are gone.
SpreadBegin ==
  /\ sp = "fopen"
  /\ fstate # "missing" /\ files < MaxFiles
  /\ \E b \in dirty :
       /\ \A c \in dirty : b <= c
       /\ sblk' = b
       /\ sval' = buf[b]
       /\ file' = [file EXCEPT ![b] = Torn]
       /\ raced' = raced \ {b}
  /\ sp' = "fwrite"
  /\ files' = files + 1
  /\ UNCHANGED <<buf, dirty, wVars, sok, fstate, bootVars, wakeVars>>

\* ... or finds none: the function returns without fclose.
\* Mutant of SpreadNothing: fopen does not run out of descriptors.
SpreadNothingUnchecked ==
  /\ sp = "fopen"
  /\ fstate # "missing"
  /\ dirty = {}
  /\ sp' = "idle"
  /\ files' = files + 1
  /\ UNCHANGED <<memVars, wVars, sblk, sval, sok, fsVars, bootVars, wakeVars>>

SpreadNothing ==
  /\ sp = "fopen"
  /\ fstate # "missing" /\ files < MaxFiles
  /\ dirty = {}
  /\ sp' = "idle"
  /\ files' = files + 1
  /\ UNCHANGED <<memVars, wVars, sblk, sval, sok, fsVars, bootVars, wakeVars>>

\* fwrite ends.  A memcpy of core 1 during fwrite is in the file or not.
SpreadWritten ==
  /\ sp = "fwrite"
  /\ \E v \in {sval, buf[sblk]} : file' = [file EXCEPT ![sblk] = v]
  /\ sok' = TRUE
  /\ sp' = "fclose"
  /\ UNCHANGED <<memVars, wVars, sblk, sval, files, fstate, bootVars, wakeVars>>

SpreadWriteFails ==
  /\ sp = "fwrite"
  /\ sok' = FALSE
  /\ sp' = "fclose"
  /\ UNCHANGED <<memVars, wVars, sblk, sval, files, fsVars, bootVars, wakeVars>>

\* fclose, then atomic_clear_bit when the block was written.
\* Mutant of SpreadClear: mc_block_state is reset whole, as mc_store does.
SpreadClearAll ==
  /\ sp = "fclose"
  /\ files' = files - 1
  /\ dirty' = IF sok THEN {} ELSE dirty
  /\ sp' = "rearm"
  /\ UNCHANGED <<buf, raced, wVars, sblk, sval, sok, fsVars, bootVars, wakeVars>>

SpreadClear ==
  /\ sp = "fclose"
  /\ files' = files - 1
  /\ dirty' = IF sok THEN dirty \ {sblk} ELSE dirty
  /\ sp' = "rearm"
  /\ UNCHANGED <<buf, raced, wVars, sblk, sval, sok, fsVars, bootVars, wakeVars>>

\* if (mc_block_state) mc_start_update_timer(20000)
\* Mutant of SpreadEnd: the timer is not armed for the blocks that remain.
SpreadEndUnarmed ==
  /\ sp = "rearm"
  /\ sp' = "idle" /\ sblk' = None /\ sval' = Garbage /\ sok' = FALSE
  /\ UNCHANGED <<memVars, wVars, files, fsVars, bootVars, wakeVars>>

SpreadEnd ==
  /\ sp = "rearm"
  /\ IF dirty # {} THEN mc_start_update_timer /\ lost' = FALSE ELSE UNCHANGED <<timer, lost>>
  /\ sp' = "idle" /\ sblk' = None /\ sval' = Garbage /\ sok' = FALSE
  /\ UNCHANGED <<memVars, wVars, files, fsVars, bootVars, msgs>>

BootStep == McInit \/ RestoreBlock \/ RestoreShort \/ CreateBlock \/ CreateFails
WriterStep(w) == WriteMark(w) \/ WriteNotify(w) \/ WriteNotifyLost(w)
SpreadStep ==
  \/ SpreadOpenFails \/ SpreadBegin \/ SpreadNothing
  \/ SpreadWritten \/ SpreadWriteFails \/ SpreadClear \/ SpreadEnd

Next ==
  \/ PowerCut
  \/ BootStep
  \/ \E w \in Writers, b \in Blocks, d \in Data : WriteCopy(w, b, d)
  \/ \E w \in Writers : WriterStep(w)
  \/ StorageUpdate \/ TimerElapses \/ TimerFires \/ SpreadStep

Spec == Init /\ [][Next]_vars

\* The tasks and the esp_timer run for ever, a call of mc_write runs to its
\* end, and a flash write that is repeated for ever succeeds some day.
Fairness ==
  /\ WF_vars(BootStep)
  /\ \A w \in Writers : WF_vars(WriterStep(w))
  /\ WF_vars(StorageUpdate) /\ WF_vars(TimerElapses) /\ WF_vars(TimerFires)
  /\ WF_vars(SpreadStep) /\ SF_vars(SpreadWritten)

FairSpec == Spec /\ Fairness

(***************************************************************************)
(* Properties.                                                             *)
(***************************************************************************)
Content == Data \cup {Garbage, Torn}

TypeOK ==
  /\ boot \in {"mem", "restore", "create", "up"} /\ ridx \in Blocks
  /\ buf \in [Blocks -> Content] /\ dirty \subseteq Blocks /\ raced \subseteq Blocks
  /\ timer \in {"null", "stopped", "fresh", "due"} /\ msgs \in 0 .. MaxMsgs /\ lost \in BOOLEAN
  /\ wpc \in [Writers -> {"idle", "copied", "marked"}]
  /\ wblk \in [Writers -> Blocks \cup {None}] /\ wrace \in [Writers -> BOOLEAN]
  /\ sp \in {"idle", "fopen", "fwrite", "fclose", "rearm"}
  /\ sblk \in Blocks \cup {None} /\ sval \in Content /\ sok \in BOOLEAN
  /\ files \in 0 .. MaxFiles
  /\ fstate \in {"missing", "short", "full"} /\ file \in [Blocks -> Content]
  /\ writes \in 0 .. MaxWrites /\ cuts \in 0 .. MaxCuts

Armed == timer \in {"fresh", "due"}
InMcWrite(b) == \E w \in Writers : wpc[w] = "copied" /\ wblk[w] = b

\* Once booted on a complete file, a block that differs from the file is marked
\* for storing, or its mark is about to be set by the mc_write that changed it.
\* The one exception: a memcpy that falls between the start of that block's
\* fwrite and the clearing of its bit, when the mark it sets is wiped.
DirtyUnlessRaced ==
  boot = "up" /\ fstate = "full" =>
    \A b \in Blocks : buf[b] # file[b] => b \in dirty \/ b \in raced \/ InMcWrite(b)

\* A marked block always has somebody on the way to store it (the armed timer,
\* the running callback, a message to bt_fb_task or the mc_write that is about
\* to send it), except after a wake-up was lost.
NoOrphanDirty ==
  dirty # {} =>
    \/ Armed \/ sp # "idle" \/ msgs > 0
    \/ (\E w \in Writers : wpc[w] = "marked")
    \/ lost

\* A marked block is stored in the end, unless power is cut first or a wake-up
\* was lost.
EventuallyStored ==
  \A b \in Blocks : b \in dirty ~> (b \notin dirty \/ lost \/ boot # "up")

-----------------------------------------------------------------------------
\* Proofs, for every number of blocks, set of writers and bound.

USE NumBlocksAssumption, BoundsAssumption DEF Blocks, None

(***************************************************************************)
(* Type correctness.                                                       *)
(***************************************************************************)
\* fopen gives a descriptor that mc_store_spread gives back in fclose.
OpenFile == sp \in {"fwrite", "fclose"} => files >= 1 /\ sblk \in Blocks

\* A writer in the middle of mc_write has a block.
Marking == \A w \in Writers : wpc[w] = "copied" => wblk[w] \in Blocks

Typed == TypeOK /\ OpenFile /\ Marking

LEMMA InitTyped == Init => Typed
<1> SUFFICES ASSUME Init PROVE Typed
  OBVIOUS
<1> USE DEF Init, Content
<1>1. buf \in [Blocks -> Content] /\ file \in [Blocks -> Content]
  OBVIOUS
<1>2. /\ wpc \in [Writers -> {"idle", "copied", "marked"}]
      /\ wblk \in [Writers -> Blocks \cup {None}] /\ wrace \in [Writers -> BOOLEAN]
  OBVIOUS
<1>3. sblk \in Blocks \cup {None} /\ sval \in Content /\ sok \in BOOLEAN
  OBVIOUS
<1>4. files \in 0 .. MaxFiles /\ msgs \in 0 .. MaxMsgs /\ writes \in 0 .. MaxWrites /\ cuts \in 0 .. MaxCuts
  BY BoundsAssumption
<1>5. ridx \in Blocks
  BY NumBlocksAssumption
<1>6. QED
  BY <1>1, <1>2, <1>3, <1>4, <1>5 DEF Typed, TypeOK, OpenFile, Marking

LEMMA NextTyped == Typed /\ [Next]_vars => Typed'
<1> SUFFICES ASSUME Typed, [Next]_vars PROVE Typed'
  OBVIOUS
<1> USE DEF Typed, TypeOK, OpenFile, Marking, Content, memVars, wVars, spVars, fsVars, bootVars, wakeVars
<1>1. CASE PowerCut
  <2> USE <1>1 DEF PowerCut
  <2>1. buf' \in [Blocks -> Content]
    OBVIOUS
  <2>2. /\ wpc' \in [Writers -> {"idle", "copied", "marked"}]
        /\ wblk' \in [Writers -> Blocks \cup {None}] /\ wrace' \in [Writers -> BOOLEAN]
    OBVIOUS
  <2>3. files' \in 0 .. MaxFiles /\ msgs' \in 0 .. MaxMsgs /\ cuts' \in 0 .. MaxCuts
    BY BoundsAssumption
  <2>4. ridx' \in Blocks
    BY NumBlocksAssumption
  <2>5. sblk' \in Blocks \cup {None} /\ sval' \in Content /\ sok' \in BOOLEAN /\ sp' = "idle"
    OBVIOUS
  <2>6. QED
    BY <2>1, <2>2, <2>3, <2>4, <2>5
<1>2. CASE McInit
  BY <1>2 DEF McInit
<1>3. CASE RestoreBlock
  BY <1>3 DEF RestoreBlock
<1>4. CASE RestoreShort
  BY <1>4 DEF RestoreShort
<1>5. CASE CreateBlock
  <2> USE <1>5 DEF CreateBlock
  <2>1. file' \in [Blocks -> Content]
    OBVIOUS
  <2>2. ridx' \in Blocks
    OBVIOUS
  <2>3. boot' \in {"mem", "restore", "create", "up"} /\ fstate' \in {"missing", "short", "full"}
    OBVIOUS
  <2>4. dirty' \subseteq Blocks /\ raced' \subseteq Blocks
    OBVIOUS
  <2>5. QED
    BY <2>1, <2>2, <2>3, <2>4
<1>22. CASE CreateFails
  <2> USE <1>22 DEF CreateFails
  <2>1. file' \in [Blocks -> Content]
    OBVIOUS
  <2>2. ridx' \in Blocks
    BY NumBlocksAssumption
  <2>3. QED
    BY <2>1, <2>2
<1>6. ASSUME NEW w \in Writers, NEW b \in Blocks, NEW d \in Data, WriteCopy(w, b, d) PROVE Typed'
  BY <1>6 DEF WriteCopy, Storing
<1>7. ASSUME NEW w \in Writers, WriteMark(w) PROVE Typed'
  <2> USE <1>7 DEF WriteMark
  <2>1. wblk[w] \in Blocks
    BY DEF Marking
  <2>2. dirty' \subseteq Blocks /\ raced' \subseteq Blocks
    BY <2>1
  <2>3. wpc' \in [Writers -> {"idle", "copied", "marked"}]
    OBVIOUS
  <2>4. QED
    BY <2>2, <2>3
<1>8. ASSUME NEW w \in Writers, WriteNotify(w) PROVE Typed'
  BY <1>8 DEF WriteNotify, EndWrite
<1>9. ASSUME NEW w \in Writers, WriteNotifyLost(w) PROVE Typed'
  BY <1>9 DEF WriteNotifyLost, EndWrite
<1>10. CASE StorageUpdate
  BY <1>10 DEF StorageUpdate, mc_start_update_timer
<1>11. CASE TimerElapses
  BY <1>11 DEF TimerElapses
<1>12. CASE TimerFires
  BY <1>12 DEF TimerFires
<1>13. CASE SpreadOpenFails
  BY <1>13 DEF SpreadOpenFails
<1>14. CASE SpreadBegin
  BY <1>14 DEF SpreadBegin
<1>15. CASE SpreadNothing
  BY <1>15 DEF SpreadNothing
<1>16. CASE SpreadWritten
  BY <1>16 DEF SpreadWritten
<1>17. CASE SpreadWriteFails
  BY <1>17 DEF SpreadWriteFails
<1>18. CASE SpreadClear
  BY <1>18 DEF SpreadClear
<1>19. CASE SpreadEnd
  BY <1>19 DEF SpreadEnd, mc_start_update_timer
<1>20. CASE UNCHANGED vars
  BY <1>20 DEF vars
<1>21. QED
  BY <1>1, <1>2, <1>3, <1>4, <1>5, <1>6, <1>7, <1>8, <1>9, <1>10, <1>11, <1>12, <1>13, <1>14,
     <1>15, <1>16, <1>17, <1>18, <1>19, <1>20, <1>22
  DEF Next, BootStep, WriterStep, SpreadStep

LEMMA TypeInvariance == Spec => []Typed
BY InitTyped, NextTyped, PTL DEF Spec

\* Every variable keeps its type, and the descriptors stay within their number.
THEOREM TypeCorrect == Spec => []TypeOK
<1>1. Typed => TypeOK
  BY DEF Typed
<1>2. QED
  BY <1>1, TypeInvariance, PTL

(***************************************************************************)
(* A marked block is on its way to the file.                               *)
(***************************************************************************)
\* mc_storage_update and mc_store_cb find a timer once mc_init created it.
TimerMade == (sp # "idle" => timer # "null") /\ (boot = "mem" => timer = "null")

OnItsWay == TypeOK /\ NoOrphanDirty /\ TimerMade

LEMMA InitOnItsWay == Init => NoOrphanDirty /\ TimerMade
BY DEF Init, NoOrphanDirty, TimerMade

LEMMA NextOnItsWay == OnItsWay /\ [Next]_vars => NoOrphanDirty' /\ TimerMade'
<1> SUFFICES ASSUME OnItsWay, [Next]_vars PROVE NoOrphanDirty' /\ TimerMade'
  OBVIOUS
<1> USE DEF OnItsWay, NoOrphanDirty, TimerMade, Armed, memVars, wVars, spVars, fsVars, bootVars, wakeVars
<1>1. CASE PowerCut
  BY <1>1 DEF PowerCut
<1>2. CASE McInit
  BY <1>2 DEF McInit, TypeOK
<1>3. CASE RestoreBlock
  BY <1>3 DEF RestoreBlock
<1>4. CASE RestoreShort
  BY <1>4 DEF RestoreShort
<1>5. CASE CreateBlock
  BY <1>5 DEF CreateBlock
<1>22. CASE CreateFails
  BY <1>22 DEF CreateFails
<1>6. ASSUME NEW w \in Writers, NEW b \in Blocks, NEW d \in Data, WriteCopy(w, b, d)
      PROVE  NoOrphanDirty' /\ TimerMade'
  BY <1>6 DEF WriteCopy, TypeOK
<1>7. ASSUME NEW w \in Writers, WriteMark(w) PROVE NoOrphanDirty' /\ TimerMade'
  BY <1>7 DEF WriteMark, TypeOK
<1>8. ASSUME NEW w \in Writers, WriteNotify(w) PROVE NoOrphanDirty' /\ TimerMade'
  BY <1>8 DEF WriteNotify, TypeOK
<1>9. ASSUME NEW w \in Writers, WriteNotifyLost(w) PROVE NoOrphanDirty' /\ TimerMade'
  BY <1>9 DEF WriteNotifyLost
<1>10. CASE StorageUpdate
  BY <1>10 DEF StorageUpdate, mc_start_update_timer
<1>11. CASE TimerElapses
  BY <1>11 DEF TimerElapses
<1>12. CASE TimerFires
  BY <1>12 DEF TimerFires
<1>13. CASE SpreadOpenFails
  BY <1>13 DEF SpreadOpenFails
<1>14. CASE SpreadBegin
  BY <1>14 DEF SpreadBegin
<1>15. CASE SpreadNothing
  BY <1>15 DEF SpreadNothing
<1>16. CASE SpreadWritten
  BY <1>16 DEF SpreadWritten
<1>17. CASE SpreadWriteFails
  BY <1>17 DEF SpreadWriteFails
<1>18. CASE SpreadClear
  BY <1>18 DEF SpreadClear
<1>19. CASE SpreadEnd
  BY <1>19 DEF SpreadEnd, mc_start_update_timer
<1>20. CASE UNCHANGED vars
  BY <1>20 DEF vars
<1>21. QED
  BY <1>1, <1>2, <1>3, <1>4, <1>5, <1>6, <1>7, <1>8, <1>9, <1>10, <1>11, <1>12, <1>13, <1>14,
     <1>15, <1>16, <1>17, <1>18, <1>19, <1>20, <1>22
  DEF Next, BootStep, WriterStep, SpreadStep

\* A block marked in mc_block_state is never forgotten by the storing, unless
\* the message of an mc_write was refused or a file could not be opened.
THEOREM MarkedOnItsWay == Spec => []NoOrphanDirty
<1>1. TypeOK /\ NoOrphanDirty /\ TimerMade => OnItsWay
  BY DEF OnItsWay
<1>2. QED
  BY <1>1, InitOnItsWay, NextOnItsWay, TypeCorrect, PTL DEF Spec

(***************************************************************************)
(* The file lags behind RAM only where a mark says so.                     *)
(***************************************************************************)
\* mc_init has read or written block b.
Covered(b) == boot = "up" \/ (boot \in {"restore", "create"} /\ b < ridx)

Clean(b) == buf[b] = file[b] \/ b \in dirty \/ b \in raced \/ InMcWrite(b)

\* An mc_write changed b during its storing, and has not yet marked it.
RaceBegun(b) == \E w \in Writers : wpc[w] = "copied" /\ wblk[w] = b /\ wrace[w]

\* The file is complete, or is being completed by mc_store.
Complete == fstate = "full" \/ boot = "create"

CardInv ==
  /\ boot = "mem" => ridx = 0 /\ timer = "null"
  /\ boot = "create" => fstate = "short"
  /\ sp # "idle" => timer # "null"
  /\ \A b \in Blocks : Storing(b) => b \in dirty \/ b \in raced
  /\ Complete =>
       /\ \A b \in Blocks : Covered(b) => Clean(b)
       /\ sp = "fwrite" => sval = buf[sblk] \/ sblk \in raced \/ RaceBegun(sblk)
       /\ sp = "fclose" /\ sok => file[sblk] = buf[sblk] \/ sblk \in raced \/ RaceBegun(sblk)

LEMMA InitCard == Init => CardInv
BY DEF Init, CardInv, Covered, Storing

LEMMA NextCard == Typed /\ CardInv /\ [Next]_vars => CardInv'
<1> SUFFICES ASSUME Typed, CardInv, [Next]_vars PROVE CardInv'
  OBVIOUS
<1> USE NumBlocksAssumption
    DEF CardInv, Covered, Clean, RaceBegun, Complete, Storing, InMcWrite,
        memVars, wVars, spVars, fsVars, bootVars, wakeVars
<1>t. TypeOK /\ OpenFile /\ Marking
  BY DEF Typed
<1>1. CASE PowerCut
  BY <1>1 DEF PowerCut
<1>2. CASE McInit
  BY <1>t, <1>2 DEF McInit, TypeOK
<1>3. CASE RestoreBlock
  BY <1>t, <1>3 DEF RestoreBlock, TypeOK, OpenFile
<1>4. CASE RestoreShort
  BY <1>t, <1>4 DEF RestoreShort, TypeOK
<1>5. CASE CreateBlock
  BY <1>t, <1>5 DEF CreateBlock, TypeOK, OpenFile
<1>22. CASE CreateFails
  BY <1>t, <1>22 DEF CreateFails, TypeOK
<1>6. ASSUME NEW w \in Writers, NEW b \in Blocks, NEW d \in Data, WriteCopy(w, b, d)
      PROVE  CardInv'
  <2> USE <1>6 DEF WriteCopy
  <2>1. /\ buf \in [Blocks -> Content] /\ wpc \in [Writers -> {"idle", "copied", "marked"}]
        /\ wblk \in [Writers -> Blocks \cup {None}] /\ wrace \in [Writers -> BOOLEAN]
    BY <1>t DEF TypeOK
  <2>2. wpc'[w] = "copied" /\ wblk'[w] = b /\ wrace'[w] = Storing(b)
    BY <2>1
  <2>3. \A v \in Writers : v # w => wpc'[v] = wpc[v] /\ wblk'[v] = wblk[v] /\ wrace'[v] = wrace[v]
    BY <2>1
  <2>4. InMcWrite(b)' /\ (Storing(b) => RaceBegun(b)')
    BY <2>2
  <2>5. \A c \in Blocks : c # b => buf'[c] = buf[c]
    BY <2>1
  <2>6. \A c \in Blocks : (InMcWrite(c) => InMcWrite(c)') /\ (RaceBegun(c) => RaceBegun(c)')
    BY <2>3
  <2>7. \A c \in Blocks : Clean(c) => Clean(c)'
    BY <2>4, <2>5, <2>6
  <2>8. sp \in {"fwrite", "fclose"} => sblk \in Blocks /\ (sblk = b <=> Storing(b))
    BY <1>t DEF OpenFile
  <2>9. Complete' => \A c \in Blocks : Covered(c)' => Clean(c)'
    BY <2>7
  <2>10. Complete' /\ sp' = "fwrite" => sval' = buf'[sblk'] \/ sblk' \in raced' \/ RaceBegun(sblk)'
    BY <2>4, <2>5, <2>6, <2>8
  <2>11. Complete' /\ sp' = "fclose" /\ sok' => file'[sblk'] = buf'[sblk'] \/ sblk' \in raced' \/ RaceBegun(sblk)'
    BY <2>4, <2>5, <2>6, <2>8
  <2>12. \A c \in Blocks : Storing(c)' => c \in dirty' \/ c \in raced'
    OBVIOUS
  <2>13. QED
    BY <2>9, <2>10, <2>11, <2>12
<1>7. ASSUME NEW w \in Writers, WriteMark(w) PROVE CardInv'
  BY <1>t, <1>7 DEF WriteMark, TypeOK, OpenFile, Marking
<1>8. ASSUME NEW w \in Writers, WriteNotify(w) PROVE CardInv'
  BY <1>t, <1>8 DEF WriteNotify, EndWrite, TypeOK
<1>9. ASSUME NEW w \in Writers, WriteNotifyLost(w) PROVE CardInv'
  BY <1>t, <1>9 DEF WriteNotifyLost, EndWrite, TypeOK
<1>10. CASE StorageUpdate
  BY <1>10 DEF StorageUpdate, mc_start_update_timer
<1>11. CASE TimerElapses
  BY <1>11 DEF TimerElapses
<1>12. CASE TimerFires
  BY <1>12 DEF TimerFires
<1>13. CASE SpreadOpenFails
  BY <1>13 DEF SpreadOpenFails
<1>14. CASE SpreadBegin
  BY <1>t, <1>14 DEF SpreadBegin, TypeOK
<1>15. CASE SpreadNothing
  BY <1>15 DEF SpreadNothing
<1>16. CASE SpreadWritten
  BY <1>t, <1>16 DEF SpreadWritten, TypeOK, OpenFile
<1>17. CASE SpreadWriteFails
  BY <1>17 DEF SpreadWriteFails
<1>18. CASE SpreadClear
  BY <1>t, <1>18 DEF SpreadClear, TypeOK, OpenFile
<1>19. CASE SpreadEnd
  BY <1>19 DEF SpreadEnd, mc_start_update_timer
<1>20. CASE UNCHANGED vars
  BY <1>20 DEF vars
<1>21. QED
  BY <1>1, <1>2, <1>3, <1>4, <1>5, <1>6, <1>7, <1>8, <1>9, <1>10, <1>11, <1>12, <1>13, <1>14,
     <1>15, <1>16, <1>17, <1>18, <1>19, <1>20, <1>22
  DEF Next, BootStep, WriterStep, SpreadStep

\* With a complete file, a block of RAM that differs from the file is marked,
\* except when an mc_write fell between its fwrite and the clearing of its bit.
THEOREM DirtyTracking == Spec => []DirtyUnlessRaced
<1>1. CardInv => DirtyUnlessRaced
  BY DEF CardInv, DirtyUnlessRaced, Covered, Clean, Complete
<1>2. QED
  BY <1>1, InitCard, NextCard, TypeInvariance, PTL DEF Spec
=============================================================================
