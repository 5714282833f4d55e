------------------------------ MODULE CoreStall ------------------------------
(***************************************************************************)
(* system/core0_stall.c and core0_stall_highint_hdl.S: core 1 holds core 0 *)
(* while it answers a console.  core0_stall_start clears two flags and     *)
(* raises a level 5 interrupt; its handler clears the interrupt, sets the  *)
(* first flag and spins on the second, which core0_stall_end sets once it  *)
(* has seen the first.                                                     *)
(*                                                                         *)
(* The loops of wired/jag_io.c, pce_io.c and sega_io.c keep a lock so as   *)
(* to start once; wired/maple.c pairs its calls.                           *)
(***************************************************************************)
EXTENDS Naturals

VARIABLES
  csLock,     \* lock: core 1's view
  csOne,      \* core 1: "free", or inside core0_stall_start or core0_stall_end
  csZero,     \* core 0: "runs", "enters" its handler, "spins", "leaves"
  csIrq,      \* DPORT_CPU_INTR_FROM_CPU_2 is raised
  csStart,    \* core0_stall_start_var
  csEnd,      \* core0_stall_end_var
  csQuick     \* history: a start came before core 0 had read the last end

csVars == <<csLock, csOne, csZero, csIrq, csStart, csEnd, csQuick>>

Init ==
  /\ csLock = FALSE /\ csOne = "free" /\ csZero = "runs"
  /\ csIrq = FALSE /\ csStart = FALSE /\ csEnd = FALSE /\ csQuick = FALSE

MayStart == ~csLock

\* core0_stall_start, one flag after the other, then the interrupt.
Start ==
  /\ csOne = "free" /\ MayStart
  /\ csOne' = "start" /\ csStart' = FALSE /\ csLock' = TRUE
  /\ UNCHANGED <<csZero, csIrq, csEnd, csQuick>>

StartEnd ==
  /\ csOne = "start" /\ csOne' = "raise" /\ csEnd' = FALSE
  /\ csQuick' = (csQuick \/ (csZero = "spins" /\ csEnd))
  /\ UNCHANGED <<csLock, csZero, csIrq, csStart>>

Raise ==
  /\ csOne = "raise" /\ csOne' = "free" /\ csIrq' = TRUE
  /\ UNCHANGED <<csLock, csZero, csStart, csEnd, csQuick>>

\* core0_stall_end waits for the handler.
End ==
  /\ csOne = "free" /\ csLock
  /\ csOne' = "end"
  /\ UNCHANGED <<csLock, csZero, csIrq, csStart, csEnd, csQuick>>

Release ==
  /\ csOne = "end" /\ csStart
  /\ csOne' = "free" /\ csEnd' = TRUE /\ csLock' = FALSE
  /\ UNCHANGED <<csZero, csIrq, csStart, csQuick>>

\* xt_highint5, which nothing on core 0 delays for ever.
Take ==
  /\ csZero = "runs" /\ csIrq
  /\ csZero' = "enters" /\ csIrq' = FALSE
  /\ UNCHANGED <<csLock, csOne, csStart, csEnd, csQuick>>

SetStart ==
  /\ csZero = "enters" /\ csZero' = "spins" /\ csStart' = TRUE
  /\ UNCHANGED <<csLock, csOne, csIrq, csEnd, csQuick>>

Leave ==
  /\ csZero = "spins" /\ csEnd
  /\ csZero' = "leaves"
  /\ UNCHANGED <<csLock, csOne, csIrq, csStart, csEnd, csQuick>>

Return ==
  /\ csZero = "leaves" /\ csZero' = "runs"
  /\ UNCHANGED <<csLock, csOne, csIrq, csStart, csEnd, csQuick>>

Next == Start \/ StartEnd \/ Raise \/ End \/ Release \/ Take \/ SetStart \/ Leave \/ Return

Spec == Init /\ [][Next]_csVars

(***************************************************************************)
(* Properties.                                                             *)
(***************************************************************************)
TypeOK ==
  /\ csOne \in {"free", "start", "raise", "end"} /\ csZero \in {"runs", "enters", "spins", "leaves"}
  /\ {csLock, csIrq, csStart, csEnd, csQuick} \subseteq BOOLEAN

\* Core 1 never waits for a flag nobody will set any more: while it waits in
\* core0_stall_end core 0 is in the handler or can take the interrupt. The one
\* exception is a start so close after an end that core 0 has not read
\* core0_stall_end_var in between: the two cores then wait for each other.
EndAnswered ==
  csOne = "end" /\ ~csQuick =>
    csStart \/ csZero = "enters" \/ (csIrq /\ (csZero = "spins" => csEnd))
=============================================================================
