----------------------------- MODULE MouseMotion -----------------------------
(***************************************************************************)
(* An axis of a mouse between the cores.  Core 0 (xxx_mouse_from_generic   *)
(* of adapter/wired, the same function but for names in every system)      *)
(* copies the output, adds the motion to the axis or stores the position   *)
(* of a stick in it, and writes the copy back, the flag `relative' in it   *)
(* but not the axes.  Core 1 (load_mouse_axes of wired) takes the           *)
(* whole motion when the console polls, or reads the position, and sends   *)
(* as much of it as the console's mouse has a range for: the rest of the   *)
(* motion is dropped.  Nothing orders the two cores.                       *)
(***************************************************************************)
EXTENDS Integers

CONSTANT MmReports    \* bound: reports of the mouse and the stick together

VARIABLES
  mmSys,      \* the driver
  mmRaw,      \* raw_axes[i]
  mmRel,      \* relative[i] of the output
  mmPc,       \* core 0: "idle", "copied" (map_tmp holds the output), "stored"
  mmCopy,     \* map_tmp: [rel, raw]
  mmReport,   \* the report being converted: [rel, value]
  mmGot,      \* what the console was sent last, and what the axis held then
  mmHist,     \* history: motion in, motion out, motion dropped, the kind of the last store, a poll between store and flag
  mmCount

mmVars == <<mmSys, mmRaw, mmRel, mmPc, mmCopy, mmReport, mmGot, mmHist, mmCount>>

Reports == {[rel |-> TRUE, value |-> v] : v \in {-200, -128, 3}} \cup {[rel |-> FALSE, value |-> 300]}

\* The range of each driver's load_mouse_axes.
nsi == <<-128, 127>>
ps_spi == <<-128, 127>>
pcfx_spi == <<-128, 127>>
pce_io == <<-128, 127>>
cdi_uart == <<-128, 127>>
sega_io == <<-256, 255>>
maple == <<-512, 511>>
real_spi == <<-512, 511>>
\* The SNES mouse reports sign and magnitude, its trackball four bits.
npiso_io == <<-128, 127>>
trackball == <<-8, 7>>

Drivers == {"nsi", "ps_spi", "pcfx_spi", "pce_io", "cdi_uart", "sega_io", "maple", "real_spi", "npiso_io", "trackball"}
Limits == [s \in Drivers |->
  CASE s = "nsi" -> nsi [] s = "ps_spi" -> ps_spi [] s = "pcfx_spi" -> pcfx_spi [] s = "pce_io" -> pce_io
    [] s = "cdi_uart" -> cdi_uart [] s = "sega_io" -> sega_io [] s = "maple" -> maple
    [] s = "real_spi" -> real_spi [] s = "npiso_io" -> npiso_io [] s = "trackball" -> trackball]

Cut(v) == IF v > Limits[mmSys][2] THEN Limits[mmSys][2] ELSE IF v < Limits[mmSys][1] THEN Limits[mmSys][1] ELSE v

\* What reaches the console: sign and magnitude have no -128, a motion below it is sent
\* as -127, and one of -128 itself as zero.
SignMagnitude(v) == IF v < -128 THEN -127 ELSE IF v = -128 THEN 0 ELSE v
Sent(v) == IF mmSys = "npiso_io" THEN Cut(SignMagnitude(v)) ELSE Cut(v)

Init ==
  /\ mmSys \in Drivers
  /\ mmRaw = 0 /\ mmRel = TRUE /\ mmPc = "idle" /\ mmCopy = [rel |-> TRUE, raw |-> 0]
  /\ mmReport = [rel |-> TRUE, value |-> 0] /\ mmGot = [sent |-> 0, held |-> 0] /\ mmCount = 0
  /\ mmHist = [in |-> 0, out |-> 0, dropped |-> 0, rel |-> TRUE, mixed |-> FALSE]

\* A report to convert: the output is copied.
Copy ==
  /\ mmPc = "idle" /\ mmCount < MmReports
  /\ mmReport' \in Reports /\ mmCopy' = [rel |-> mmRel, raw |-> mmRaw] /\ mmPc' = "copied"
  /\ mmCount' = mmCount + 1
  /\ UNCHANGED <<mmSys, mmRaw, mmRel, mmGot, mmHist>>

\* Mutant of Stored: motion is added to the copy.
StoredFromCopy(report, raw) == IF report.rel THEN mmCopy.raw + report.value ELSE report.value

\* atomic_add of a motion, or the position.
Stored(report, raw) == IF report.rel THEN raw + report.value ELSE report.value

Store ==
  LET raw == Stored(mmReport, mmRaw)
  IN  /\ mmPc = "copied" /\ mmPc' = "stored" /\ mmRaw' = raw
      /\ mmHist' = IF mmReport.rel THEN [mmHist EXCEPT !.in = @ + mmReport.value, !.rel = TRUE]
                   ELSE [in |-> mmReport.value, out |-> 0, dropped |-> 0, rel |-> FALSE, mixed |-> FALSE]
      /\ UNCHANGED <<mmSys, mmRel, mmCopy, mmReport, mmGot, mmCount>>

\* The copy is written back up to the axes.
Back ==
  /\ mmPc = "stored" /\ mmPc' = "idle" /\ mmRel' = mmReport.rel
  /\ UNCHANGED <<mmSys, mmRaw, mmCopy, mmReport, mmGot, mmHist, mmCount>>

\* What a poll leaves: atomic_clear takes a motion whole.
Left(v) == IF mmRel THEN 0 ELSE v

\* load_mouse_axes, for a poll of the console.
load_mouse_axes ==
  /\ mmGot' = [sent |-> Sent(mmRaw), held |-> mmRaw] /\ mmRaw' = Left(mmRaw)
  /\ mmHist' = IF mmRel # mmHist.rel /\ mmRaw # 0 THEN [mmHist EXCEPT !.mixed = TRUE]
               ELSE IF mmHist.rel /\ ~mmHist.mixed
               THEN [mmHist EXCEPT !.out = @ + Sent(mmRaw), !.dropped = @ + mmRaw - Sent(mmRaw)]
               ELSE mmHist
  /\ UNCHANGED <<mmSys, mmRel, mmPc, mmCopy, mmReport, mmCount>>

Next == Copy \/ Store \/ Back \/ load_mouse_axes

Spec == Init /\ [][Next]_mmVars

(***************************************************************************)
(* Properties.                                                             *)
(***************************************************************************)
TypeOK ==
  /\ mmSys \in Drivers /\ mmPc \in {"idle", "copied", "stored"} /\ mmRel \in BOOLEAN
  /\ mmCount \in 0 .. MmReports /\ mmGot.sent \in Limits[mmSys][1] .. Limits[mmSys][2]

\* Between the cores no motion is lost or counted twice: what came in is what was sent, what
\* waits, and what polls dropped because it was beyond the range (atomic_clear takes it all, so
\* a quick motion is lost in part).  Only a poll between the store of another
\* kind of report and the writing back of its flag breaks it, until a position is stored.
Conserved == mmHist.mixed \/ mmHist.in = mmHist.out + mmHist.dropped + mmRaw

\* A quicker motion is never sent as a slower one, except by the SNES mouse, for which
\* -128 is sent as no motion.
CutToRange ==
  \/ mmSys = "npiso_io" /\ mmGot.held = -128
  \/ mmGot.held < 0 /\ mmGot.sent <= mmGot.held
  \/ mmGot.held >= 0 /\ mmGot.sent >= mmGot.held
  \/ mmGot.sent \in {Limits[mmSys][1], Limits[mmSys][1] + 1, Limits[mmSys][2]}
=============================================================================
