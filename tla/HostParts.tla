------------------------------ MODULE HostParts -----------------------------
(***************************************************************************)
(* The parts of core 0 whose invariants are proved, on the variables s1,   *)
(* s2, ... that all parts of HostSide share.  A section has the part, what *)
(* is taken for granted of its constants, and the proofs: the inductive    *)
(* invariant its module states holds at first and through every step of    *)
(* the part, and implies the part's properties.                            *)
(***************************************************************************)
EXTENDS Integers, Sequences, FiniteSets, TLAPS, FiniteSetTheorems, WellFoundedInduction

CONSTANTS HlKinds, HlPeers, HlConf, HlRetry, SwRetry, SwFlight, WxChanges, AcPeers, AcMax,
  AcBatch, AcParts, AcRoom, LkPeers, LkSize, LkPairings, LkCuts, CuDevs, CuKbm, CuCombos, CuMax,
  CuCuts, CsvGames, CsvEdits, CsvTraced, CsvOdds, CrMtus, CrLens, CrMax, CrBlock, CrWord,
  CrCard, CrClients, PmPorts, PmDevs, PmChanges, SyThres, SyErase, SyInhibit, SyQueue, SyChanges

VARIABLES s1, s2, s3, s4, s5, s6, s7, s8, s9, s10, s11, s12, s13, s14, s15, s16, s17, s18, s19,
  s20, s21, s22

(***************************************************************************)
(* The ports (PortMap): which device plays on which, and who is told.      *)
(***************************************************************************)
Map == INSTANCE PortMap WITH
  pmHot <- s1, pmWired <- s2, pmStage <- s3, pmOut <- s4, pmShown <- s5, pmHeld <- s6,
  pmInquiry <- s7, pmPass <- s8, pmMask <- s9, pmLed <- s10, pmPulse <- s11, pmTell <- s12,
  pmSeen <- s13, pmAway <- s14, pmRaced <- s15, pmShifted <- s16, pmStale <- s17, pmCount <- s18,
  pmStep <- s19, pmReady <- s20, pmPrev <- s21, pmCrossed <- s22

\* At most four console ports (manager.c:70), seven Bluetooth slots (adapter.h:23).
ASSUME PortsAssumption == PmPorts \in Nat \ {0} /\ PmDevs \in Nat \ {0} /\ PmPorts <= PmDevs

LEMMA Smallest ==
  ASSUME NEW S \in SUBSET Nat, S # {}
  PROVE  \E s \in S : \A t \in S : s <= t
<1> DEFINE R == {p \in Nat \X Nat : p[1] < p[2]}
<1>1. OpToRel(<, Nat) = R
  BY DEF OpToRel
<1>2. IsWellFoundedOn(R, Nat)
  BY <1>1, NatLessThanWellFounded
<1> HIDE DEF R
<1>3. PICK s \in S : \A t \in S : ~(<<t, s>> \in R)
  BY <1>2, WFMin
<1>4. \A t \in S : ~(t < s)
  BY <1>3 DEF R
<1>5. QED
  BY <1>3, <1>4

LEMMA PortsCardinality == \A S : Map!Cardinality(S) = Cardinality(S)
BY DEF Map!Cardinality, Cardinality

\* The ports passed over are those from j to the first empty one, or to the last.
LEMMA PortsSkipped ==
  ASSUME s2 \subseteq Map!Ports, NEW j \in 0..PmPorts
  PROVE  \E n \in Nat : /\ j + n <= PmPorts
                        /\ Map!Skipped(j) = j..(j + n - 1) /\ Cardinality(Map!Skipped(j)) = n
                        /\ j + n \notin s2
<1> DEFINE S == {q \in j..PmPorts : q \notin s2}
<1>1. S \in SUBSET Nat /\ PmPorts \in S
  BY PortsAssumption DEF Map!Ports
<1>2. PICK k \in S : \A t \in S : k <= t
  BY <1>1, Smallest
<1>3. k \in j..PmPorts /\ k \notin s2 /\ \A q \in j..(k - 1) : q \in s2
  BY <1>2, PortsAssumption
<1>4. Map!Skipped(j) = j..(k - 1)
  <2>1. ASSUME NEW p \in Map!Skipped(j) PROVE p \in j..(k - 1)
    BY <1>3, <2>1, PortsAssumption DEF Map!Skipped, Map!Ports
  <2>2. ASSUME NEW p \in j..(k - 1) PROVE p \in Map!Skipped(j)
    BY <1>3, <2>2, PortsAssumption DEF Map!Skipped, Map!Ports
  <2>3. QED
    BY <2>1, <2>2
<1>5. Cardinality(j..(k - 1)) = k - j
  <2>1. j \in Int /\ k - 1 \in Int /\ k >= j
    BY <1>3, PortsAssumption
  <2>2. Cardinality(j..(k - 1)) = IF j > k - 1 THEN 0 ELSE (k - 1) - j + 1
    BY <2>1, FS_Interval
  <2>3. QED
    BY <2>1, <2>2
<1>6. QED
  BY <1>3, <1>4, <1>5, PortsCardinality, PortsAssumption

LEMMA PortsInit == Map!Init => Map!Ind
<1> SUFFICES ASSUME Map!Init PROVE Map!Ind
  OBVIOUS
<1>1. Map!TypeOK
  <2>1. Map!Flags
    BY DEF Map!Init, Map!Flags
  <2>2. Map!Records
    BY PortsAssumption DEF Map!Init, Map!Records, Map!NewPass, Map!NoPort, Map!Ports
  <2>3. QED
    BY <2>1, <2>2, PortsAssumption DEF Map!Init, Map!TypeOK, Map!Indexes, Map!Ports
<1>2. Map!Counted /\ Map!Placed /\ Map!Own /\ Map!Order
  BY PortsAssumption DEF Map!Init, Map!Counted, Map!Placed, Map!Showing, Map!Own, Map!Order,
     Map!Between, Map!NewPass, Map!Come, Map!Devs
<1>3. Map!Masks /\ Map!Shown /\ Map!Lit /\ Map!Pulse /\ Map!Buffers
  BY PortsAssumption DEF Map!Init, Map!Masks, Map!Shown, Map!Lit, Map!Pulse, Map!Buffers,
     Map!Showing, Map!Between, Map!NewPass, Map!Come, Map!Devs, Map!NoDev, Map!Ports
<1>4. QED
  BY <1>1, <1>2, <1>3 DEF Map!Ind

\* A wired controller is plugged or pulled.
LEMMA PortsPlug ==
  ASSUME Map!Ind, NEW p \in Map!Ports, Map!Plug(p)
  PROVE  Map!Ind'
<1>1. Map!TypeOK'
  <2>1. Map!Flags' /\ Map!Records'
    BY DEF Map!Plug, Map!Ind, Map!TypeOK, Map!Flags, Map!Records, Map!devVars, Map!atVars,
       Map!histVars
  <2>2. QED
    BY <2>1 DEF Map!Plug, Map!Ind, Map!TypeOK, Map!devVars, Map!atVars, Map!histVars
<1>2. Map!Counted' /\ Map!Placed' /\ Map!Own' /\ Map!Order'
  BY DEF Map!Plug, Map!Ind, Map!TypeOK, Map!Records, Map!Counted, Map!Placed, Map!Showing,
     Map!Own, Map!Order, Map!Between, Map!Come, Map!devVars, Map!atVars, Map!histVars
<1>3. Map!Masks' /\ Map!Shown' /\ Map!Lit' /\ Map!Pulse' /\ Map!Buffers'
  BY DEF Map!Plug, Map!Ind, Map!TypeOK, Map!Records, Map!Masks, Map!Shown, Map!Lit, Map!Pulse,
     Map!Buffers, Map!Showing, Map!Between, Map!Come, Map!devVars, Map!atVars, Map!histVars
<1>4. QED
  BY <1>1, <1>2, <1>3 DEF Map!Ind

LEMMA PortsInquiry ==
  ASSUME Map!Ind, Map!InquiryChanges
  PROVE  Map!Ind'
<1>1. Map!TypeOK'
  <2>1. Map!Flags' /\ Map!Records'
    BY DEF Map!InquiryChanges, Map!Ind, Map!TypeOK, Map!Flags, Map!Records, Map!devVars,
       Map!atVars, Map!histVars
  <2>2. QED
    BY <2>1 DEF Map!InquiryChanges, Map!Ind, Map!TypeOK, Map!devVars, Map!atVars, Map!histVars
<1>2. Map!Counted' /\ Map!Placed' /\ Map!Own' /\ Map!Order'
  BY DEF Map!InquiryChanges, Map!Ind, Map!TypeOK, Map!Records, Map!Counted, Map!Placed,
     Map!Showing, Map!Own, Map!Order, Map!Between, Map!Come, Map!devVars, Map!atVars, Map!histVars
<1>3. Map!Masks' /\ Map!Shown' /\ Map!Lit' /\ Map!Buffers'
  BY DEF Map!InquiryChanges, Map!Ind, Map!TypeOK, Map!Records, Map!Masks, Map!Shown, Map!Lit,
     Map!Buffers, Map!Showing, Map!Between, Map!Come, Map!devVars, Map!atVars, Map!histVars
<1>4. Map!Pulse'
  BY DEF Map!InquiryChanges, Map!Ind, Map!TypeOK, Map!Records, Map!Pulse, Map!Between, Map!Come,
     Map!devVars, Map!atVars, Map!histVars
<1>5. QED
  BY <1>1, <1>2, <1>3, <1>4 DEF Map!Ind

\* A slot is taken, or its device is gone.
LEMMA PortsReset ==
  ASSUME Map!Ind, NEW d \in Map!Devs, NEW stage \in {"link", "none"}, Map!Reset(d, stage)
  PROVE  Map!Ind'
<1> USE DEF Map!mapVars, Map!atVars
<1>0. d \in Map!Indexes /\ Map!NoDev \notin Map!Devs
  BY PortsAssumption DEF Map!Devs, Map!Indexes, Map!NoDev
<1>1. Map!TypeOK'
  <2>1. Map!Flags' /\ Map!Records'
    BY DEF Map!Reset, Map!Ind, Map!TypeOK, Map!Flags, Map!Records, Map!Showing
  <2>2. QED
    BY <1>0, <2>1 DEF Map!Reset, Map!Released, Map!Ind, Map!TypeOK
<1>2. Map!Counted' /\ Map!Own'
  BY PortsAssumption DEF Map!Reset, Map!Ind, Map!TypeOK, Map!Counted, Map!Own, Map!Between,
     Map!Come, Map!Devs
<1>3. Map!Order'
  <2>1. d < s8.i => d < s8.idx
    BY PortsAssumption DEF Map!Ind, Map!TypeOK, Map!Records, Map!Counted, Map!Devs
  <2>2. \A e \in Map!Devs : e # d => s4'[e] = s4[e]
    BY DEF Map!Reset, Map!Ind, Map!TypeOK
  <2>3. s4'[d] = d /\ s14' = s14 \cup {d}
    BY DEF Map!Reset, Map!Ind, Map!TypeOK
  <2>4. \A e \in Map!Devs : e < s8.i => s4'[e] < s8.idx
    BY <2>1, <2>2, <2>3 DEF Map!Ind, Map!Order
  <2>5. ASSUME NEW e \in Map!Devs, NEW f \in Map!Devs \ s14', e < f
        PROVE  s4'[e] < s4'[f] \/ (s8.i <= f /\ s4'[f] < s8.idx)
    <3>1. f # d /\ f \notin s14 /\ s4'[f] = s4[f]
      BY <2>2, <2>3
    <3>2. CASE e = d
      BY <2>3, <2>5, <3>1, <3>2, PortsAssumption DEF Map!Ind, Map!TypeOK, Map!Own, Map!Devs,
         Map!Indexes
    <3>3. CASE e # d
      BY <2>2, <2>5, <3>1, <3>3 DEF Map!Ind, Map!Order
    <3>4. QED
      BY <3>2, <3>3
  <2>6. \A e \in Map!Devs \ s14' : Map!Come(e) => s13.plug \/ s4'[e] \notin s2
    BY <2>2, <2>3 DEF Map!Ind, Map!Order
  <2>7. QED
    BY <2>4, <2>5, <2>6 DEF Map!Reset, Map!Order, Map!Come, Map!Between
<1>4. Map!Masks'
  <2>1. s17' = TRUE /\ s1' = s1 /\ d \in s14' /\ s14' = s14 \cup {d}
    BY DEF Map!Reset
  <2>2. UNCHANGED <<s8, s13>>
    BY DEF Map!Reset
  <2>3. ASSUME ~Map!Between, \A e \in s14' : ~Map!Come(e)
        PROVE  s8'.mask = {s4'[e] : e \in {c \in Map!Devs : Map!Come(c) /\ (s1 =>
               c \in s13.ready)}}
    <3>1. ~Map!Come(d)
      BY <2>1, <2>3
    <3>2. s8.mask = {s4[e] : e \in {c \in Map!Devs : Map!Come(c) /\ (s1 => c \in s13.ready)}}
      BY <2>1, <2>3 DEF Map!Ind, Map!Masks
    <3>3. \A e \in Map!Devs : Map!Come(e) => s4'[e] = s4[e]
      BY <3>1 DEF Map!Reset, Map!Ind, Map!TypeOK
    <3>4. {s4[e] : e \in {c \in Map!Devs : Map!Come(c) /\ (s1 => c \in s13.ready)}}
            = {s4'[e] : e \in {c \in Map!Devs : Map!Come(c) /\ (s1 => c \in s13.ready)}}
      BY <3>3
    <3>5. QED
      BY <2>2, <3>2, <3>4
  <2>4. QED
    BY <2>1, <2>2, <2>3 DEF Map!Masks, Map!Come, Map!Between
<1>5. Map!Shown'
  BY DEF Map!Reset, Map!Ind, Map!TypeOK, Map!Shown, Map!Showing
<1>6. Map!Lit'
  <2>1. UNCHANGED <<s8, s13, s10, s19>> /\ d \in s14' /\ s14' = s14 \cup {d}
    BY DEF Map!Reset
  <2>2. \A e \in Map!Devs : e # d => s4'[e] = s4[e]
    BY DEF Map!Reset, Map!Ind, Map!TypeOK
  <2>3. s13.ready \subseteq Map!Devs
    BY DEF Map!Ind, Map!TypeOK, Map!Records
  <2>4. ASSUME ~s22', NEW e \in s13.ready \ s14', s4'[e] \in Map!Ports, ~Map!Showing(e)
        PROVE  s10[s4'[e]] = "on"
    <3>1. ~s22 /\ e \in s13.ready \ s14 /\ e # d
      BY <2>1, <2>4 DEF Map!Reset
    <3>2. QED
      BY <2>2, <2>3, <2>4, <3>1 DEF Map!Ind, Map!Lit
  <2>5. ASSUME \A e \in s14' : ~Map!Come(e), NEW p \in Map!Ports \ {s13.pulse},
               Map!Between \/ p < s8.j, s10[p] = "on", ~(s19 = "show" /\ p = s8.idx - 1)
        PROVE  \E e \in s13.ready : s4'[e] = p
    <3>1. PICK e \in s13.ready : s4[e] = p
      BY <2>1, <2>5 DEF Map!Ind, Map!Lit
    <3>2. e # d
      BY <2>1, <2>5 DEF Map!Ind, Map!Counted
    <3>3. QED
      BY <2>2, <2>3, <3>1, <3>2
  <2>6. QED
    BY <2>1, <2>4, <2>5 DEF Map!Lit, Map!Come, Map!Between, Map!Showing
<1>7. Map!Pulse'
  BY DEF Map!Reset, Map!Ind, Map!TypeOK, Map!Pulse, Map!Between, Map!Come
<1>8. Map!Buffers'
  BY <1>0 DEF Map!Reset, Map!Released, Map!Ind, Map!TypeOK, Map!Buffers
<1>9. Map!Placed'
  <2>1. \A e \in Map!Devs : e # d => s4'[e] = s4[e] /\ (e \in s14' <=> e \in s14)
    BY DEF Map!Reset, Map!Ind, Map!TypeOK
  <2>2. s4'[d] = d /\ d \in s14'
    BY DEF Map!Reset, Map!Ind, Map!TypeOK
  <2>3. UNCHANGED <<s8, s13, s19, s20>> /\ s22' = (s22 \/ Map!Showing(d))
    BY DEF Map!Reset
  <2>4. Map!Showing(d) => d < s8.idx
    BY PortsAssumption DEF Map!Showing, Map!Ind, Map!TypeOK, Map!Records, Map!Counted, Map!Devs
  <2>5. QED
    BY <2>1, <2>2, <2>3, <2>4 DEF Map!Ind, Map!Placed, Map!Showing
<1>10. QED
  BY <1>1, <1>2, <1>3, <1>4, <1>5, <1>6, <1>7, <1>8, <1>9 DEF Map!Ind

LEMMA PortsLights ==
  ASSUME Map!Ind, NEW d \in Map!Devs, Map!Lights(d)
  PROVE  Map!Ind'
<1> USE DEF Map!mapVars, Map!atVars, Map!histVars
<1>1. Map!TypeOK'
  <2>1. Map!Flags' /\ Map!Records'
    BY DEF Map!Lights, Map!Ind, Map!TypeOK, Map!Flags, Map!Records
  <2>2. QED
    BY <2>1 DEF Map!Lights, Map!Ind, Map!TypeOK
<1>2. Map!Counted' /\ Map!Placed' /\ Map!Own' /\ Map!Order'
  BY DEF Map!Lights, Map!Ind, Map!TypeOK, Map!Counted, Map!Placed, Map!Showing, Map!Own,
     Map!Order, Map!Between, Map!Come
<1>3. Map!Masks' /\ Map!Lit' /\ Map!Pulse'
  BY DEF Map!Lights, Map!Ind, Map!TypeOK, Map!Masks, Map!Lit, Map!Pulse, Map!Showing, Map!Between,
     Map!Come
<1>4. Map!Shown'
  BY DEF Map!Lights, Map!Ind, Map!TypeOK, Map!Shown, Map!Showing
<1>5. Map!Buffers'
  BY DEF Map!Lights, Map!Ind, Map!TypeOK, Map!Buffers
<1>6. QED
  BY <1>1, <1>2, <1>3, <1>4, <1>5 DEF Map!Ind

LEMMA PortsReady ==
  ASSUME Map!Ind, NEW d \in Map!Devs, Map!Ready(d)
  PROVE  Map!Ind'
<1> USE DEF Map!mapVars, Map!atVars, Map!histVars
<1>1. Map!TypeOK'
  <2>1. Map!Flags' /\ Map!Records'
    BY DEF Map!Ready, Map!Ind, Map!TypeOK, Map!Flags, Map!Records
  <2>2. QED
    BY <2>1 DEF Map!Ready, Map!Ind, Map!TypeOK
<1>2. Map!Counted' /\ Map!Placed' /\ Map!Own' /\ Map!Order'
  BY DEF Map!Ready, Map!Ind, Map!TypeOK, Map!Counted, Map!Placed, Map!Showing, Map!Own, Map!Order,
     Map!Between, Map!Come
<1>3. Map!Masks' /\ Map!Lit' /\ Map!Pulse'
  BY DEF Map!Ready, Map!Ind, Map!TypeOK, Map!Masks, Map!Lit, Map!Pulse, Map!Showing, Map!Between,
     Map!Come
<1>4. Map!Shown'
  BY DEF Map!Ready, Map!Ind, Map!TypeOK, Map!Shown, Map!Showing
<1>5. Map!Buffers'
  BY DEF Map!Ready, Map!Ind, Map!TypeOK, Map!Buffers
<1>6. QED
  BY <1>1, <1>2, <1>3, <1>4, <1>5 DEF Map!Ind

LEMMA PortsReport ==
  ASSUME Map!Ind, NEW d \in Map!Devs, Map!Report(d)
  PROVE  Map!Ind'
<1> USE DEF Map!mapVars, Map!atVars, Map!histVars
<1>0. s4[d] \in Map!Indexes
  BY DEF Map!Ind, Map!TypeOK
<1>1. Map!TypeOK'
  <2>1. Map!Flags' /\ Map!Records'
    BY DEF Map!Report, Map!Ind, Map!TypeOK, Map!Flags, Map!Records
  <2>2. QED
    BY <1>0, <2>1 DEF Map!Report, Map!Ind, Map!TypeOK
<1>2. Map!Counted' /\ Map!Placed' /\ Map!Own' /\ Map!Order'
  BY DEF Map!Report, Map!Ind, Map!TypeOK, Map!Counted, Map!Placed, Map!Showing, Map!Own,
     Map!Order, Map!Between, Map!Come
<1>3. Map!Masks' /\ Map!Lit' /\ Map!Pulse'
  BY DEF Map!Report, Map!Ind, Map!TypeOK, Map!Masks, Map!Lit, Map!Pulse, Map!Showing, Map!Between,
     Map!Come
<1>4. Map!Shown'
  BY DEF Map!Report, Map!Ind, Map!TypeOK, Map!Shown, Map!Showing
<1>5. Map!Buffers'
  BY <1>0 DEF Map!Report, Map!Ind, Map!TypeOK, Map!Buffers
<1>6. QED
  BY <1>1, <1>2, <1>3, <1>4, <1>5 DEF Map!Ind

\* bt_fb_task passes a player LED on.
LEMMA PortsTakeLed ==
  ASSUME Map!Ind, Map!TakeLed
  PROVE  Map!Ind'
<1> USE DEF Map!mapVars, Map!atVars, Map!histVars
<1> DEFINE there(p) == {d \in Map!Devs : s3[d] = "ready" /\ s4[d] = p}
<1>0. PICK p \in s12 :
        /\ s12' = s12 \ {p}
        /\ s5' = [d \in Map!Devs |->
             IF d \in there(p) /\ \A e \in there(p) : d <= e THEN p ELSE s5[d]]
        /\ UNCHANGED <<s1, s2, s3, s4, s6, s7, Map!mapVars, Map!histVars, s18>>
  BY DEF Map!TakeLed
<1>1. Map!TypeOK'
  <2>1. Map!Flags' /\ Map!Records'
    BY <1>0 DEF Map!Ind, Map!TypeOK, Map!Flags, Map!Records
  <2>2. QED
    BY <1>0, <2>1 DEF Map!Ind, Map!TypeOK
<1>2. Map!Counted' /\ Map!Placed' /\ Map!Own' /\ Map!Order'
  BY <1>0 DEF Map!Ind, Map!TypeOK, Map!Counted, Map!Placed, Map!Showing, Map!Own, Map!Order,
     Map!Between, Map!Come
<1>3. Map!Masks' /\ Map!Lit' /\ Map!Pulse'
  BY <1>0 DEF Map!Ind, Map!TypeOK, Map!Masks, Map!Lit, Map!Pulse, Map!Showing, Map!Between,
     Map!Come
<1>4. Map!Shown'
  <2>1. SUFFICES ASSUME NEW d \in Map!Devs
        PROVE  /\ d \in s14 /\ s3[d] \in {"lit", "ready"} => s5'[d] = s4[d]
               /\ d \notin s15 /\ s3[d] = "lit" => s5'[d] = s4[d]
               /\ d \notin s15 /\ s3[d] = "ready" =>
                    \/ s5'[d] = s4[d] \/ s4[d] \in s12'
                    \/ s8.i <= d /\ s4[d] < s8.idx
                    \/ Map!Showing(d) /\ s20 /\ s4[d] # s21
    BY <1>0 DEF Map!Shown, Map!Showing
  <2>2. s5'[d] = s5[d] \/ s5'[d] = s4[d]
    BY <1>0
  <2>3. /\ d \in s14 /\ s3[d] \in {"lit", "ready"} => s5'[d] = s4[d]
        /\ d \notin s15 /\ s3[d] = "lit" => s5'[d] = s4[d]
    BY <2>2 DEF Map!Ind, Map!Shown
  <2>4. ASSUME d \notin s15, s3[d] = "ready", s5'[d] # s4[d], s4[d] \notin s12'
        PROVE  \/ s8.i <= d /\ s4[d] < s8.idx
               \/ Map!Showing(d) /\ s20 /\ s4[d] # s21
    <3>1. d \notin s14 /\ s5[d] # s4[d]
      BY <2>2, <2>3, <2>4
    <3>2. CASE s4[d] \notin s12
      BY <2>4, <3>1, <3>2 DEF Map!Ind, Map!Shown
    <3>3. CASE s4[d] = p
      <4>1. PICK e \in there(p) : ~(d <= e)
        BY <1>0, <2>4, <3>3
      <4>2. e \in Map!Devs /\ s4[e] = s4[d] /\ e < d
        BY <3>3, <4>1 DEF Map!Devs
      <4>3. QED
        BY <3>1, <4>2, PortsAssumption DEF Map!Ind, Map!Order, Map!TypeOK, Map!Indexes
    <3>4. QED
      BY <1>0, <2>4, <3>2, <3>3
  <2>5. QED
    BY <2>3, <2>4
<1>5. Map!Buffers'
  BY <1>0 DEF Map!Ind, Map!TypeOK, Map!Buffers
<1>6. QED
  BY <1>1, <1>2, <1>3, <1>4, <1>5 DEF Map!Ind

\* The end of the pass.
LEMMA PortsFinish ==
  ASSUME Map!Ind, Map!Finish
  PROVE  Map!Ind'
<1> USE DEF Map!devVars
<1>0. /\ s8.i = PmDevs /\ s8.j = PmPorts /\ ~Map!Between /\ Map!Between'
      /\ s8' = Map!NewPass
      /\ \A d \in Map!Devs : Map!Come(d) /\ Map!Come(d)' /\ ~(s8.i <= d)
  BY PortsAssumption DEF Map!Finish, Map!Ind, Map!TypeOK, Map!Records, Map!Counted, Map!Between,
     Map!Come, Map!NewPass, Map!Devs
<1>a. UNCHANGED <<s1, s2, s3, s4, s5, s6, s12, s7, s10, s11, s13,
                  s14, s15, s16, s22, s19, s20, s21>> /\ s19 = "look"
  BY DEF Map!Finish, Map!atVars
<1>1. Map!TypeOK'
  <2>1. Map!Flags'
    BY DEF Map!Finish, Map!atVars, Map!Ind, Map!TypeOK, Map!Flags
  <2>2. Map!Records'
    BY <1>0, <1>a, PortsAssumption DEF Map!NewPass, Map!Ind, Map!TypeOK, Map!Records
  <2>3. s9' \subseteq Map!Indexes
    BY DEF Map!Finish, Map!Ind, Map!TypeOK, Map!Records
  <2>4. QED
    BY <1>a, <2>1, <2>2, <2>3 DEF Map!Ind, Map!TypeOK
<1>2. Map!Counted'
  BY <1>0, <1>a, PortsAssumption DEF Map!NewPass, Map!Counted, Map!Between, Map!Come, Map!Ind
<1>3. Map!Own' /\ Map!Placed'
  BY <1>a DEF Map!Ind, Map!Own, Map!Placed, Map!Showing
<1>4. Map!Order'
  <2>1. \A d \in Map!Devs : ~(d < 0)
    BY DEF Map!Devs
  <2>2. s8'.i = 0
    BY <1>0 DEF Map!NewPass
  <2>3. \A e \in Map!Devs, d \in Map!Devs \ s14 : e < d => s4[e] < s4[d]
    BY <1>0 DEF Map!Ind, Map!Order
  <2>4. \A d \in Map!Devs \ s14 : s13.plug \/ s4[d] \notin s2
    BY <1>0 DEF Map!Ind, Map!Order
  <2>5. QED
    BY <1>a, <2>1, <2>2, <2>3, <2>4 DEF Map!Order
<1>5. Map!Masks'
  <2>1. s14 = {} => s8.mask = {s4[d] : d \in {c \in Map!Devs : s1 => c \in s13.ready}}
    BY <1>0 DEF Map!Ind, Map!Masks
  <2>2. CASE s1
    <3>1. s13.ready \subseteq Map!Devs
      BY DEF Map!Ind, Map!TypeOK, Map!Records
    <3>2. s14 = {} => s8.mask = {s4[d] : d \in s13.ready}
      BY <2>1, <2>2, <3>1
    <3>3. s9' = s8.mask
      BY <2>2 DEF Map!Finish, Map!Updates
    <3>4. QED
      BY <1>0, <1>a, <2>2, <3>2, <3>3 DEF Map!Masks
  <2>3. CASE ~s1
    <3>1. s14 = {} => s8.mask = {s4[d] : d \in Map!Devs}
      BY <2>1, <2>3
    <3>2. CASE s8.update
      <4>1. s9' = s8.mask /\ s17' = (s14 # {})
        BY <3>2 DEF Map!Finish, Map!Updates
      <4>2. QED
        BY <1>0, <1>a, <2>3, <3>1, <4>1 DEF Map!Masks
    <3>3. CASE ~s8.update
      <4>1. s9' = s9 /\ s17' = s17
        BY <2>3, <3>3 DEF Map!Finish, Map!Updates
      <4>2. ~s17 => s9 = {s4[d] : d \in Map!Devs}
        BY <1>a, <2>3, <3>3 DEF Map!Ind, Map!Masks, Map!Showing
      <4>3. QED
        BY <1>0, <1>a, <2>3, <4>1, <4>2 DEF Map!Masks
    <3>4. QED
      BY <3>2, <3>3
  <2>4. QED
    BY <2>2, <2>3
<1>6. Map!Shown'
  BY <1>0, <1>a DEF Map!Ind, Map!Shown, Map!Showing
<1>7. Map!Lit'
  <2>1. s13.ready \subseteq Map!Devs /\ s14 \subseteq Map!Devs
    BY DEF Map!Ind, Map!TypeOK, Map!Records
  <2>2. \A p \in Map!Ports : p < s8.j
    BY <1>0, PortsAssumption DEF Map!Ports
  <2>3. QED
    BY <1>0, <1>a, <2>1, <2>2 DEF Map!Ind, Map!Lit, Map!Showing
<1>8. Map!Pulse'
  <2>1. \A p \in Map!Ports : p < s8.j
    BY <1>0, PortsAssumption DEF Map!Ports
  <2>2. ASSUME s13.calm, ~s22, NEW p \in Map!Ports, NEW q \in Map!Ports, s10[p] = "pulse",
               s10[q] = "pulse"
        PROVE  p = q
    BY <1>0, <1>a, <2>1, <2>2 DEF Map!Ind, Map!Pulse
  <2>3. QED
    BY <1>0, <1>a, <2>2 DEF Map!Pulse
<1>9. Map!Buffers'
  BY <1>a DEF Map!Ind, Map!Buffers
<1>10. QED
  BY <1>1, <1>2, <1>3, <1>4, <1>5, <1>6, <1>7, <1>8, <1>9 DEF Map!Ind

\* The pass looks at the next device.
LEMMA PortsLook ==
  ASSUME Map!Ind, Map!Look
  PROVE  Map!Ind'
<1> USE DEF Map!devVars, Map!histVars
<1>0. /\ s19 = "look" /\ s19' = "place" /\ s20' \in BOOLEAN /\ s8.i < PmDevs
      /\ \A d : ~Map!Showing(d) /\ ~Map!Showing(d)'
  BY DEF Map!Look, Map!Showing
<1>1. Map!TypeOK'
  <2>1. Map!Flags' /\ Map!Records'
    BY <1>0 DEF Map!Look, Map!Ind, Map!TypeOK, Map!Flags, Map!Records
  <2>2. QED
    BY <1>0, <2>1 DEF Map!Look, Map!Ind, Map!TypeOK
<1>2. Map!Counted' /\ Map!Placed' /\ Map!Own' /\ Map!Order'
  BY <1>0 DEF Map!Look, Map!Ind, Map!TypeOK, Map!Counted, Map!Placed, Map!Own, Map!Order,
     Map!Between, Map!Come
<1>3. Map!Masks' /\ Map!Shown' /\ Map!Buffers'
  BY <1>0 DEF Map!Look, Map!Ind, Map!TypeOK, Map!Masks, Map!Shown, Map!Buffers, Map!Between,
     Map!Come
<1>4. Map!Lit' /\ Map!Pulse'
  BY <1>0 DEF Map!Look, Map!Ind, Map!TypeOK, Map!Lit, Map!Pulse, Map!Between, Map!Come
<1>5. QED
  BY <1>1, <1>2, <1>3, <1>4 DEF Map!Ind

\* The port the device is given: idx, behind n ports with wired controllers.
Places(n, idx) ==
  LET d == s8.i IN
  /\ d \in Map!Devs /\ n \in Nat /\ idx = s8.idx + n /\ s8.j + n <= PmPorts
  /\ idx \in Map!Indexes /\ idx \notin s2
  /\ idx \in Map!Ports => idx = s8.j + n
  /\ idx \notin Map!Ports => s8.j + n = PmPorts
  /\ s4' = [s4 EXCEPT ![d] = idx]
  /\ s10' = [p \in Map!Ports |-> IF p \in s8.j .. (s8.j + n - 1) THEN "off" ELSE s10[p]]
  /\ s8'.i = d + 1 /\ s8'.idx = idx + 1
  /\ s8'.j = IF idx \in Map!Ports THEN idx + 1 ELSE PmPorts

LEMMA PortsPlaces ==
  ASSUME Map!Ind, Map!Place
  PROVE  \E n, idx : Places(n, idx)
<1>1. /\ s8.i \in Map!Devs /\ s8.j \in 0..PmPorts /\ s8.idx \in Nat /\ s8.i \in Nat
      /\ s2 \subseteq Map!Ports
      /\ s8.j <= s8.idx /\ s8.idx <= s8.j + s8.i
      /\ s8.j < PmPorts => s8.idx = s8.j
  BY PortsAssumption DEF Map!Place, Map!Ind, Map!TypeOK, Map!Records, Map!Counted, Map!Devs
<1>2. PICK n \in Nat : /\ s8.j + n <= PmPorts
                       /\ Map!Skipped(s8.j) = s8.j..(s8.j + n - 1)
                       /\ Cardinality(Map!Skipped(s8.j)) = n
                       /\ s8.j + n \notin s2
  BY <1>1, PortsSkipped
<1> DEFINE idx == s8.idx + n
<1>3. /\ idx \in Map!Indexes
      /\ idx \in Map!Ports => idx = s8.j + n
      /\ idx \notin Map!Ports => s8.j + n = PmPorts
  <2>1. idx \in Map!Indexes
    BY <1>1, <1>2, PortsAssumption DEF Map!Indexes, Map!Devs
  <2>2. CASE s8.j < PmPorts
    BY <1>1, <1>2, <2>1, <2>2, PortsAssumption DEF Map!Ports
  <2>3. CASE s8.j = PmPorts
    BY <1>1, <1>2, <2>1, <2>3, PortsAssumption DEF Map!Ports
  <2>4. QED
    BY <1>1, <2>1, <2>2, <2>3, PortsAssumption
<1>4. idx \notin s2
  BY <1>1, <1>2, <1>3
<1>5. /\ s8'.i = s8.i + 1 /\ s8'.idx = idx + 1
      /\ s8'.j = IF idx \in Map!Ports THEN idx + 1 ELSE PmPorts
  <2>1. /\ s8'.i = s8.i + 1 /\ s8'.idx = idx + 1
        /\ s8'.j = IF s8.j + n + 1 > PmPorts THEN PmPorts ELSE s8.j + n + 1
    BY <1>2, PortsCardinality DEF Map!Place, Map!NextIdx
  <2>2. QED
    BY <1>1, <1>2, <1>3, <2>1, PortsAssumption DEF Map!Ports
<1>6. s4' = [s4 EXCEPT ![s8.i] = idx]
  BY <1>2, PortsCardinality DEF Map!Place
<1>11. s10' = [p \in Map!Ports |-> IF p \in s8.j .. (s8.j + n - 1) THEN "off" ELSE s10[p]]
  BY <1>2 DEF Map!Place
<1>12. Places(n, idx)
  <2>1. idx = s8.idx + n
    OBVIOUS
  <2> HIDE DEF idx
  <2>2. QED
    BY <1>1, <1>2, <1>3, <1>4, <1>5, <1>6, <1>11, <2>1 DEF Places
<1>13. QED
  BY <1>12

\* What is noted down with it: the mask, the port it had, the history.
Notes(idx) ==
  LET d == s8.i
      moved == s4[d] # idx
  IN
  /\ s8'.mask = (IF s20 \/ ~s1 THEN s8.mask \cup {idx} ELSE s8.mask)
  /\ s8'.update = s8.update /\ s8'.pulsed = s8.pulsed
  /\ s13'.ready = (IF Map!Between THEN {} ELSE s13.ready) \cup (IF s20 THEN {d} ELSE {})
  /\ s13'.pulse = (IF Map!Between THEN s11 ELSE s13.pulse)
  /\ s13'.calm = (Map!Between \/ s13.calm)
  /\ s13'.plug = (~Map!Between /\ s13.plug)
  /\ s14' = s14 \ {d}
  /\ s15' = (IF moved /\ (s3[d] = "lit" \/ (s3[d] = "ready" /\ ~s20))
                 THEN s15 \cup {d} ELSE s15)
  /\ s16' = (s16 \/ idx # d)

LEMMA PortsNotes ==
  ASSUME Map!Ind, Map!Place, NEW n, NEW idx, Places(n, idx)
  PROVE  Notes(idx)
<1>1. /\ s8.idx \in Nat /\ idx \in Nat
      /\ s13 \in [ready : SUBSET Map!Devs, pulse : Map!Ports \cup {Map!NoPort}, calm : BOOLEAN,
           plug : BOOLEAN]
  BY PortsAssumption DEF Map!Ind, Map!TypeOK, Map!Records, Places, Map!Indexes
<1>2. s8.idx + Cardinality(Map!Skipped(s8.j)) = idx
  <2>1. s8'.idx = s8.idx + Cardinality(Map!Skipped(s8.j)) + 1
    BY PortsCardinality DEF Map!Place, Map!NextIdx
  <2>2. \E k \in Nat : Cardinality(Map!Skipped(s8.j)) = k
    <3>1. s2 \subseteq Map!Ports /\ s8.j \in 0..PmPorts
      BY DEF Map!Ind, Map!TypeOK, Map!Records
    <3>2. QED
      BY <3>1, PortsSkipped
  <2>3. s8'.idx = idx + 1
    BY DEF Places
  <2>4. QED
    BY <1>1, <2>1, <2>2, <2>3
<1>3. /\ s8'.mask = (IF s20 \/ ~s1 THEN s8.mask \cup {idx} ELSE s8.mask)
      /\ s8'.update = s8.update /\ s8'.pulsed = s8.pulsed
  BY <1>2, PortsCardinality DEF Map!Place
<1>4. /\ s14' = s14 \ {s8.i}
      /\ s15' = (IF s4[s8.i] # idx /\ (s3[s8.i] = "lit" \/ (s3[s8.i] = "ready" /\ ~s20))
                   THEN s15 \cup {s8.i} ELSE s15)
      /\ s16' = (s16 \/ idx # s8.i)
  BY <1>2, PortsCardinality DEF Map!Place
<1>5. s13' = [(IF Map!Between THEN [ready |-> {}, pulse |-> s11, calm |-> TRUE,
      plug |-> FALSE] ELSE s13)
                 EXCEPT !.ready = @ \cup (IF s20 THEN {s8.i} ELSE {})]
  BY DEF Map!Place
<1>6. /\ s13'.ready = (IF Map!Between THEN {} ELSE s13.ready)
           \cup (IF s20 THEN {s8.i} ELSE {})
      /\ s13'.pulse = (IF Map!Between THEN s11 ELSE s13.pulse)
      /\ s13'.calm = (Map!Between \/ s13.calm)
      /\ s13'.plug = (~Map!Between /\ s13.plug)
  <2>1. CASE Map!Between
    BY <1>5, <2>1
  <2>2. CASE ~Map!Between
    BY <1>1, <1>5, <2>2
  <2>3. QED
    BY <2>1, <2>2
<1>7. QED
  BY <1>3, <1>4, <1>6 DEF Notes

\* The numbers of it.
LEMMA PortsNumbers ==
  ASSUME Map!Ind, Map!Place, NEW n, NEW idx, Places(n, idx), Notes(idx)
  PROVE  /\ s8.i \in Nat /\ s8.i \in Map!Devs /\ s8.idx \in Nat /\ s8.j \in Nat
         /\ n \in Nat /\ idx \in Nat /\ idx = s8.idx + n /\ s8.i <= s8.idx
         /\ idx \notin Map!Ports => idx >= PmPorts
         /\ ~Map!Between' /\ s8'.i = s8.i + 1 /\ s8'.idx = idx + 1
         /\ \A d \in Map!Devs : d \in Nat /\ s4[d] \in Nat /\ (Map!Come(d)' <=> d < s8.i + 1)
         /\ \A d \in Map!Devs : d < s8.i + 1 <=> d < s8.i \/ d = s8.i
         /\ \A d \in Map!Devs : d < s8.i => ~Map!Between /\ Map!Come(d) /\ s4[d] < s8.idx
         /\ s4'[s8.i] = idx /\ \A d \in Map!Devs : d # s8.i => s4'[d] = s4[d]
         /\ UNCHANGED <<s1, s2, s3, s5, s6, s7, s9, s17, s20, s12, s11>>
<1>1. /\ s8.i \in Nat /\ s8.i \in Map!Devs /\ s8.idx \in Nat /\ s8.j \in Nat
      /\ n \in Nat /\ idx \in Nat /\ idx = s8.idx + n /\ s8.i <= s8.idx
  BY PortsAssumption DEF Map!Ind, Map!TypeOK, Map!Records, Map!Counted, Places, Map!Indexes
<1>2. idx \notin Map!Ports => idx >= PmPorts
  BY <1>1, PortsAssumption DEF Map!Ports
<1>3. ~Map!Between' /\ s8'.i = s8.i + 1 /\ s8'.idx = idx + 1
  BY <1>1 DEF Places, Map!Between
<1>4. \A d \in Map!Devs : d \in Nat /\ s4[d] \in Nat
  BY PortsAssumption DEF Map!Ind, Map!TypeOK, Map!Devs, Map!Indexes
<1>5. \A d \in Map!Devs : Map!Come(d)' <=> d < s8.i + 1
  BY <1>3 DEF Map!Come
<1>6. \A d \in Map!Devs : d < s8.i => ~Map!Between /\ Map!Come(d) /\ s4[d] < s8.idx
  BY <1>1, <1>4 DEF Map!Ind, Map!Order, Map!Between, Map!Come
<1>7. s4'[s8.i] = idx /\ \A d \in Map!Devs : d # s8.i => s4'[d] = s4[d]
  BY <1>1 DEF Places, Map!Ind, Map!TypeOK
<1>8. \A d \in Map!Devs : d < s8.i + 1 <=> d < s8.i \/ d = s8.i
  BY <1>1, <1>4
<1>9. UNCHANGED <<s1, s2, s3, s5, s6, s7, s9, s17, s20, s12, s11>>
  BY DEF Map!Place
<1>10. QED
  BY <1>1, <1>2, <1>3, <1>4, <1>5, <1>6, <1>7, <1>8, <1>9

LEMMA PortsPlaceOrder ==
  ASSUME Map!Ind, Map!Place, NEW n, NEW idx, Places(n, idx), Notes(idx)
  PROVE  Map!Own' /\ Map!Order'
<1>1. /\ s8.i \in Nat /\ s8.i \in Map!Devs /\ s8.idx \in Nat
      /\ n \in Nat /\ idx \in Nat /\ idx = s8.idx + n /\ s8.i <= s8.idx
      /\ ~Map!Between' /\ s8'.i = s8.i + 1 /\ s8'.idx = idx + 1
  BY PortsNumbers
<1>2. /\ \A d \in Map!Devs : d \in Nat /\ s4[d] \in Nat /\ (Map!Come(d)' <=> d < s8.i + 1)
      /\ \A d \in Map!Devs : d < s8.i + 1 <=> d < s8.i \/ d = s8.i
      /\ \A d \in Map!Devs : d < s8.i => ~Map!Between /\ Map!Come(d) /\ s4[d] < s8.idx
      /\ s4'[s8.i] = idx /\ \A d \in Map!Devs : d # s8.i => s4'[d] = s4[d]
      /\ UNCHANGED <<s2, s3>>
  BY PortsNumbers
<1>3. s14' = s14 \ {s8.i}
  BY DEF Notes
<1>4. Map!Own'
  <2>1. SUFFICES ASSUME NEW d \in Map!Devs
                 PROVE  IF d \in s14' THEN s4'[d] \in {0, d} /\ (s3'[d] # "none" => s4'[d] = d)
                        ELSE s4'[d] >= d
    BY DEF Map!Own
  <2>2. CASE d = s8.i
    BY <1>1, <1>2, <1>3, <2>2
  <2>3. CASE d # s8.i
    BY <1>2, <1>3, <2>3 DEF Map!Ind, Map!Own
  <2>4. QED
    BY <2>2, <2>3
<1>5. \A d \in Map!Devs : d < s8'.i => s4'[d] < s8'.idx
  BY <1>1, <1>2
<1>6. ASSUME NEW e \in Map!Devs, NEW d \in Map!Devs \ s14', e < d
      PROVE  s4'[e] < s4'[d] \/ (s8'.i <= d /\ s4'[d] < s8'.idx)
  <2>1. CASE d = s8.i
    BY <1>1, <1>2, <1>6, <2>1
  <2>2. CASE d # s8.i /\ e = s8.i
    BY <1>1, <1>2, <1>6, <2>2
  <2>3. CASE d # s8.i /\ e # s8.i
    <3>1. s4[e] < s4[d] \/ (s8.i <= d /\ s4[d] < s8.idx)
      BY <1>3, <1>6, <2>3 DEF Map!Ind, Map!Order
    <3>2. QED
      BY <1>1, <1>2, <2>3, <3>1
  <2>4. QED
    BY <2>1, <2>2, <2>3
<1>7. ASSUME NEW d \in Map!Devs \ s14', Map!Come(d)'
      PROVE  s13'.plug \/ s4'[d] \notin s2'
  <2>1. CASE d = s8.i
    BY <1>2, <2>1 DEF Places
  <2>2. CASE d < s8.i
    <3>1. ~Map!Between /\ Map!Come(d) /\ d \notin s14 /\ d # s8.i
      BY <1>1, <1>2, <1>3, <2>2
    <3>2. s13.plug \/ s4[d] \notin s2
      BY <3>1 DEF Map!Ind, Map!Order
    <3>3. QED
      BY <1>2, <3>1, <3>2 DEF Notes
  <2>3. QED
    BY <1>2, <1>7, <2>1, <2>2
<1>8. Map!Order'
  BY <1>5, <1>6, <1>7 DEF Map!Order
<1>9. QED
  BY <1>4, <1>8

LEMMA PortsPlaceMasks ==
  ASSUME Map!Ind, Map!Place, NEW n, NEW idx, Places(n, idx), Notes(idx)
  PROVE  Map!Masks'
<1>2. /\ s8.i \in Nat /\ s8.i \in Map!Devs /\ ~Map!Between'
      /\ \A d \in Map!Devs : d \in Nat /\ s4[d] \in Nat /\ (Map!Come(d)' <=> d < s8.i + 1)
      /\ \A d \in Map!Devs : d < s8.i + 1 <=> d < s8.i \/ d = s8.i
      /\ \A d \in Map!Devs : d < s8.i => ~Map!Between /\ Map!Come(d)
      /\ s4'[s8.i] = idx /\ \A d \in Map!Devs : d # s8.i => s4'[d] = s4[d]
      /\ UNCHANGED <<s1, s9, s17>>
  BY PortsNumbers
<1>3. s13.ready \subseteq Map!Devs /\ s14 \subseteq Map!Devs
  BY DEF Map!Ind, Map!TypeOK, Map!Records
<1>4. \A d \in Map!Devs : d < s8.i => (d \in s13'.ready <=> d \in s13.ready)
  BY <1>2 DEF Notes
<1>5. s8.i \in s13'.ready <=> s20
  <2>1. ~Map!Between => s8.i \notin s13.ready
    BY <1>2 DEF Map!Ind, Map!Counted, Map!Come
  <2>2. QED
    BY <2>1 DEF Notes
<1> DEFINE Was == {c \in Map!Devs : c < s8.i /\ (s1 => c \in s13.ready)}
           Is == {c \in Map!Devs : c < s8.i + 1 /\ (s1 => c \in s13'.ready)}
<1>6. ASSUME \A d \in s14' : ~Map!Come(d)'
      PROVE  s8'.mask = {s4'[d] : d \in {c \in Map!Devs : Map!Come(c)' /\ (s1' =>
             c \in s13'.ready)}}
  <2>1. \A d \in s14 : ~(d < s8.i)
    BY <1>2, <1>3, <1>6 DEF Notes
  <2>2. s8.mask = {s4[d] : d \in Was}
    <3>1. CASE Map!Between
      <4>1. Was = {} /\ s8.mask = {}
        BY <1>2, <3>1 DEF Map!Ind, Map!Counted, Map!NewPass, Map!Between
      <4>2. QED
        BY <4>1
    <3>2. CASE ~Map!Between
      <4>1. \A d \in s14 : ~Map!Come(d)
        BY <2>1, <3>2 DEF Map!Come
      <4>2. {c \in Map!Devs : Map!Come(c) /\ (s1 => c \in s13.ready)} = Was
        BY <3>2 DEF Map!Come
      <4>3. QED
        BY <3>2, <4>1, <4>2 DEF Map!Ind, Map!Masks
    <3>3. QED
      BY <3>1, <3>2
  <2>3. {s4[d] : d \in Was} = {s4'[d] : d \in Was}
    BY <1>2
  <2>4. Is = Was \cup (IF s20 \/ ~s1 THEN {s8.i} ELSE {})
    BY <1>2, <1>4, <1>5
  <2>5. {s4'[d] : d \in Is}
          = {s4'[d] : d \in Was} \cup (IF s20 \/ ~s1 THEN {idx} ELSE {})
    <3> HIDE DEF Is, Was
    <3>1. CASE s20 \/ ~s1
      BY <1>2, <2>4, <3>1
    <3>2. CASE ~(s20 \/ ~s1)
      BY <2>4, <3>2
    <3>3. QED
      BY <3>1, <3>2
  <2>6. s8'.mask = {s4'[d] : d \in Is}
    <3> HIDE DEF Is, Was
    <3>1. QED
      BY <2>2, <2>3, <2>5 DEF Notes
  <2>7. {c \in Map!Devs : Map!Come(c)' /\ (s1' => c \in s13'.ready)} = Is
    BY <1>2
  <2>8. QED
    BY <2>6, <2>7
<1>7. ASSUME ~s1, ~s17, ~s8'.update, \A d \in Map!Devs : Map!Showing(d)' => s4'[d] = s21'
      PROVE  s9 = {s4'[d] : d \in Map!Devs}
  <2>0. (\A d : Map!Showing(d)' <=> d = s8.i) /\ (\A d : ~Map!Showing(d)) /\ s21' = s4[s8.i]
    <3>1. s8'.i - 1 = s8.i
      BY <1>2 DEF Places
    <3>2. QED
      BY <3>1 DEF Map!Place, Map!Showing
  <2>1. ~s8.update /\ s4[s8.i] = idx
    BY <1>2, <1>7, <2>0 DEF Notes
  <2>2. s9 = {s4[d] : d \in Map!Devs}
    BY <1>7, <2>0, <2>1 DEF Map!Ind, Map!Masks
  <2>3. \A d \in Map!Devs : s4'[d] = s4[d]
    BY <1>2, <2>1
  <2>4. QED
    BY <2>2, <2>3
<1>8. QED
  BY <1>2, <1>6, <1>7 DEF Map!Masks

LEMMA PortsPlaceShown ==
  ASSUME Map!Ind, Map!Place, NEW n, NEW idx, Places(n, idx), Notes(idx)
  PROVE  Map!Shown' /\ Map!Buffers'
<1>1. /\ s8.i \in Nat /\ s8.i \in Map!Devs /\ s8.idx \in Nat
      /\ n \in Nat /\ idx \in Nat /\ idx = s8.idx + n
      /\ s8'.i = s8.i + 1 /\ s8'.idx = idx + 1
  BY PortsNumbers
<1>2. /\ \A d \in Map!Devs : d \in Nat /\ s4[d] \in Nat
      /\ s4'[s8.i] = idx /\ \A d \in Map!Devs : d # s8.i => s4'[d] = s4[d]
      /\ UNCHANGED <<s3, s5, s6>>
  BY PortsNumbers
<1>3. SUFFICES ASSUME NEW d \in Map!Devs
      PROVE /\ d \in s14' /\ s3[d] \in {"lit", "ready"} => s5[d] = s4'[d]
            /\ d \notin s15' /\ s3[d] = "lit" => s5[d] = s4'[d]
            /\ d \notin s15' /\ s3[d] = "ready" =>
                 \/ s5[d] = s4'[d] \/ s4'[d] \in s12' \/ (s8'.i <= d /\ s4'[d] < s8'.idx)
                 \/ Map!Showing(d)' /\ s20 /\ s4'[d] # s21'
  <2>1. Map!Buffers'
    <3>1. ~s16' => ~s16 /\ idx = s8.i
      BY DEF Notes
    <3>2. QED
      BY <1>2, <3>1 DEF Map!Ind, Map!Buffers
  <2>2. s20' = s20
    BY DEF Map!Place
  <2>3. QED
    BY <1>2, <2>1, <2>2 DEF Map!Shown
<1>3a. (\A e : ~Map!Showing(e)) /\ (\A e : Map!Showing(e)' <=> e = s8.i) /\ s21' = s4[s8.i] /\
       s12' = s12
  <2>1. s8'.i - 1 = s8.i
    BY <1>1
  <2>2. QED
    BY <2>1 DEF Map!Place, Map!Showing
<1>4. CASE d # s8.i
  <2>1. s4'[d] = s4[d] /\ (d \in s14' <=> d \in s14) /\ (d \in s15' <=> d \in s15)
    BY <1>2, <1>4 DEF Notes
  <2>2. s12 \subseteq s12'
    BY <1>3a
  <2>3. s8.i <= d /\ s4[d] < s8.idx => s8'.i <= d /\ s4[d] < s8'.idx
    BY <1>1, <1>2, <1>4
  <2>4. QED
    BY <1>3a, <2>1, <2>2, <2>3 DEF Map!Ind, Map!Shown
<1>5. CASE d = s8.i
  <2>1. s4'[d] = idx /\ d \notin s14' /\ (d \notin s15' => d \notin s15)
    BY <1>2, <1>5 DEF Notes
  <2>2. CASE s4[d] = idx
    <3>1. ~(s4[d] < s8.idx)
      BY <1>1, <2>2
    <3>2. QED
      BY <1>3a, <2>1, <2>2, <3>1 DEF Map!Ind, Map!Shown
  <2>3. CASE s4[d] # idx
    BY <1>3a, <1>5, <2>1, <2>3 DEF Notes
  <2>4. QED
    BY <2>2, <2>3
<1>6. QED
  BY <1>4, <1>5

LEMMA PortsPlaceCounted ==
  ASSUME Map!Ind, Map!Place, NEW n, NEW idx, Places(n, idx), Notes(idx)
  PROVE  Map!Counted' /\ Map!Placed' /\ Map!TypeOK'
<1>1. /\ s8.i \in Nat /\ s8.i \in Map!Devs /\ s8.idx \in Nat /\ s8.j \in Nat
      /\ n \in Nat /\ idx \in Nat /\ idx = s8.idx + n /\ s8.i <= s8.idx
      /\ idx \notin Map!Ports => idx >= PmPorts
      /\ ~Map!Between' /\ s8'.i = s8.i + 1 /\ s8'.idx = idx + 1
      /\ \A d \in Map!Devs : d \in Nat /\ (Map!Come(d)' <=> d < s8.i + 1)
      /\ \A d \in Map!Devs : d < s8.i + 1 <=> d < s8.i \/ d = s8.i
      /\ UNCHANGED <<s1, s2, s3, s5, s6, s7, s9, s17, s20, s12, s11>>
  BY PortsNumbers
<1>2. /\ s8'.j = IF idx \in Map!Ports THEN idx + 1 ELSE PmPorts
      /\ idx \notin Map!Ports => s8.j + n = PmPorts
  BY DEF Places
<1>3. s8.idx <= s8.j + s8.i
  BY DEF Map!Ind, Map!Counted
<1>4. \A p \in Map!Ports : p \in Nat /\ p < PmPorts
  BY PortsAssumption DEF Map!Ports
<1>5. /\ s8'.i <= s8'.idx /\ s8'.j <= s8'.idx /\ s8'.idx <= s8'.j + s8'.i
      /\ s8'.j < PmPorts => s8'.idx = s8'.j
      /\ s8'.i <= s8'.j \/ s8'.j = PmPorts
      /\ s8'.j \in 0..PmPorts
  <2>1. CASE idx \in Map!Ports
    BY <1>1, <1>2, <1>4, <2>1, PortsAssumption
  <2>2. CASE idx \notin Map!Ports
    BY <1>1, <1>2, <1>3, <2>2, PortsAssumption
  <2>3. QED
    BY <2>1, <2>2
<1>6. s13'.ready \subseteq Map!Devs /\ \A d \in s13'.ready : Map!Come(d)'
  <2>1. s13.ready \subseteq Map!Devs /\ (~Map!Between => \A d \in s13.ready : d < s8.i)
    BY DEF Map!Ind, Map!TypeOK, Map!Records, Map!Counted, Map!Come
  <2>2. QED
    BY <1>1, <2>1 DEF Notes
<1>7. Map!Counted'
  <2>1. s19' = "show"
    BY DEF Map!Place
  <2>2. QED
    BY <1>1, <1>5, <1>6, <2>1 DEF Map!Counted
<1>8. Map!Flags'
  <2>1. s16' \in BOOLEAN
    BY DEF Notes
  <2>2. s22' \in BOOLEAN
    BY DEF Map!Place, Map!Ind, Map!TypeOK, Map!Flags
  <2>3. QED
    BY <1>1, <2>1, <2>2 DEF Map!Ind, Map!TypeOK, Map!Flags
<1>8a. Map!Placed'
  <2>1. \A d : Map!Showing(d)' <=> d = s8.i
    <3>1. s8'.i - 1 = s8.i
      BY <1>1
    <3>2. QED
      BY <3>1 DEF Map!Place, Map!Showing
  <2>2. s4'[s8.i] = idx /\ s8'.idx - 1 = idx /\ idx < s8'.idx
    BY <1>1, PortsNumbers
  <2>3. s8.i \notin s14'
    BY DEF Notes
  <2>4. s20' <=> s8.i \in s13'.ready
    <3>1. ~Map!Between => s8.i \notin s13.ready
      BY <1>1 DEF Map!Ind, Map!Counted, Map!Come
    <3>2. QED
      BY <1>1, <3>1 DEF Notes
  <2>5. QED
    BY <2>1, <2>2, <2>3, <2>4 DEF Map!Placed
<1>9. Map!Records'
  <2>1. s8' = [i |-> s8'.i, j |-> s8'.j, idx |-> s8'.idx, mask |-> s8'.mask,
                   update |-> s8'.update, pulsed |-> s8'.pulsed]
    BY DEF Map!Place
  <2>2. s8'.i \in 0..PmDevs /\ s8'.idx \in 0..PmPorts + PmDevs
    BY <1>1, PortsAssumption DEF Map!Devs, Places, Map!Indexes
  <2>3. s8'.mask \subseteq Map!Indexes
    BY DEF Notes, Places, Map!Ind, Map!TypeOK, Map!Records
  <2>4. s8'.update \in BOOLEAN /\ s8'.pulsed \in BOOLEAN
    BY DEF Notes, Map!Ind, Map!TypeOK, Map!Records
  <2>5. s13' = [ready |-> s13'.ready, pulse |-> s13'.pulse, calm |-> s13'.calm, plug |-> s13'.plug]
    <3>1. s13 = [ready |-> s13.ready, pulse |-> s13.pulse, calm |-> s13.calm, plug |-> s13.plug]
      BY DEF Map!Ind, Map!TypeOK, Map!Records
    <3>2. CASE Map!Between
      BY <3>2 DEF Map!Place
    <3>3. CASE ~Map!Between
      BY <3>1, <3>3 DEF Map!Place
    <3>4. QED
      BY <3>2, <3>3
  <2>6. s13'.pulse \in Map!Ports \cup {Map!NoPort}
    BY DEF Notes, Map!Ind, Map!TypeOK, Map!Records
  <2>7. s13'.calm \in BOOLEAN /\ s13'.plug \in BOOLEAN
    BY DEF Notes
  <2>8. s8' \in [i : 0 .. PmDevs, j : 0 .. PmPorts, idx : 0 .. PmPorts + PmDevs,
                     mask : SUBSET Map!Indexes, update : BOOLEAN, pulsed : BOOLEAN]
    BY <1>5, <2>1, <2>2, <2>3, <2>4
  <2>9. s13' \in [ready : SUBSET Map!Devs, pulse : Map!Ports \cup {Map!NoPort}, calm : BOOLEAN,
        plug : BOOLEAN]
    BY <1>6, <2>5, <2>6, <2>7
  <2>10. QED
    BY <2>8, <2>9 DEF Map!Records
<1>10. s4' \in [Map!Devs -> Map!Indexes]
  BY DEF Places, Map!Ind, Map!TypeOK
<1>11. s10' \in [Map!Ports -> {"off", "on", "pulse"}]
  <2>1. \A p \in Map!Ports : s10'[p] \in {"off", "on", "pulse"}
    BY DEF Places, Map!Ind, Map!TypeOK
  <2>2. QED
    BY <2>1 DEF Places
<1>12. s19' = "show" /\ s21' \in Map!Indexes
  BY <1>1 DEF Map!Place, Map!Ind, Map!TypeOK
<1>14. s14' \subseteq Map!Devs /\ s15' \subseteq Map!Devs
  BY <1>1 DEF Notes, Map!Ind, Map!TypeOK
<1>15. QED
  BY <1>1, <1>7, <1>8, <1>9, <1>10, <1>8a, <1>11, <1>12, <1>14 DEF Map!Ind, Map!TypeOK

LEMMA PortsPlaceLit ==
  ASSUME Map!Ind, Map!Place, NEW n, NEW idx, Places(n, idx), Notes(idx)
  PROVE  Map!Lit' /\ Map!Pulse'
<1>1. /\ s8.i \in Nat /\ s8.i \in Map!Devs /\ s8.idx \in Nat /\ s8.j \in Nat
      /\ n \in Nat /\ idx \in Nat /\ idx = s8.idx + n
      /\ ~Map!Between' /\ s8'.i = s8.i + 1 /\ s8'.idx = idx + 1
      /\ \A d \in Map!Devs : d \in Nat /\ s4[d] \in Nat /\ (Map!Come(d)' <=> d < s8.i + 1)
      /\ \A d \in Map!Devs : d < s8.i + 1 <=> d < s8.i \/ d = s8.i
      /\ \A d \in Map!Devs : d < s8.i => ~Map!Between /\ Map!Come(d) /\ s4[d] < s8.idx
      /\ s4'[s8.i] = idx /\ \A d \in Map!Devs : d # s8.i => s4'[d] = s4[d]
      /\ UNCHANGED <<s7, s11, s20>>
  BY PortsNumbers
<1>2. s8.j + n <= PmPorts /\ (s8.j < PmPorts => s8.idx = s8.j) /\ (Map!Between => s8.j = 0)
  BY DEF Places, Map!Ind, Map!Counted, Map!NewPass
<1>3. /\ idx \in Map!Ports => idx = s8.j + n
      /\ idx \notin Map!Ports => s8.j + n = PmPorts
      /\ s8'.j = IF idx \in Map!Ports THEN idx + 1 ELSE PmPorts
  BY DEF Places
<1>4. \A p \in Map!Ports : p \in Nat /\ p < PmPorts /\ p # Map!NoPort
  BY PortsAssumption DEF Map!Ports, Map!NoPort
<1>5. s13.ready \subseteq Map!Devs /\ (~Map!Between => \A d \in s13.ready : d < s8.i)
  BY DEF Map!Ind, Map!TypeOK, Map!Records, Map!Counted, Map!Come
<1>6. \A p \in Map!Ports : p < s8.idx => p \notin s8.j..(s8.j + n - 1)
  BY <1>1, <1>2, <1>4, PortsAssumption
<1>7. \A p \in Map!Ports : p < s8'.j /\ p # idx => p < s8.j \/ p \in s8.j..(s8.j + n - 1)
  <2>1. CASE idx \in Map!Ports
    BY <1>1, <1>3, <1>4, <2>1
  <2>2. CASE idx \notin Map!Ports
    BY <1>1, <1>3, <1>4, <2>2, PortsAssumption
  <2>3. QED
    BY <2>1, <2>2
<1>8. \A p \in Map!Ports : p < s8.j => ~Map!Between /\ p \notin s8.j..(s8.j + n - 1)
  BY <1>1, <1>2, <1>4
<1>9. idx \in Map!Ports => ~(idx < s8.j)
  BY <1>1, <1>3
<1>10. ASSUME s11 = idx PROVE s13'.pulse = idx
  <2>0. idx \in Map!Ports
    BY <1>1, <1>10 DEF Map!Ind, Map!TypeOK, Map!NoPort
  <2>1. Map!Between => s13'.pulse = s11
    BY DEF Notes
  <2>2. ~Map!Between => s13'.pulse = s13.pulse
    BY DEF Notes
  <2>3. ~Map!Between => s11 \in {s13.pulse, Map!NoPort} \/ s11 < s8.j
    BY DEF Map!Ind, Map!Pulse
  <2>4. QED
    BY <1>4, <1>9, <1>10, <2>0, <2>1, <2>2, <2>3
<1>11. ASSUME NEW p \in Map!Ports
       PROVE  s10'[p] = IF p \in s8.j..(s8.j + n - 1) THEN "off" ELSE s10[p]
  BY <1>11 DEF Places
<1>12. /\ \A d : ~Map!Showing(d)
       /\ \A d : Map!Showing(d)' <=> d = s8.i
       /\ s19 = "place" /\ s19' = "show" /\ s8'.idx - 1 = idx
       /\ s22' = (s22 /\ ~Map!Between)
  <2>1. s8'.i - 1 = s8.i /\ s8'.idx - 1 = idx
    BY <1>1
  <2>2. QED
    BY <2>1 DEF Map!Place, Map!Showing
<1>13. ASSUME ~s22', NEW d \in s13'.ready \ s14', s4'[d] \in Map!Ports, ~Map!Showing(d)'
       PROVE  s10'[s4'[d]] = "on"
  <2>1. d # s8.i
    BY <1>12, <1>13
  <2>2. ~Map!Between /\ d \in s13.ready /\ d \notin s14
    BY <2>1, <1>13 DEF Notes
  <2>3. d \in Map!Devs /\ d < s8.i /\ ~s22
    BY <1>5, <1>12, <1>13, <2>2
  <2>4. s4'[d] = s4[d] /\ s4[d] < s8.idx
    BY <1>1, <2>1, <2>3
  <2>5. s10[s4[d]] = "on"
    BY <1>12, <1>13, <2>2, <2>3, <2>4 DEF Map!Ind, Map!Lit
  <2>6. QED
    BY <1>6, <1>11, <1>13, <2>4, <2>5
<1>14. ASSUME \A d \in s14' : ~Map!Come(d)', NEW p \in Map!Ports \ {s13'.pulse}, p < s8'.j,
              s10'[p] = "on",
              p # idx
       PROVE  \E d \in s13'.ready : s4'[d] = p
  <2>1. p \notin s8.j..(s8.j + n - 1) /\ s10[p] = "on" /\ p < s8.j /\ ~Map!Between
    BY <1>7, <1>8, <1>11, <1>14
  <2>2. \A d \in s14 : ~Map!Come(d)
    <3>1. SUFFICES ASSUME NEW d \in s14, Map!Come(d) PROVE FALSE
      OBVIOUS
    <3>2. d \in Map!Devs /\ d < s8.i
      BY <2>1, <3>1 DEF Map!Come, Map!Ind, Map!TypeOK
    <3>3. d \in s14'
      BY <1>1, <3>1, <3>2 DEF Notes
    <3>4. QED
      BY <1>1, <1>14, <3>2, <3>3
  <2>3. s13'.pulse = s13.pulse /\ s13.ready \subseteq s13'.ready
    BY <2>1 DEF Notes
  <2>4. PICK d \in s13.ready : s4[d] = p
    BY <1>12, <2>1, <2>2, <2>3, <1>14 DEF Map!Ind, Map!Lit
  <2>5. d \in s13'.ready /\ s4'[d] = s4[d]
    BY <1>1, <1>5, <2>1, <2>3
  <2>6. QED
    BY <2>4, <2>5
<1>15. Map!Lit'
  BY <1>1, <1>12, <1>13, <1>14 DEF Map!Lit
<1>16. s11' \in {s13'.pulse, Map!NoPort} \/ s11' < s8'.j
  <2>1. s11' = s11
    BY <1>1
  <2>2. CASE Map!Between
    BY <2>1, <2>2 DEF Notes
  <2>3. CASE ~Map!Between
    <3>1. s13'.pulse = s13.pulse
      BY <2>3 DEF Notes
    <3>2. s11 \in {s13.pulse, Map!NoPort} \/ s11 < s8.j
      BY <2>3 DEF Map!Ind, Map!Pulse
    <3>3. s8.j <= s8'.j
      BY <1>1, <1>2, <1>3, PortsAssumption
    <3>4. s11 \in Int
      BY PortsAssumption DEF Map!Ind, Map!TypeOK, Map!Ports, Map!NoPort
    <3>5. QED
      BY <1>1, <1>3, <1>4, <2>1, <3>1, <3>2, <3>3, <3>4, PortsAssumption
  <2>4. QED
    BY <2>2, <2>3
<1>17. ASSUME s13'.calm, ~s22', NEW p \in Map!Ports, p < s8'.j, s10'[p] = "pulse", p # idx
       PROVE  IF s8'.pulsed THEN p = s11'
              ELSE ~s7' /\ s11' = Map!NoPort /\ p = s13'.pulse
  <2>1. p \notin s8.j..(s8.j + n - 1) /\ s10[p] = "pulse" /\ p < s8.j /\ ~Map!Between
    BY <1>7, <1>8, <1>11, <1>17
  <2>2. s13'.pulse = s13.pulse /\ s13.calm /\ s8'.pulsed = s8.pulsed /\ ~s22
    BY <1>12, <1>17, <2>1 DEF Notes
  <2>3. IF s8.pulsed THEN p = s11
        ELSE ~s7 /\ s11 = Map!NoPort /\ p = s13.pulse
    BY <1>12, <2>1, <2>2 DEF Map!Ind, Map!Pulse
  <2>4. QED
    BY <1>1, <2>2, <2>3
<1>18. Map!Pulse'
  BY <1>1, <1>10, <1>12, <1>16, <1>17 DEF Map!Pulse
<1>19. QED
  BY <1>15, <1>18

\* A device of the pass has its port.
LEMMA PortsPlace ==
  ASSUME Map!Ind, Map!Place
  PROVE  Map!Ind'
<1>1. PICK n, idx : Places(n, idx)
  BY PortsPlaces
<1>2. Notes(idx)
  BY <1>1, PortsNotes
<1>3. QED
  BY <1>1, <1>2, PortsPlaceOrder, PortsPlaceMasks, PortsPlaceShown, PortsPlaceCounted,
     PortsPlaceLit DEF Map!Ind

\* The device whose LED is set: nothing has moved since it was placed, unless it was reset.
LEMMA PortsShowing ==
  ASSUME Map!Ind, Map!Show
  PROVE  \E d \in Map!Devs :
           /\ d = s8.i - 1 /\ d < s8.i /\ Map!Come(d) /\ ~Map!Between /\ ~Map!Between'
           /\ (\A e : Map!Showing(e) <=> e = d) /\ (\A e : ~Map!Showing(e)')
           /\ s19' = "look" /\ s19 = "show"
           /\ s8'.i = s8.i /\ s8'.j = s8.j /\ s8'.idx = s8.idx
           /\ s8'.mask = s8.mask
           /\ s8'.update = (s8.update \/ s4[d] # s21)
           /\ s8'.pulsed = (s8.pulsed \/ (~s20 /\ ~s8.pulsed /\ s7))
           /\ s12' = IF s4[d] # s21 /\ s20 THEN s12 \cup {s4[d]} ELSE s12
           /\ s11' = IF ~s20 /\ ~s8.pulsed
                         THEN IF s7 /\ s4[d] \in Map!Ports THEN s4[d] ELSE Map!NoPort
                         ELSE s11
           /\ \A p \in Map!Ports : s10'[p] = IF p # s4[d] THEN s10[p]
                                           ELSE IF s20 THEN "on"
                                           ELSE IF ~s8.pulsed /\ s7 THEN "pulse"
                                           ELSE IF p # s11 THEN "off" ELSE s10[p]
           /\ s4[d] < s8.idx
           /\ ~s22 => /\ d \notin s14 /\ s4[d] = s8.idx - 1
                            /\ (s20 <=> d \in s13.ready)
           /\ d \notin s14 => /\ s4[d] = s8.idx - 1 /\ (s20 <=> d \in s13.ready)
<1> DEFINE d == s8.i - 1
<1>1. s19 = "show" /\ s19' = "look" /\ ~Map!Between
  BY DEF Map!Show, Map!Ind, Map!Counted
<1>2. d \in Map!Devs /\ s8.i \in Nat /\ d < s8.i
  BY <1>1, PortsAssumption DEF Map!Ind, Map!TypeOK, Map!Records, Map!Between, Map!Devs
<1>3. (\A e : Map!Showing(e) <=> e = d) /\ (\A e : ~Map!Showing(e)')
  BY <1>1 DEF Map!Showing
<1>4. /\ s8'.i = s8.i /\ s8'.j = s8.j /\ s8'.idx = s8.idx
      /\ s8'.mask = s8.mask
      /\ s8'.update = (s8.update \/ s4[d] # s21)
      /\ s8'.pulsed = (s8.pulsed \/ (~s20 /\ ~s8.pulsed /\ s7))
  BY DEF Map!Show, Map!Pulses
<1>5. s12' = IF s4[d] # s21 /\ s20 THEN s12 \cup {s4[d]} ELSE s12
  BY DEF Map!Show, Map!Tells
<1>6. s11' = IF ~s20 /\ ~s8.pulsed
                 THEN IF s7 /\ s4[d] \in Map!Ports THEN s4[d] ELSE Map!NoPort
                 ELSE s11
  BY DEF Map!Show, Map!Pulses
<1>7. ASSUME NEW p \in Map!Ports
      PROVE  s10'[p] = IF p # s4[d] THEN s10[p]
               ELSE IF s20 THEN "on"
               ELSE IF ~s8.pulsed /\ s7 THEN "pulse"
               ELSE IF p # s11 THEN "off" ELSE s10[p]
  <2>1. Map!NoPort \notin Map!Ports
    BY PortsAssumption DEF Map!NoPort, Map!Ports
  <2>2. p # (IF s4[d] \in Map!Ports THEN s4[d] ELSE Map!NoPort) <=> p # s4[d]
    BY <2>1
  <2> HIDE DEF d
  <2>3. QED
    BY <2>2 DEF Map!Show, Map!Pulses, d
<1>8. /\ s4[d] < s8.idx
      /\ ~s22 => d \notin s14 /\ s4[d] = s8.idx - 1 /\ (s20 <=> d \in s13.ready)
      /\ d \notin s14 => s4[d] = s8.idx - 1 /\ (s20 <=> d \in s13.ready)
  BY <1>2, <1>3 DEF Map!Ind, Map!Placed
<1>9. Map!Come(d) /\ ~Map!Between'
  BY <1>1, <1>2, <1>4 DEF Map!Come, Map!Between
<1> HIDE DEF d
<1>10. d = s8.i - 1
  BY DEF d
<1>11. QED
  BY <1>1, <1>2, <1>3, <1>4, <1>5, <1>6, <1>7, <1>8, <1>9, <1>10

LEMMA PortsShowTypes ==
  ASSUME Map!Ind, Map!Show
  PROVE  Map!TypeOK' /\ Map!Counted' /\ Map!Placed' /\ Map!Own' /\ Map!Order' /\ Map!Buffers'
<1> USE DEF Map!histVars
<1>1. PICK d \in Map!Devs :
        /\ d < s8.i /\ ~Map!Between /\ ~Map!Between' /\ (\A e : ~Map!Showing(e)')
        /\ s19' = "look"
        /\ s8'.i = s8.i /\ s8'.j = s8.j /\ s8'.idx = s8.idx
        /\ s12' = IF s4[d] # s21 /\ s20 THEN s12 \cup {s4[d]} ELSE s12
        /\ s11' = IF ~s20 /\ ~s8.pulsed
                      THEN IF s7 /\ s4[d] \in Map!Ports THEN s4[d] ELSE Map!NoPort
                      ELSE s11
        /\ \A p \in Map!Ports : s10'[p] = IF p # s4[d] THEN s10[p]
                                        ELSE IF s20 THEN "on"
                                        ELSE IF ~s8.pulsed /\ s7 THEN "pulse"
                                        ELSE IF p # s11 THEN "off" ELSE s10[p]
  BY PortsShowing
<1>2. UNCHANGED <<s1, s2, s3, s4, s5, s6, s7, s9, s13,
                  s14, s15, s16, s17, s22>>
  BY DEF Map!Show
<1>3. s20' = FALSE /\ s21' = 0 /\ 0 \in Map!Indexes
  BY PortsAssumption DEF Map!Show, Map!Indexes
<1>4. Map!Flags'
  BY <1>2, <1>3 DEF Map!Ind, Map!TypeOK, Map!Flags
<1>5. Map!Records'
  <2>1. s8' = [i |-> s8.i, j |-> s8.j, idx |-> s8.idx, mask |-> s8.mask,
                   update |-> s8'.update, pulsed |-> s8'.pulsed]
    BY DEF Map!Show
  <2>2. s8'.update \in BOOLEAN /\ s8'.pulsed \in BOOLEAN
    BY DEF Map!Show
  <2>3. /\ s8.i \in 0 .. PmDevs /\ s8.j \in 0 .. PmPorts /\ s8.idx \in 0 .. PmPorts + PmDevs
        /\ s8.mask \in SUBSET Map!Indexes
    BY DEF Map!Ind, Map!TypeOK, Map!Records
  <2>4. s8' \in [i : 0 .. PmDevs, j : 0 .. PmPorts, idx : 0 .. PmPorts + PmDevs,
                     mask : SUBSET Map!Indexes, update : BOOLEAN, pulsed : BOOLEAN]
    BY <2>1, <2>2, <2>3
  <2>5. s13' \in [ready : SUBSET Map!Devs, pulse : Map!Ports \cup {Map!NoPort}, calm : BOOLEAN,
        plug : BOOLEAN]
    BY <1>2 DEF Map!Ind, Map!TypeOK, Map!Records
  <2>6. QED
    BY <2>4, <2>5 DEF Map!Records
<1>6. s10' \in [Map!Ports -> {"off", "on", "pulse"}]
  <2>1. \A p \in Map!Ports : s10'[p] \in {"off", "on", "pulse"}
    BY <1>1 DEF Map!Ind, Map!TypeOK
  <2>2. s10' = [p \in Map!Ports |-> s10'[p]]
    BY DEF Map!Show
  <2>3. QED
    BY <2>1, <2>2
<1>7. s11' \in Map!Ports \cup {Map!NoPort} /\ s12' \subseteq Map!Indexes
  BY <1>1 DEF Map!Ind, Map!TypeOK
<1>8. Map!TypeOK'
  BY <1>1, <1>2, <1>3, <1>4, <1>5, <1>6, <1>7 DEF Map!Ind, Map!TypeOK
<1>9. Map!Counted'
  BY <1>1, <1>2 DEF Map!Ind, Map!Counted, Map!Come
<1>10. Map!Placed' /\ Map!Own' /\ Map!Order' /\ Map!Buffers'
  BY <1>1, <1>2 DEF Map!Ind, Map!Placed, Map!Own, Map!Order, Map!Buffers, Map!Come
<1>11. QED
  BY <1>8, <1>9, <1>10

LEMMA PortsShowTold ==
  ASSUME Map!Ind, Map!Show
  PROVE  Map!Masks' /\ Map!Shown'
<1> USE DEF Map!histVars
<1>1. PICK d \in Map!Devs :
        /\ ~Map!Between /\ ~Map!Between' /\ (\A e : Map!Showing(e) <=> e = d) /\
             (\A e : ~Map!Showing(e)')
        /\ s8'.i = s8.i /\ s8'.idx = s8.idx
        /\ s8'.mask = s8.mask
        /\ s8'.update = (s8.update \/ s4[d] # s21)
        /\ s12' = IF s4[d] # s21 /\ s20 THEN s12 \cup {s4[d]} ELSE s12
  BY PortsShowing
<1>2. UNCHANGED <<s1, s3, s4, s5, s9, s13, s14, s15, s17>>
  BY DEF Map!Show
<1>3. \A e : Map!Come(e)' <=> Map!Come(e)
  BY <1>1 DEF Map!Come
<1>4. Map!Masks'
  <2>1. ~s8'.update => ~s8.update /\ \A e \in Map!Devs : Map!Showing(e) => s4[e] = s21
    BY <1>1
  <2>2. QED
    BY <1>1, <1>2, <1>3, <2>1 DEF Map!Ind, Map!Masks
<1>5. Map!Shown'
  BY <1>1, <1>2 DEF Map!Ind, Map!Shown
<1>6. QED
  BY <1>4, <1>5

LEMMA PortsShowLit ==
  ASSUME Map!Ind, Map!Show
  PROVE  Map!Lit' /\ Map!Pulse'
<1> USE DEF Map!histVars
<1>1. PICK d \in Map!Devs :
        /\ d = s8.i - 1 /\ d < s8.i /\ Map!Come(d) /\ ~Map!Between /\ ~Map!Between'
        /\ (\A e : Map!Showing(e) <=> e = d) /\ (\A e : ~Map!Showing(e)')
        /\ s19' = "look" /\ s19 = "show"
        /\ s8'.i = s8.i /\ s8'.j = s8.j /\ s8'.idx = s8.idx
        /\ s8'.pulsed = (s8.pulsed \/ (~s20 /\ ~s8.pulsed /\ s7))
        /\ s11' = IF ~s20 /\ ~s8.pulsed
                      THEN IF s7 /\ s4[d] \in Map!Ports THEN s4[d] ELSE Map!NoPort
                      ELSE s11
        /\ \A p \in Map!Ports : s10'[p] = IF p # s4[d] THEN s10[p]
                                        ELSE IF s20 THEN "on"
                                        ELSE IF ~s8.pulsed /\ s7 THEN "pulse"
                                        ELSE IF p # s11 THEN "off" ELSE s10[p]
        /\ s4[d] < s8.idx
        /\ ~s22 => d \notin s14 /\ s4[d] = s8.idx - 1 /\ (s20 <=> d \in s13.ready)
        /\ d \notin s14 => s4[d] = s8.idx - 1 /\ (s20 <=> d \in s13.ready)
  BY PortsShowing
<1>2. UNCHANGED <<s4, s7, s13, s14, s22>>
  BY DEF Map!Show
<1>3. /\ s8.i \in Nat /\ s8.idx \in Nat /\ s8.j \in Nat
      /\ \A e \in Map!Devs : e \in Nat /\ s4[e] \in Nat
      /\ \A p \in Map!Ports : p \in Nat /\ p < PmPorts /\ p # Map!NoPort
      /\ s13.ready \subseteq Map!Devs /\ s14 \subseteq Map!Devs
      /\ s20 \in BOOLEAN /\ s7 \in BOOLEAN /\ s8.pulsed \in BOOLEAN
  BY PortsAssumption DEF Map!Ind, Map!TypeOK, Map!Flags, Map!Records, Map!Indexes, Map!Devs,
     Map!Ports, Map!NoPort
<1>4. (\A e : Map!Come(e)' <=> Map!Come(e)) /\ (\A e \in s13.ready : e < s8.i)
  BY <1>1 DEF Map!Come, Map!Ind, Map!Counted
<1>5. s4[d] \in Map!Ports => s4[d] < s8.j
  BY <1>1, <1>3, PortsAssumption DEF Map!Ind, Map!TypeOK, Map!Records, Map!Counted
<1>6. s11 = s8.idx - 1 => s11 = s13.pulse
  BY <1>1 DEF Map!Ind, Map!Pulse
<1>7. ASSUME ~s22, NEW e \in s13.ready \ s14, s4[e] \in Map!Ports
      PROVE  s10'[s4[e]] = "on"
  <2>1. CASE e = d
    BY <1>1, <1>7, <2>1
  <2>2. CASE e # d
    <3>1. e \in Map!Devs /\ e < d
      BY <1>1, <1>3, <1>4, <2>2
    <3>2. s4[e] # s4[d]
      BY <1>1, <1>3, <1>7, <3>1 DEF Map!Ind, Map!Order
    <3>3. s10[s4[e]] = "on"
      BY <1>1, <1>7, <2>2 DEF Map!Ind, Map!Lit
    <3>4. QED
      BY <1>1, <1>7, <3>2, <3>3
  <2>3. QED
    BY <2>1, <2>2
<1>8. ASSUME \A e \in s14 : ~Map!Come(e), NEW p \in Map!Ports \ {s13.pulse}, p < s8.j,
             s10'[p] = "on"
      PROVE  \E e \in s13.ready : s4[e] = p
  <2>1. d \notin s14 /\ s4[d] = s8.idx - 1 /\ (s20 <=> d \in s13.ready)
    BY <1>1, <1>8
  <2>2. CASE p = s4[d]
    <3>1. CASE s20
      BY <2>1, <2>2, <3>1
    <3>2. CASE ~s20
      <4>1. p = s11
        BY <1>1, <1>8, <2>2, <3>2
      <4>2. QED
        BY <1>6, <1>8, <2>1, <2>2, <4>1
    <3>3. QED
      BY <3>1, <3>2
  <2>3. CASE p # s4[d]
    <3>1. s10[p] = "on"
      BY <1>1, <1>8, <2>3
    <3>2. QED
      BY <1>8, <2>1, <2>3, <3>1 DEF Map!Ind, Map!Lit
  <2>4. QED
    BY <2>2, <2>3
<1>9. Map!Lit'
  BY <1>1, <1>2, <1>4, <1>7, <1>8 DEF Map!Lit
<1>10. s11' \in {s13.pulse, Map!NoPort} \/ s11' < s8.j
  BY <1>1, <1>5 DEF Map!Ind, Map!Pulse
<1>11. ASSUME s13.calm, ~s22, NEW p \in Map!Ports, p < s8.j, s10'[p] = "pulse"
       PROVE  IF s8'.pulsed THEN p = s11'
              ELSE ~s7 /\ s11' = Map!NoPort /\ p = s13.pulse
  <2>1. d \notin s14 /\ s4[d] = s8.idx - 1
    BY <1>1, <1>11
  <2>2. CASE p = s4[d]
    <3>1. ~s20
      BY <1>1, <1>11, <2>2
    <3>2. CASE ~s8.pulsed /\ s7
      BY <1>1, <2>2, <3>1, <3>2
    <3>3. CASE ~(~s8.pulsed /\ s7)
      <4>1. p = s11
        BY <1>1, <1>11, <2>2, <3>1, <3>3
      <4>2. p = s13.pulse
        BY <1>6, <2>1, <2>2, <4>1
      <4>3. QED
        BY <1>1, <3>1, <3>3, <4>1, <4>2
    <3>4. QED
      BY <3>2, <3>3
  <2>3. CASE p # s4[d]
    <3>1. s10[p] = "pulse"
      BY <1>1, <1>11, <2>3
    <3>2. IF s8.pulsed THEN p = s11 ELSE ~s7 /\ s11 = Map!NoPort /\ p = s13.pulse
      BY <1>1, <1>11, <2>1, <2>3, <3>1 DEF Map!Ind, Map!Pulse
    <3>3. QED
      BY <1>1, <1>3, <3>2
  <2>4. QED
    BY <2>2, <2>3
<1>12. Map!Pulse'
  BY <1>1, <1>2, <1>10, <1>11 DEF Map!Pulse
<1>13. QED
  BY <1>9, <1>12

\* Its LED is set, and a message queued.
LEMMA PortsShow ==
  ASSUME Map!Ind, Map!Show
  PROVE  Map!Ind'
BY PortsShowTypes, PortsShowTold, PortsShowLit DEF Map!Ind

\* Every step of the ports keeps the invariant.
LEMMA PortsStep ==
  ASSUME Map!Ind, Map!Next \/ UNCHANGED Map!pmVars
  PROVE  Map!Ind'
<1>1. CASE UNCHANGED Map!pmVars
  <2>1. Map!TypeOK'
    BY <1>1 DEF Map!pmVars, Map!Ind, Map!TypeOK, Map!Flags, Map!Records
  <2>2. Map!Counted' /\ Map!Placed' /\ Map!Own' /\ Map!Order' /\ Map!Masks'
    BY <1>1 DEF Map!pmVars, Map!Ind, Map!Counted, Map!Placed, Map!Showing, Map!Own, Map!Order,
       Map!Masks, Map!Between, Map!Come
  <2>3. Map!Shown' /\ Map!Lit' /\ Map!Pulse' /\ Map!Buffers'
    BY <1>1 DEF Map!pmVars, Map!Ind, Map!Shown, Map!Lit, Map!Pulse, Map!Buffers, Map!Showing,
       Map!Between, Map!Come
  <2>4. QED
    BY <2>1, <2>2, <2>3 DEF Map!Ind
<1>2. ASSUME NEW d \in Map!Devs, Map!Link(d) \/ Map!Gone(d) \/ Map!Lights(d) \/ Map!Ready(d) \/
             Map!Report(d)
      PROVE  Map!Ind'
  <2>1. CASE Map!Link(d) \/ Map!Gone(d)
    BY <2>1, PortsReset DEF Map!Link, Map!Gone
  <2>2. CASE Map!Lights(d) \/ Map!Ready(d) \/ Map!Report(d)
    BY <2>2, PortsLights, PortsReady, PortsReport
  <2>3. QED
    BY <1>2, <2>1, <2>2
<1>3. QED
  BY <1>1, <1>2, PortsPlug, PortsInquiry, PortsTakeLed, PortsLook, PortsPlace, PortsShow,
     PortsFinish DEF Map!Next

\* What the invariant says of the players.
LEMMA PortsAgree ==
  ASSUME Map!Ind
  PROVE  Map!InOrder /\ Map!DriverTold /\ Map!PlayerLedTold /\ Map!LedsRight /\ Map!GoneReleased
<1>0. Map!Between => /\ s8.i = 0 /\ s8.idx = 0 /\ ~s8.update /\ s19 # "show"
                 /\ \A d \in Map!Devs : Map!Come(d) /\ ~(s4[d] < s8.idx) /\ s4[d] \in Nat
  BY PortsAssumption DEF Map!Ind, Map!TypeOK, Map!Counted, Map!NewPass, Map!Come, Map!Indexes,
     Map!Between
<1>1. Map!InOrder
  BY <1>0 DEF Map!Ind, Map!Order, Map!InOrder
<1>2. Map!DriverTold
  <2>1. SUFFICES ASSUME Map!Between, s14 = {}, s1 \/ ~s17
                 PROVE  s9 = {s4[d] : d \in IF s1 THEN s13.ready ELSE Map!Devs}
    BY DEF Map!DriverTold
  <2>2. CASE s1
    BY <2>1, <2>2 DEF Map!Ind, Map!Masks
  <2>3. CASE ~s1
    BY <1>0, <2>1, <2>3 DEF Map!Ind, Map!Masks, Map!Showing
  <2>4. QED
    BY <2>2, <2>3
<1>3. Map!PlayerLedTold
  BY <1>0 DEF Map!Ind, Map!Shown, Map!Showing, Map!PlayerLedTold
<1>4. Map!LedsRight
  <2>1. ASSUME Map!Between, ~s22, NEW p \in Map!Ports, NEW d \in Map!Devs \ s14, s4[d] = p,
               d \in s13.ready
        PROVE  s10[p] = "on"
    BY <1>0, <2>1 DEF Map!Ind, Map!Lit, Map!Showing
  <2>2. ASSUME Map!Between, s14 = {}, NEW p \in Map!Ports \ {s13.pulse}, s10[p] = "on"
        PROVE  \E d \in s13.ready : s4[d] = p
    BY <1>0, <2>2 DEF Map!Ind, Map!Lit
  <2>3. ASSUME Map!Between, s13.calm, ~s22
        PROVE  \A p, q \in Map!Ports : s10[p] = "pulse" /\ s10[q] = "pulse" => p = q
    BY <2>3 DEF Map!Ind, Map!Pulse
  <2>4. QED
    BY <2>1, <2>2, <2>3 DEF Map!LedsRight
<1>5. Map!GoneReleased
  <2>1. Map!NoDev \notin Map!Devs
    BY DEF Map!NoDev, Map!Devs
  <2>2. QED
    BY <2>1 DEF Map!Ind, Map!Buffers, Map!GoneReleased
<1>6. QED
  BY <1>1, <1>2, <1>3, <1>4, <1>5

(***************************************************************************)
(* A BR/EDR controller (HidLink): from its name to its initialisation.     *)
(***************************************************************************)
Hid == INSTANCE HidLink WITH
  hlPeer <- s1, hlDev <- s2, hlOwes <- s3, hlChan <- s4, hlReq <- s5, hlData <- s6, hlHost <- s7,
  hlTimers <- s8, hlInits <- s9, hlOdd <- s10

Devs == [flags : SUBSET Hid!Flags, type : Hid!Kinds, sdp : {0, 1}, retry : Nat]
ChanOf == [st : {"closed", "asked", "conf"}, reqs : Nat, rsp : BOOLEAN]

LEMMA HidInitStep == Hid!Init => Hid!Ind
<1> SUFFICES ASSUME Hid!Init PROVE Hid!Ind
  OBVIOUS
<1>1. s1 = Hid!NoPeer /\ s2 = Hid!NoDev /\ s3 = {} /\ s4 = [c \in Hid!Channels |-> Hid!Closed]
      /\ s5 = <<>> /\ s6 = Hid!NoData /\ s7 = <<"idle", "none">>
      /\ s8 = {} /\ s9 = <<>> /\ s10 = {}
  BY DEF Hid!Init
<1>2. \A c \in Hid!Channels : s4[c].st = "closed" /\ s4[c].reqs = 0 /\ ~s4[c].rsp
  BY <1>1 DEF Hid!Closed
<1>3. Hid!Types
  <2>1. s1 \in [n : Nat, kind : Hid!Kinds, page : BOOLEAN, up : BOOLEAN]
    BY <1>1 DEF Hid!NoPeer, Hid!Kinds
  <2>2. s2 \in [flags : SUBSET Hid!Flags, type : Hid!Kinds, sdp : {0, 1}, retry : Nat]
    BY <1>1 DEF Hid!NoDev, Hid!Kinds
  <2>3. s4 \in [Hid!Channels -> [st : {"closed", "asked", "conf"}, reqs : Nat, rsp : BOOLEAN]]
    BY <1>1 DEF Hid!Closed
  <2>4. s6 \in [sdp : SUBSET Hid!Searches, pnp : SUBSET Hid!Searches]
    BY <1>1 DEF Hid!NoData
  <2>5. s5 \in Seq(Hid!Searches \X {0, 1}) /\ s9 \in Seq(Hid!Kinds) /\ s7 \in {"idle", "parse",
        "parsed"} \X Hid!Kinds
    BY <1>1 DEF Hid!Kinds
  <2>6. QED
    BY <1>1, <2>1, <2>2, <2>3, <2>4, <2>5 DEF Hid!Types
<1>4. s1.up = FALSE /\ s2.flags = {} /\ s2.sdp = 0 /\ s2.type = "none"
  BY <1>1 DEF Hid!NoPeer, Hid!NoDev
<1>5. Hid!Linked
  BY <1>1, <1>2, <1>4, Zenon DEF Hid!Linked, Hid!Ready
<1>6. Hid!Counts /\ Hid!Behind
  BY <1>1, <1>2, <1>4 DEF Hid!Counts, Hid!Behind, Hid!Pending, Hid!Channels, Hid!Ready
<1>7. Hid!InOrder
  BY <1>4 DEF Hid!InOrder, Hid!Ready, Hid!ControlFirst, Hid!Found
<1>8. Hid!Initialised
  BY <1>1, <1>4 DEF Hid!Initialised, Hid!Ready, Hid!RightInit, Hid!InitOnce,
     Hid!DoneIsInitialised, Hid!Found
<1>9. Hid!Noted /\ Hid!Staged
  BY <1>1, <1>4 DEF Hid!Noted, Hid!Staged, Hid!Stage
<1>10. Hid!Offered
  BY <1>1, <1>4 DEF Hid!Offered, Hid!EncryptedIfOffered, Hid!Found
<1>11. QED
  BY <1>3, <1>5, <1>6, <1>7, <1>8, <1>9, <1>10 DEF Hid!Ind

\* What initialised a slot stays true while nothing is initialised, marked done or made ready.
LEMMA HidInitialisedKept ==
  ASSUME Hid!Initialised, s9' = s9, s1'.n = s1.n, s1'.kind = s1.kind,
         s8' \subseteq s8, s10 \subseteq s10', Hid!Ready' <=> Hid!Ready, Hid!Found' => Hid!Found,
         "done" \in s2'.flags => "done" \in s2.flags,
         (Hid!Ready /\ "name" \notin s3' /\ "early" \notin s10') => "name" \notin s3
  PROVE  Hid!Initialised'
<1>1. Hid!Ready' <=> s9' # <<>>
  BY DEF Hid!Initialised
<1>2. \A n \in s8' : n <= s1'.n /\ (n = s1'.n /\ Hid!Found' => Hid!Ready')
  BY DEF Hid!Initialised
<1>3. Hid!RightInit'
  <2>1. ASSUME Hid!Ready, "name" \notin s3', "early" \notin s10' PROVE s9[Len(s9)] = s1.kind
    BY <2>1 DEF Hid!Initialised, Hid!RightInit, Hid!Ready
  <2>2. QED
    BY <2>1 DEF Hid!RightInit, Hid!Ready
<1>4. Hid!InitOnce'
  <2>1. ASSUME s10' \cap {"again", "early", "late"} = {} PROVE s10 \cap {"again", "early",
               "late"} = {}
    BY <2>1
  <2>2. QED
    BY <2>1 DEF Hid!Initialised, Hid!InitOnce
<1>5. Hid!DoneIsInitialised'
  BY DEF Hid!Initialised, Hid!DoneIsInitialised
<1>6. QED
  BY <1>1, <1>2, <1>3, <1>4, <1>5 DEF Hid!Initialised

\* The searches stay where they are, and what the task noted too.
LEMMA HidStagedKept ==
  ASSUME Hid!Staged, s7' = s7, s2'.sdp = s2.sdp, s5' = s5, s6' = s6,
         "sdp_data" \in s2'.flags <=> "sdp_data" \in s2.flags,
         Hid!Configured("sdp") /\ "again" \notin s10' => Hid!Configured("sdp")', s10 \subseteq s10'
  PROVE  Hid!Staged'
<1> SUFFICES ASSUME s10' \cap {"late", "again"} = {} PROVE Hid!Stage'
  BY DEF Hid!Staged
<1>1. Hid!Stage /\ "again" \notin s10'
  <2>1. s10 \cap {"late", "again"} = {}
    OBVIOUS
  <2>2. QED
    BY <2>1 DEF Hid!Staged
<1>2. (Hid!AtSearch \/ Hid!AtPnp) => (Hid!AtSearch \/ Hid!AtPnp)'
  BY DEF Hid!AtSearch, Hid!AtPnp
<1>3. Hid!Whole => Hid!Whole'
  BY DEF Hid!Whole
<1>4. QED
  BY <1>1, <1>2, <1>3, Zenon DEF Hid!Stage

LEMMA HidNotedKept ==
  ASSUME Hid!Noted, s7' = s7, s2'.type = s2.type, s10 \subseteq s10',
         "sdp_data" \in s2.flags => "sdp_data" \in s2'.flags
  PROVE  Hid!Noted'
BY DEF Hid!Noted

LEMMA HidLinkedKept ==
  ASSUME Hid!Linked, s1' = s1, s3' \subseteq s3, s2'.type = s2.type,
         "name" \in s3 => "name" \in s3', s1.up => (Hid!Found => Hid!Found'), ~s1.up =>
         ~Hid!Ready',
         ~s1.up => \A c \in Hid!Channels : s4'[c].st = "closed"
  PROVE  Hid!Linked'
<1>1. s1'.up => Hid!Found'
  BY DEF Hid!Linked
<1>2. ~s1'.up => s3' = {} /\ ~Hid!Ready' /\ \A c \in Hid!Channels : s4'[c].st = "closed"
  BY DEF Hid!Linked
<1>3. s1'.up /\ "name" \notin s3' => s2'.type = s1'.kind
  BY DEF Hid!Linked
<1>4. QED
  BY <1>1, <1>2, <1>3 DEF Hid!Linked

\* The channels as they are.
LEMMA HidChannelsKept ==
  ASSUME Hid!Counts, Hid!InOrder, Hid!Behind, s4' = s4, s5' = s5, s1'.page = s1.page,
         s10 \subseteq s10', Hid!Ready' <=> Hid!Ready, Hid!Found' => Hid!Found,
         \A c \in Hid!Channels : c \in s2'.flags => c \in s2.flags,
         "sdp_data" \in s2'.flags => "sdp_data" \in s2.flags
  PROVE  Hid!Counts' /\ Hid!InOrder' /\ Hid!Behind'
<1>1. Hid!Counts'
  BY DEF Hid!Counts, Hid!Pending, Hid!Messages
<1>2. Hid!InOrder'
  BY DEF Hid!InOrder, Hid!ControlFirst, Hid!Configured
<1>3. Hid!Behind'
  BY DEF Hid!Behind
<1>4. QED
  BY <1>1, <1>2, <1>3

\* ----------------------------------------------------------------------
LEMMA HidHostLooks ==
  ASSUME Hid!Ind, Hid!HostFinds \/ Hid!HostParses
  PROVE  Hid!Ind'
<1>1. s1' = s1 /\ s2' = s2 /\ s3' = s3 /\ s4' = s4 /\ s5' = s5
      /\ s8' = s8 /\ s9' = s9 /\ s10' = s10
  BY DEF Hid!HostFinds, Hid!HostParses
<1>2. Hid!Ready' = Hid!Ready /\ Hid!Found' = Hid!Found
  BY <1>1 DEF Hid!Ready, Hid!Found
<1>3. Hid!Initialised'
  BY <1>1, <1>2, HidInitialisedKept DEF Hid!Ind
<1>4. Hid!Linked'
  BY <1>1, <1>2, HidLinkedKept DEF Hid!Ind, Hid!Linked
<1>5. Hid!Counts' /\ Hid!InOrder' /\ Hid!Behind'
  BY <1>1, <1>2, HidChannelsKept DEF Hid!Ind
<1>6. Hid!Offered'
  BY <1>1 DEF Hid!Ind, Hid!Offered, Hid!EncryptedIfOffered, Hid!Found
<1>7. s7[1] \in {"idle", "parse", "parsed"} /\ s7[2] \in Hid!Kinds /\ s7 \in {"idle", "parse",
      "parsed"} \X Hid!Kinds
      /\ s2.type \in Hid!Kinds
  BY DEF Hid!Ind, Hid!Types
<1>8. CASE Hid!HostFinds
  <2>1. s7[1] = "idle" /\ "sdp_data" \in s2.flags /\ s7' = <<"parse", s2.type>> /\ s6' = s6
    BY <1>8 DEF Hid!HostFinds
  <2>2. Hid!Types'
    BY <1>1, <1>7, <2>1 DEF Hid!Ind, Hid!Types
  <2>3. Hid!Noted'
    BY <1>1, <2>1 DEF Hid!Noted
  <2>4. Hid!Staged'
    <3>1. s7'[1] = "parse"
      BY <2>1
    <3>2. Hid!Whole => Hid!Whole'
      BY <2>1 DEF Hid!Whole
    <3>3. Hid!Configured("sdp") => Hid!Configured("sdp")'
      BY <1>1 DEF Hid!Configured
    <3>4. QED
      BY <1>1, <2>1, <3>1, <3>2, <3>3 DEF Hid!Ind, Hid!Staged, Hid!Stage
  <2>5. QED
    BY <1>3, <1>4, <1>5, <1>6, <2>2, <2>3, <2>4 DEF Hid!Ind
<1>9. CASE Hid!HostParses
  <2>1. s7[1] = "parse" /\ s7' = <<"parsed", s7[2]>> /\ s6' = Hid!NoData
    BY <1>9 DEF Hid!HostParses
  <2>2. Hid!Types'
    <3>1. s6' \in [sdp : SUBSET Hid!Searches, pnp : SUBSET Hid!Searches]
      BY <2>1 DEF Hid!NoData
    <3>2. QED
      BY <1>1, <1>7, <2>1, <3>1 DEF Hid!Ind, Hid!Types
  <2>3. Hid!Noted'
    BY <1>1, <2>1 DEF Hid!Ind, Hid!Noted
  <2>4. Hid!Staged'
    <3>1. s7'[1] = "parsed"
      BY <2>1
    <3>3. Hid!Configured("sdp") => Hid!Configured("sdp")'
      BY <1>1 DEF Hid!Configured
    <3>4. QED
      BY <1>1, <2>1, <3>1, <3>3 DEF Hid!Ind, Hid!Staged, Hid!Stage
  <2>5. QED
    BY <1>3, <1>4, <1>5, <1>6, <2>2, <2>3, <2>4 DEF Hid!Ind
<1>10. QED
  BY <1>8, <1>9

\* Whoever held the slot before, the peer in it leaves no trace in the next.
LEMMA HidResets ==
  ASSUME Hid!Ind, NEW dev \in Devs, Hid!Reset(dev), dev.flags \subseteq {"found", "page"},
         dev.sdp = 0,
         s1' \in [n : Nat, kind : Hid!Kinds, page : BOOLEAN, up : BOOLEAN], ~s1'.up,
         \/ s1'.n = s1.n /\ "found" \notin dev.flags
         \/ s1'.n = s1.n + 1,
         s10' = IF s7[1] = "idle" THEN {} ELSE {"late"}, s7' = s7, s8' = s8
  PROVE  Hid!Ind'
<1>1. s2' = dev /\ s3' = {} /\ s4' = [c \in Hid!Channels |-> Hid!Closed] /\ s5' = <<>>
      /\ s6' = Hid!NoData /\ s9' = <<>>
  BY DEF Hid!Reset
<1>2. \A c \in Hid!Channels : s4'[c].st = "closed" /\ s4'[c].reqs = 0 /\ ~s4'[c].rsp
  BY <1>1 DEF Hid!Closed
<1>3. s1.n \in Nat /\ s8 \subseteq Nat /\ \A n \in s8 : n <= s1.n
  BY DEF Hid!Ind, Hid!Types, Hid!Initialised
<1>4. "ready" \notin s2'.flags /\ "done" \notin s2'.flags /\ "sdp_data" \notin s2'.flags
      /\ "encryption" \notin s2'.flags /\ \A c \in Hid!Channels : c \notin s2'.flags
  BY <1>1 DEF Hid!Channels
<1>5. Hid!Types'
  <2>2. s2' \in [flags : SUBSET Hid!Flags, type : Hid!Kinds, sdp : {0, 1}, retry : Nat]
    BY <1>1 DEF Devs
  <2>3. s4' \in [Hid!Channels -> [st : {"closed", "asked", "conf"}, reqs : Nat, rsp : BOOLEAN]]
    BY <1>1 DEF Hid!Closed
  <2>4. s6' \in [sdp : SUBSET Hid!Searches, pnp : SUBSET Hid!Searches]
    BY <1>1 DEF Hid!NoData
  <2>5. s5' \in Seq(Hid!Searches \X {0, 1}) /\ s9' \in Seq(Hid!Kinds)
    BY <1>1
  <2>6. s7' \in {"idle", "parse", "parsed"} \X Hid!Kinds /\ s8' \subseteq Nat
    BY DEF Hid!Ind, Hid!Types
  <2>7. s3' \subseteq {"name", "features", "auth"} /\ s10' \subseteq {"late", "early", "again",
        "featuresLast", "stale"}
    BY <1>1
  <2>8. QED
    BY <2>2, <2>3, <2>4, <2>5, <2>6, <2>7 DEF Hid!Types
<1>6. Hid!Linked'
  BY <1>1, <1>2, <1>4, Zenon DEF Hid!Linked, Hid!Ready
<1>7. Hid!Counts' /\ Hid!Behind'
  BY <1>1, <1>2, <1>4 DEF Hid!Counts, Hid!Behind, Hid!Pending, Hid!Channels, Hid!Ready
<1>8. Hid!InOrder'
  BY <1>2, <1>4 DEF Hid!InOrder, Hid!Ready, Hid!ControlFirst, Hid!Found, Hid!Channels
<1>9. Hid!Initialised'
  <2>1. \A n \in s8' : n <= s1'.n /\ ~(n = s1'.n /\ Hid!Found')
    <3>1. CASE s1'.n = s1.n /\ "found" \notin dev.flags
      BY <1>1, <1>3, <3>1 DEF Hid!Found
    <3>2. CASE s1'.n = s1.n + 1
      BY <1>3, <3>2
    <3>3. QED
      BY <3>1, <3>2
  <2>2. QED
    BY <1>1, <1>4, <2>1 DEF Hid!Initialised, Hid!Ready, Hid!RightInit, Hid!InitOnce,
       Hid!DoneIsInitialised
<1>10. Hid!Noted' /\ Hid!Staged'
  <2>1. CASE s7[1] = "idle"
    BY <1>1, <1>4, <2>1 DEF Hid!Noted, Hid!Staged, Hid!Stage
  <2>2. CASE s7[1] # "idle"
    BY <2>2 DEF Hid!Noted, Hid!Staged
  <2>3. QED
    BY <2>1, <2>2
<1>11. Hid!Offered'
  BY <1>1, <1>4 DEF Hid!Offered, Hid!EncryptedIfOffered
<1>12. QED
  BY <1>5, <1>6, <1>7, <1>8, <1>9, <1>10, <1>11 DEF Hid!Ind

LEMMA HidFinds ==
  ASSUME Hid!Ind, NEW kind \in HlKinds, NEW page \in BOOLEAN, Hid!Finds(kind, page)
  PROVE  Hid!Ind'
<1> DEFINE dev == [Hid!Cleared EXCEPT !.flags = @ \cup {"found"}
           \cup (IF page THEN {"page"} ELSE {}),
                                  !.type = "generic"]
<1>1. dev \in Devs /\ dev.flags \subseteq {"found", "page"} /\ dev.sdp = 0
  BY DEF Hid!Cleared, Hid!NoDev, Devs, Hid!Kinds, Hid!Flags
<1>2. s1.n \in Nat
  BY DEF Hid!Ind, Hid!Types
<1>3. s1' = [n |-> s1.n + 1, kind |-> kind, page |-> page, up |-> FALSE]
  BY DEF Hid!Finds
<1>4. s1' \in [n : Nat, kind : Hid!Kinds, page : BOOLEAN, up : BOOLEAN]
  BY <1>2, <1>3 DEF Hid!Kinds
<1>5. ~s1'.up /\ s1'.n = s1.n + 1
  BY <1>3
<1>6. Hid!Reset(dev) /\ s10' = (IF s7[1] = "idle" THEN {} ELSE {"late"}) /\ s7' = s7
      /\ s8' = s8
  BY DEF Hid!Finds
<1> HIDE DEF dev
<1>7. QED
  BY <1>1, <1>4, <1>5, <1>6, HidResets

LEMMA HidDrops ==
  ASSUME Hid!Ind, Hid!Drops
  PROVE  Hid!Ind'
<1>1. Hid!Cleared \in Devs /\ Hid!Cleared.flags \subseteq {"found", "page"} /\ Hid!Cleared.sdp = 0
      /\ "found" \notin Hid!Cleared.flags
  BY DEF Hid!Cleared, Hid!NoDev, Devs, Hid!Kinds, Hid!Flags
<1>2. s1 \in [n : Nat, kind : Hid!Kinds, page : BOOLEAN, up : BOOLEAN]
  BY DEF Hid!Ind, Hid!Types
<1>3. s1' = [s1 EXCEPT !.up = FALSE]
  BY DEF Hid!Drops
<1>4. s1' \in [n : Nat, kind : Hid!Kinds, page : BOOLEAN, up : BOOLEAN]
  BY <1>2, <1>3
<1>5. ~s1'.up /\ s1'.n = s1.n
  BY <1>2, <1>3
<1>6. Hid!Reset(Hid!Cleared) /\ s10' = (IF s7[1] = "idle" THEN {} ELSE {"late"}) /\ s7' = s7
      /\ s8' = s8
  BY DEF Hid!Drops
<1>7. QED
  BY <1>1, <1>4, <1>5, <1>6, HidResets

LEMMA HidConnects ==
  ASSUME Hid!Ind, Hid!Connects
  PROVE  Hid!Ind'
<1>1. s2' = s2 /\ s4' = s4 /\ s5' = s5 /\ s6' = s6 /\ s7' = s7
      /\ s8' = s8 /\ s9' = s9 /\ s10' = s10
  BY DEF Hid!Connects
<1>2. Hid!Found /\ ~s1.up /\ s1' = [s1 EXCEPT !.up = TRUE] /\ s3' = {"name"}
  BY DEF Hid!Connects
<1>3. s1 \in [n : Nat, kind : Hid!Kinds, page : BOOLEAN, up : BOOLEAN]
  BY DEF Hid!Ind, Hid!Types
<1>4. s1'.n = s1.n /\ s1'.kind = s1.kind /\ s1'.page = s1.page /\ s1'.up
      /\ s1' \in [n : Nat, kind : Hid!Kinds, page : BOOLEAN, up : BOOLEAN]
  BY <1>2, <1>3
<1>5. Hid!Ready' = Hid!Ready /\ Hid!Found' = Hid!Found /\ ~Hid!Ready
  BY <1>1, <1>2 DEF Hid!Ready, Hid!Found, Hid!Ind, Hid!Linked
<1>6. Hid!Types'
  BY <1>1, <1>2, <1>4 DEF Hid!Ind, Hid!Types
<1>7. Hid!Initialised'
  BY <1>1, <1>4, <1>5, HidInitialisedKept DEF Hid!Ind
<1>8. Hid!Linked'
  BY <1>2, <1>4, <1>5 DEF Hid!Linked
<1>9. Hid!Counts' /\ Hid!InOrder' /\ Hid!Behind'
  BY <1>1, <1>4, <1>5, HidChannelsKept DEF Hid!Ind
<1>10. Hid!Offered'
  <2>1. s4["ctrl"].st = "closed"
    BY <1>2 DEF Hid!Ind, Hid!Linked, Hid!Channels
  <2>2. QED
    BY <1>1, <1>2, <2>1 DEF Hid!Offered, Hid!EncryptedIfOffered
<1>11. Hid!Noted'
  BY <1>1, HidNotedKept DEF Hid!Ind
<1>12. Hid!Staged'
  <2>1. Hid!Configured("sdp") => Hid!Configured("sdp")'
    BY <1>1 DEF Hid!Configured
  <2>2. QED
    BY <1>1, <2>1, HidStagedKept DEF Hid!Ind
<1>13. QED
  BY <1>6, <1>7, <1>8, <1>9, <1>10, <1>11, <1>12 DEF Hid!Ind

\* The name decides the type: before the slot is ready, or it is noted as early.
LEMMA HidName ==
  ASSUME Hid!Ind, "name" \in s3, Hid!NameKnown
  PROVE  Hid!Ind'
<1>1. s1' = s1 /\ s4' = s4 /\ s5' = s5 /\ s6' = s6 /\ s7' = s7
      /\ s8' = s8 /\ s9' = s9
  BY DEF Hid!NameKnown
<1>2. s2' = [s2 EXCEPT !.type = s1.kind]
  BY DEF Hid!NameKnown, Hid!Typed
<1>3. /\ s3' \subseteq {"name", "features", "auth"} /\ "name" \notin s3'
      /\ "auth" \in s3' => "auth" \in s3 \/ ~s1.page
  BY DEF Hid!NameKnown, Hid!Ind, Hid!Types
<1>4. s10' = s10 \cup (IF Hid!Ready THEN {"early"} ELSE {})
  BY DEF Hid!NameKnown, Hid!Ready
<1>5. s2 \in Devs /\ s1.kind \in Hid!Kinds
  BY DEF Hid!Ind, Hid!Types, Devs
<1>6. s2'.flags = s2.flags /\ s2'.type = s1.kind /\ s2'.sdp = s2.sdp /\ s2' \in Devs
  BY <1>2, <1>5 DEF Devs
<1>7. Hid!Ready' = Hid!Ready /\ Hid!Found' = Hid!Found
  BY <1>6 DEF Hid!Ready, Hid!Found
<1>8. Hid!Types'
  BY <1>1, <1>3, <1>4, <1>6 DEF Hid!Ind, Hid!Types, Devs
<1>9. s10 \subseteq s10' /\ (Hid!Ready => "early" \in s10')
  BY <1>4
<1>10. Hid!Initialised'
  BY <1>1, <1>6, <1>7, <1>9, HidInitialisedKept DEF Hid!Ind
<1>11. s1.up /\ Hid!Found
  BY DEF Hid!Ind, Hid!Linked
<1>12. Hid!Linked'
  BY <1>1, <1>6, <1>7, <1>11 DEF Hid!Linked
<1>13. Hid!Counts' /\ Hid!InOrder' /\ Hid!Behind'
  BY <1>1, <1>6, <1>7, <1>9, HidChannelsKept DEF Hid!Ind
<1>14. Hid!Noted'
  <2>1. "sdp_data" \in s2.flags => "early" \in s10'
    BY <1>9 DEF Hid!Ind, Hid!Behind
  <2>2. ASSUME s7'[1] # "idle", "late" \notin s10' PROVE "sdp_data" \in s2'.flags
    BY <1>1, <1>6, <1>9, <2>2 DEF Hid!Ind, Hid!Noted
  <2>3. QED
    BY <1>6, <2>1, <2>2 DEF Hid!Noted
<1>15. Hid!Staged'
  <2>1. Hid!Configured("sdp") => Hid!Configured("sdp")'
    BY <1>1 DEF Hid!Configured
  <2>2. QED
    BY <1>1, <1>6, <1>9, <2>1, HidStagedKept DEF Hid!Ind
<1>16. Hid!Offered'
  <2>1. (~s1'.page /\ s3' \cap {"name", "auth"} # {}) => s4'["ctrl"].st = "closed"
    BY <1>1, <1>3 DEF Hid!Ind, Hid!Offered
  <2>2. Hid!EncryptedIfOffered'
    BY <1>1, <1>6, <1>7, <1>9 DEF Hid!Ind, Hid!Offered, Hid!EncryptedIfOffered
  <2>0. ~({"name", "auth"} \subseteq s3')
    BY <1>3
  <2>3. QED
    BY <2>0, <2>1, <2>2 DEF Hid!Offered
<1>17. QED
  BY <1>8, <1>10, <1>12, <1>13, <1>14, <1>15, <1>16 DEF Hid!Ind

LEMMA HidRefused ==
  ASSUME Hid!Ind, "name" \in s3, Hid!NameRefused
  PROVE  Hid!Ind'
<1>1. CASE Hid!Drops
  BY <1>1, HidDrops
<1>2. CASE ~Hid!Drops
  <2>1. s2' = [s2 EXCEPT !.retry = @ + 1]
        /\ s1' = s1 /\ s4' = s4 /\ s5' = s5 /\ s6' = s6 /\ s7' = s7
        /\ s8' = s8 /\ s9' = s9 /\ s10' = s10 /\ s3' = s3
    BY <1>2 DEF Hid!NameRefused
  <2>2. s2 \in Devs
    BY DEF Hid!Ind, Hid!Types, Devs
  <2>3. s2'.flags = s2.flags /\ s2'.type = s2.type /\ s2'.sdp = s2.sdp /\ s2' \in Devs
    BY <2>1, <2>2 DEF Devs
  <2>4. Hid!Ready' = Hid!Ready /\ Hid!Found' = Hid!Found
    BY <2>3 DEF Hid!Ready, Hid!Found
  <2>5. Hid!Types'
    BY <2>1, <2>3 DEF Hid!Ind, Hid!Types, Devs
  <2>6. Hid!Initialised'
    BY <2>1, <2>3, <2>4, HidInitialisedKept DEF Hid!Ind
  <2>7. Hid!Linked'
    BY <2>1, <2>3, <2>4 DEF Hid!Ind, Hid!Linked
  <2>8. Hid!Counts' /\ Hid!InOrder' /\ Hid!Behind'
    BY <2>1, <2>3, <2>4, HidChannelsKept DEF Hid!Ind
  <2>9. Hid!Noted'
    BY <2>1, <2>3, HidNotedKept DEF Hid!Ind
  <2>10. Hid!Staged'
    <3>1. Hid!Configured("sdp") => Hid!Configured("sdp")'
      BY <2>1 DEF Hid!Configured
    <3>2. QED
      BY <2>1, <2>3, <3>1, HidStagedKept DEF Hid!Ind
  <2>11. Hid!Offered'
    BY <2>1, <2>3 DEF Hid!Ind, Hid!Offered, Hid!EncryptedIfOffered, Hid!Found
  <2>12. QED
    BY <2>5, <2>6, <2>7, <2>8, <2>9, <2>10, <2>11 DEF Hid!Ind
<1>3. QED
  BY <1>1, <1>2

\* The slot gets a flag that nothing else here looks at.
LEMMA HidFeatures ==
  ASSUME Hid!Ind, NEW encrypts \in BOOLEAN, Hid!Features(encrypts)
  PROVE  Hid!Ind'
<1>1. s1' = s1 /\ s4' = s4 /\ s5' = s5 /\ s6' = s6 /\ s7' = s7
      /\ s8' = s8 /\ s9' = s9 /\ s3' = s3 \ {"features"}
  BY DEF Hid!Features
<1>2. s10' = s10 \cup (IF "auth" \in s3 THEN {} ELSE {"featuresLast"})
  BY DEF Hid!Features
<1>3. s2 \in Devs /\ {"encryption"} \in SUBSET Hid!Flags
  BY DEF Hid!Ind, Hid!Types, Devs, Hid!Flags
<1>4. /\ s2' \in Devs /\ s2'.type = s2.type /\ s2'.sdp = s2.sdp
      /\ s2.flags \subseteq s2'.flags /\ s2'.flags \subseteq s2.flags \cup {"encryption"}
  <2>1. CASE encrypts
    <3>1. s2' = [s2 EXCEPT !.flags = @ \cup {"encryption"}]
      BY <2>1 DEF Hid!Features
    <3>2. QED
      BY <1>3, <3>1 DEF Devs
  <2>2. CASE ~encrypts
    BY <1>3, <2>2 DEF Hid!Features
  <2>3. QED
    BY <2>1, <2>2
<1>5. /\ Hid!Ready' <=> Hid!Ready
      /\ Hid!Found' <=> Hid!Found
      /\ "done" \in s2'.flags => "done" \in s2.flags
      /\ "sdp_data" \in s2'.flags <=> "sdp_data" \in s2.flags
      /\ \A c \in Hid!Channels : c \in s2'.flags => c \in s2.flags
  BY <1>4 DEF Hid!Ready, Hid!Found, Hid!Channels
<1>6. Hid!Types'
  BY <1>1, <1>2, <1>4 DEF Hid!Ind, Hid!Types, Devs
<1>7. s10 \subseteq s10'
  BY <1>2
<1>8. Hid!Initialised'
  BY <1>1, <1>5, <1>7, HidInitialisedKept DEF Hid!Ind
<1>9. Hid!Linked'
  BY <1>1, <1>4, <1>5, Zenon DEF Hid!Ind, Hid!Linked
<1>10. Hid!Counts' /\ Hid!InOrder' /\ Hid!Behind'
  BY <1>1, <1>5, <1>7, HidChannelsKept DEF Hid!Ind
<1>11. Hid!Noted'
  BY <1>1, <1>4, <1>5, <1>7, HidNotedKept DEF Hid!Ind
<1>12. Hid!Staged'
  <2>1. Hid!Configured("sdp") => Hid!Configured("sdp")'
    BY <1>1 DEF Hid!Configured
  <2>2. QED
    BY <1>1, <1>4, <1>5, <1>7, <2>1, HidStagedKept DEF Hid!Ind
<1>13. Hid!Offered'
  <2>1. (~s1'.page /\ s3' \cap {"name", "auth"} # {}) => s4'["ctrl"].st = "closed"
    BY <1>1 DEF Hid!Ind, Hid!Offered
  <2>2. Hid!EncryptedIfOffered'
    <3>1. CASE "auth" \in s3
      BY <1>1, <3>1 DEF Hid!Ind, Hid!Offered, Hid!EncryptedIfOffered
    <3>2. CASE "auth" \notin s3
      BY <1>2, <3>2 DEF Hid!EncryptedIfOffered
    <3>3. QED
      BY <3>1, <3>2
  <2>0. ~({"name", "auth"} \subseteq s3')
    BY <1>1 DEF Hid!Ind, Hid!Offered
  <2>3. QED
    BY <2>0, <2>1, <2>2 DEF Hid!Offered
<1>14. QED
  BY <1>6, <1>8, <1>9, <1>10, <1>11, <1>12, <1>13 DEF Hid!Ind

\* A channel that comes up, and nothing that was up before goes.
LEMMA HidChannelUp ==
  ASSUME Hid!Types, NEW c \in Hid!Channels, NEW u \in ChanOf
  PROVE  LET chan == [s4 EXCEPT ![c] = u]
         IN  chan \in [Hid!Channels -> ChanOf] /\ chan[c] = u /\
         \A d \in Hid!Channels \ {c} : chan[d] = s4[d]
BY DEF Hid!Types, ChanOf

\* Only the control channel can come up while others are as they were, or the interrupt channel
\* of a peer that connected, with the control channel configured.
LEMMA HidOpens ==
  ASSUME Hid!Ind, NEW c \in Hid!Channels, NEW u \in ChanOf,
         s4' = [s4 EXCEPT ![c] = u], u.st # "closed", u.st = "conf" \/ (u.reqs = 0 /\ ~u.rsp),
         u = Hid!Configuring \/ u.st = "asked", s4[c].st # "conf", s1.up,
         c = "sdp" => s4[c].st # "closed",
         c = "intr" => s1.page \/ s4[c].st # "closed",
         s5' = s5, s1' = s1, s10 \subseteq s10', Hid!Ready' <=> Hid!Ready,
         Hid!Found' <=> Hid!Found,
         \A d \in Hid!Channels : d \in s2'.flags => d \in s2.flags,
         "sdp_data" \in s2'.flags => "sdp_data" \in s2.flags
  PROVE  Hid!Counts' /\ Hid!InOrder' /\ Hid!Behind' /\ (Hid!Configured("sdp") =>
         Hid!Configured("sdp")')
<1>0. Hid!Types
  BY DEF Hid!Ind
<1>1. s4'[c] = u /\ \A d \in Hid!Channels \ {c} : s4'[d] = s4[d]
  BY <1>0, HidChannelUp
<1>2. \A d \in Hid!Channels : Hid!Configured(d) => Hid!Configured(d)'
  <2>1. ~Hid!Configured(c)
    BY DEF Hid!Configured
  <2>2. QED
    BY <1>1, <2>1 DEF Hid!Configured
<1>3. \A d \in Hid!Channels : Hid!Messages(d) => d # c /\ Hid!Messages(d)'
  BY <1>1 DEF Hid!Messages
<1>4. Hid!Counts'
  BY <1>1, <1>3 DEF Hid!Ind, Hid!Counts, Hid!Pending
<1>5. Hid!InOrder'
  <2>1. ASSUME "again" \notin s10' PROVE (Hid!Ready => Hid!Configured("intr")) /\ Hid!ControlFirst
    BY <2>1 DEF Hid!Ind, Hid!InOrder
  <2>2. ASSUME "again" \notin s10', Hid!Ready' PROVE Hid!Configured("intr")'
    BY <1>2, <2>1, <2>2 DEF Hid!Channels
  <2>3. ASSUME "again" \notin s10', Hid!Found', ~s1'.page, s4'["intr"].st # "closed"
        PROVE  Hid!Configured("ctrl")'
    <3>1. s4["intr"].st # "closed"
      BY <1>1, <2>3 DEF Hid!Channels
    <3>2. QED
      BY <1>2, <2>1, <2>3, <3>1 DEF Hid!Channels, Hid!ControlFirst
  <2>4. QED
    BY <2>2, <2>3 DEF Hid!InOrder, Hid!ControlFirst
<1>6. Hid!Behind'
  <2>1. s4'["sdp"].st # "closed" => s4["sdp"].st # "closed"
    BY <1>1 DEF Hid!Channels
  <2>2. QED
    BY <2>1 DEF Hid!Ind, Hid!Behind
<1>7. QED
  BY <1>2, <1>4, <1>5, <1>6 DEF Hid!Channels

LEMMA HidAnswered ==
  ASSUME Hid!Ind, Hid!Auth
  PROVE  Hid!Ind'
<1>1. s1' = s1 /\ s5' = s5 /\ s6' = s6 /\ s7' = s7
      /\ s8' = s8 /\ s9' = s9 /\ s10' = s10 /\ s3' = s3 \ {"auth"} /\ "auth" \in s3
  BY DEF Hid!Auth
<1>2. s1.up /\ Hid!Types
  BY <1>1 DEF Hid!Ind, Hid!Linked
<1>3. s2 \in Devs /\ Hid!Encrypts \in SUBSET Hid!Flags /\ Hid!Encrypts \subseteq {"encrypted"}
  BY <1>2 DEF Hid!Types, Devs, Hid!Flags, Hid!Encrypts
<1>4. /\ s2' \in Devs /\ s2'.type = s2.type /\ s2'.sdp = s2.sdp
      /\ s2.flags \subseteq s2'.flags /\ s2'.flags \subseteq s2.flags \cup {"encrypted"}
  <2>1. CASE Hid!AuthOk
    <3>1. s2' = [s2 EXCEPT !.flags = @ \cup Hid!Encrypts]
      BY <2>1 DEF Hid!AuthOk
    <3>2. QED
      BY <1>3, <3>1 DEF Devs
  <2>2. CASE Hid!AuthRefused
    BY <1>3, <2>2 DEF Hid!AuthRefused
  <2>3. QED
    BY <2>1, <2>2 DEF Hid!Auth
<1>5. /\ Hid!Ready' <=> Hid!Ready
      /\ Hid!Found' <=> Hid!Found
      /\ "done" \in s2'.flags => "done" \in s2.flags
      /\ "sdp_data" \in s2'.flags <=> "sdp_data" \in s2.flags
      /\ \A c \in Hid!Channels : c \in s2'.flags => c \in s2.flags
  BY <1>4 DEF Hid!Ready, Hid!Found, Hid!Channels
<1> DEFINE u == [s4["ctrl"] EXCEPT !.st = "asked"]
<1>6. s4["ctrl"] \in ChanOf
  BY <1>2 DEF Hid!Types, ChanOf, Hid!Channels
<1>7. u \in ChanOf /\ u.st = "asked" /\ u.reqs = s4["ctrl"].reqs /\ u.rsp = s4["ctrl"].rsp
  BY <1>6 DEF ChanOf
<1>8. s4' = s4 \/ (s4' = [s4 EXCEPT !["ctrl"] = u] /\ s4["ctrl"].st = "closed" /\ Hid!AuthOk)
  BY DEF Hid!Auth, Hid!AuthOk, Hid!AuthRefused, Hid!Asked
<1> HIDE DEF u
<1>9. Hid!Counts' /\ Hid!InOrder' /\ Hid!Behind' /\ (Hid!Configured("sdp") =>
      Hid!Configured("sdp")') /\ s4' \in [Hid!Channels -> ChanOf]
  <2>1. CASE s4' = s4
    <3>1. Hid!Configured("sdp") => Hid!Configured("sdp")'
      BY <2>1 DEF Hid!Configured
    <3>2. Hid!Counts' /\ Hid!InOrder' /\ Hid!Behind'
      BY <1>1, <1>5, <2>1, HidChannelsKept DEF Hid!Ind
    <3>3. s4 \in [Hid!Channels -> ChanOf]
      BY <1>2 DEF Hid!Types, ChanOf
    <3>4. QED
      BY <2>1, <3>1, <3>2, <3>3
  <2>2. CASE s4' = [s4 EXCEPT !["ctrl"] = u] /\ s4["ctrl"].st = "closed"
    <3>1. u.reqs = 0 /\ ~u.rsp
      BY <1>7, <2>2 DEF Hid!Ind, Hid!Counts, Hid!Channels
    <3>2. Hid!Counts' /\ Hid!InOrder' /\ Hid!Behind' /\ (Hid!Configured("sdp") =>
          Hid!Configured("sdp")')
      BY <1>1, <1>2, <1>5, <1>7, <2>2, <3>1, HidOpens DEF Hid!Channels
    <3>3. QED
      BY <1>2, <1>7, <2>2, <3>2, HidChannelUp DEF Hid!Channels
  <2>3. QED
    BY <1>8, <2>1, <2>2
<1>10. Hid!Types'
  BY <1>1, <1>4, <1>9 DEF Hid!Ind, Hid!Types, Devs, ChanOf
<1>11. Hid!Initialised'
  BY <1>1, <1>5, HidInitialisedKept DEF Hid!Ind
<1>12. Hid!Linked'
  BY <1>1, <1>2, <1>4, <1>5, HidLinkedKept DEF Hid!Ind
<1>13. Hid!Noted'
  BY <1>1, <1>4, <1>5, HidNotedKept DEF Hid!Ind
<1>14. Hid!Staged'
  BY <1>1, <1>4, <1>5, <1>9, HidStagedKept DEF Hid!Ind
<1>15. Hid!Offered'
  <2>1. (~s1'.page /\ s3' \cap {"name", "auth"} # {}) => s4'["ctrl"].st = "closed"
    <3>1. "auth" \notin s3'
      BY <1>1
    <3>2. ~("name" \in s3 /\ "auth" \in s3)
      BY DEF Hid!Ind, Hid!Offered
    <3>3. QED
      BY <1>1, <3>1, <3>2
  <2>2. Hid!EncryptedIfOffered'
    <3>1. CASE s4["ctrl"].st # "closed"
      BY <1>1, <1>4, <1>5, <1>8, <3>1 DEF Hid!Ind, Hid!Offered, Hid!EncryptedIfOffered
    <3>2. CASE s4' = s4 /\ s4["ctrl"].st = "closed"
      BY <3>2 DEF Hid!EncryptedIfOffered
    <3>3. CASE Hid!AuthOk
      <4>1. s2'.flags = s2.flags \cup Hid!Encrypts
        BY <1>3, <3>3 DEF Hid!AuthOk, Devs
      <4>2. QED
        BY <4>1 DEF Hid!EncryptedIfOffered, Hid!Encrypts
    <3>4. QED
      BY <1>8, <3>1, <3>2, <3>3
  <2>0. ~({"name", "auth"} \subseteq s3')
    BY <1>1
  <2>3. QED
    BY <2>0, <2>1, <2>2 DEF Hid!Offered
<1>16. QED
  BY <1>9, <1>10, <1>11, <1>12, <1>13, <1>14, <1>15 DEF Hid!Ind

LEMMA HidTakesChannel ==
  ASSUME Hid!Ind, NEW c \in Hid!Channels, Hid!ConnRsp(c) \/ Hid!ConnReq(c)
  PROVE  Hid!Ind'
<1>1. s1' = s1 /\ s2' = s2 /\ s3' = s3 /\ s5' = s5 /\ s6' = s6
      /\ s7' = s7 /\ s8' = s8 /\ s9' = s9 /\ s10' = s10
      /\ s4' = [s4 EXCEPT ![c] = Hid!Configuring]
  BY DEF Hid!ConnRsp, Hid!ConnReq
<1>2. Hid!Ready' = Hid!Ready /\ Hid!Found' = Hid!Found
  BY <1>1 DEF Hid!Ready, Hid!Found
<1>3. s1.up /\ s4[c].st # "conf" /\ Hid!Types
      /\ (s4[c].st # "closed" \/ (s1.page /\ c # "sdp"))
  BY DEF Hid!ConnRsp, Hid!ConnReq, Hid!Ind, Hid!Linked
<1>4. Hid!Configuring \in ChanOf /\ Hid!Configuring.st = "conf"
  BY DEF Hid!Configuring, ChanOf
<1>5. Hid!Counts' /\ Hid!InOrder' /\ Hid!Behind' /\ (Hid!Configured("sdp") =>
      Hid!Configured("sdp")')
  BY <1>1, <1>2, <1>3, <1>4, HidOpens
<1>6. s4' \in [Hid!Channels -> ChanOf] /\ \A d \in Hid!Channels \ {c} : s4'[d] = s4[d]
  BY <1>1, <1>3, <1>4, HidChannelUp
<1>7. Hid!Types'
  BY <1>1, <1>6 DEF Hid!Ind, Hid!Types, ChanOf
<1>8. Hid!Initialised'
  BY <1>1, <1>2, HidInitialisedKept DEF Hid!Ind
<1>9. Hid!Linked'
  BY <1>1, <1>2, <1>3, HidLinkedKept DEF Hid!Ind
<1>10. Hid!Noted'
  BY <1>1, HidNotedKept DEF Hid!Ind
<1>11. Hid!Staged'
  BY <1>1, <1>5, HidStagedKept DEF Hid!Ind
<1>12. Hid!Offered'
  <2>1. CASE c = "ctrl" /\ s4[c].st = "closed"
    BY <1>1, <1>2, <1>3, <2>1 DEF Hid!Ind, Hid!Offered, Hid!EncryptedIfOffered
  <2>2. CASE ~(c = "ctrl" /\ s4[c].st = "closed")
    <3>1. s4'["ctrl"].st # "closed" => s4["ctrl"].st # "closed"
      BY <1>6, <2>2 DEF Hid!Channels
    <3>2. s4["ctrl"].st = "closed" => s4'["ctrl"].st = "closed"
      BY <1>6, <2>2 DEF Hid!Channels
    <3>3. QED
      BY <1>1, <1>2, <3>1, <3>2 DEF Hid!Ind, Hid!Offered, Hid!EncryptedIfOffered
  <2>3. QED
    BY <2>1, <2>2
<1>13. QED
  BY <1>5, <1>7, <1>8, <1>9, <1>10, <1>11, <1>12 DEF Hid!Ind

LEMMA HidTimer ==
  ASSUME Hid!Ind, NEW n \in s8, Hid!TimerFires(n)
  PROVE  Hid!Ind'
<1>1. s1' = s1 /\ s4' = s4 /\ s5' = s5 /\ s6' = s6 /\ s7' = s7
      /\ s9' = s9 /\ s3' = s3 /\ s8' = s8 \ {n}
      /\ s2' = [s2 EXCEPT !.flags = @ \cup {"done"}]
  BY DEF Hid!TimerFires
<1>2. s10' = s10 \cup (IF Hid!Found /\ n # s1.n THEN {"stale"} ELSE {})
  BY DEF Hid!TimerFires
<1>3. s2 \in Devs /\ "done" \in Hid!Flags
  BY DEF Hid!Ind, Hid!Types, Devs, Hid!Flags
<1>4. /\ s2' \in Devs /\ s2'.type = s2.type /\ s2'.sdp = s2.sdp
      /\ s2'.flags = s2.flags \cup {"done"}
  BY <1>1, <1>3 DEF Devs
<1>5. /\ Hid!Ready' <=> Hid!Ready
      /\ Hid!Found' <=> Hid!Found
      /\ "sdp_data" \in s2'.flags <=> "sdp_data" \in s2.flags
      /\ \A c \in Hid!Channels : c \in s2'.flags => c \in s2.flags
  BY <1>4 DEF Hid!Ready, Hid!Found, Hid!Channels
<1>6. Hid!Types'
  <2>1. s8' \subseteq Nat /\ s10' \subseteq {"late", "early", "again", "featuresLast", "stale"}
    BY <1>1, <1>2 DEF Hid!Ind, Hid!Types
  <2>2. QED
    BY <1>1, <1>4, <2>1 DEF Hid!Ind, Hid!Types, Devs
<1>7. s10 \subseteq s10'
  BY <1>2
<1>8. Hid!Initialised'
  <2>1. Hid!Ready' <=> s9' # <<>>
    BY <1>1, <1>5 DEF Hid!Ind, Hid!Initialised
  <2>2. \A m \in s8' : m <= s1'.n /\ (m = s1'.n /\ Hid!Found' => Hid!Ready')
    BY <1>1, <1>5 DEF Hid!Ind, Hid!Initialised
  <2>3. Hid!RightInit'
    BY <1>1, <1>5, <1>7 DEF Hid!Ind, Hid!Initialised, Hid!RightInit, Hid!Ready
  <2>4. Hid!InitOnce'
    <3>1. s10' \cap {"again", "early", "late"} = {} => s10 \cap {"again", "early", "late"} = {}
      BY <1>7
    <3>2. QED
      BY <1>1, <3>1 DEF Hid!Ind, Hid!Initialised, Hid!InitOnce
  <2>5. Hid!DoneIsInitialised'
    <3>1. ASSUME Hid!Found', "stale" \notin s10' PROVE s9' # <<>>
      <4>1. n = s1.n /\ Hid!Found
        BY <1>2, <1>5, <3>1
      <4>2. QED
        BY <2>1, <1>5, <4>1 DEF Hid!Ind, Hid!Initialised
    <3>2. QED
      BY <3>1 DEF Hid!DoneIsInitialised
  <2>6. QED
    BY <2>1, <2>2, <2>3, <2>4, <2>5 DEF Hid!Initialised
<1>9. Hid!Linked'
  BY <1>1, <1>4, <1>5, Zenon DEF Hid!Ind, Hid!Linked
<1>10. Hid!Counts' /\ Hid!InOrder' /\ Hid!Behind'
  BY <1>1, <1>5, <1>7, HidChannelsKept DEF Hid!Ind
<1>11. Hid!Noted'
  BY <1>1, <1>4, <1>5, <1>7, HidNotedKept DEF Hid!Ind
<1>12. Hid!Staged'
  <2>1. Hid!Configured("sdp") => Hid!Configured("sdp")'
    BY <1>1 DEF Hid!Configured
  <2>2. QED
    BY <1>1, <1>4, <1>5, <1>7, <2>1, HidStagedKept DEF Hid!Ind
<1>13. Hid!Offered'
  BY <1>1, <1>4, <1>5, <1>7 DEF Hid!Ind, Hid!Offered, Hid!EncryptedIfOffered
<1>14. QED
  BY <1>6, <1>8, <1>9, <1>10, <1>11, <1>12, <1>13 DEF Hid!Ind

\* ----------------------------------------------------------------------
\* bt_hid_init, with the slot ready.
LEMMA HidRuns ==
  ASSUME Hid!Types, NEW dev \in Devs, Hid!HidInit(dev)
  PROVE  /\ s9' \in Seq(Hid!Kinds) /\ Len(s9') = Len(s9) + 1 /\ s9' # <<>>
         /\ s9'[Len(s9')] = dev.type
         /\ s2' \in Devs /\ s2'.type = dev.type /\ s2'.sdp = dev.sdp
         /\ dev.flags \subseteq s2'.flags /\ s2'.flags \subseteq dev.flags \cup {"done"}
         /\ s8 \subseteq s8' /\ s8' \subseteq s8 \cup {s1.n}
<1>1. s9' = Append(s9, dev.type) /\ s9 \in Seq(Hid!Kinds) /\ dev.type \in Hid!Kinds
  BY DEF Hid!HidInit, Hid!Types, Devs
<1>2. s9' \in Seq(Hid!Kinds) /\ Len(s9') = Len(s9) + 1 /\ s9'[Len(s9')] = dev.type
      /\ Len(s9) \in Nat
  BY <1>1
<1>3. s9' # <<>>
  BY <1>2
<1>4. "done" \in Hid!Flags
  BY DEF Hid!Flags
<1>5. s2' = dev \/ s2' = [dev EXCEPT !.flags = @ \cup {"done"}]
  BY DEF Hid!HidInit
<1>6. /\ s2' \in Devs /\ s2'.type = dev.type /\ s2'.sdp = dev.sdp
      /\ dev.flags \subseteq s2'.flags /\ s2'.flags \subseteq dev.flags \cup {"done"}
  BY <1>4, <1>5 DEF Devs
<1>7. s8 \subseteq s8' /\ s8' \subseteq s8 \cup {s1.n}
  BY DEF Hid!HidInit
<1>8. QED
  BY <1>2, <1>3, <1>6, <1>7

\* A slot that is ready after it, and of the type its peer is once that is known.
LEMMA HidInitialises ==
  ASSUME Hid!Ind, NEW dev \in Devs, Hid!HidInit(dev), "ready" \in dev.flags, s1' = s1,
         "name" \notin s3' => dev.type = s1.kind,
         s10' \cap {"again", "early", "late"} = {} => s9 = <<>>
  PROVE  Hid!Initialised'
<1>0. Hid!Types
  BY DEF Hid!Ind
<1>1. Hid!Ready' /\ s9' # <<>>
  BY <1>0, HidRuns DEF Hid!Ready
<1>2. \A n \in s8' : n <= s1'.n
  <2>1. s1.n \in Nat /\ \A n \in s8 : n <= s1.n
    BY DEF Hid!Ind, Hid!Types, Hid!Initialised
  <2>2. \A n \in s8' : n \in s8 \/ n = s1.n
    BY <1>0, HidRuns
  <2>3. QED
    BY <2>1, <2>2
<1>3. Hid!RightInit'
  BY <1>0, HidRuns DEF Hid!RightInit
<1>4. Hid!InitOnce'
  <2>1. ASSUME s10' \cap {"again", "early", "late"} = {} PROVE Len(s9') <= 1
    <3>1. s9 = <<>>
      BY <2>1
    <3>2. Len(s9) = 0
      BY <3>1
    <3>3. QED
      BY <1>0, <3>2, HidRuns
  <2>2. QED
    BY <2>1 DEF Hid!InitOnce
<1>5. Hid!DoneIsInitialised'
  BY <1>1 DEF Hid!DoneIsInitialised
<1>6. QED
  BY <1>1, <1>2, <1>3, <1>4, <1>5 DEF Hid!Initialised

\* The task is done with the data; it initialises again if the type is not the one it noted.
LEMMA HidHostEnds ==
  ASSUME Hid!Ind, Hid!HostEnds
  PROVE  Hid!Ind'
<1> DEFINE dev == [s2 EXCEPT !.flags = @ \ {"sdp_data"}]
<1>1. s1' = s1 /\ s3' = s3 /\ s4' = s4 /\ s5' = s5 /\ s6' = s6
      /\ s10' = s10 /\ s7[1] = "parsed" /\ s7' = <<"idle", "none">>
  BY DEF Hid!HostEnds
<1>2. IF s7[2] # s2.type /\ s2.type # "none" /\ Hid!Ready
        THEN Hid!HidInit(dev) ELSE s2' = dev /\ s8' = s8 /\ s9' = s9
  BY DEF Hid!HostEnds, Hid!Ready
<1>3. Hid!Types /\ s2 \in Devs
  BY DEF Hid!Ind, Hid!Types, Devs
<1>4. dev \in Devs /\ dev.flags = s2.flags \ {"sdp_data"} /\ dev.type = s2.type /\ dev.sdp = s2.sdp
  BY <1>3 DEF Devs
<1> HIDE DEF dev
<1>5. /\ s2' \in Devs /\ s2'.type = s2.type /\ s2'.sdp = s2.sdp
      /\ dev.flags \subseteq s2'.flags /\ s2'.flags \subseteq dev.flags \cup {"done"}
      /\ s9' \in Seq(Hid!Kinds) /\ s8' \subseteq s8 \cup {s1.n}
  <2>1. CASE Hid!HidInit(dev)
    BY <1>3, <1>4, <2>1, HidRuns
  <2>2. CASE ~Hid!HidInit(dev)
    <3>1. s2' = dev /\ s8' = s8 /\ s9' = s9
      BY <1>2, <2>2
    <3>2. s9 \in Seq(Hid!Kinds)
      BY <1>3 DEF Hid!Types
    <3>3. QED
      BY <1>4, <3>1, <3>2
  <2>3. QED
    BY <2>1, <2>2
<1>6. /\ Hid!Ready' <=> Hid!Ready
      /\ Hid!Found' <=> Hid!Found
      /\ "sdp_data" \notin s2'.flags
      /\ \A c \in Hid!Channels : c \in s2'.flags => c \in s2.flags
      /\ "encryption" \in s2'.flags => "encryption" \in s2.flags
      /\ "encrypted" \in s2.flags => "encrypted" \in s2'.flags
  BY <1>4, <1>5 DEF Hid!Ready, Hid!Found, Hid!Channels
<1>7. Hid!Types'
  <2>1. s1.n \in Nat /\ s8 \subseteq Nat
    BY <1>3 DEF Hid!Types
  <2>2. s8' \subseteq Nat /\ s7' \in {"idle", "parse", "parsed"} \X Hid!Kinds
    BY <1>1, <1>5, <2>1 DEF Hid!Kinds
  <2>3. QED
    BY <1>1, <1>3, <1>5, <2>2 DEF Hid!Types, Devs
<1>8. Hid!Initialised'
  <2>1. CASE s7[2] # s2.type /\ s2.type # "none" /\ Hid!Ready
    <3>1. Hid!HidInit(dev) /\ "ready" \in dev.flags
      BY <1>2, <1>4, <2>1 DEF Hid!Ready
    <3>2. "name" \notin s3' => dev.type = s1.kind
      BY <1>1, <1>4, <2>1 DEF Hid!Ind, Hid!Linked
    <3>3. ~(s10' \cap {"again", "early", "late"} = {})
      BY <1>1, <2>1 DEF Hid!Ind, Hid!Noted
    <3>4. QED
      BY <1>1, <1>4, <3>1, <3>2, <3>3, HidInitialises
  <2>2. CASE ~(s7[2] # s2.type /\ s2.type # "none" /\ Hid!Ready)
    <3>1. s8' = s8 /\ s9' = s9 /\ s2' = dev
      BY <1>2, <2>2
    <3>2. "done" \in s2'.flags => "done" \in s2.flags
      BY <1>4, <3>1
    <3>3. QED
      BY <1>1, <1>6, <3>1, <3>2, HidInitialisedKept DEF Hid!Ind
  <2>3. QED
    BY <2>1, <2>2
<1>9. Hid!Linked'
  BY <1>1, <1>5, <1>6, Zenon DEF Hid!Ind, Hid!Linked
<1>10. Hid!Counts' /\ Hid!InOrder' /\ Hid!Behind'
  BY <1>1, <1>6, HidChannelsKept DEF Hid!Ind
<1>11. Hid!Noted'
  BY <1>1 DEF Hid!Noted
<1>12. Hid!Staged'
  <2>1. Hid!Configured("sdp") => Hid!Configured("sdp")'
    BY <1>1 DEF Hid!Configured
  <2>2. QED
    BY <1>1, <1>5, <1>6, <2>1 DEF Hid!Ind, Hid!Staged, Hid!Stage
<1>13. Hid!Offered'
  BY <1>1, <1>6 DEF Hid!Ind, Hid!Offered, Hid!EncryptedIfOffered
<1>14. QED
  BY <1>7, <1>8, <1>9, <1>10, <1>11, <1>12, <1>13 DEF Hid!Ind

\* ----------------------------------------------------------------------
\* The answer to the oldest search.
LEMMA HidSearches ==
  ASSUME NEW S, NEW q \in Seq(S), q # <<>>
  PROVE  /\ Head(q) \in S /\ Tail(q) \in Seq(S)
         /\ \A r \in S : Append(Tail(q), r) \in Seq(S)
<1>1. Head(q) \in S /\ Tail(q) \in Seq(S)
  OBVIOUS
<1>2. ASSUME NEW t \in Seq(S), NEW r \in S PROVE Append(t, r) \in Seq(S)
  OBVIOUS
<1>3. QED
  BY <1>1, <1>2

LEMMA HidOneSearch ==
  ASSUME NEW r, NEW s
  PROVE  Head(<<r>>) = r /\ Append(Tail(<<r>>), s) = <<s>> /\ Tail(<<r>>) = <<>> /\ <<r>> # <<>>
<1>1. Head(<<r>>) = r /\ Tail(<<r>>) = <<>> /\ <<r>> # <<>>
  OBVIOUS
<1>2. Append(<<>>, s) = <<s>>
  OBVIOUS
<1>3. QED
  BY <1>1, <1>2

LEMMA HidSdp ==
  ASSUME Hid!Ind, NEW whole \in BOOLEAN, Hid!SdpRsp(whole)
  PROVE  Hid!Ind'
<1> DEFINE of == Head(s5)[1]
           now == IF s2.sdp = 0 THEN "search" ELSE "pnp"
<1>1. s1' = s1 /\ s3' = s3 /\ s4' = s4 /\ s7' = s7 /\ s8' = s8
      /\ s9' = s9 /\ s10' = s10 /\ s5 # <<>> /\ (whole \/ Head(s5)[2] > 0)
  BY DEF Hid!SdpRsp
<1>2. Hid!Types /\ s2 \in Devs /\ s5 \in Seq(Hid!Searches \X {0, 1}) /\ Hid!Ready
      /\ s6 \in [sdp : SUBSET Hid!Searches, pnp : SUBSET Hid!Searches]
  BY <1>1 DEF Hid!Ind, Hid!Types, Devs, Hid!Behind
<1>3. Head(s5) \in Hid!Searches \X {0, 1} /\ Tail(s5) \in Seq(Hid!Searches \X {0, 1})
      /\ \A r \in Hid!Searches \X {0, 1} : Append(Tail(s5), r) \in Seq(Hid!Searches \X {0, 1})
  BY <1>1, <1>2, HidSearches
<1>4. of \in Hid!Searches
  BY <1>3
<1>5. s6' = IF s2.sdp = 0 THEN [s6 EXCEPT !.sdp = @ \cup {of}] ELSE [s6 EXCEPT !.pnp = @ \cup {of}]
  BY DEF Hid!SdpRsp
<1>6. /\ s6' \in [sdp : SUBSET Hid!Searches, pnp : SUBSET Hid!Searches]
      /\ s2.sdp = 0 => s6'.sdp = s6.sdp \cup {of} /\ s6'.pnp = s6.pnp
      /\ s2.sdp # 0 => s6'.pnp = s6.pnp \cup {of} /\ s6'.sdp = s6.sdp
  BY <1>2, <1>4, <1>5
<1>7. \/ ~whole /\ s5' = Append(Tail(s5), <<now, 0>>) /\ s2' = s2
      \/ /\ whole /\ s2.sdp = 0 /\ s5' = Append(Tail(s5), <<"pnp", 1>>)
         /\ s2' = [s2 EXCEPT !.sdp = 1, !.flags = @ \cup {}]
      \/ /\ whole /\ s2.sdp # 0 /\ s5' = Tail(s5)
         /\ s2' = [s2 EXCEPT !.flags = @ \cup {"sdp_data"}]
  <2>1. \A t \in Seq(Hid!Searches \X {0, 1}), r \in Hid!Searches \X {0,
        1} : t \o <<r>> = Append(t, r)
    OBVIOUS
  <2>2. Tail(s5) \o <<<<"pnp", 1>>>> = Append(Tail(s5), <<"pnp", 1>>)
    BY <1>3, <2>1 DEF Hid!Searches
  <2>3. QED
    BY <2>2 DEF Hid!SdpRsp, Hid!SearchEnds
<1>8. /\ s2' \in Devs /\ s2'.type = s2.type /\ s2.flags \subseteq s2'.flags
      /\ s2'.flags \subseteq s2.flags \cup {"sdp_data"}
      /\ ~(whole /\ s2.sdp # 0) => s2'.flags = s2.flags
      /\ whole => s2'.sdp = 1
      /\ ~whole => s2' = s2
      /\ whole /\ s2.sdp # 0 => "sdp_data" \in s2'.flags
  <2>1. CASE ~whole
    <3>1. s2' = s2
      BY <1>7, <2>1
    <3>2. QED
      BY <1>2, <2>1, <3>1
  <2>2. CASE whole /\ s2.sdp = 0
    <3>1. s2' = [s2 EXCEPT !.sdp = 1, !.flags = @ \cup {}]
      BY <1>7, <2>2
    <3>2. s2' \in Devs /\ s2'.type = s2.type /\ s2'.flags = s2.flags /\ s2'.sdp = 1
      BY <1>2, <3>1 DEF Devs
    <3>3. QED
      BY <2>2, <3>2
  <2>3. CASE whole /\ s2.sdp # 0
    <3>1. s2' = [s2 EXCEPT !.flags = @ \cup {"sdp_data"}]
      BY <1>7, <2>3
    <3>2. s2' \in Devs /\ s2'.type = s2.type /\ s2'.flags = s2.flags \cup {"sdp_data"}
          /\ s2'.sdp = s2.sdp
      BY <1>2, <3>1 DEF Devs, Hid!Flags
    <3>3. s2.sdp = 1
      BY <1>2, <2>3 DEF Devs
    <3>4. QED
      BY <2>3, <3>2, <3>3
  <2>4. QED
    BY <2>1, <2>2, <2>3
<1>9. /\ Hid!Ready' <=> Hid!Ready
      /\ Hid!Found' <=> Hid!Found
      /\ "done" \in s2'.flags => "done" \in s2.flags
      /\ \A c \in Hid!Channels : c \in s2'.flags => c \in s2.flags
      /\ "encryption" \in s2'.flags => "encryption" \in s2.flags
      /\ "encrypted" \in s2.flags => "encrypted" \in s2'.flags
  BY <1>8 DEF Hid!Ready, Hid!Found, Hid!Channels
<1>10. s5' \in Seq(Hid!Searches \X {0, 1})
  <2>1. <<now, 0>> \in Hid!Searches \X {0, 1} /\ <<"pnp", 1>> \in Hid!Searches \X {0, 1}
    BY DEF Hid!Searches
  <2>2. QED
    BY <1>3, <1>7, <2>1, Zenon
<1>11. Hid!Types'
  BY <1>1, <1>2, <1>6, <1>8, <1>10 DEF Hid!Types, Devs
<1>12. Hid!Initialised'
  BY <1>1, <1>9, HidInitialisedKept DEF Hid!Ind
<1>13. Hid!Linked'
  BY <1>1, <1>8, <1>9, Zenon DEF Hid!Ind, Hid!Linked
<1>14. Hid!Counts' /\ Hid!InOrder' /\ Hid!Behind'
  <2>1. Hid!Counts'
    BY <1>1, <1>9 DEF Hid!Ind, Hid!Counts, Hid!Pending, Hid!Messages
  <2>2. Hid!InOrder'
    BY <1>1, <1>9 DEF Hid!Ind, Hid!InOrder, Hid!ControlFirst, Hid!Configured
  <2>3. QED
    BY <1>2, <1>9, <2>1, <2>2 DEF Hid!Behind
<1>15. Hid!Noted'
  BY <1>1, <1>8, HidNotedKept DEF Hid!Ind
<1>16. Hid!Offered'
  BY <1>1, <1>9 DEF Hid!Ind, Hid!Offered, Hid!EncryptedIfOffered
<1>17. Hid!Staged'
  <2> SUFFICES ASSUME s10' \cap {"late", "again"} = {} PROVE Hid!Stage'
    BY DEF Hid!Staged
  <2>1. s7[1] = "idle" /\ "sdp_data" \notin s2.flags /\ Hid!Configured("sdp") /\ (Hid!AtSearch \/
        Hid!AtPnp)
    BY <1>1 DEF Hid!Ind, Hid!Staged, Hid!Stage
  <2>2. Hid!Configured("sdp")' /\ s7'[1] = "idle"
    BY <1>1, <2>1 DEF Hid!Configured
  <2>3. CASE Hid!AtSearch
    <3>0. s2.sdp = 0 /\ s6.pnp = {} /\ s6.sdp \subseteq {"search"} /\ now = "search"
      BY <2>3 DEF Hid!AtSearch
    <3>1. PICK b \in {0, 1} : s5 = <<<<"search", b>>>>
      BY <2>3 DEF Hid!AtSearch
    <3>2. of = "search"
      BY <3>1, HidOneSearch
    <3>3. s6'.sdp = {"search"} /\ s6'.pnp = {}
      BY <1>6, <3>0, <3>2
    <3>4. \A s : Append(Tail(s5), s) = <<s>>
      BY <3>1, HidOneSearch
    <3>5. CASE whole
      <4>1. s5' = <<<<"pnp", 1>>>>
        BY <1>7, <3>0, <3>4, <3>5
      <4>2. Hid!AtPnp'
        BY <1>8, <3>3, <3>5, <4>1 DEF Hid!AtPnp
      <4>3. QED
        BY <1>8, <2>1, <2>2, <3>0, <4>2 DEF Hid!Stage
    <3>6. CASE ~whole
      <4>1. s5' = <<<<"search", 0>>>>
        BY <1>7, <3>0, <3>4, <3>6
      <4>2. Hid!AtSearch'
        BY <1>8, <3>0, <3>3, <3>6, <4>1 DEF Hid!AtSearch
      <4>3. QED
        BY <1>8, <2>1, <2>2, <3>6, <4>2 DEF Hid!Stage
    <3>7. QED
      BY <3>5, <3>6
  <2>4. CASE Hid!AtPnp
    <3>0. s2.sdp = 1 /\ s6.pnp \subseteq {"pnp"} /\ s6.sdp = {"search"} /\ now = "pnp"
      BY <2>4 DEF Hid!AtPnp
    <3>1. PICK b \in {0, 1} : s5 = <<<<"pnp", b>>>>
      BY <2>4 DEF Hid!AtPnp
    <3>2. of = "pnp"
      BY <3>1, HidOneSearch
    <3>3. s6'.sdp = {"search"} /\ s6'.pnp = {"pnp"}
      BY <1>6, <3>0, <3>2
    <3>4. (\A s : Append(Tail(s5), s) = <<s>>) /\ Tail(s5) = <<>>
      BY <3>1, HidOneSearch
    <3>5. CASE whole
      <4>1. s5' = <<>> /\ "sdp_data" \in s2'.flags /\ s2'.sdp = 1
        BY <1>7, <1>8, <3>0, <3>4, <3>5
      <4>2. Hid!Whole'
        BY <1>6, <3>3 DEF Hid!Whole
      <4>3. QED
        BY <2>2, <4>1, <4>2 DEF Hid!Stage
    <3>6. CASE ~whole
      <4>1. s5' = <<<<"pnp", 0>>>>
        BY <1>7, <3>0, <3>4, <3>6
      <4>2. Hid!AtPnp'
        BY <1>8, <3>0, <3>3, <3>6, <4>1 DEF Hid!AtPnp
      <4>3. QED
        BY <1>8, <2>1, <2>2, <3>6, <4>2 DEF Hid!Stage
    <3>7. QED
      BY <3>5, <3>6
  <2>5. QED
    BY <2>1, <2>3, <2>4
<1>18. QED
  BY <1>11, <1>12, <1>13, <1>14, <1>15, <1>16, <1>17 DEF Hid!Ind

\* ----------------------------------------------------------------------
\* A message of a channel's configuration is taken into account.
Message(c, chan) ==
  \/ /\ s4[c].st = "conf" /\ chan = [s4 EXCEPT ![c].reqs = @ + 1]
     /\ s10' = s10 \cup (IF s4[c].reqs > 0 THEN {"again"} ELSE {})
  \/ s4[c].rsp /\ chan = [s4 EXCEPT ![c].rsp = FALSE] /\ s10' = s10

LEMMA HidMessage ==
  ASSUME Hid!Ind, NEW c \in Hid!Channels, NEW chan, Message(c, chan)
  PROVE  /\ chan \in [Hid!Channels -> ChanOf] /\ s4[c].st = "conf" /\ chan[c].st = "conf"
         /\ chan[c].reqs > 0 \/ ~chan[c].rsp
         /\ \A d \in Hid!Channels \ {c} : chan[d] = s4[d]
         /\ "again" \notin s10' => ~Hid!Configured(c)
         /\ ("again" \notin s10' /\ Hid!Messages(c)) => chan[c].reqs > 0 /\ ~chan[c].rsp
         /\ s10 \subseteq s10' /\ s10' \subseteq s10 \cup {"again"}
<1>1. s4 \in [Hid!Channels -> ChanOf] /\ s4[c] \in ChanOf
  BY DEF Hid!Ind, Hid!Types, ChanOf
<1>2. s4[c].rsp => s4[c].st = "conf"
  BY DEF Hid!Ind, Hid!Counts
<1>3. s4[c].reqs \in Nat /\ s4[c].rsp \in BOOLEAN
  BY <1>1 DEF ChanOf
<1>4. CASE /\ s4[c].st = "conf" /\ chan = [s4 EXCEPT ![c].reqs = @ + 1]
           /\ s10' = s10 \cup (IF s4[c].reqs > 0 THEN {"again"} ELSE {})
  <2> DEFINE u == [s4[c] EXCEPT !.reqs = @ + 1]
  <2>1. chan = [s4 EXCEPT ![c] = u]
    BY <1>1, <1>4
  <2>2. u \in ChanOf /\ u.st = s4[c].st /\ u.rsp = s4[c].rsp /\ u.reqs = s4[c].reqs + 1
    BY <1>1 DEF ChanOf
  <2> HIDE DEF u
  <2>3. chan \in [Hid!Channels -> ChanOf] /\ chan[c] = u /\
        \A d \in Hid!Channels \ {c} : chan[d] = s4[d]
    BY <1>1, <2>1, <2>2
  <2>4. "again" \notin s10' => s4[c].reqs = 0
    BY <1>3, <1>4
  <2>5. u.reqs > 0
    BY <1>3, <2>2
  <2>6. "again" \notin s10' => ~Hid!Configured(c)
    BY <2>4 DEF Hid!Configured
  <2>7. ("again" \notin s10' /\ Hid!Messages(c)) => chan[c].reqs > 0 /\ ~chan[c].rsp
    BY <2>2, <2>3, <2>4, <2>5 DEF Hid!Messages
  <2>8. s10 \subseteq s10' /\ s10' \subseteq s10 \cup {"again"}
    BY <1>4
  <2>9. QED
    BY <1>4, <2>2, <2>3, <2>5, <2>6, <2>7, <2>8
<1>5. CASE s4[c].rsp /\ chan = [s4 EXCEPT ![c].rsp = FALSE] /\ s10' = s10
  <2> DEFINE u == [s4[c] EXCEPT !.rsp = FALSE]
  <2>1. chan = [s4 EXCEPT ![c] = u]
    BY <1>1, <1>5
  <2>2. u \in ChanOf /\ u.st = s4[c].st /\ ~u.rsp /\ u.reqs = s4[c].reqs
    BY <1>1 DEF ChanOf
  <2> HIDE DEF u
  <2>3. chan \in [Hid!Channels -> ChanOf] /\ chan[c] = u /\
        \A d \in Hid!Channels \ {c} : chan[d] = s4[d]
    BY <1>1, <2>1, <2>2
  <2>4. ~Hid!Configured(c)
    BY <1>5 DEF Hid!Configured
  <2>5. Hid!Messages(c) => chan[c].reqs > 0 /\ ~chan[c].rsp
    BY <1>5, <2>2, <2>3 DEF Hid!Messages
  <2>6. QED
    BY <1>2, <1>5, <2>2, <2>3, <2>4, <2>5
<1>6. QED
  BY <1>4, <1>5 DEF Message

\* Another channel may be asked for after it.
AsksFor(d, chan) == s4' = IF chan[d].st = "closed" THEN [chan EXCEPT ![d].st = "asked"] ELSE chan

LEMMA HidAsksFor ==
  ASSUME Hid!Ind, NEW c \in Hid!Channels, NEW chan, Message(c, chan), NEW d \in Hid!Channels \ {c},
         s4' = chan \/ AsksFor(d, chan)
  PROVE  /\ s4' \in [Hid!Channels -> ChanOf] /\ s4'[c] = chan[c]
         /\ \A e \in Hid!Channels \ {c, d} : s4'[e] = s4[e]
         /\ s4'[d].reqs = s4[d].reqs /\ s4'[d].rsp = s4[d].rsp
         /\ s4'[d].st = s4[d].st \/ (s4[d].st = "closed" /\ s4'[d].st = "asked" /\ AsksFor(d,
              chan))
<1>1. chan \in [Hid!Channels -> ChanOf] /\ \A e \in Hid!Channels \ {c} : chan[e] = s4[e]
  BY HidMessage
<1>2. CASE s4' = chan
  BY <1>1, <1>2
<1>3. CASE AsksFor(d, chan) /\ chan[d].st = "closed"
  <2> DEFINE u == [chan[d] EXCEPT !.st = "asked"]
  <2>1. s4' = [chan EXCEPT ![d] = u]
    BY <1>1, <1>3 DEF AsksFor
  <2>2. chan[d] \in ChanOf /\ u \in ChanOf /\ u.st = "asked" /\ u.rsp = chan[d].rsp /\
        u.reqs = chan[d].reqs
    BY <1>1 DEF ChanOf
  <2> HIDE DEF u
  <2>3. s4' \in [Hid!Channels -> ChanOf] /\ s4'[d] = u /\
        \A e \in Hid!Channels \ {d} : s4'[e] = chan[e]
    BY <1>1, <2>1, <2>2
  <2>4. QED
    BY <1>1, <1>3, <2>2, <2>3
<1>4. CASE AsksFor(d, chan) /\ chan[d].st # "closed"
  <2>1. s4' = chan
    BY <1>4 DEF AsksFor
  <2>2. QED
    BY <1>1, <2>1
<1>5. QED
  BY <1>2, <1>3, <1>4

\* What every message keeps, whatever the channel.
LEMMA HidCounted ==
  ASSUME Hid!Ind, NEW c \in Hid!Channels, NEW chan, Message(c, chan), NEW d \in Hid!Channels \ {c},
         s4' = chan \/ AsksFor(d, chan), d # "ctrl",
         s1' = s1, s3' = s3, s6' = s6, s7' = s7, s2' \in Devs,
         s2'.type = s2.type, s2'.sdp = s2.sdp, s2.flags \subseteq s2'.flags,
         s2'.flags \subseteq s2.flags \cup {c, "ready", "done"},
         s5' \in Seq(Hid!Searches \X {0, 1}), s9' \in Seq(Hid!Kinds), s8' \subseteq Nat
  PROVE  /\ Hid!Types' /\ Hid!Linked' /\ Hid!Counts' /\ Hid!Noted' /\ Hid!Offered'
         /\ "again" \notin s10' => \A e \in Hid!Channels : Hid!Configured(e) => Hid!Configured(e)'
         /\ "again" \notin s10' /\ Hid!Messages(c) => Hid!Configured(c)'
         /\ s1.up /\ Hid!Found
         /\ Hid!Found' <=> Hid!Found
<1>1. chan \in [Hid!Channels -> ChanOf] /\ s4[c].st = "conf" /\ chan[c].st = "conf"
      /\ (chan[c].reqs > 0 \/ ~chan[c].rsp)
      /\ ("again" \notin s10' => ~Hid!Configured(c))
      /\ (("again" \notin s10' /\ Hid!Messages(c)) => chan[c].reqs > 0 /\ ~chan[c].rsp)
      /\ s10 \subseteq s10' /\ s10' \subseteq s10 \cup {"again"}
  BY HidMessage
<1>2. /\ s4' \in [Hid!Channels -> ChanOf] /\ s4'[c] = chan[c]
      /\ \A e \in Hid!Channels \ {c, d} : s4'[e] = s4[e]
      /\ s4'[d].reqs = s4[d].reqs /\ s4'[d].rsp = s4[d].rsp
      /\ s4'[d].st = s4[d].st \/ (s4[d].st = "closed" /\ s4'[d].st = "asked")
  BY HidAsksFor
<1>3. s1.up /\ Hid!Found /\ Hid!Types /\ Hid!Linked
  BY <1>1 DEF Hid!Ind, Hid!Linked
<1>4. Hid!Found' <=> Hid!Found
  BY <1>3 DEF Hid!Found
<1>5. Hid!Types'
  <2>1. s10' \subseteq {"late", "early", "again", "featuresLast", "stale"}
    BY <1>1, <1>3 DEF Hid!Types
  <2>2. QED
    BY <1>2, <1>3, <2>1 DEF Hid!Types, Devs, ChanOf
<1>6. Hid!Linked'
  BY <1>3, <1>4, Zenon DEF Hid!Linked
<1>7. Hid!Counts'
  <2>1. ASSUME NEW e \in Hid!Channels
        PROVE  /\ s4'[e].st # "conf" => s4'[e].reqs = 0 /\ ~s4'[e].rsp
               /\ e \in s2'.flags => Hid!Messages(e)'
    <3>0. /\ s4[e].st # "conf" => s4[e].reqs = 0 /\ ~s4[e].rsp
          /\ e \in s2.flags => Hid!Messages(e)
      BY DEF Hid!Ind, Hid!Counts, Hid!Pending
    <3>1. e # c => (e \in s2'.flags => e \in s2.flags)
      BY DEF Hid!Channels
    <3>2. CASE e = c
      BY <1>1, <1>2, <3>2 DEF Hid!Messages
    <3>3. CASE e = d
      BY <1>2, <3>0, <3>1, <3>3 DEF Hid!Messages
    <3>4. CASE e \notin {c, d}
      BY <1>2, <3>0, <3>1, <3>4 DEF Hid!Messages
    <3>5. QED
      BY <3>2, <3>3, <3>4
  <2>2. QED
    BY <2>1 DEF Hid!Counts, Hid!Pending
<1>8. Hid!Noted'
  BY <1>1, HidNotedKept DEF Hid!Ind
<1>9. Hid!Offered'
  <2>1. s4'["ctrl"].st = "closed" <=> s4["ctrl"].st = "closed"
    BY <1>1, <1>2 DEF Hid!Channels
  <2>2. "encryption" \in s2'.flags => "encryption" \in s2.flags
    BY DEF Hid!Channels
  <2>3. QED
    BY <1>1, <1>4, <2>1, <2>2 DEF Hid!Ind, Hid!Offered, Hid!EncryptedIfOffered
<1>10. ASSUME "again" \notin s10', NEW e \in Hid!Channels, Hid!Configured(e)
              PROVE Hid!Configured(e)'
  <2>1. e # c
    BY <1>1, <1>10
  <2>2. CASE e = d
    BY <1>2, <1>10, <2>2 DEF Hid!Configured
  <2>3. CASE e # d
    BY <1>2, <1>10, <2>1, <2>3 DEF Hid!Configured
  <2>4. QED
    BY <2>2, <2>3
<1>11. ASSUME "again" \notin s10', Hid!Messages(c) PROVE Hid!Configured(c)'
  BY <1>1, <1>2, <1>11 DEF Hid!Configured
<1>12. QED
  BY <1>3, <1>4, <1>5, <1>6, <1>7, <1>8, <1>9, <1>10, <1>11

\* Nothing is initialised, and the searches are as they were.
LEMMA HidOnlyCounted ==
  ASSUME Hid!Ind, NEW c \in Hid!Channels, NEW chan, Message(c, chan), NEW d \in Hid!Channels \ {c},
         s4' = chan \/ (AsksFor(d, chan) /\ c = "ctrl" /\ Hid!Messages("ctrl")), d = "intr" \/
         c = "intr", d # "ctrl",
         s1' = s1, s3' = s3, s6' = s6, s7' = s7, s8' = s8,
         s9' = s9,
         s2' = [s2 EXCEPT !.flags = @ \cup {c}] \/ s2' = s2,
         s5' \in Seq(Hid!Searches \X {0, 1}), s5' = s5 \/ c = "sdp"
  PROVE  Hid!Types' /\ Hid!Linked' /\ Hid!Counts' /\ Hid!Noted' /\ Hid!Offered' /\
         Hid!Initialised' /\ Hid!InOrder' /\ Hid!Behind'
         /\ (s5' = s5 => Hid!Staged')
<1>1. s2 \in Devs /\ s9 \in Seq(Hid!Kinds) /\ s8 \subseteq Nat /\ {c} \in SUBSET Hid!Flags
  BY DEF Hid!Ind, Hid!Types, Devs, Hid!Channels, Hid!Flags
<1>2. /\ s2' \in Devs /\ s2'.type = s2.type /\ s2'.sdp = s2.sdp
      /\ s2.flags \subseteq s2'.flags /\ s2'.flags \subseteq s2.flags \cup {c}
  BY <1>1 DEF Devs
<1>3. s4' = chan \/ AsksFor(d, chan)
  OBVIOUS
<1>4. /\ Hid!Types' /\ Hid!Linked' /\ Hid!Counts' /\ Hid!Noted' /\ Hid!Offered'
      /\ "again" \notin s10' => \A e \in Hid!Channels : Hid!Configured(e) => Hid!Configured(e)'
      /\ "again" \notin s10' /\ Hid!Messages(c) => Hid!Configured(c)'
      /\ Hid!Found' <=> Hid!Found
  <2>1. s2'.flags \subseteq s2.flags \cup {c, "ready", "done"} /\ s9' \in Seq(Hid!Kinds) /\
        s8' \subseteq Nat
    BY <1>1, <1>2
  <2>2. QED
    BY <1>2, <1>3, <2>1, HidCounted
<1>5. Hid!Ready' <=> Hid!Ready
  BY <1>2 DEF Hid!Ready, Hid!Channels
<1>6. "done" \in s2'.flags => "done" \in s2.flags
  BY <1>2 DEF Hid!Channels
<1>7. s10 \subseteq s10' /\ s4[c].st = "conf"
  BY HidMessage
<1>8. Hid!Initialised'
  BY <1>4, <1>5, <1>6, <1>7, HidInitialisedKept DEF Hid!Ind
<1>9. "sdp_data" \in s2'.flags <=> "sdp_data" \in s2.flags
  BY <1>2 DEF Hid!Channels
<1>10. Hid!InOrder'
  <2> SUFFICES ASSUME "again" \notin s10' PROVE (Hid!Ready' => Hid!Configured("intr")') /\
                      Hid!ControlFirst'
    BY DEF Hid!InOrder
  <2>1. (Hid!Ready => Hid!Configured("intr")) /\ Hid!ControlFirst
    BY <1>7 DEF Hid!Ind, Hid!InOrder
  <2>2. Hid!Ready' => Hid!Configured("intr")'
    BY <1>4, <1>5, <2>1 DEF Hid!Channels
  <2>3. ASSUME Hid!Found', ~s1'.page, s4'["intr"].st # "closed" PROVE Hid!Configured("ctrl")'
    <3>1. CASE s4["intr"].st # "closed"
      <4>1. Hid!Configured("ctrl")
        BY <1>4, <1>7, <2>1, <2>3, <3>1 DEF Hid!ControlFirst
      <4>2. QED
        BY <1>4, <4>1 DEF Hid!Channels
    <3>2. CASE s4["intr"].st = "closed"
      <4>1. c # "intr" /\ d = "intr"
        BY <1>7, <3>2
      <4>2. AsksFor(d, chan)
        BY <1>3, <2>3, <3>2, <4>1, HidAsksFor
      <4>3. c = "ctrl" /\ Hid!Messages("ctrl")
        <5>1. ASSUME s4' = chan PROVE FALSE
          <6>1. chan["intr"] = s4["intr"]
            BY <4>1, HidMessage
          <6>2. QED
            BY <2>3, <3>2, <5>1, <6>1
        <5>2. QED
          BY <5>1
      <4>4. QED
        BY <1>4, <4>3
    <3>3. QED
      BY <3>1, <3>2
  <2>4. QED
    BY <2>2, <2>3 DEF Hid!ControlFirst
<1>11. Hid!Behind'
  <2>1. s4'["sdp"].st # "closed" => s4["sdp"].st # "closed"
    <3>1. CASE c = "sdp"
      BY <1>7, <3>1
    <3>2. CASE c # "sdp" /\ s4' = chan
      BY <3>2, HidMessage DEF Hid!Channels
    <3>3. CASE c = "ctrl" /\ AsksFor(d, chan)
      BY <3>3, HidAsksFor DEF Hid!Channels
    <3>4. QED
      BY <3>1, <3>2, <3>3
  <2>2. c = "sdp" => Hid!Ready
    BY <1>7 DEF Hid!Ind, Hid!Behind
  <2>3. QED
    BY <1>5, <1>9, <2>1, <2>2 DEF Hid!Ind, Hid!Behind
<1>12. s5' = s5 => Hid!Staged'
  BY <1>2, <1>4, <1>7, <1>9, HidStagedKept DEF Hid!Ind, Hid!Channels
<1>13. QED
  BY <1>4, <1>8, <1>10, <1>11, <1>12

LEMMA HidCtrl ==
  ASSUME Hid!Ind, NEW chan, Message("ctrl", chan), Hid!Ctrl(chan), s1' = s1, s3' = s3, s6' = s6,
         s7' = s7
  PROVE  Hid!Ind'
<1>1. s5' = s5 /\ s8' = s8 /\ s9' = s9 /\ s5 \in Seq(Hid!Searches \X {0, 1})
      /\ "ctrl" \in Hid!Channels /\ "intr" \in Hid!Channels \ {"ctrl"}
  BY DEF Hid!Ctrl, Hid!Ind, Hid!Types, Hid!Channels
<1>2. /\ s4' = chan \/ (AsksFor("intr", chan) /\ Hid!Messages("ctrl"))
      /\ s2' = [s2 EXCEPT !.flags = @ \cup {"ctrl"}] \/ s2' = s2
  <2>1. Hid!Pending("ctrl") => Hid!Messages("ctrl")
    BY DEF Hid!Ind, Hid!Counts, Hid!Channels
  <2>2. QED
    BY <2>1 DEF Hid!Ctrl, AsksFor
<1>3. Hid!Types' /\ Hid!Linked' /\ Hid!Counts' /\ Hid!Noted' /\ Hid!Offered' /\
      Hid!Initialised' /\ Hid!InOrder' /\ Hid!Behind' /\ Hid!Staged'
  BY <1>1, <1>2, HidOnlyCounted
<1>4. QED
  BY <1>3 DEF Hid!Ind

LEMMA HidSdpChannel ==
  ASSUME Hid!Ind, NEW chan, Message("sdp", chan), Hid!Sdp(chan), s1' = s1, s3' = s3, s6' = s6,
         s7' = s7
  PROVE  Hid!Ind'
<1>1. s8' = s8 /\ s9' = s9 /\ s5 \in Seq(Hid!Searches \X {0, 1}) /\ s4' = chan
      /\ "sdp" \in Hid!Channels /\ "intr" \in Hid!Channels \ {"sdp"}
  BY DEF Hid!Sdp, Hid!Ind, Hid!Types, Hid!Channels
<1>2. CASE ~Hid!Pending("sdp")
  <2>1. s2' = [s2 EXCEPT !.flags = @ \cup {"sdp"}] /\ s5' = s5
    BY <1>2 DEF Hid!Sdp
  <2>2. Hid!Types' /\ Hid!Linked' /\ Hid!Counts' /\ Hid!Noted' /\ Hid!Offered' /\
        Hid!Initialised' /\ Hid!InOrder' /\ Hid!Behind' /\ Hid!Staged'
    BY <1>1, <2>1, HidOnlyCounted
  <2>3. QED
    BY <2>2 DEF Hid!Ind
<1>3. CASE Hid!Pending("sdp")
  <2>1. s2' = s2 /\ s5' = Append(s5, <<"search", 1>>)
    BY <1>3 DEF Hid!Sdp
  <2>2. s5' \in Seq(Hid!Searches \X {0, 1})
    <3>1. \A q \in Seq(Hid!Searches \X {0, 1}), r \in Hid!Searches \X {0, 1} : Append(q,
          r) \in Seq(Hid!Searches \X {0, 1})
      OBVIOUS
    <3>2. <<"search", 1>> \in Hid!Searches \X {0, 1}
      BY DEF Hid!Searches
    <3>3. QED
      BY <1>1, <2>1, <3>1, <3>2, Zenon
  <2>3. Hid!Types' /\ Hid!Linked' /\ Hid!Counts' /\ Hid!Noted' /\ Hid!Offered' /\
        Hid!Initialised' /\ Hid!InOrder' /\ Hid!Behind'
    BY <1>1, <2>1, <2>2, HidOnlyCounted
  <2>4. Hid!Staged'
    <3> SUFFICES ASSUME s10' \cap {"late", "again"} = {} PROVE Hid!Stage'
      BY DEF Hid!Staged
    <3>1. s10 \subseteq s10' /\ ~Hid!Configured("sdp") /\ chan["sdp"].st = "conf"
          /\ (Hid!Messages("sdp") => chan["sdp"].reqs > 0 /\ ~chan["sdp"].rsp)
      BY <1>1, HidMessage
    <3>2. s7[1] = "idle" /\ s2.sdp = 0 /\ s5 = <<>> /\ s6 = Hid!NoData /\
          "sdp_data" \notin s2.flags
      BY <3>1 DEF Hid!Ind, Hid!Staged, Hid!Stage
    <3>3. Hid!Messages("sdp")
      BY <1>1, <1>3 DEF Hid!Ind, Hid!Counts
    <3>4. Hid!Configured("sdp")'
      BY <1>1, <3>1, <3>3 DEF Hid!Configured
    <3>5. s5' = <<<<"search", 1>>>>
      <4>1. Append(<<>>, <<"search", 1>>) = <<<<"search", 1>>>>
        OBVIOUS
      <4>2. QED
        BY <2>1, <3>2, <4>1, Zenon
    <3>6. Hid!AtSearch'
      BY <2>1, <3>2, <3>5 DEF Hid!AtSearch, Hid!NoData
    <3>7. QED
      BY <2>1, <3>2, <3>4, <3>6 DEF Hid!Stage
  <2>5. QED
    BY <2>3, <2>4 DEF Hid!Ind
<1>4. QED
  BY <1>2, <1>3

\* The second message of the interrupt channel makes the slot ready.
LEMMA HidIntr ==
  ASSUME Hid!Ind, NEW chan, Message("intr", chan), Hid!Intr(chan), s1' = s1, s3' = s3, s6' = s6,
         s7' = s7
  PROVE  Hid!Ind'
<1>1. s5' = s5 /\ s5 \in Seq(Hid!Searches \X {0, 1}) /\ "intr" \in Hid!Channels /\
      "sdp" \in Hid!Channels \ {"intr"}
      /\ Hid!Types /\ s2 \in Devs
  BY DEF Hid!Intr, Hid!Ind, Hid!Types, Hid!Channels, Devs
<1>2. CASE ~Hid!Pending("intr")
  <2>1. s2' = [s2 EXCEPT !.flags = @ \cup {"intr"}] /\ s4' = chan /\ s8' = s8
        /\ s9' = s9
    BY <1>2 DEF Hid!Intr
  <2>2. Hid!Types' /\ Hid!Linked' /\ Hid!Counts' /\ Hid!Noted' /\ Hid!Offered' /\
        Hid!Initialised' /\ Hid!InOrder' /\ Hid!Behind' /\ Hid!Staged'
    BY <1>1, <2>1, HidOnlyCounted
  <2>3. QED
    BY <2>2 DEF Hid!Ind
<1>3. CASE Hid!Pending("intr")
  <2> DEFINE dev == [s2 EXCEPT !.flags = @ \cup {"ready"}]
  <2>1. Hid!HidInit(dev) /\ AsksFor("sdp", chan)
    BY <1>3 DEF Hid!Intr, AsksFor
  <2>2. dev \in Devs /\ dev.flags = s2.flags \cup {"ready"} /\ dev.type = s2.type /\
        dev.sdp = s2.sdp
    BY <1>1 DEF Devs, Hid!Flags
  <2> HIDE DEF dev
  <2>3. /\ s2' \in Devs /\ s2'.type = s2.type /\ s2'.sdp = s2.sdp
        /\ s2.flags \subseteq s2'.flags /\ s2'.flags \subseteq s2.flags \cup {"ready", "done"}
        /\ "ready" \in s2'.flags
        /\ s9' \in Seq(Hid!Kinds) /\ s8' \subseteq s8 \cup {s1.n}
    BY <1>1, <2>1, <2>2, HidRuns
  <2>4. s8' \subseteq Nat
    <3>1. s8 \subseteq Nat /\ s1.n \in Nat
      BY <1>1 DEF Hid!Types
    <3>2. QED
      BY <2>3, <3>1
  <2>5. s2'.flags \subseteq s2.flags \cup {"intr", "ready", "done"} /\ "sdp" # "ctrl"
    BY <2>3
  <2>6. /\ Hid!Types' /\ Hid!Linked' /\ Hid!Counts' /\ Hid!Noted' /\ Hid!Offered'
        /\ "again" \notin s10' => \A e \in Hid!Channels : Hid!Configured(e) => Hid!Configured(e)'
        /\ "again" \notin s10' /\ Hid!Messages("intr") => Hid!Configured("intr")'
        /\ s1.up /\ Hid!Found
        /\ Hid!Found' <=> Hid!Found
    BY <1>1, <2>1, <2>3, <2>4, <2>5, HidCounted
  <2>7. Hid!Messages("intr")
    BY <1>1, <1>3 DEF Hid!Ind, Hid!Counts
  <2>8. s10 \subseteq s10' /\ ("again" \notin s10' => ~Hid!Configured("intr")) /\
        s4["intr"].st = "conf"
    BY <1>1, HidMessage
  <2>9. Hid!InOrder'
    <3> SUFFICES ASSUME "again" \notin s10' PROVE Hid!Configured("intr")' /\ Hid!ControlFirst'
      BY DEF Hid!InOrder
    <3>1. Hid!ControlFirst
      BY <2>8 DEF Hid!Ind, Hid!InOrder
    <3>2. ASSUME Hid!Found', ~s1'.page PROVE Hid!Configured("ctrl")'
      <4>1. Hid!Configured("ctrl")
        BY <2>6, <2>8, <3>1, <3>2 DEF Hid!ControlFirst
      <4>2. QED
        BY <2>6, <4>1 DEF Hid!Channels
    <3>3. QED
      BY <2>6, <2>7, <3>2 DEF Hid!ControlFirst
  <2>10. Hid!Behind'
    BY <2>3 DEF Hid!Behind, Hid!Ready
  <2>11. Hid!Initialised'
    <3>1. "name" \notin s3' => dev.type = s1.kind
      BY <2>2, <2>6 DEF Hid!Ind, Hid!Linked
    <3>2. s10' \cap {"again", "early", "late"} = {} => s9 = <<>>
      BY <2>8 DEF Hid!Ind, Hid!InOrder, Hid!Initialised
    <3>3. "ready" \in dev.flags
      BY <2>2
    <3>4. QED
      BY <2>1, <2>2, <3>1, <3>2, <3>3, HidInitialises
  <2>12. Hid!Staged'
    <3>1. "sdp_data" \in s2'.flags <=> "sdp_data" \in s2.flags
      BY <2>3
    <3>2. Hid!Configured("sdp") /\ "again" \notin s10' => Hid!Configured("sdp")'
      BY <1>1, <2>6
    <3>3. QED
      BY <1>1, <2>3, <2>8, <3>1, <3>2, HidStagedKept DEF Hid!Ind
  <2>13. QED
    BY <2>6, <2>9, <2>10, <2>11, <2>12 DEF Hid!Ind
<1>4. QED
  BY <1>2, <1>3

LEMMA HidConfigures ==
  ASSUME Hid!Ind, NEW c \in Hid!Channels, Hid!ConfReq(c) \/ Hid!ConfRsp(c)
  PROVE  Hid!Ind'
<1>1. \E chan : Message(c, chan) /\ Hid!Counted(c, chan)
  <2>1. CASE Hid!ConfReq(c)
    <3>1. Message(c, [s4 EXCEPT ![c].reqs = @ + 1])
      BY <2>1 DEF Hid!ConfReq, Message
    <3>2. QED
      BY <2>1, <3>1 DEF Hid!ConfReq
  <2>2. CASE Hid!ConfRsp(c)
    <3>1. Message(c, [s4 EXCEPT ![c].rsp = FALSE])
      BY <2>2 DEF Hid!ConfRsp, Message
    <3>2. QED
      BY <2>2, <3>1 DEF Hid!ConfRsp
  <2>3. QED
    BY <2>1, <2>2
<1>2. PICK chan : Message(c, chan) /\ Hid!Counted(c, chan)
  BY <1>1
<1>3. s1' = s1 /\ s3' = s3 /\ s6' = s6 /\ s7' = s7
  BY <1>2 DEF Hid!Counted
<1>4. /\ c = "ctrl" => Hid!Ctrl(chan)
      /\ c = "intr" => Hid!Intr(chan)
      /\ c = "sdp" => Hid!Sdp(chan)
  BY <1>2 DEF Hid!Counted
<1>5. CASE c = "ctrl"
  BY <1>2, <1>3, <1>4, <1>5, HidCtrl
<1>6. CASE c = "intr"
  BY <1>2, <1>3, <1>4, <1>6, HidIntr
<1>7. CASE c = "sdp"
  BY <1>2, <1>3, <1>4, <1>7, HidSdpChannel
<1>8. QED
  BY <1>5, <1>6, <1>7 DEF Hid!Channels

LEMMA HidStep ==
  ASSUME Hid!Ind, Hid!Next \/ UNCHANGED Hid!hlVars
  PROVE  Hid!Ind'
<1>1. CASE Hid!Next
  <2>1. CASE \E kind \in HlKinds, page \in BOOLEAN : Hid!Finds(kind, page)
    BY <2>1, HidFinds
  <2>2. CASE Hid!Connects \/ Hid!Drops
    BY <2>2, HidConnects, HidDrops
  <2>3. CASE Hid!Name
    BY <2>3, HidName, HidRefused DEF Hid!Name
  <2>4. CASE Hid!Auth
    BY <2>4, HidAnswered
  <2>5. CASE \E encrypts \in BOOLEAN : Hid!Features(encrypts)
    BY <2>5, HidFeatures
  <2>6. CASE \E c \in Hid!Channels : Hid!ConnRsp(c) \/ Hid!ConnReq(c) \/ Hid!ConfReq(c) \/
             Hid!ConfRsp(c)
    BY <2>6, HidTakesChannel, HidConfigures
  <2>7. CASE \E whole \in BOOLEAN : Hid!SdpRsp(whole)
    BY <2>7, HidSdp
  <2>8. CASE Hid!HostFinds \/ Hid!HostParses
    BY <2>8, HidHostLooks
  <2>9. CASE Hid!HostEnds
    BY <2>9, HidHostEnds
  <2>10. CASE \E n \in s8 : Hid!TimerFires(n)
    BY <2>10, HidTimer
  <2>11. QED
    BY <1>1, <2>1, <2>2, <2>3, <2>4, <2>5, <2>6, <2>7, <2>8, <2>9, <2>10 DEF Hid!Next
<1>2. CASE UNCHANGED Hid!hlVars
  <2>1. s1' = s1 /\ s2' = s2 /\ s3' = s3 /\ s4' = s4 /\ s5' = s5
        /\ s6' = s6 /\ s7' = s7 /\ s8' = s8 /\ s9' = s9 /\ s10' = s10
    BY <1>2 DEF Hid!hlVars
  <2>2. Hid!Ready' = Hid!Ready /\ Hid!Found' = Hid!Found
    BY <2>1 DEF Hid!Ready, Hid!Found
  <2>3. Hid!Types'
    BY <2>1 DEF Hid!Ind, Hid!Types
  <2>4. Hid!Initialised' /\ Hid!Linked'
    BY <2>1, <2>2, HidInitialisedKept DEF Hid!Ind, Hid!Linked
  <2>5. Hid!Counts' /\ Hid!InOrder' /\ Hid!Behind'
    BY <2>1, <2>2, HidChannelsKept DEF Hid!Ind
  <2>6. Hid!Noted'
    BY <2>1, HidNotedKept DEF Hid!Ind
  <2>7. Hid!Configured("sdp") => Hid!Configured("sdp")'
    BY <2>1 DEF Hid!Configured
  <2>8. Hid!Staged'
    BY <2>1, <2>7, HidStagedKept DEF Hid!Ind
  <2>9. Hid!Offered'
    BY <2>1, <2>2 DEF Hid!Ind, Hid!Offered, Hid!EncryptedIfOffered
  <2>10. QED
    BY <2>3, <2>4, <2>5, <2>6, <2>8, <2>9 DEF Hid!Ind
<1>3. QED
  BY <1>1, <1>2

LEMMA HidSetUp == Hid!Ind => Hid!RightInit /\ Hid!InitOnce /\ Hid!ParsesWhole /\
Hid!DoneIsInitialised /\ Hid!ControlFirst
                         /\ Hid!EncryptedIfOffered
<1> SUFFICES ASSUME Hid!Ind PROVE Hid!RightInit /\ Hid!InitOnce /\ Hid!ParsesWhole /\
                    Hid!DoneIsInitialised /\ Hid!ControlFirst
                              /\ Hid!EncryptedIfOffered
  OBVIOUS
<1>1. Hid!RightInit /\ Hid!InitOnce /\ Hid!DoneIsInitialised
  BY DEF Hid!Ind, Hid!Initialised
<1>2. Hid!ControlFirst
  BY DEF Hid!Ind, Hid!InOrder, Hid!ControlFirst
<1>3. Hid!ParsesWhole
  BY DEF Hid!Ind, Hid!Staged, Hid!Stage, Hid!Whole, Hid!ParsesWhole
<1>4. Hid!EncryptedIfOffered
  BY DEF Hid!Ind, Hid!Offered
<1>5. QED
  BY <1>1, <1>2, <1>3, <1>4

(***************************************************************************)
(* The reads (CfgReads): what a client of the configuration service gets.  *)
(***************************************************************************)
Rd == INSTANCE CfgReads WITH
  crMtu <- s1, crLen <- s2, crWindow <- s3, crMc <- s4, crDir <- s5, crClient <- s6, crGot <- s7,
  crFound <- s8, crOdd <- s9

\* No client asks for less than the MTU there is without asking (23 bytes, att_cfg.c:87), and an
\* answer of that length has room for a word of the card (att_cfg.c:289).
ASSUME ReadsAssumption ==
  /\ CrMtus \subseteq Nat /\ \A m \in CrMtus : m >= Rd!Shortest
  /\ \E m \in CrMtus : \A k \in CrMtus : k <= m
  /\ CrLens \subseteq Nat /\ CrMax \in Nat \ {0} /\ CrBlock \in Nat \ {0}
  /\ CrWord \in 1..(Rd!Shortest - 1)

LEMMA ReadsMax ==
  ASSUME NEW S \in SUBSET Int, NEW m \in S, \A x \in S : x <= m
  PROVE  Rd!Max(S) = m
<1>1. \A x \in S : (\A y \in S : x >= y) => x = m
  OBVIOUS
<1>2. \A y \in S : m >= y
  OBVIOUS
<1>3. QED
  BY <1>1, <1>2 DEF Rd!Max

LEMMA ReadsMin ==
  ASSUME NEW S \in SUBSET Int, NEW m \in S, \A x \in S : m <= x
  PROVE  Rd!Min(S) = m
<1>1. \A x \in S : (\A y \in S : x <= y) => x = m
  OBVIOUS
<1>2. QED
  BY <1>1 DEF Rd!Min

\* Division with rest.
LEMMA ReadsDivides ==
  ASSUME NEW a \in Nat, NEW b \in Nat \ {0}
  PROVE  a % b \in 0..(b - 1) /\ a \div b \in Nat /\ a = b * (a \div b) + (a % b)
OBVIOUS

LEMMA ReadsQuotient ==
  ASSUME NEW a \in Nat, NEW b \in Nat \ {0}, NEW q \in Nat, NEW r \in 0..(b - 1), a = b * q + r
  PROVE  a \div b = q
<1>1. a \div b \in Nat /\ a % b \in 0..(b - 1) /\ a = b * (a \div b) + (a % b)
  BY ReadsDivides
<1> DEFINE k == a \div b
<1>2. CASE q > k
  <2>1. b * q >= b * (k + 1)
    BY <1>1, <1>2
  <2>2. b * (k + 1) = b * k + b
    BY <1>1
  <2>3. QED
    BY <1>1, <2>1, <2>2
<1>3. CASE q < k
  <2>1. b * k >= b * (q + 1)
    BY <1>1, <1>3
  <2>2. b * (q + 1) = b * q + b
    OBVIOUS
  <2>3. QED
    BY <1>1, <2>1, <2>2
<1>4. QED
  BY <1>1, <1>2, <1>3

\* What fits into the rest of a block ends in it.
LEMMA ReadsBlock ==
  ASSUME NEW a \in Nat, NEW b \in Nat \ {0}, NEW n \in 1..(b - (a % b))
  PROVE  a \div b = (a + n - 1) \div b
<1>1. a \div b \in Nat /\ a % b \in 0..(b - 1) /\ a = b * (a \div b) + (a % b)
  BY ReadsDivides
<1>2. /\ (a % b) + n - 1 \in 0..(b - 1) /\ a + n - 1 \in Nat
      /\ a + n - 1 = b * (a \div b) + ((a % b) + n - 1)
  BY <1>1
<1>3. QED
  BY <1>1, <1>2, ReadsQuotient

LEMMA ReadsInit == Rd!Init => Rd!Ind
<1> SUFFICES ASSUME Rd!Init PROVE Rd!Ind
  OBVIOUS
<1>1. Rd!Numbers
  BY ReadsAssumption DEF Rd!Init, Rd!Numbers, Rd!Shortest
<1>2. Rd!Searches
  BY DEF Rd!Init, Rd!Searches, Rd!Idle, Rd!Nothing
<1>3. ~Rd!Does("read") /\ ~Rd!Does("over") /\ ~Rd!Does("card")
  BY DEF Rd!Init, Rd!Idle, Rd!Does
<1>4. Rd!Asked /\ Rd!Directory
  BY DEF Rd!Init, Rd!Asked, Rd!Directory, Rd!OneDirectory
<1>5. QED
  BY <1>1, <1>2, <1>3, <1>4 DEF Rd!Ind, Rd!Reading, Rd!Carding

\* A client comes.
LEMMA ReadsConnect == Rd!Ind /\ Rd!Connect => Rd!Ind'
<1> SUFFICES ASSUME Rd!Ind, Rd!Connect PROVE Rd!Ind'
  OBVIOUS
<1>1. Rd!Numbers'
  BY DEF Rd!Connect, Rd!Ind, Rd!Numbers, Rd!Shortest
<1>2. Rd!Searches'
  <2>1. {h \in Rd!Handles : h[1] < Rd!GATT_GRP} = {}
    BY DEF Rd!Handles, Rd!GATT_GRP, Rd!GATT_LAST, Rd!GAP_GRP, Rd!GAP_PPCP, Rd!BR_GRP, Rd!LAST
  <2>2. s8' = [services |-> {h \in Rd!Handles : h[1] < Rd!GATT_GRP}, chars |-> {}]
    BY <2>1 DEF Rd!Connect, Rd!Nothing
  <2>3. s6'.does = <<"services", Rd!GATT_GRP>>
    BY DEF Rd!Connect, Rd!GATT_GRP
  <2>4. QED
    BY <2>2, <2>3 DEF Rd!Searches
<1>3. ~Rd!Does("read")' /\ ~Rd!Does("over")' /\ ~Rd!Does("card")'
  BY DEF Rd!Connect, Rd!Does
<1>4. Rd!Asked' /\ Rd!Directory'
  BY DEF Rd!Connect, Rd!Asked, Rd!Ind, Rd!Directory, Rd!OneDirectory, Rd!Numbers
<1>5. QED
  BY <1>1, <1>2, <1>3, <1>4 DEF Rd!Ind, Rd!Reading, Rd!Carding

\* Where a client is, only its first word says.
LEMMA ReadsTurns ==
  ASSUME Rd!Ind, NEW what, Rd!Turns(what)
  PROVE  /\ s6' = [n |-> s6.n, mtu |-> s6.mtu, does |-> what]
         /\ s6'.does = what /\ s6'.mtu = s6.mtu
BY DEF Rd!Turns, Rd!Ind, Rd!Numbers

\* A client that is past its search has found everything.
LEMMA ReadsFound ==
  ASSUME Rd!Ind, Rd!Does("ready") \/ Rd!Does("read") \/ Rd!Does("over") \/ Rd!Does("card")
  PROVE  s8 = [services |-> Rd!Handles, chars |-> Rd!Declared]
BY DEF Rd!Ind, Rd!Searches, Rd!Does, Rd!Idle

LEMMA ReadsLeave == Rd!Ind /\ Rd!Leave => Rd!Ind'
<1> SUFFICES ASSUME Rd!Ind, Rd!Leave PROVE Rd!Ind'
  OBVIOUS
<1>1. /\ s6' = [n |-> s6.n, mtu |-> s6.mtu, does |-> Rd!Idle]
      /\ s6'.does = Rd!Idle /\ s6'.mtu = s6.mtu /\ UNCHANGED <<s1, s2, s3, s4, s5, s7, s8, s9>>
  BY ReadsTurns DEF Rd!Leave
<1>2. Rd!Numbers'
  BY <1>1 DEF Rd!Ind, Rd!Numbers
<1>3. Rd!Searches'
  BY <1>1, ReadsFound DEF Rd!Searches, Rd!Leave
<1>4. ~Rd!Does("read")' /\ ~Rd!Does("over")' /\ ~Rd!Does("card")'
  BY <1>1 DEF Rd!Does, Rd!Idle
<1>5. Rd!Asked' /\ Rd!Directory'
  BY <1>1 DEF Rd!Asked, Rd!Ind, Rd!Directory, Rd!OneDirectory
<1>6. QED
  BY <1>2, <1>3, <1>4, <1>5 DEF Rd!Ind, Rd!Reading, Rd!Carding

\* The MTU is exchanged: nothing has been read yet.
LEMMA ReadsExchange == ASSUME Rd!Ind, NEW mtu \in CrMtus, Rd!Exchange(mtu) PROVE Rd!Ind'
<1>1. s1' = mtu /\ mtu \in Nat /\ mtu >= Rd!Shortest
  <2>1. PICK m \in CrMtus : \A k \in CrMtus : k <= m
    BY ReadsAssumption
  <2>2. CrMtus \in SUBSET Int /\ Rd!Longest = m
    BY <2>1, ReadsMax, ReadsAssumption DEF Rd!Longest
  <2>3. QED
    BY <2>1, <2>2, ReadsAssumption DEF Rd!Exchange
<1>2. /\ s6' = [n |-> s6.n, mtu |-> mtu, does |-> s6.does]
      /\ s6'.does = s6.does /\ s9' = s9 \ {"mtu"} /\ s7 = <<>>
      /\ UNCHANGED <<s2, s3, s4, s5, s7, s8>>
  BY <1>1 DEF Rd!Exchange, Rd!Ind, Rd!Numbers
<1>3. Rd!Numbers'
  BY <1>1, <1>2 DEF Rd!Ind, Rd!Numbers
<1>4. Rd!Searches'
  BY <1>2 DEF Rd!Ind, Rd!Searches
<1>5. Rd!Asked' /\ Rd!Directory'
  BY <1>1, <1>2 DEF Rd!Asked, Rd!Ind, Rd!Directory, Rd!OneDirectory
<1>6. Rd!Reading'
  BY <1>2 DEF Rd!Ind, Rd!Reading, Rd!Does
<1>7. Rd!Carding'
  BY <1>2 DEF Rd!Ind, Rd!Carding, Rd!Does
<1>8. QED
  BY <1>3, <1>4, <1>5, <1>6, <1>7 DEF Rd!Ind

\* A window is chosen, and what is read of it.
LEMMA ReadsWhole ==
  ASSUME Rd!Ind, NEW w \in Nat, NEW l \in Nat
  PROVE  Rd!Min({CrMax, Rd!Max({0, l - w})})
           = IF l - w < 0 THEN 0 ELSE IF l - w <= CrMax THEN l - w ELSE CrMax
<1>1. CASE l - w < 0
  <2>1. Rd!Max({0, l - w}) = 0
    BY <1>1, ReadsMax
  <2>2. Rd!Min({CrMax, 0}) = 0
    BY ReadsMin, ReadsAssumption
  <2>3. QED
    BY <1>1, <2>1, <2>2
<1>2. CASE l - w >= 0
  <2>1. Rd!Max({0, l - w}) = l - w
    BY <1>2, ReadsMax
  <2>2. Rd!Min({CrMax, Rd!Max({0, l - w})}) = Rd!Min({CrMax, l - w})
    BY <2>1
  <2>3. CASE l - w <= CrMax
    <3>1. Rd!Min({CrMax, l - w}) = l - w
      BY <1>2, <2>3, ReadsMin, ReadsAssumption
    <3>2. QED
      BY <1>2, <2>2, <2>3, <3>1
  <2>4. CASE l - w > CrMax
    <3>1. Rd!Min({CrMax, l - w}) = CrMax
      BY <1>2, <2>4, ReadsMin, ReadsAssumption
    <3>2. QED
      BY <1>2, <2>2, <2>4, <3>1, ReadsAssumption
  <2>5. QED
    BY <2>3, <2>4, ReadsAssumption
<1>3. QED
  BY <1>1, <1>2

LEMMA ReadsWindow == Rd!Ind /\ Rd!Window(0) => Rd!Ind'
<1> SUFFICES ASSUME Rd!Ind, Rd!Window(0) PROVE Rd!Ind'
  OBVIOUS
<1>1. /\ s6' = [n |-> s6.n, mtu |-> s6.mtu, does |-> <<"read", 0>>]
      /\ s6'.does = <<"read", 0>> /\ s6'.mtu = s6.mtu /\ s3' = 0
      /\ s7' = <<>> /\ s9' = s9 \ {"changed"} /\ UNCHANGED <<s1, s2, s4, s5, s8>>
  BY ReadsTurns DEF Rd!Window
<1>2. Rd!Numbers'
  BY <1>1 DEF Rd!Ind, Rd!Numbers
<1>3. Rd!Searches'
  BY <1>1, ReadsFound DEF Rd!Searches, Rd!Window
<1>4. ~Rd!Does("over")' /\ ~Rd!Does("card")'
  BY <1>1 DEF Rd!Does
<1>5. Rd!Asked' /\ Rd!Directory'
  BY <1>1 DEF Rd!Asked, Rd!Ind, Rd!Directory, Rd!OneDirectory
<1>6. Rd!Reading'
  <2>1. Rd!Min({CrMax, Rd!Max({0, s2 - 0})}) >= 0
    <3>1. 0 \in Nat /\ s2 \in Nat
      BY DEF Rd!Ind, Rd!Numbers
    <3>2. Rd!Min({CrMax, Rd!Max({0, s2 - 0})})
            = IF s2 - 0 < 0 THEN 0 ELSE IF s2 - 0 <= CrMax THEN s2 - 0 ELSE CrMax
      BY <3>1, ReadsWhole
    <3>3. QED
      BY <3>1, <3>2, ReadsAssumption
  <2>2. <<>> = Rd!Places(0, 0)
    BY DEF Rd!Places
  <2>3. QED
    BY <1>1, <1>4, <2>1, <2>2 DEF Rd!Reading
<1>7. QED
  BY <1>2, <1>3, <1>4, <1>5, <1>6 DEF Rd!Ind, Rd!Carding

\* Places one after the other.
LEMMA ReadsPlaces ==
  ASSUME NEW from \in Nat, NEW k \in Nat, NEW n \in Nat
  PROVE  /\ Rd!Places(from, k) \in Seq(Nat) /\ Len(Rd!Places(from, k)) = k
         /\ Rd!Places(from, k) \o Rd!Places(from + k, n) = Rd!Places(from, k + n)
<1>1. Rd!Places(from, k) \in Seq(Nat) /\ Len(Rd!Places(from, k)) = k
  BY DEF Rd!Places
<1>2. Rd!Places(from + k, n) \in Seq(Nat) /\ Len(Rd!Places(from + k, n)) = n
  BY DEF Rd!Places
<1>3. Rd!Places(from, k + n) \in Seq(Nat) /\ Len(Rd!Places(from, k + n)) = k + n
  BY DEF Rd!Places
<1> DEFINE two == Rd!Places(from, k) \o Rd!Places(from + k, n)
<1>4. two \in Seq(Nat) /\ Len(two) = k + n
  BY <1>1, <1>2
<1>5. ASSUME NEW i \in 1..(k + n) PROVE two[i] = Rd!Places(from, k + n)[i]
  <2>1. Rd!Places(from, k + n)[i] = from + i
    BY DEF Rd!Places
  <2>2. CASE i <= k
    <3>1. two[i] = Rd!Places(from, k)[i]
      BY <1>1, <1>2, <2>2
    <3>2. Rd!Places(from, k)[i] = from + i
      BY <2>2 DEF Rd!Places
    <3> HIDE DEF two
    <3>3. QED
      BY <2>1, <3>1, <3>2
  <2>3. CASE i > k
    <3>1. two[i] = Rd!Places(from + k, n)[i - k]
      BY <1>1, <1>2, <2>3
    <3>2. Rd!Places(from + k, n)[i - k] = from + k + (i - k)
      BY <2>3 DEF Rd!Places
    <3> HIDE DEF two
    <3>3. QED
      BY <2>1, <2>3, <3>1, <3>2
  <2> HIDE DEF two
  <2>4. QED
    BY <2>2, <2>3
<1>6. two = Rd!Places(from, k + n)
  <2> HIDE DEF two
  <2>1. QED
    BY <1>3, <1>4, <1>5
<1>7. QED
  BY <1>1, <1>6

\* How much is answered: to the end of the mapping, an answer's length or the longest value.
LEMMA ReadsAnswered ==
  ASSUME Rd!Ind, NEW offset \in Nat
  PROVE  /\ Rd!Answered(offset) \in Nat
         /\ s3 + offset > s2 \/ offset > CrMax => Rd!Answered(offset) = 0
         /\ s3 + offset <= s2 /\ offset <= CrMax =>
              /\ Rd!Answered(offset) <= s2 - (s3 + offset)
              /\ Rd!Answered(offset) <= s1 /\ Rd!Answered(offset) <= CrMax - offset
              /\ \/ Rd!Answered(offset) = s2 - (s3 + offset) \/ Rd!Answered(offset) = s1
                 \/ Rd!Answered(offset) = CrMax - offset
<1>1. s3 \in Nat /\ s2 \in Nat /\ s1 \in Nat /\ CrMax \in Nat
  BY ReadsAssumption DEF Rd!Ind, Rd!Numbers
<1>2. CASE s3 + offset > s2 \/ offset > CrMax
  BY <1>1, <1>2 DEF Rd!Answered
<1>3. CASE s3 + offset <= s2 /\ offset <= CrMax
  <2> DEFINE rest == s2 - (s3 + offset)
             m == Rd!Min({rest, s1})
  <2>1. rest \in Nat
    BY <1>1, <1>3
  <2>2. m \in Nat /\ m <= rest /\ m <= s1 /\ (m = rest \/ m = s1)
    <3> HIDE DEF rest
    <3>1. CASE rest <= s1
      <4>1. m = rest
        BY <1>1, <2>1, <3>1, ReadsMin
      <4>2. QED
        BY <1>1, <2>1, <3>1, <4>1
    <3>2. CASE rest > s1
      <4>1. m = s1
        BY <1>1, <2>1, <3>2, ReadsMin
      <4>2. QED
        BY <1>1, <2>1, <3>2, <4>1
    <3>3. QED
      BY <1>1, <2>1, <3>1, <3>2
  <2>3. Rd!Answered(offset) = Rd!Cut(offset, m)
    BY <1>1, <1>3 DEF Rd!Answered
  <2>4. Rd!Answered(offset) = IF offset + m > CrMax THEN CrMax - offset ELSE m
    BY <2>3 DEF Rd!Cut
  <2> HIDE DEF m
  <2>5. QED
    BY <1>1, <1>3, <2>1, <2>2, <2>4
<1>4. QED
  BY <1>1, <1>2, <1>3

LEMMA ReadsMapping == Rd!Ind /\ Rd!ReadMapping => Rd!Ind'
<1> SUFFICES ASSUME Rd!Ind, Rd!ReadMapping PROVE Rd!Ind'
  OBVIOUS
<1> DEFINE offset == Len(s7)
           n == Rd!Answered(offset)
           whole == Rd!Min({CrMax, Rd!Max({0, s2 - s3})})
<1>1. /\ s7 \in Seq(Nat) /\ s3 \in Nat /\ s2 \in Nat /\ s1 \in Nat /\ s1 > 0
      /\ s6.mtu \in Nat /\ s6.mtu > 0 /\ CrMax \in Nat /\ CrMax > 0 /\ offset \in Nat
  BY ReadsAssumption DEF Rd!Ind, Rd!Numbers, Rd!Shortest
<1>2. s6.does = <<"read", s3>>
  BY DEF Rd!Ind, Rd!Searches, Rd!ReadMapping, Rd!Does, Rd!Idle
<1>3. /\ n \in Nat
      /\ s3 + offset > s2 \/ offset > CrMax => n = 0
      /\ s3 + offset <= s2 /\ offset <= CrMax =>
           /\ n <= s2 - (s3 + offset) /\ n <= s1 /\ n <= CrMax - offset
           /\ n = s2 - (s3 + offset) \/ n = s1 \/ n = CrMax - offset
  BY <1>1, ReadsAnswered
<1>4. /\ s7' = s7 \o Rd!Places(s3 + offset, n)
      /\ UNCHANGED <<s1, s2, s3, s4, s5, s8, s9>>
      /\ Rd!Turns(IF n < s6.mtu \/ Len(s7') = CrMax THEN <<"over", s6.does[2]>> ELSE s6.does)
  BY DEF Rd!ReadMapping
<1>5. whole = IF s2 - s3 < 0 THEN 0 ELSE IF s2 - s3 <= CrMax THEN s2 - s3 ELSE CrMax
  BY <1>1, ReadsWhole
<1>6. s7' \in Seq(Nat) /\ Len(s7') = offset + n
  <2>1. s3 + offset \in Nat
    BY <1>1
  <2> HIDE DEF n
  <2>2. Rd!Places(s3 + offset, n) \in Seq(Nat) /\ Len(Rd!Places(s3 + offset, n)) = n
    BY <1>3, <2>1, ReadsPlaces
  <2>3. s7' = s7 \o Rd!Places(s3 + offset, n)
    BY <1>4
  <2> HIDE DEF offset
  <2>4. \A p, q \in Seq(Nat) : p \o q \in Seq(Nat) /\ Len(p \o q) = Len(p) + Len(q)
    OBVIOUS
  <2>5. QED
    BY <1>1, <2>2, <2>3, <2>4 DEF offset
<1> HIDE DEF n, offset, whole
<1>7. /\ s6' = [n |-> s6.n, mtu |-> s6.mtu, does |-> s6'.does]
      /\ s6'.mtu = s6.mtu
      /\ s6'.does = (IF n < s6.mtu \/ Len(s7') = CrMax
                           THEN <<"over", s3>> ELSE <<"read", s3>>)
  BY <1>2, <1>4, ReadsTurns
<1>8. Rd!Numbers'
  BY <1>4, <1>6, <1>7 DEF Rd!Ind, Rd!Numbers
<1>9. Rd!Searches'
  <2>1. s8' = [services |-> Rd!Handles, chars |-> Rd!Declared]
    BY <1>4, ReadsFound DEF Rd!ReadMapping
  <2>2. s6'.does = <<"over", s3'>> \/ s6'.does = <<"read", s3'>>
    BY <1>4, <1>7
  <2>3. QED
    BY <2>1, <2>2 DEF Rd!Searches
<1>10. ~Rd!Does("card")'
  BY <1>7 DEF Rd!Does
<1>11. Rd!Asked' /\ Rd!Directory'
  BY <1>4, <1>7 DEF Rd!Asked, Rd!Ind, Rd!Directory, Rd!OneDirectory
<1>12. Rd!Does("over")' <=> n < s6.mtu \/ Len(s7') = CrMax
  BY <1>7 DEF Rd!Does
<1>13. ASSUME "changed" \notin s9, s9 = {} \/ s7' = <<>>
       PROVE  /\ s7' = Rd!Places(s3, Len(s7')) /\ Len(s7') <= whole
              /\ Rd!Does("over")' => Len(s7') = whole
  <2>1. s9 = {} \/ (s7 = <<>> /\ offset = 0 /\ n = 0)
    <3>1. s7' = <<>> => offset + n = 0
      BY <1>6
    <3>2. s7' = <<>> => offset = 0 /\ n = 0
      BY <1>1, <1>3, <3>1
    <3>3. offset = 0 => s7 = <<>>
      BY <1>1 DEF offset
    <3>4. QED
      BY <1>13, <3>2, <3>3
  <2>2. s7 = Rd!Places(s3, offset) /\ offset <= whole
    BY <1>2, <1>13, <2>1 DEF Rd!Ind, Rd!Reading, Rd!Does, offset, whole
  <2>3. s7' = Rd!Places(s3, Len(s7'))
    <3>1. Rd!Places(s3, offset) \o Rd!Places(s3 + offset, n) = Rd!Places(s3, offset + n)
      BY <1>1, <1>3, ReadsPlaces
    <3>2. s7' = s7 \o Rd!Places(s3 + offset, n)
      BY <1>4
    <3>3. QED
      BY <1>6, <2>2, <3>1, <3>2
  <2>4. s9 = {} => s1 = s6.mtu
    BY DEF Rd!Ind, Rd!Asked
  <2>5. offset + n <= whole
    BY <1>1, <1>3, <1>5, <2>2
  <2>6. ASSUME n < s6.mtu \/ offset + n = CrMax
        PROVE  offset + n = whole
    <3>1. CASE s9 = {}
      BY <1>1, <1>3, <1>5, <2>2, <2>4, <2>6, <3>1
    <3>2. CASE offset = 0 /\ n = 0
      BY <1>1, <1>3, <1>5, <3>2
    <3>3. QED
      BY <2>1, <3>1, <3>2
  <2>7. QED
    BY <1>6, <1>12, <2>3, <2>5, <2>6
<1>14. Rd!Reading'
  BY <1>4, <1>13 DEF Rd!Reading, whole
<1>15. QED
  BY <1>8, <1>9, <1>10, <1>11, <1>14 DEF Rd!Ind, Rd!Carding

LEMMA ReadsOver == Rd!Ind /\ Rd!Over => Rd!Ind'
<1> SUFFICES ASSUME Rd!Ind, Rd!Over PROVE Rd!Ind'
  OBVIOUS
<1>1. s6.does = <<"over", s3>> /\ s3 \in Nat /\ s2 \in Nat
  BY DEF Rd!Ind, Rd!Numbers, Rd!Searches, Rd!Over, Rd!Does, Rd!Idle
<1>2. UNCHANGED <<s1, s2, s4, s5, s8, s9>> /\ s7' = <<>>
  BY DEF Rd!Over
<1>3. s8' = [services |-> Rd!Handles, chars |-> Rd!Declared]
  BY <1>2, ReadsFound DEF Rd!Over
<1>4. /\ s3' \in Nat /\ s6' = [n |-> s6.n, mtu |-> s6.mtu, does |-> s6'.does]
      /\ s6'.mtu = s6.mtu
      /\ s6'.does = <<"read", s3'>> \/ s6'.does = <<"ready">>
  <2>1. CASE Len(s7) = CrMax
    <3>1. Rd!Turns(<<"read", s3'>>) /\ s3' = s3 + CrMax
      BY <1>1, <2>1 DEF Rd!Over
    <3>2. QED
      BY <1>1, <3>1, ReadsTurns, ReadsAssumption
  <2>2. CASE Len(s7) # CrMax
    <3>1. Rd!Turns(<<"ready">>) /\ s3' = s3
      BY <1>1, <2>2 DEF Rd!Over
    <3>2. QED
      BY <1>1, <3>1, ReadsTurns
  <2>3. QED
    BY <2>1, <2>2
<1>5. Rd!Numbers'
  BY <1>2, <1>4 DEF Rd!Ind, Rd!Numbers
<1>6. Rd!Searches'
  BY <1>3, <1>4 DEF Rd!Searches
<1>7. Rd!Asked' /\ Rd!Directory'
  BY <1>2, <1>4 DEF Rd!Asked, Rd!Ind, Rd!Directory, Rd!OneDirectory
<1>8. ~Rd!Does("over")' /\ ~Rd!Does("card")'
  BY <1>4 DEF Rd!Does
<1>9. Rd!Reading'
  <2>1. Rd!Min({CrMax, Rd!Max({0, s2 - s3'})}) >= 0
    <3>1. Rd!Min({CrMax, Rd!Max({0, s2 - s3'})})
            = IF s2 - s3' < 0 THEN 0 ELSE IF s2 - s3' <= CrMax THEN s2 - s3' ELSE CrMax
      BY <1>1, <1>4, ReadsWhole
    <3>2. QED
      BY <1>1, <1>4, <3>1, ReadsAssumption
  <2>2. <<>> = Rd!Places(s3', 0)
    BY DEF Rd!Places
  <2>3. QED
    BY <1>2, <1>8, <2>1, <2>2 DEF Rd!Reading
<1>10. QED
  BY <1>5, <1>6, <1>7, <1>8, <1>9 DEF Rd!Ind, Rd!Carding

\* The mapping changes.
LEMMA ReadsChanges == ASSUME Rd!Ind, NEW l \in CrLens, Rd!Changes(l) PROVE Rd!Ind'
<1>1. UNCHANGED <<s1, s3, s4, s5, s6, s7, s8>> /\ s2' = l /\ l \in Nat
  BY ReadsAssumption DEF Rd!Changes
<1>2. /\ s9' = s9 \cup (IF Rd!Does("read") \/ Rd!Does("over") THEN {"changed"} ELSE {})
      /\ Rd!Does("ready") \/ Rd!Does("read") \/ Rd!Does("over")
  BY DEF Rd!Changes
<1>3. Rd!Numbers'
  BY <1>1, <1>2 DEF Rd!Ind, Rd!Numbers
<1>4. Rd!Searches'
  BY <1>1 DEF Rd!Ind, Rd!Searches
<1>5. Rd!Asked' /\ Rd!Directory'
  BY <1>1, <1>2 DEF Rd!Asked, Rd!Ind, Rd!Directory, Rd!OneDirectory
<1>6. Rd!Reading'
  <2>1. (Rd!Does("read") <=> Rd!Does("read")') /\ (Rd!Does("over") <=> Rd!Does("over")')
    BY <1>1 DEF Rd!Does
  <2>2. Rd!Does("read")' \/ Rd!Does("over")' => "changed" \in s9'
    BY <1>2, <2>1
  <2>3. QED
    BY <2>2 DEF Rd!Reading
<1>7. Rd!Carding'
  BY <1>1, <1>2 DEF Rd!Carding, Rd!Does
<1>8. QED
  BY <1>3, <1>4, <1>5, <1>6, <1>7 DEF Rd!Ind

LEMMA ReadsSeek == ASSUME Rd!Ind, NEW at \in {0, CrBlock}, Rd!McSeek(at) PROVE Rd!Ind'
<1>1. /\ s6' = [n |-> s6.n, mtu |-> s6.mtu, does |-> <<"card", at>>]
      /\ s6'.does = <<"card", at>> /\ s6'.mtu = s6.mtu /\ s4' = at /\ at \in Nat
      /\ s7' = <<>> /\ UNCHANGED <<s1, s2, s3, s5, s8, s9>>
  BY ReadsTurns, ReadsAssumption DEF Rd!McSeek
<1>2. Rd!Numbers'
  BY <1>1 DEF Rd!Ind, Rd!Numbers
<1>3. Rd!Searches'
  BY <1>1, ReadsFound DEF Rd!Searches, Rd!McSeek
<1>4. ~Rd!Does("over")' /\ ~Rd!Does("read")'
  BY <1>1 DEF Rd!Does
<1>5. Rd!Asked' /\ Rd!Directory'
  BY <1>1 DEF Rd!Asked, Rd!Ind, Rd!Directory, Rd!OneDirectory
<1>6. Rd!Carding'
  <2>1. <<>> = Rd!Places(at, 0)
    BY DEF Rd!Places
  <2>2. Len(s6'.does) = 2 /\ s6'.does[2] = at /\ Len(s7') = 0
    BY <1>1
  <2>3. QED
    BY <1>1, <2>1, <2>2 DEF Rd!Carding
<1>7. QED
  BY <1>2, <1>3, <1>4, <1>5, <1>6 DEF Rd!Ind, Rd!Reading

\* An answer of the card does not reach into the next block, nor is it the longest there could be.
LEMMA ReadsCardLen ==
  ASSUME Rd!Ind
  PROVE  Rd!CardLen(s4) \in 1..(CrBlock - (s4 % CrBlock)) /\ Rd!CardLen(s4) < s1
<1>1. s4 \in Nat /\ s1 \in Nat /\ s1 >= 4 /\ CrWord \in 1..3 /\ CrBlock \in Nat \ {0}
  BY ReadsAssumption DEF Rd!Ind, Rd!Numbers, Rd!Shortest
<1>2. s4 % CrBlock \in 0..(CrBlock - 1)
  BY <1>1
<1>3. (s1 - 1) % CrWord \in 0..(CrWord - 1)
  BY <1>1
<1>4. QED
  BY <1>1, <1>2, <1>3 DEF Rd!CardLen

LEMMA ReadsCard == Rd!Ind /\ Rd!McRead => Rd!Ind'
<1> SUFFICES ASSUME Rd!Ind, Rd!McRead PROVE Rd!Ind'
  OBVIOUS
<1> DEFINE n == Rd!CardLen(s4)
<1>1. PICK at \in {0, CrBlock} :
        s6.does = <<"card", at>> \/ \E k \in 1..CrBlock : s6.does = <<"card", at, k>>
  BY DEF Rd!Ind, Rd!Searches, Rd!McRead, Rd!Does, Rd!Idle
<1>2. s6.does[2] = at /\ at \in Nat
  BY <1>1, ReadsAssumption
<1>3. /\ s4 \in Nat /\ s1 \in Nat /\ s6.mtu \in Nat /\ CrBlock \in Nat \ {0} /\ s7 \in Seq(Nat)
  BY ReadsAssumption DEF Rd!Ind, Rd!Numbers
<1>4. n \in 1..(CrBlock - (s4 % CrBlock)) /\ n < s1
  BY ReadsCardLen
<1>5. n \in 1..CrBlock
  <2>1. s4 % CrBlock >= 0
    BY <1>3
  <2> HIDE DEF n
  <2>2. s4 % CrBlock \in Int
    BY <1>3
  <2>3. QED
    BY <1>3, <1>4, <2>1, <2>2
<1>6. Rd!Turns(<<"card", at, n>>) /\ s7' = s7 \o Rd!Places(s4, n) /\ s4' = s4 + n
      /\ UNCHANGED <<s1, s2, s3, s5, s8, s9>>
  BY <1>2 DEF Rd!McRead
<1> HIDE DEF n
<1>7. /\ s6' = [n |-> s6.n, mtu |-> s6.mtu, does |-> <<"card", at, n>>]
      /\ s6'.does = <<"card", at, n>> /\ s6'.mtu = s6.mtu
  BY <1>6, ReadsTurns
<1>8. s4 = at + Len(s7) /\ s7 = Rd!Places(at, Len(s7))
  BY <1>2 DEF Rd!Ind, Rd!Carding, Rd!McRead
<1>9. s7' = Rd!Places(at, Len(s7) + n) /\ s7' \in Seq(Nat) /\ Len(s7') = Len(s7) + n
  <2>0. Len(s7) \in Nat /\ n \in Nat
    BY <1>3, <1>5
  <2>1. Rd!Places(at, Len(s7)) \o Rd!Places(at + Len(s7), n) = Rd!Places(at, Len(s7) + n)
    BY <1>2, <2>0, ReadsPlaces
  <2>2. s7' = Rd!Places(at, Len(s7) + n)
    BY <1>6, <1>8, <2>1
  <2>3. Len(s7) + n \in Nat
    BY <1>3, <1>5
  <2>4. QED
    BY <1>2, <2>2, <2>3, ReadsPlaces
<1>10. Rd!Numbers'
  BY <1>3, <1>5, <1>6, <1>7, <1>9 DEF Rd!Ind, Rd!Numbers
<1>11. Rd!Searches'
  <2>1. s8' = [services |-> Rd!Handles, chars |-> Rd!Declared]
    BY <1>6, ReadsFound DEF Rd!McRead
  <2>2. QED
    BY <1>5, <1>7, <2>1 DEF Rd!Searches
<1>12. ~Rd!Does("over")' /\ ~Rd!Does("read")'
  BY <1>7 DEF Rd!Does
<1>13. Rd!Asked' /\ Rd!Directory'
  BY <1>6, <1>7 DEF Rd!Asked, Rd!Ind, Rd!Directory, Rd!OneDirectory
<1>14. Rd!Carding'
  <2>1. s4 \div CrBlock = (s4 + n - 1) \div CrBlock
    BY <1>3, <1>4, ReadsBlock
  <2>2. s4' - n = s4 /\ s4' - 1 = s4 + n - 1 /\ s4' = at + Len(s7')
    <3>1. s4' = s4 + n /\ n \in Int /\ Len(s7) \in Nat
      BY <1>3, <1>5, <1>6
    <3>2. s4' - n = s4 /\ s4' - 1 = s4 + n - 1
      BY <1>3, <3>1
    <3>3. at + Len(s7) + n = at + (Len(s7) + n)
      BY <1>2, <3>1
    <3>4. QED
      BY <1>8, <1>9, <3>1, <3>2, <3>3
  <2>3. s6'.does[2] = at /\ s6'.does[3] = n
    BY <1>7
  <2>4. s7' # <<>>
    <3>1. Len(s7) + n > 0
      BY <1>3, <1>5
    <3>2. QED
      BY <1>9, <3>1
  <2>5. "mtu" \notin s9' => n < s6'.mtu
    BY <1>4, <1>6, <1>7 DEF Rd!Ind, Rd!Asked
  <2>6. QED
    BY <1>9, <2>1, <2>2, <2>3, <2>4, <2>5, <1>6 DEF Rd!Carding
<1>15. QED
  BY <1>10, <1>11, <1>12, <1>13, <1>14 DEF Rd!Ind, Rd!Reading

LEMMA ReadsCardEnd == Rd!Ind /\ Rd!McEnd => Rd!Ind'
<1> SUFFICES ASSUME Rd!Ind, Rd!McEnd PROVE Rd!Ind'
  OBVIOUS
<1>1. /\ s6' = [n |-> s6.n, mtu |-> s6.mtu, does |-> <<"ready">>]
      /\ s6'.does = <<"ready">> /\ s6'.mtu = s6.mtu /\ s7' = <<>>
      /\ UNCHANGED <<s1, s2, s3, s4, s5, s8, s9>>
  BY ReadsTurns DEF Rd!McEnd
<1>2. Rd!Numbers'
  BY <1>1 DEF Rd!Ind, Rd!Numbers
<1>3. Rd!Searches'
  BY <1>1, ReadsFound DEF Rd!Searches, Rd!McEnd
<1>4. ~Rd!Does("read")' /\ ~Rd!Does("over")' /\ ~Rd!Does("card")'
  BY <1>1 DEF Rd!Does
<1>5. Rd!Asked' /\ Rd!Directory'
  BY <1>1 DEF Rd!Asked, Rd!Ind, Rd!Directory, Rd!OneDirectory
<1>6. QED
  BY <1>2, <1>3, <1>4, <1>5 DEF Rd!Ind, Rd!Reading, Rd!Carding

\* The directory.
LEMMA ReadsClosed ==
  ASSUME Rd!Directory, s5.bad = {}
  PROVE  /\ Rd!Closed(s5) = [open |-> 0, d |-> Rd!Closed(s5).d, bad |-> Rd!Closed(s5).bad,
              ended |-> s5.ended]
         /\ Rd!Closed(s5).open = 0 /\ Rd!Closed(s5).ended = s5.ended
         /\ Rd!Closed(s5).d \in {"null", "stale"}
         /\ Rd!Closed(s5).bad = IF s5.d = "stale" THEN {"closed"} ELSE {}
<1>1. /\ s5 = [open |-> s5.open, d |-> s5.d, bad |-> {}, ended |-> s5.ended]
      /\ s5.d \in {"null", "good", "stale"} /\ s5.open \in 0..1 /\ (s5.open = 1 <=> s5.d = "good")
  BY DEF Rd!Directory, Rd!OneDirectory
<1>2. CASE s5.d = "null"
  BY <1>1, <1>2 DEF Rd!Closed
<1>3. CASE s5.d = "good"
  <2>1. Rd!Closed(s5) = [s5 EXCEPT !.open = @ - 1, !.d = "stale"]
    BY <1>3 DEF Rd!Closed
  <2>2. s5.open - 1 = 0
    BY <1>1, <1>3
  <2>3. QED
    BY <1>1, <1>3, <2>1, <2>2
<1>4. CASE s5.d = "stale"
  <2>1. Rd!Closed(s5) = [s5 EXCEPT !.bad = @ \cup {"closed"}]
    BY <1>4 DEF Rd!Closed
  <2>2. QED
    BY <1>1, <1>4, <2>1
<1>5. QED
  BY <1>1, <1>2, <1>3, <1>4

LEMMA ReadsDirectory ==
  ASSUME Rd!Ind, Rd!OpenDir(TRUE) \/ Rd!OpenDir(FALSE) \/ Rd!CloseDir \/ Rd!GetFile
  PROVE  Rd!Ind'
<1>1. /\ s5.bad = {} /\ UNCHANGED <<s1, s2, s3, s4, s6, s7, s8, s9>>
  BY DEF Rd!OpenDir, Rd!CloseDir, Rd!GetFile, Rd!Known
<1>2. Rd!Numbers' /\ Rd!Searches' /\ Rd!Asked'
  BY <1>1 DEF Rd!Ind, Rd!Numbers, Rd!Searches, Rd!Asked
<1>3. Rd!Reading' /\ Rd!Carding'
  BY <1>1 DEF Rd!Ind, Rd!Reading, Rd!Carding, Rd!Does
<1>4. Rd!Directory'
  <2>1. /\ Rd!Closed(s5) = [open |-> 0, d |-> Rd!Closed(s5).d, bad |-> Rd!Closed(s5).bad,
             ended |-> s5.ended]
        /\ Rd!Closed(s5).open = 0 /\ Rd!Closed(s5).ended = s5.ended
        /\ Rd!Closed(s5).d \in {"null", "stale"}
        /\ Rd!Closed(s5).bad = IF s5.d = "stale" THEN {"closed"} ELSE {}
    BY <1>1, ReadsClosed DEF Rd!Ind
  <2>2. /\ s5.d \in {"null", "good", "stale"} /\ s5.open \in 0..1 /\
             (s5.open = 1 <=> s5.d = "good")
        /\ s5.ended \in BOOLEAN /\ (s5.d = "stale" => s5.ended)
        /\ s5 = [open |-> s5.open, d |-> s5.d, bad |-> {}, ended |-> s5.ended]
    BY <1>1 DEF Rd!Ind, Rd!Directory, Rd!OneDirectory
  <2>3. CASE Rd!OpenDir(TRUE)
    <3>1. s5' = [open |-> 1, d |-> "good", bad |-> Rd!Closed(s5).bad, ended |-> s5.ended]
      BY <2>1, <2>3 DEF Rd!OpenDir
    <3>2. QED
      BY <2>1, <2>2, <3>1 DEF Rd!Directory, Rd!OneDirectory
  <2>4. CASE Rd!OpenDir(FALSE)
    <3>1. s5' = [open |-> 0, d |-> "null", bad |-> Rd!Closed(s5).bad, ended |-> s5.ended]
      BY <2>1, <2>4 DEF Rd!OpenDir
    <3>2. QED
      BY <2>1, <2>2, <3>1 DEF Rd!Directory, Rd!OneDirectory
  <2>5. CASE Rd!CloseDir
    <3>1. s5' = [open |-> 0, d |-> Rd!Closed(s5).d, bad |-> Rd!Closed(s5).bad, ended |-> TRUE]
      BY <2>1, <2>5 DEF Rd!CloseDir
    <3>2. QED
      BY <2>1, <2>2, <3>1 DEF Rd!Directory, Rd!OneDirectory
  <2>6. CASE Rd!GetFile
    <3>1. s5' = IF s5.d = "good" THEN s5 ELSE [s5 EXCEPT !.bad = @ \cup {"read"}]
      BY <2>6 DEF Rd!GetFile
    <3>2. s5' = [open |-> s5.open, d |-> s5.d, bad |-> IF s5.d = "good" THEN {} ELSE {"read"},
          ended |-> s5.ended]
      BY <2>2, <3>1
    <3>3. QED
      BY <2>2, <3>2 DEF Rd!Directory, Rd!OneDirectory
  <2>7. QED
    BY <2>3, <2>4, <2>5, <2>6
<1>5. QED
  BY <1>2, <1>3, <1>4 DEF Rd!Ind

\* The client goes on behind the last service of the answer.
LEMMA ReadsServices == Rd!Ind /\ Rd!FindServices => Rd!Ind'
<1> SUFFICES ASSUME Rd!Ind, Rd!FindServices PROVE Rd!Ind'
  OBVIOUS
<1> USE DEF Rd!GATT_GRP, Rd!GATT_LAST, Rd!GAP_GRP, Rd!GAP_PPCP, Rd!BR_GRP, Rd!LAST
<1>1. PICK k \in {1, 27, 89} :
        /\ s6.does = <<"services", k>>
        /\ s8 = [services |-> {h \in Rd!Handles : h[1] < k}, chars |-> {}]
  BY DEF Rd!Ind, Rd!Searches, Rd!FindServices, Rd!Does, Rd!Idle
<1>2. UNCHANGED <<s1, s2, s3, s4, s5, s7, s9>>
  BY DEF Rd!FindServices
<1>3. Rd!Handles = {<<1, 3>>, <<20, 26>>, <<64, 88>>}
  BY DEF Rd!Handles
<1>4. CASE k = 1
  <2>1. Rd!Groups(1) = {<<1, 3>>, <<20, 26>>}
    BY <1>3 DEF Rd!Groups
  <2>2. Rd!Max({g[2] : g \in Rd!Groups(1)}) = 26
    <3>1. \A g \in Rd!Groups(1) : g[2] \in {3, 26}
      BY <2>1
    <3>2. <<20, 26>> \in Rd!Groups(1) /\ <<20, 26>>[2] = 26
      BY <2>1
    <3>3. 26 \in {g[2] : g \in Rd!Groups(1)}
      BY <3>2
    <3>4. {g[2] : g \in Rd!Groups(1)} \in SUBSET Int /\
          \A m \in {g[2] : g \in Rd!Groups(1)} : m <= 26
      BY <3>1
    <3> DEFINE M == {g[2] : g \in Rd!Groups(1)}
    <3> HIDE DEF M
    <3>5. 26 \in M /\ M \in SUBSET Int /\ \A m \in M : m <= 26
      BY <3>3, <3>4 DEF M
    <3>6. Rd!Max(M) = 26
      BY <3>5, ReadsMax
    <3>7. QED
      BY <3>6 DEF M
  <2>3. Rd!Turns(<<"services", 27>>) /\ s8' = [s8 EXCEPT !.services = @ \cup Rd!Groups(1)]
    <3>1. s6.does[2] = 1
      BY <1>1, <1>4
    <3>2. <<1, 3>> \in Rd!Groups(1)
      BY <2>1
    <3>3. Rd!Groups(1) # {}
      BY <3>2
    <3> DEFINE next == Rd!Max({g[2] : g \in Rd!Groups(s6.does[2])})
    <3>4. /\ Rd!Turns(<<"services", next + 1>>)
          /\ s8' = [s8 EXCEPT !.services = @ \cup Rd!Groups(s6.does[2])]
      BY <3>1, <3>3 DEF Rd!FindServices
    <3> HIDE DEF next
    <3>5. next + 1 = 27
      BY <2>2, <3>1 DEF next
    <3>6. QED
      BY <3>1, <3>4, <3>5
  <2>4. {h \in Rd!Handles : h[1] < 1} \cup Rd!Groups(1) = {h \in Rd!Handles : h[1] < 27}
    BY <1>3, <2>1
  <2>5. s8' = [services |-> {h \in Rd!Handles : h[1] < 27}, chars |-> {}]
    BY <1>1, <1>4, <2>3, <2>4
  <2>6. s6'.does = <<"services", 27>>
    BY <2>3, ReadsTurns
  <2>7. Rd!Searches'
    BY <2>5, <2>6 DEF Rd!Searches
  <2>8. QED
    BY <1>2, <2>3, <2>6, <2>7, ReadsTurns
       DEF Rd!Ind, Rd!Numbers, Rd!Asked, Rd!Reading, Rd!Carding, Rd!Directory, Rd!OneDirectory,
       Rd!Does
<1>5. CASE k = 27
  <2>1. Rd!Groups(27) = {<<64, 88>>}
    BY <1>3 DEF Rd!Groups
  <2>2. Rd!Max({g[2] : g \in Rd!Groups(27)}) = 88
    <3>1. \A g \in Rd!Groups(27) : g[2] = 88
      BY <2>1
    <3>2. <<64, 88>> \in Rd!Groups(27) /\ <<64, 88>>[2] = 88
      BY <2>1
    <3>3. 88 \in {g[2] : g \in Rd!Groups(27)}
      BY <3>2
    <3>4. {g[2] : g \in Rd!Groups(27)} \in SUBSET Int /\
          \A m \in {g[2] : g \in Rd!Groups(27)} : m <= 88
      BY <3>1
    <3> DEFINE M == {g[2] : g \in Rd!Groups(27)}
    <3> HIDE DEF M
    <3>5. 88 \in M /\ M \in SUBSET Int /\ \A m \in M : m <= 88
      BY <3>3, <3>4 DEF M
    <3>6. Rd!Max(M) = 88
      BY <3>5, ReadsMax
    <3>7. QED
      BY <3>6 DEF M
  <2>3. Rd!Turns(<<"services", 89>>) /\ s8' = [s8 EXCEPT !.services = @ \cup Rd!Groups(27)]
    <3>1. s6.does[2] = 27
      BY <1>1, <1>5
    <3>2. <<64, 88>> \in Rd!Groups(27)
      BY <2>1
    <3>3. Rd!Groups(27) # {}
      BY <3>2
    <3> DEFINE next == Rd!Max({g[2] : g \in Rd!Groups(s6.does[2])})
    <3>4. /\ Rd!Turns(<<"services", next + 1>>)
          /\ s8' = [s8 EXCEPT !.services = @ \cup Rd!Groups(s6.does[2])]
      BY <3>1, <3>3 DEF Rd!FindServices
    <3> HIDE DEF next
    <3>5. next + 1 = 89
      BY <2>2, <3>1 DEF next
    <3>6. QED
      BY <3>1, <3>4, <3>5
  <2>4. {h \in Rd!Handles : h[1] < 27} \cup Rd!Groups(27) = {h \in Rd!Handles : h[1] < 89}
    BY <1>3, <2>1
  <2>5. s8' = [services |-> {h \in Rd!Handles : h[1] < 89}, chars |-> {}]
    BY <1>1, <1>5, <2>3, <2>4
  <2>6. s6'.does = <<"services", 89>>
    BY <2>3, ReadsTurns
  <2>7. Rd!Searches'
    BY <2>5, <2>6 DEF Rd!Searches
  <2>8. QED
    BY <1>2, <2>3, <2>6, <2>7, ReadsTurns
       DEF Rd!Ind, Rd!Numbers, Rd!Asked, Rd!Reading, Rd!Carding, Rd!Directory, Rd!OneDirectory,
       Rd!Does
<1>6. CASE k = 89
  <2>1. Rd!Groups(89) = {}
    BY DEF Rd!Groups
  <2>2. Rd!Turns(<<"chars", Rd!Handles>>) /\ s8' = s8
    BY <1>1, <1>6, <2>1 DEF Rd!FindServices
  <2>3. s8' = [services |-> Rd!Handles, chars |-> {c \in Rd!Declared : c < 1}]
    <3>1. {h \in Rd!Handles : h[1] < 89} = Rd!Handles
      BY <1>3
    <3>2. {c \in Rd!Declared : c < 1} = {}
      BY DEF Rd!Declared
    <3>3. QED
      BY <1>1, <1>6, <2>2, <3>1, <3>2
  <2>4. Rd!Handles = {<<1, 3>>} \cup {h \in Rd!Handles : h[1] > 1}
    BY <1>3
  <2>5. <<1, 3>> \in Rd!Handles /\ 1 \in 1..3 /\ <<1, 3>>[1] = 1 /\ <<1, 3>>[2] = 3
    BY <1>3
  <2>6. s6'.does = <<"chars", {<<1, 3>>} \cup {h \in Rd!Handles : h[1] > 1}>>
    BY <2>2, <2>4, ReadsTurns
  <2>7. Rd!Searches'
    BY <2>3, <2>5, <2>6 DEF Rd!Searches
  <2>8. QED
    BY <1>2, <2>2, <2>7, ReadsTurns
       DEF Rd!Ind, Rd!Numbers, Rd!Asked, Rd!Reading, Rd!Carding, Rd!Directory, Rd!OneDirectory,
       Rd!Does
<1>7. QED
  BY <1>1, <1>4, <1>5, <1>6

\* Handle k of group g is asked from, and the later groups remain.
LEMMA ReadsNext ==
  ASSUME NEW g \in Rd!Handles, NEW k \in g[1]..g[2]
  PROVE  LET S == {<<k, g[2]>>} \cup {h \in Rd!Handles : h[1] > k} IN
         /\ (CHOOSE x \in S : \A y \in S : x[1] <= y[1]) = <<k, g[2]>>
         /\ S \ {<<k, g[2]>>} = {h \in Rd!Handles : h[1] > k}
         /\ k \in Nat
<1> DEFINE S == {<<k, g[2]>>} \cup {h \in Rd!Handles : h[1] > k}
<1>1. \A h \in Rd!Handles : h[1] \in Nat /\ h[2] \in Nat
  BY DEF Rd!Handles, Rd!GATT_GRP, Rd!GATT_LAST, Rd!GAP_GRP, Rd!GAP_PPCP, Rd!BR_GRP, Rd!LAST
<1>2. k \in Nat
  BY <1>1
<1>3. \A x \in S : x = <<k, g[2]>> \/ x[1] > k
  OBVIOUS
<1>4. \A y \in S : <<k, g[2]>>[1] <= y[1]
  BY <1>1, <1>2
<1>5. \A x \in S : (\A y \in S : x[1] <= y[1]) => x = <<k, g[2]>>
  <2>1. SUFFICES ASSUME NEW x \in S, \A y \in S : x[1] <= y[1], x # <<k, g[2]>> PROVE FALSE
    OBVIOUS
  <2>2. <<k, g[2]>> \in S
    OBVIOUS
  <2>3. x[1] <= k
    BY <2>1, <2>2
  <2>4. x[1] > k /\ x[1] \in Nat
    BY <1>1, <2>1
  <2>5. QED
    BY <1>2, <2>3, <2>4
<1>6. <<k, g[2]>> \in S
  OBVIOUS
<1>7. (CHOOSE x \in S : \A y \in S : x[1] <= y[1]) = <<k, g[2]>>
  <2> HIDE DEF S
  <2>1. QED
    BY <1>4, <1>5, <1>6
<1>8. S \ {<<k, g[2]>>} = {h \in Rd!Handles : h[1] > k}
  BY <1>1, <1>2
<1>9. QED
  BY <1>2, <1>7, <1>8

\* The handles a group declares, and how far an answer gets.
LEMMA ReadsChars ==
  ASSUME NEW g \in Rd!Handles, NEW k \in g[1]..g[2]
  PROVE  \/ /\ k = g[2] /\ Rd!Chars(k, g[2]) = {}
         \/ /\ k < g[2] /\ Rd!Chars(k, g[2]) # {}
            /\ \E m \in k..(g[2] - 1) :
                 /\ Rd!Max(Rd!Chars(k, g[2])) = m
                 /\ {c \in Rd!Declared : c < k} \cup Rd!Chars(k,
                      g[2]) = {c \in Rd!Declared : c < m + 1}
                 /\ \A h \in Rd!Handles : h[1] > k <=> h[1] > m + 1
<1> USE DEF Rd!GATT_GRP, Rd!GATT_LAST, Rd!GAP_GRP, Rd!GAP_PPCP, Rd!BR_GRP, Rd!LAST
<1>1. Rd!Handles = {<<1, 3>>, <<20, 26>>, <<64, 88>>}
  BY DEF Rd!Handles
<1>2. Rd!Declared = {2, 21, 23, 25, 65, 67, 69, 71, 73, 75, 77, 79, 81, 83, 85, 87}
  BY DEF Rd!Declared
<1>3. CASE g = <<1, 3>>
  <2>1. g[1] = 1 /\ g[2] = 3 /\ k \in 1..3
    BY <1>3
  <2>2. CASE k = 3
    BY <2>1, <2>2 DEF Rd!Chars
  <2>3. CASE k # 3
    <3>1. Rd!Chars(k, g[2]) = {2}
      BY <2>1, <2>3 DEF Rd!Chars
    <3>2. Rd!Max({2}) = 2
      BY ReadsMax
    <3>3. {c \in Rd!Declared : c < k} \cup {2} = {c \in Rd!Declared : c < 3}
      BY <1>2, <2>1, <2>3
    <3>4. \A h \in Rd!Handles : h[1] > k <=> h[1] > 3
      BY <1>1, <2>1
    <3>5. QED
      BY <2>1, <2>3, <3>1, <3>2, <3>3, <3>4
  <2>4. QED
    BY <2>2, <2>3
<1>4. CASE g = <<20, 26>>
  <2>1. g[1] = 20 /\ g[2] = 26 /\ k \in 20..26
    BY <1>4
  <2>2. CASE k = 26
    BY <2>1, <2>2 DEF Rd!Chars
  <2>3. CASE k # 26
    <3>1. Rd!Chars(k, g[2]) = {21, 23, 25}
      BY <2>1, <2>3 DEF Rd!Chars
    <3>2. Rd!Max({21, 23, 25}) = 25
      BY ReadsMax
    <3>3. {c \in Rd!Declared : c < k} \cup {21, 23, 25} = {c \in Rd!Declared : c < 26}
      BY <1>2, <2>1, <2>3
    <3>4. \A h \in Rd!Handles : h[1] > k <=> h[1] > 26
      BY <1>1, <2>1
    <3>5. QED
      BY <2>1, <2>3, <3>1, <3>2, <3>3, <3>4
  <2>4. QED
    BY <2>2, <2>3
<1>5. CASE g = <<64, 88>>
  <2>1. g[1] = 64 /\ g[2] = 88 /\ k \in 64..88
    BY <1>5
  <2>2. CASE k = 88
    BY <2>1, <2>2 DEF Rd!Chars
  <2>3. CASE k # 88
    <3>1. Rd!Chars(k, g[2]) = {Rd!Odd(k)}
      BY <2>1, <2>3 DEF Rd!Chars
    <3>2. /\ Rd!Odd(k) \in k..87 /\ Rd!Odd(k) \in Rd!Declared
          /\ \A c \in Rd!Declared : c < Rd!Odd(k) => c < k
      BY <1>2, <2>1, <2>3 DEF Rd!Odd
    <3>3. Rd!Max({Rd!Odd(k)}) = Rd!Odd(k)
      <4>1. Rd!Odd(k) \in Int
        BY <2>1, <3>2
      <4> HIDE DEF Rd!Odd
      <4>2. \A x \in {Rd!Odd(k)} : x <= Rd!Odd(k)
        BY <4>1
      <4>3. QED
        BY <4>1, <4>2, ReadsMax
    <3>4. {c \in Rd!Declared : c < k} \cup {Rd!Odd(k)} = {c \in Rd!Declared : c < Rd!Odd(k) + 1}
      <4>1. \A c \in Rd!Declared : c \in Int
        BY <1>2
      <4>2. QED
        BY <2>1, <3>2, <4>1
    <3>5. \A h \in Rd!Handles : h[1] > k <=> h[1] > Rd!Odd(k) + 1
      BY <1>1, <2>1, <3>2
    <3>6. Rd!Odd(k) \in k..(g[2] - 1) /\ k < g[2]
      BY <2>1, <2>3, <3>2
    <3> HIDE DEF Rd!Odd
    <3>7. Rd!Chars(k, g[2]) # {}
      BY <3>1
    <3>8. Rd!Max(Rd!Chars(k, g[2])) = Rd!Odd(k)
      BY <3>1, <3>3
    <3>9. {c \in Rd!Declared : c < k} \cup Rd!Chars(k,
          g[2]) = {c \in Rd!Declared : c < Rd!Odd(k) + 1}
      BY <3>1, <3>4
    <3>10. QED
      BY <3>5, <3>6, <3>7, <3>8, <3>9
  <2>4. QED
    BY <2>2, <2>3
<1>6. QED
  BY <1>1, <1>3, <1>4, <1>5

\* A group that is done with: the next one, or none.
LEMMA ReadsLater ==
  ASSUME NEW g \in Rd!Handles
  PROVE  \/ /\ {h \in Rd!Handles : h[1] > g[2]} = {} /\
              {c \in Rd!Declared : c < g[2]} = Rd!Declared
         \/ \E f \in Rd!Handles :
              /\ f[1] \in f[1]..f[2] /\ f = <<f[1], f[2]>>
              /\ {h \in Rd!Handles : h[1] > g[2]} = {<<f[1], f[2]>>}
                   \cup {h \in Rd!Handles : h[1] > f[1]}
              /\ {c \in Rd!Declared : c < g[2]} = {c \in Rd!Declared : c < f[1]}
<1> USE DEF Rd!GATT_GRP, Rd!GATT_LAST, Rd!GAP_GRP, Rd!GAP_PPCP, Rd!BR_GRP, Rd!LAST
<1>1. Rd!Handles = {<<1, 3>>, <<20, 26>>, <<64, 88>>}
  BY DEF Rd!Handles
<1>2. Rd!Declared = {2, 21, 23, 25, 65, 67, 69, 71, 73, 75, 77, 79, 81, 83, 85, 87}
  BY DEF Rd!Declared
<1>3. CASE g = <<1, 3>>
  <2> DEFINE f == <<20, 26>>
  <2>1. {h \in Rd!Handles : h[1] > g[2]} = {<<f[1], f[2]>>} \cup {h \in Rd!Handles : h[1] > f[1]}
    BY <1>1, <1>3
  <2>2. {c \in Rd!Declared : c < g[2]} = {c \in Rd!Declared : c < f[1]}
    BY <1>2, <1>3
  <2>3. f \in Rd!Handles /\ f[1] \in f[1]..f[2] /\ f = <<f[1], f[2]>>
    BY <1>1
  <2> HIDE DEF f
  <2>4. QED
    BY <2>1, <2>2, <2>3
<1>4. CASE g = <<20, 26>>
  <2> DEFINE f == <<64, 88>>
  <2>1. {h \in Rd!Handles : h[1] > g[2]} = {<<f[1], f[2]>>} \cup {h \in Rd!Handles : h[1] > f[1]}
    BY <1>1, <1>4
  <2>2. {c \in Rd!Declared : c < g[2]} = {c \in Rd!Declared : c < f[1]}
    BY <1>2, <1>4
  <2>3. f \in Rd!Handles /\ f[1] \in f[1]..f[2] /\ f = <<f[1], f[2]>>
    BY <1>1
  <2> HIDE DEF f
  <2>4. QED
    BY <2>1, <2>2, <2>3
<1>5. CASE g = <<64, 88>>
  <2>1. {h \in Rd!Handles : h[1] > g[2]} = {}
    BY <1>1, <1>5
  <2>2. {c \in Rd!Declared : c < g[2]} = Rd!Declared
    BY <1>2, <1>5
  <2>3. QED
    BY <2>1, <2>2
<1>6. QED
  BY <1>1, <1>3, <1>4, <1>5

\* The client goes on behind the last characteristic of the answer, or with the next service.
LEMMA ReadsCharacteristics == Rd!Ind /\ Rd!FindChars => Rd!Ind'
<1> SUFFICES ASSUME Rd!Ind, Rd!FindChars PROVE Rd!Ind'
  OBVIOUS
<1>1. PICK g \in Rd!Handles : \E k \in g[1]..g[2] :
        /\ s6.does = <<"chars", {<<k, g[2]>>} \cup {h \in Rd!Handles : h[1] > k}>>
        /\ s8 = [services |-> Rd!Handles, chars |-> {c \in Rd!Declared : c < k}]
  BY DEF Rd!Ind, Rd!Searches, Rd!FindChars, Rd!Does, Rd!Idle
<1>2. PICK k \in g[1]..g[2] :
        /\ s6.does = <<"chars", {<<k, g[2]>>} \cup {h \in Rd!Handles : h[1] > k}>>
        /\ s8 = [services |-> Rd!Handles, chars |-> {c \in Rd!Declared : c < k}]
  BY <1>1
<1> DEFINE S == {<<k, g[2]>>} \cup {h \in Rd!Handles : h[1] > k}
           later == {h \in Rd!Handles : h[1] > k}
           got == Rd!Chars(k, g[2])
<1>3. /\ (CHOOSE x \in S : \A y \in S : x[1] <= y[1]) = <<k, g[2]>>
      /\ S \ {<<k, g[2]>>} = later
      /\ k \in Nat
  BY ReadsNext
<1>4. s6.does[2] = S
  BY <1>2
<1>5. /\ s8' = [s8 EXCEPT !.chars = @ \cup got]
      /\ Rd!Turns(IF got # {} THEN <<"chars", later \cup {<<Rd!Max(got) + 1, g[2]>>}>>
               ELSE IF later # {} THEN <<"chars", later>> ELSE <<"ready">>)
      /\ UNCHANGED <<s1, s2, s3, s4, s5, s7, s9>>
  <2> DEFINE c == CHOOSE x \in S : \A y \in S : x[1] <= y[1]
  <2>1. /\ s8' = [s8 EXCEPT !.chars = @ \cup Rd!Chars(c[1], c[2])]
        /\ Rd!Turns(IF Rd!Chars(c[1], c[2]) # {} THEN <<"chars", (S \ {c})
             \cup {<<Rd!Max(Rd!Chars(c[1], c[2])) + 1, c[2]>>}>>
                 ELSE IF S \ {c} # {} THEN <<"chars", S \ {c}>> ELSE <<"ready">>)
    <3> HIDE DEF S
    <3>1. QED
      BY <1>4 DEF Rd!FindChars
  <2>2. c = <<k, g[2]>>
    BY <1>3
  <2>a. c[1] = k /\ c[2] = g[2]
    <3> HIDE DEF c
    <3>1. QED
      BY <2>2
  <2>b. S \ {c} = later
    <3> HIDE DEF c
    <3>1. QED
      BY <1>3, <2>2
  <2> HIDE DEF c, S, later
  <2>3. QED
    BY <2>1, <2>a, <2>b DEF Rd!FindChars
<1>6. s8' = [services |-> Rd!Handles, chars |-> {c \in Rd!Declared : c < k} \cup got]
  BY <1>2, <1>5
<1>7. Rd!Searches' /\ ~Rd!Does("read")' /\ ~Rd!Does("over")' /\ ~Rd!Does("card")'
  <2>1. CASE k = g[2] /\ got = {}
    <3>1. s8' = [services |-> Rd!Handles, chars |-> {c \in Rd!Declared : c < g[2]}]
      BY <1>6, <2>1
    <3>2. CASE later = {} /\ {c \in Rd!Declared : c < g[2]} = Rd!Declared
      <4>1. s6'.does = <<"ready">>
        BY <1>5, <2>1, <3>2, ReadsTurns
      <4>2. QED
        BY <3>1, <3>2, <4>1 DEF Rd!Searches, Rd!Does
    <3>3. ASSUME NEW f \in Rd!Handles, f[1] \in f[1]..f[2],
                 later = {<<f[1], f[2]>>} \cup {h \in Rd!Handles : h[1] > f[1]},
                 {c \in Rd!Declared : c < g[2]} = {c \in Rd!Declared : c < f[1]}
          PROVE  Rd!Searches' /\ ~Rd!Does("read")' /\ ~Rd!Does("over")' /\ ~Rd!Does("card")'
      <4>1. later # {}
        BY <3>3
      <4>2. s6'.does = <<"chars", later>>
        BY <1>5, <2>1, <4>1, ReadsTurns
      <4>3. s6'.does = <<"chars", {<<f[1], f[2]>>} \cup {h \in Rd!Handles : h[1] > f[1]}>>
        BY <3>3, <4>2
      <4>4. s8' = [services |-> Rd!Handles, chars |-> {c \in Rd!Declared : c < f[1]}]
        BY <3>1, <3>3
      <4>5. Rd!Searches'
        BY <3>3, <4>3, <4>4 DEF Rd!Searches
      <4>6. QED
        BY <4>3, <4>5 DEF Rd!Does
    <3>4. QED
      BY <2>1, <3>2, <3>3, ReadsLater
  <2>2. ASSUME NEW m \in k..(g[2] - 1), got # {}, Rd!Max(got) = m,
               {c \in Rd!Declared : c < k} \cup got = {c \in Rd!Declared : c < m + 1},
               \A h \in Rd!Handles : h[1] > k <=> h[1] > m + 1
        PROVE  Rd!Searches' /\ ~Rd!Does("read")' /\ ~Rd!Does("over")' /\ ~Rd!Does("card")'
    <3>1. later = {h \in Rd!Handles : h[1] > m + 1}
      BY <2>2
    <3>2. s6'.does = <<"chars", later \cup {<<m + 1, g[2]>>}>>
      BY <1>5, <2>2, ReadsTurns
    <3>3. s6'.does = <<"chars", {<<m + 1, g[2]>>} \cup {h \in Rd!Handles : h[1] > m + 1}>>
      BY <3>1, <3>2
    <3>4. m + 1 \in g[1]..g[2]
      <4>1. g[1] \in Int /\ g[2] \in Int
        BY DEF Rd!Handles, Rd!GATT_GRP, Rd!GATT_LAST, Rd!GAP_GRP, Rd!GAP_PPCP, Rd!BR_GRP, Rd!LAST
      <4>2. QED
        BY <1>3, <2>2, <4>1
    <3>5. s8' = [services |-> Rd!Handles, chars |-> {c \in Rd!Declared : c < m + 1}]
      BY <1>6, <2>2
    <3>6. Rd!Searches'
      BY <3>3, <3>4, <3>5 DEF Rd!Searches
    <3>7. QED
      BY <3>3, <3>6 DEF Rd!Does
  <2>3. QED
    BY <2>1, <2>2, ReadsChars
<1>8. /\ s6' = [n |-> s6.n, mtu |-> s6.mtu, does |-> s6'.does]
      /\ s6'.mtu = s6.mtu
  BY <1>5, ReadsTurns
<1>9. QED
  BY <1>5, <1>7, <1>8 DEF Rd!Ind, Rd!Numbers, Rd!Asked, Rd!Reading, Rd!Carding, Rd!Directory,
     Rd!OneDirectory

\* Every step of the reads keeps the invariant.
LEMMA ReadsStep ==
  ASSUME Rd!Ind, Rd!Next \/ UNCHANGED Rd!crVars
  PROVE  Rd!Ind'
<1>1. CASE UNCHANGED Rd!crVars
  <2>1. Rd!Numbers' /\ Rd!Searches' /\ Rd!Asked' /\ Rd!Directory'
    BY <1>1 DEF Rd!crVars, Rd!Ind, Rd!Numbers, Rd!Searches, Rd!Asked, Rd!Directory, Rd!OneDirectory
  <2>2. Rd!Reading' /\ Rd!Carding'
    BY <1>1 DEF Rd!crVars, Rd!Ind, Rd!Reading, Rd!Carding, Rd!Does
  <2>3. QED
    BY <2>1, <2>2 DEF Rd!Ind
<1>2. QED
  BY <1>1, ReadsConnect, ReadsLeave, ReadsServices, ReadsCharacteristics, ReadsWindow,
     ReadsMapping, ReadsOver,
     ReadsExchange, ReadsChanges, ReadsSeek, ReadsCard, ReadsCardEnd, ReadsDirectory DEF Rd!Next

\* What the invariant says of the answers.
LEMMA ReadsAnswers ==
  ASSUME Rd!Ind
  PROVE  Rd!FoundRight /\ Rd!WindowWhole /\ Rd!CardInOrder /\ Rd!OneDirectory
<1>1. Rd!FoundRight
  <2>1. CASE s6.does = Rd!Idle /\ s8.chars \subseteq Rd!Declared
    BY <2>1 DEF Rd!FoundRight, Rd!Does, Rd!Idle
  <2>2. ASSUME NEW k \in {Rd!GATT_GRP, Rd!GAP_PPCP + 1, Rd!LAST + 1}, s6.does = <<"services", k>>,
               s8 = [services |-> {h \in Rd!Handles : h[1] < k}, chars |-> {}]
        PROVE  Rd!FoundRight
    BY <2>2 DEF Rd!FoundRight, Rd!Does
  <2>3. ASSUME NEW S, NEW k, s6.does = <<"chars", S>>,
               s8 = [services |-> Rd!Handles, chars |-> {c \in Rd!Declared : c < k}]
        PROVE  Rd!FoundRight
    BY <2>3 DEF Rd!FoundRight, Rd!Does
  <2>4. CASE s8 = [services |-> Rd!Handles, chars |-> Rd!Declared]
    BY <2>4 DEF Rd!FoundRight
  <2>5. QED
    BY <2>1, <2>2, <2>3, <2>4 DEF Rd!Ind, Rd!Searches
<1>2. Rd!WindowWhole
  <2>1. SUFFICES ASSUME Rd!Does("over"), s9 = {}
                 PROVE  s7 = Rd!Places(s6.does[2], Rd!Min({CrMax, Rd!Max({0, s2 - s6.does[2]})}))
    BY DEF Rd!WindowWhole
  <2>2. s6.does = <<"over", s3>>
    BY <2>1 DEF Rd!Ind, Rd!Searches, Rd!Does, Rd!Idle
  <2>3. QED
    BY <2>1, <2>2 DEF Rd!Ind, Rd!Reading
<1>3. Rd!CardInOrder
  BY DEF Rd!Ind, Rd!Carding, Rd!CardInOrder
<1>4. Rd!OneDirectory
  BY DEF Rd!Ind, Rd!Directory
<1>5. QED
  BY <1>1, <1>2, <1>3, <1>4

(***************************************************************************)
(* The settings (CfgService): which file an edit goes to.                  *)
(***************************************************************************)
Cfg == INSTANCE CfgService WITH
  csvFile <- s1, csvRam <- s2, csvSrc <- s3, csvGame <- s4, csvFb <- s5, csvBt <- s6,
  csvView <- s7, csvTold <- s8, csvMeant <- s9, csvOta <- s10, csvOdd <- s11,
  csvDbg <- s12

\* The name of a game's file is its identifier, which is neither empty nor the name of the
\* default file (config.c:424, 440).
ASSUME SettingsAssumption == "default" \notin CsvGames /\ Cfg!NoGame \notin CsvGames

\* The files and what a step of the two contexts can be taken from.
LEMMA SettingsFiles ==
  /\ "default" \in Cfg!Files /\ "none" \notin Cfg!Files /\ CsvGames \subseteq Cfg!Files
  /\ \A g \in CsvGames : g \in Cfg!Files /\ g # "default" /\ g # "none"
  /\ Cfg!Idle[1] = "idle" /\ Cfg!Idle[2] = "none" /\ Cfg!Gone.file = "none" /\ Cfg!Gone.ota = FALSE
BY SettingsAssumption DEF Cfg!Files, Cfg!Idle, Cfg!Gone, Cfg!NoGame

LEMMA SettingsSource ==
  ASSUME Cfg!Types, Cfg!Stages
  PROVE  /\ Cfg!Source \in Cfg!Files
         /\ s3 = "default" => Cfg!Source = "default"
         /\ s3 = "game" => Cfg!Source = s4 /\ s4 \in CsvGames
BY SettingsFiles DEF Cfg!Types, Cfg!Stages, Cfg!Source, Cfg!NoGame

\* The edits and whom they are meant for.
LEMMA SettingsEdits ==
  ASSUME Cfg!Types
  PROVE  /\ Cfg!Edit \in Nat /\ Cfg!Edit >= 1 /\ DOMAIN s9 = 1..Cfg!Edit
         /\ \A n \in 1..Cfg!Edit : s9[n] \subseteq Cfg!Files \cup {Cfg!NoGame}
         /\ s2 + 1 \in 1..Cfg!Edit
         /\ \A f \in Cfg!Files : s1[f] # Cfg!NoFile => s1[f] \in 0..(Cfg!Edit - 1) /\
              s1[f] + 1 \in 1..Cfg!Edit
<1>1. Cfg!Edit \in Nat /\ DOMAIN s9 = 1..Cfg!Edit /\ Cfg!Edit >= 1
  BY DEF Cfg!Types, Cfg!Edit
<1>2. \A n \in 1..Cfg!Edit : s9[n] \subseteq Cfg!Files \cup {Cfg!NoGame}
  BY <1>1 DEF Cfg!Types
<1> HIDE DEF Cfg!Edit
<1>3. s2 + 1 \in 1..Cfg!Edit
  BY <1>1 DEF Cfg!Types
<1>4. \A f \in Cfg!Files : s1[f] # Cfg!NoFile => s1[f] \in 0..(Cfg!Edit - 1) /\
      s1[f] + 1 \in 1..Cfg!Edit
  BY <1>1 DEF Cfg!Types, Cfg!NoFile
<1>5. QED
  BY <1>1, <1>2, <1>3, <1>4

\* The invariant holds at the start.
LEMMA SettingsInit == Cfg!Init => Cfg!Ind
<1> SUFFICES ASSUME Cfg!Init PROVE Cfg!Ind
  OBVIOUS
<1>1. Cfg!Edit = 1 /\ s9 = <<Cfg!Files>>
  BY DEF Cfg!Init, Cfg!Edit
<1>2. Cfg!Types
  <2>1. s9 \in Seq(SUBSET (Cfg!Files \cup {Cfg!NoGame})) /\ Cfg!Files \subseteq s9[1]
    BY <1>1
  <2>2. s1 \in [Cfg!Files -> {Cfg!NoFile} \cup 0..0]
    BY DEF Cfg!Init, Cfg!Made
  <2>3. 0..(Cfg!Edit - 1) = 0..0 /\ Cfg!Edit >= 1 /\ s2 \in 0..0 /\ s12 \subseteq Cfg!Files
        \cup {"ram"}
    BY <1>1 DEF Cfg!Init, Cfg!Made
  <2>4. QED
    BY <2>1, <2>2, <2>3 DEF Cfg!Init, Cfg!Types
<1>3. Cfg!Stages
  BY SettingsFiles DEF Cfg!Init, Cfg!Stages, Cfg!Made, Cfg!NoFile, Cfg!Connected, Cfg!Gone
<1>4. Cfg!Source = "default"
  BY DEF Cfg!Init, Cfg!Source
<1>5. Cfg!Alone
  BY <1>4, SettingsFiles DEF Cfg!Init, Cfg!Alone, Cfg!Made, Cfg!NoFile
<1>6. Cfg!Meant
  <2>1. Cfg!RightFile
    BY <1>1 DEF Cfg!Init, Cfg!RightFile, Cfg!Made
  <2>2. Cfg!Target = "default"
    BY <1>4, SettingsFiles DEF Cfg!Init, Cfg!Target
  <2>3. QED
    BY <1>1, <2>1, <2>2, SettingsFiles DEF Cfg!Init, Cfg!Meant, Cfg!Connected, Cfg!Made
<1>7. Cfg!Told
  BY <1>4, SettingsFiles DEF Cfg!Init, Cfg!Told, Cfg!InUse
<1>8. QED
  BY <1>2, <1>3, <1>5, <1>6, <1>7 DEF Cfg!Ind

\* The steps that change neither the files' contents nor the edits keep their types.
LEMMA SettingsTypes ==
  ASSUME Cfg!Types, UNCHANGED <<s1, s2, s9>>, s12' = s12 \/ s12' = Cfg!Traceless,
         s3' \in {"default", "game"},
         s4' \in CsvGames \cup {Cfg!NoGame}, s11' \subseteq Cfg!Odds,
         s8' \in BOOLEAN, s10' \in BOOLEAN
  PROVE  Cfg!Types'
<1>1. Cfg!Edit' = Cfg!Edit
  BY DEF Cfg!Edit
<1>2. s12' \subseteq Cfg!Files \cup {"ram"}
  BY DEF Cfg!Types, Cfg!Traceless
<1>3. QED
  BY <1>1, <1>2 DEF Cfg!Types

\* What is used stays what is in the file.
LEMMA SettingsSame ==
  ASSUME Cfg!InUse, UNCHANGED <<s1, s2>>, Cfg!Source' = Cfg!Source, s12' = s12 \/
         s12' = Cfg!Traceless
  PROVE  Cfg!InUse'
BY DEF Cfg!InUse, Cfg!Traceless

\* Another game: what the client was shown may no longer be so.
LEMMA SettingsGame == ASSUME Cfg!Ind, NEW game \in CsvGames, Cfg!GameChanges(game) PROVE Cfg!Ind'
<1>1. /\ s5 = Cfg!Idle /\ s4' = game /\ s5' = <<"init", "game">>
      /\ s11' = s11 \cup (IF Cfg!Connected THEN {"switched"} ELSE {})
           \cup (IF s6 # Cfg!Idle THEN {"raced"} ELSE {})
      /\ UNCHANGED <<s12, s1, s2, s3, s6, s7, s8, s9, s10>>
  BY DEF Cfg!GameChanges, Cfg!Unusual
<1>2. Cfg!Types'
  BY <1>1, SettingsTypes DEF Cfg!Ind, Cfg!Types, Cfg!Odds
<1>3. s5' # Cfg!Idle /\ s5'[1] = "init" /\ s5'[2] = "game" /\ (Cfg!Connected' <=> Cfg!Connected)
  BY <1>1 DEF Cfg!Idle, Cfg!Connected
<1>4. Cfg!Stages'
  BY <1>1, <1>3, SettingsFiles DEF Cfg!Ind, Cfg!Stages, Cfg!NoGame
<1>5. Cfg!Alone'
  <2>1. "raced" \notin s11' => s6' = Cfg!Idle
    BY <1>1
  <2>2. QED
    BY <1>3, <2>1, SettingsFiles DEF Cfg!Alone
<1>6. Cfg!Meant'
  <2>1. SUFFICES ASSUME ~Cfg!Astray' PROVE Cfg!RightFile' /\ ~Cfg!Connected'
    BY <1>3 DEF Cfg!Meant
  <2>2. ~Cfg!Astray /\ ~Cfg!Connected'
    BY <1>1, <1>3, <2>1 DEF Cfg!Astray
  <2>3. Cfg!RightFile'
    BY <1>1, <2>2 DEF Cfg!Ind, Cfg!Meant, Cfg!RightFile
  <2>4. QED
    BY <2>2, <2>3
<1>7. Cfg!Told'
  BY <1>1, <1>3 DEF Cfg!Ind, Cfg!Told
<1>8. QED
  BY <1>2, <1>4, <1>5, <1>6, <1>7 DEF Cfg!Ind

\* bt_fb_task loads the game's file, or the default one.
LEMMA SettingsFbDefault == Cfg!Ind /\ Cfg!FbDefault => Cfg!Ind'
<1> SUFFICES ASSUME Cfg!Ind, Cfg!FbDefault PROVE Cfg!Ind'
  OBVIOUS
<1>1. /\ s5[1] = "init" /\ s3' = "default" /\ s5' = <<"choose", s5[2]>>
      /\ UNCHANGED <<s12, s1, s2, s4, s6, s7, s8, s9, s10, s11>>
  BY DEF Cfg!FbDefault
<1>2. s5 # Cfg!Idle /\ s5[2] = "game" /\ s5' # Cfg!Idle /\ s5'[1] = "choose" /\
      (Cfg!Connected' <=> Cfg!Connected)
  BY <1>1 DEF Cfg!Ind, Cfg!Stages, Cfg!Idle, Cfg!Connected
<1>3. Cfg!Types'
  BY <1>1, SettingsTypes DEF Cfg!Ind, Cfg!Types
<1>4. Cfg!Stages'
  BY <1>1, <1>2, SettingsFiles DEF Cfg!Ind, Cfg!Stages
<1>5. Cfg!Alone'
  BY <1>1, <1>2, SettingsFiles DEF Cfg!Ind, Cfg!Alone
<1>6. Cfg!Meant'
  <2>1. Cfg!RightFile => Cfg!RightFile'
    BY <1>1 DEF Cfg!RightFile, Cfg!Astray
  <2>2. Cfg!Astray' <=> Cfg!Astray
    BY <1>1 DEF Cfg!Astray
  <2>3. QED
    BY <1>1, <1>2, <2>1, <2>2 DEF Cfg!Ind, Cfg!Meant
<1>7. Cfg!Told'
  BY <1>1, <1>2 DEF Cfg!Ind, Cfg!Told
<1>8. QED
  BY <1>3, <1>4, <1>5, <1>6, <1>7 DEF Cfg!Ind

LEMMA SettingsFbChoose == Cfg!Ind /\ Cfg!FbChoose => Cfg!Ind'
<1> SUFFICES ASSUME Cfg!Ind, Cfg!FbChoose PROVE Cfg!Ind'
  OBVIOUS
<1> DEFINE file == Cfg!Chosen("game")
<1>1. /\ s5[1] = "choose" /\ s5' = <<"load", file>>
      /\ s3' = (IF file = "default" THEN s3 ELSE "game")
      /\ UNCHANGED <<s12, s1, s2, s4, s6, s7, s8, s9, s10, s11>>
  BY DEF Cfg!FbChoose
<1>2. /\ file = "default" \/ (file = s4 /\ s4 \in CsvGames /\ s1[s4] # Cfg!NoFile)
      /\ s3 \in {"default", "game"}
  BY DEF Cfg!Chosen, Cfg!There, Cfg!Ind, Cfg!Types, Cfg!Stages
<1> HIDE DEF file
<1>3. s5 # Cfg!Idle /\ s5' # Cfg!Idle /\ s5'[1] = "load" /\ s5'[2] = file /\
      (Cfg!Connected' <=> Cfg!Connected)
  BY <1>1 DEF Cfg!Idle, Cfg!Connected
<1>4. Cfg!Types'
  BY <1>1, SettingsTypes DEF Cfg!Ind, Cfg!Types
<1>5. Cfg!Stages'
  BY <1>1, <1>2, <1>3, SettingsFiles DEF Cfg!Ind, Cfg!Stages, Cfg!NoGame
<1>6. Cfg!Alone'
  <2>1. SUFFICES ASSUME ("raced" \notin s11)'
                 PROVE  s6' = Cfg!Idle /\ file = Cfg!Source' /\ (s3' = "game" =>
                        s1'[s4'] # Cfg!NoFile)
    BY <1>3, <2>1, SettingsFiles DEF Cfg!Alone
  <2>2. s6 = Cfg!Idle /\ s3 = "default"
    BY <1>1, <1>3, <2>1 DEF Cfg!Ind, Cfg!Alone
  <2>3. Cfg!Source' = file
    BY <1>1, <1>2, <2>2, SettingsFiles DEF Cfg!Source
  <2>4. QED
    BY <1>1, <1>2, <2>2, <2>3
<1>7. Cfg!Meant'
  <2>1. Cfg!RightFile => Cfg!RightFile'
    BY <1>1 DEF Cfg!RightFile, Cfg!Astray
  <2>2. Cfg!Astray' <=> Cfg!Astray
    BY <1>1 DEF Cfg!Astray
  <2>3. QED
    BY <1>1, <1>3, <2>1, <2>2 DEF Cfg!Ind, Cfg!Meant
<1>8. Cfg!Told'
  BY <1>1, <1>3 DEF Cfg!Ind, Cfg!Told
<1>9. QED
  BY <1>4, <1>5, <1>6, <1>7, <1>8 DEF Cfg!Ind

LEMMA SettingsFbLoad == ASSUME Cfg!Ind, NEW ok \in BOOLEAN, Cfg!FbLoad(ok) PROVE Cfg!Ind'
<1> DEFINE file == s5[2]
<1>1. /\ s5[1] = "load" /\ s5' = Cfg!Idle /\ s11' = Cfg!Outcome(file, ok)
      /\ s2' = Cfg!RamLoaded(file, ok) /\ s1' = Cfg!FilesLoaded(file, ok) /\
           s12' = Cfg!DbgLoaded(file, ok)
      /\ UNCHANGED <<s3, s4, s6, s7, s8, s9, s10>>
  BY DEF Cfg!FbLoad, Cfg!Unusual
<1>2. file \in Cfg!Files /\ s5 # Cfg!Idle
  BY <1>1, SettingsFiles DEF Cfg!Ind, Cfg!Stages
<1> HIDE DEF file
<1>3. (Cfg!Connected' <=> Cfg!Connected) /\ Cfg!Source' = Cfg!Source /\ Cfg!Source \in Cfg!Files
  BY <1>1, SettingsSource DEF Cfg!Connected, Cfg!Source, Cfg!Ind
<1>4. /\ \/ s1' = s1
         \/ s1[file] = Cfg!NoFile /\ s1' = [s1 EXCEPT ![file] = Cfg!Made]
      /\ s2' \in {Cfg!Made, s2, s1[file]} /\ (s2' = s1[file] => s2' # Cfg!NoFile)
      /\ s12' \subseteq s12 \cup {"ram"}
  <2>1. s2 # Cfg!NoFile /\ Cfg!Made # Cfg!NoFile
    BY DEF Cfg!Ind, Cfg!Types, Cfg!NoFile, Cfg!Made
  <2>2. QED
    BY <1>1, <2>1 DEF Cfg!RamLoaded, Cfg!FilesLoaded, Cfg!DbgLoaded
<1>5. ok => /\ s2' = s1'[file] /\ s11' = s11 \ {"unsaved"}
            /\ ("ram" \in s12' => file \in s12')
  <2>1. ASSUME ok PROVE s2' = s1'[file]
    BY <1>1, <1>2, <2>1 DEF Cfg!RamLoaded, Cfg!FilesLoaded, Cfg!Ind, Cfg!Types
  <2>2. ASSUME ok PROVE "ram" \in s12' => file \in s12'
    <3>1. file # "ram" \/ file = "ram"
      OBVIOUS
    <3>2. QED
      BY <1>1, <2>2 DEF Cfg!RamLoaded, Cfg!FilesLoaded, Cfg!DbgLoaded
  <2>3. QED
    BY <1>1, <2>1, <2>2 DEF Cfg!Outcome
<1>6. ~ok => /\ s11' \in {s11 \cup {"unsaved"}, s11 \cup {"unread"}}
             /\ ("unread" \notin s11' => s2' = Cfg!Made)
  BY <1>1 DEF Cfg!Outcome, Cfg!Failed, Cfg!RamLoaded
<1>7. s11' \subseteq Cfg!Odds /\ ("raced" \notin s11' => "raced" \notin s11)
      /\ (~Cfg!Astray' => ~Cfg!Astray) /\ ("otaLeft" \notin s11' => "otaLeft" \notin s11)
  <2>1. s11 \subseteq Cfg!Odds
    BY DEF Cfg!Ind, Cfg!Types
  <2>2. s11 \ {"unsaved"} \subseteq s11' /\ s11' \subseteq s11 \cup {"unsaved", "unread"}
    BY <1>5, <1>6
  <2>3. QED
    BY <2>1, <2>2 DEF Cfg!Odds, Cfg!Astray
<1>8. Cfg!Types'
  <2>1. Cfg!Edit' = Cfg!Edit /\ Cfg!Edit \in Nat /\ Cfg!Edit >= 1
    BY <1>1, SettingsEdits DEF Cfg!Ind, Cfg!Edit
  <2> HIDE DEF Cfg!Edit
  <2>2. s1' \in [Cfg!Files -> {Cfg!NoFile} \cup 0..(Cfg!Edit - 1)]
    BY <1>2, <1>4, <2>1 DEF Cfg!Ind, Cfg!Types, Cfg!NoFile, Cfg!Made
  <2>3. s2' \in 0..(Cfg!Edit - 1)
    BY <1>2, <1>4, <2>1 DEF Cfg!Ind, Cfg!Types, Cfg!Made
  <2>4. s12' \subseteq Cfg!Files \cup {"ram"}
    BY <1>4 DEF Cfg!Ind, Cfg!Types
  <2>5. QED
    BY <1>1, <1>7, <2>1, <2>2, <2>3, <2>4 DEF Cfg!Ind, Cfg!Types
<1>9. \A f \in Cfg!Files : s1'[f] = s1[f] \/ s1'[f] = Cfg!Made
  BY <1>2, <1>4 DEF Cfg!Ind, Cfg!Types
<1>10. Cfg!Stages'
  BY <1>1, <1>3, SettingsFiles DEF Cfg!Ind, Cfg!Stages
<1>11. "raced" \notin s11' =>
         s6' = Cfg!Idle /\ file = Cfg!Source /\ (s3 = "game" => s1[s4] # Cfg!NoFile)
  BY <1>1, <1>2, <1>7 DEF Cfg!Ind, Cfg!Alone, file
<1>12. Cfg!Alone'
  <2>1. ASSUME "raced" \notin s11', s3' = "game" PROVE s1'[s4'] # Cfg!NoFile
    <3>1. s4 \in Cfg!Files /\ s1[s4] # Cfg!NoFile /\ s4' = s4
      BY <1>1, <1>11, <2>1, SettingsSource, SettingsFiles DEF Cfg!Ind
    <3>2. QED
      BY <1>9, <3>1 DEF Cfg!Made, Cfg!NoFile
  <2>2. QED
    BY <1>1, <1>11, <2>1, SettingsFiles DEF Cfg!Alone
<1>13. Cfg!Meant'
  <2>1. SUFFICES ASSUME ~Cfg!Astray'
                 PROVE  Cfg!RightFile' /\ ~Cfg!Connected' /\ (Cfg!Target \in s9[s2 + 1])'
    BY DEF Cfg!Meant
  <2>2. ~Cfg!Astray /\ "raced" \notin s11' /\ "unread" \notin s11'
    BY <1>7, <2>1 DEF Cfg!Astray
  <2>3. Cfg!RightFile /\ ~Cfg!Connected'
    BY <1>2, <1>3, <2>2 DEF Cfg!Ind, Cfg!Meant
  <2>4. \A f \in Cfg!Files : f \in s9[Cfg!Made + 1]
    BY DEF Cfg!Ind, Cfg!Types, Cfg!Made
  <2>5. Cfg!RightFile'
    <3>1. \A f \in Cfg!Files : s1'[f] # Cfg!NoFile => f \in s9[s1'[f] + 1]
      BY <1>9, <2>2, <2>3, <2>4 DEF Cfg!RightFile
    <3>2. QED
      BY <1>1, <3>1 DEF Cfg!RightFile
  <2>6. Cfg!Target' = Cfg!Source
    BY <1>3, <1>11, <2>2, SettingsFiles DEF Cfg!Target
  <2>7. Cfg!Source \in s9[s2' + 1]
    <3>1. CASE ok
      <4>1. s2' = s1'[Cfg!Source] /\ (s1'[Cfg!Source] = s1[Cfg!Source] \/ s2' = Cfg!Made)
        BY <1>3, <1>5, <1>9, <1>11, <2>2, <3>1
      <4>2. s2' = Cfg!Made \/ (s2' = s1[Cfg!Source] /\ s1[Cfg!Source] # Cfg!NoFile)
        BY <1>4, <1>11, <2>2, <4>1
      <4>3. QED
        BY <1>3, <2>2, <2>3, <2>4, <4>2 DEF Cfg!RightFile
    <3>2. CASE ~ok
      BY <1>3, <1>6, <2>2, <2>4, <3>2
    <3>3. QED
      BY <3>1, <3>2
  <2>8. QED
    BY <1>1, <2>3, <2>5, <2>6, <2>7
<1>14. Cfg!Told'
  <2>1. ASSUME s11' \subseteq {"switched"} PROVE Cfg!InUse'
    <3>1. ok /\ "raced" \notin s11'
      BY <1>6, <2>1
    <3>2. QED
      BY <1>3, <1>5, <1>11, <3>1 DEF Cfg!InUse
  <2>2. QED
    BY <1>1, <1>3, <1>7, <2>1 DEF Cfg!Ind, Cfg!Told
<1>15. QED
  BY <1>8, <1>10, <1>12, <1>13, <1>14 DEF Cfg!Ind

\* A client comes and goes.
LEMMA SettingsConnect == Cfg!Ind /\ Cfg!Connect => Cfg!Ind'
<1> SUFFICES ASSUME Cfg!Ind, Cfg!Connect PROVE Cfg!Ind'
  OBVIOUS
<1>1. /\ ~Cfg!Connected /\ s6 = Cfg!Idle /\ s8' = TRUE
      /\ s7' = [file |-> Cfg!Source, ota |-> FALSE]
      /\ s11' = s11 \cup (IF s5 # Cfg!Idle THEN {"switched"} ELSE {})
           \cup (IF s10 THEN {"otaLeft"} ELSE {})
      /\ s12' = Cfg!Traceless
      /\ UNCHANGED <<s1, s2, s3, s4, s5, s6, s9, s10>>
  BY DEF Cfg!Connect, Cfg!Unusual
<1>2. /\ Cfg!Source \in Cfg!Files /\ Cfg!Source' = Cfg!Source /\ s7'.file = Cfg!Source /\
           s7'.ota = FALSE
      /\ s7' \in [file : Cfg!Files \cup {"none"}, ota : BOOLEAN]
  BY <1>1, SettingsSource DEF Cfg!Ind, Cfg!Source
<1>3. Cfg!Types'
  BY <1>1, SettingsTypes DEF Cfg!Ind, Cfg!Types, Cfg!Odds
<1>4. Cfg!Stages'
  BY <1>1, <1>2 DEF Cfg!Ind, Cfg!Stages
<1>5. Cfg!Alone'
  BY <1>1, <1>2 DEF Cfg!Ind, Cfg!Alone
<1>6. Cfg!Meant'
  <2>1. SUFFICES ASSUME ~Cfg!Astray'
                 PROVE  Cfg!RightFile' /\ s5' = Cfg!Idle /\ s7'.file = Cfg!Source' /\
                        (Cfg!Target \in s9[s2 + 1])'
    BY DEF Cfg!Meant
  <2>2. ~Cfg!Astray /\ s5 = Cfg!Idle
    BY <1>1, <2>1 DEF Cfg!Astray
  <2>3. Cfg!RightFile' /\ Cfg!Target' = Cfg!Target
    BY <1>1, <1>2, <2>2 DEF Cfg!Ind, Cfg!Meant, Cfg!RightFile, Cfg!Target
  <2>4. QED
    BY <1>1, <1>2, <2>2, <2>3 DEF Cfg!Ind, Cfg!Meant
<1>7. Cfg!Told'
  <2>1. "otaLeft" \notin s11' => ~s10
    BY <1>1
  <2>2. s10 \in BOOLEAN
    BY DEF Cfg!Ind, Cfg!Types
  <2>3. "otaLeft" \notin s11' => s10' = s7'.ota
    BY <1>1, <1>2, <2>1, <2>2
  <2>4. s11' \subseteq {"switched"} => s11 \subseteq {"switched"}
    BY <1>1
  <2>5. Cfg!InUse => Cfg!InUse'
    BY <1>1, <1>2, SettingsSame
  <2>6. QED
    BY <1>1, <1>2, <2>3, <2>4, <2>5 DEF Cfg!Ind, Cfg!Told
<1>8. QED
  BY <1>3, <1>4, <1>5, <1>6, <1>7 DEF Cfg!Ind

LEMMA SettingsLeave == Cfg!Ind /\ Cfg!Leave => Cfg!Ind'
<1> SUFFICES ASSUME Cfg!Ind, Cfg!Leave PROVE Cfg!Ind'
  OBVIOUS
<1> DEFINE Over == s5 = Cfg!Idle /\ s11 \cap {"switched", "raced"} # {}
<1>1. /\ Cfg!Connected /\ s6 = Cfg!Idle /\ s7' = Cfg!Gone
      /\ s9' = (IF Over THEN [n \in DOMAIN s9 |-> Cfg!Files] ELSE s9)
      /\ s11' = (IF s5 = Cfg!Idle THEN s11 \ {"switched"} ELSE s11)
           \cup (IF s8 THEN {} ELSE {"unexecuted"})
      /\ UNCHANGED <<s12, s1, s2, s3, s4, s5, s6, s8, s10>>
  BY DEF Cfg!Leave, Cfg!Unusual
<1>2. /\ ~Cfg!Connected' /\ Cfg!Source' = Cfg!Source /\ Cfg!Source \in Cfg!Files /\
           Cfg!Target' = Cfg!Source
      /\ s7' \in [file : Cfg!Files \cup {"none"}, ota : BOOLEAN]
  BY <1>1, SettingsSource, SettingsFiles DEF Cfg!Ind, Cfg!Source, Cfg!Connected, Cfg!Target,
     Cfg!Gone
<1>3. /\ Cfg!Edit \in Nat /\ Cfg!Edit >= 1 /\ DOMAIN s9 = 1..Cfg!Edit /\ s2 + 1 \in 1..Cfg!Edit
      /\ \A f \in Cfg!Files : s1[f] # Cfg!NoFile => s1[f] + 1 \in 1..Cfg!Edit
  BY SettingsEdits DEF Cfg!Ind
<1>4. Cfg!Edit' = Cfg!Edit /\ (Over => \A n \in 1..Cfg!Edit : s9'[n] = Cfg!Files)
      /\ s9' \in Seq(SUBSET (Cfg!Files \cup {Cfg!NoGame})) /\ Cfg!Files \subseteq s9'[1]
  <2>1. CASE Over
    <3>1. s9' = [n \in 1..Cfg!Edit |-> Cfg!Files]
      BY <1>1, <1>3, <2>1
    <3>2. s9' \in Seq(SUBSET (Cfg!Files \cup {Cfg!NoGame})) /\ Len(s9') = Cfg!Edit
      BY <1>3, <3>1
    <3>3. Cfg!Edit' = Cfg!Edit
      BY <3>2 DEF Cfg!Edit
    <3>4. QED
      BY <1>3, <3>1, <3>2, <3>3
  <2>2. CASE ~Over
    BY <1>1, <2>2 DEF Cfg!Ind, Cfg!Types, Cfg!Edit
  <2>3. QED
    BY <2>1, <2>2
<1>5. Cfg!Types'
  <2>1. s11' \subseteq Cfg!Odds
    BY <1>1 DEF Cfg!Ind, Cfg!Types, Cfg!Odds
  <2>2. QED
    BY <1>1, <1>4, <2>1 DEF Cfg!Ind, Cfg!Types
<1>6. Cfg!Stages'
  BY <1>1, <1>2 DEF Cfg!Ind, Cfg!Stages
<1>7. Cfg!Alone'
  BY <1>1, <1>2 DEF Cfg!Ind, Cfg!Alone
<1>8. Cfg!Meant'
  <2>1. SUFFICES ASSUME ~Cfg!Astray'
                 PROVE  Cfg!RightFile' /\ (s5' = Cfg!Idle => Cfg!Source \in s9'[s2 + 1])
    BY <1>1, <1>2 DEF Cfg!Meant
  <2>2. CASE Over
    BY <1>1, <1>2, <1>3, <1>4, <2>2 DEF Cfg!RightFile
  <2>3. CASE ~Over
    <3>1. ~Cfg!Astray
      BY <1>1, <2>1, <2>3 DEF Cfg!Astray
    <3>2. Cfg!Target = Cfg!Source
      BY <1>1, SettingsFiles DEF Cfg!Target
    <3>3. QED
      BY <1>1, <1>2, <2>3, <3>1, <3>2 DEF Cfg!Ind, Cfg!Meant, Cfg!RightFile
  <2>4. QED
    BY <2>2, <2>3
<1>9. Cfg!Told'
  <2>1. ASSUME s11' \subseteq {"switched"}, s5' = Cfg!Idle PROVE s11 \subseteq {"switched"} /\ s8
    BY <1>1, <2>1 DEF Cfg!Ind, Cfg!Types
  <2>2. Cfg!InUse => Cfg!InUse'
    BY <1>1, <1>2, SettingsSame
  <2>3. QED
    BY <1>1, <1>2, <2>1, <2>2 DEF Cfg!Ind, Cfg!Told
<1>10. QED
  BY <1>5, <1>6, <1>7, <1>8, <1>9 DEF Cfg!Ind

\* An edit is written into config: it is meant for the file the client was shown.
LEMMA SettingsEdited ==
  ASSUME Cfg!Ind, Cfg!Ready, Cfg!Edited, UNCHANGED <<s1, s3, s4, s5>>, Cfg!Target' = Cfg!Source,
         s11 \subseteq s11'
  PROVE  /\ s2' = Cfg!Edit /\ Cfg!Edit' = Cfg!Edit + 1
         /\ s2' \in 0..(Cfg!Edit' - 1) /\ s1' \in [Cfg!Files -> {Cfg!NoFile}
              \cup 0..(Cfg!Edit' - 1)]
         /\ s9' \in Seq(SUBSET (Cfg!Files \cup {Cfg!NoGame})) /\ Cfg!Files \subseteq s9'[1] /\
              Cfg!Edit' >= 1
         /\ ~Cfg!Astray' => Cfg!RightFile' /\ Cfg!Target' \in s9'[s2' + 1]
<1> DEFINE n == Cfg!Edit
<1>1. /\ s2' = n /\ s9' = Append(s9, {s7.file}) /\ s7.file \in Cfg!Files
      /\ Cfg!Connected /\ s6 = Cfg!Idle
  BY DEF Cfg!Edited, Cfg!Ready, Cfg!Ind, Cfg!Stages
<1>2. /\ n \in Nat /\ n >= 1 /\ s9 \in Seq(SUBSET (Cfg!Files \cup {Cfg!NoGame})) /\ n = Len(s9)
      /\ \A f \in Cfg!Files : s1[f] # Cfg!NoFile => s1[f] + 1 \in 1..n
      /\ Cfg!Files \subseteq s9[1]
  BY SettingsEdits DEF Cfg!Ind, Cfg!Types, Cfg!Edit
<1>3. /\ s9' \in Seq(SUBSET (Cfg!Files \cup {Cfg!NoGame})) /\ Len(s9') = n + 1
      /\ s9'[n + 1] = {s7.file} /\ \A i \in 1..n : s9'[i] = s9[i]
  <2> HIDE DEF n
  <2>1. QED
    BY <1>1, <1>2
<1>4. Cfg!Edit' = n + 1
  BY <1>3 DEF Cfg!Edit
<1>5. s1 \in [Cfg!Files -> {Cfg!NoFile} \cup 0..(n - 1)]
  BY DEF Cfg!Ind, Cfg!Types
<1> HIDE DEF n
<1>6. s2' \in 0..(Cfg!Edit' - 1) /\ s1' \in [Cfg!Files -> {Cfg!NoFile} \cup 0..(Cfg!Edit' - 1)] /\
      Cfg!Edit' >= 1
  <2>1. 0..(n - 1) \subseteq 0..(Cfg!Edit' - 1) /\ n \in 0..(Cfg!Edit' - 1) /\ Cfg!Edit' >= 1
    BY <1>2, <1>4
  <2>2. QED
    BY <1>1, <1>5, <2>1
<1>7. Cfg!Files \subseteq s9'[1]
  BY <1>2, <1>3
<1>8. ASSUME ~Cfg!Astray'
      PROVE  Cfg!RightFile' /\ Cfg!Target' \in s9'[s2' + 1]
  <2>1. ~Cfg!Astray
    BY <1>8 DEF Cfg!Astray
  <2>2. Cfg!RightFile /\ s7.file = Cfg!Source
    BY <1>1, <2>1 DEF Cfg!Ind, Cfg!Meant
  <2>3. \A f \in Cfg!Files : s1'[f] # Cfg!NoFile => f \in s9'[s1'[f] + 1]
    BY <1>2, <1>3, <2>1, <2>2 DEF Cfg!RightFile
  <2>4. QED
    BY <1>1, <1>3, <2>2, <2>3 DEF Cfg!RightFile
<1>9. QED
  BY <1>1, <1>3, <1>4, <1>6, <1>7, <1>8 DEF n

LEMMA SettingsWrite == Cfg!Ind /\ Cfg!Write => Cfg!Ind'
<1> SUFFICES ASSUME Cfg!Ind, Cfg!Write PROVE Cfg!Ind'
  OBVIOUS
<1>1. /\ Cfg!Ready /\ Cfg!Edited /\ s6' = <<"update", s3>> /\ s8' = FALSE /\ s11' = s11
           \cup Cfg!Racing
      /\ Cfg!Connected /\ s6 = Cfg!Idle /\ s12' \subseteq s12 \cup {"ram"}
      /\ UNCHANGED <<s1, s3, s4, s5, s7, s10>>
  BY DEF Cfg!Write, Cfg!Kept, Cfg!Traceless, Cfg!Ready, Cfg!Unusual
<1>2. Cfg!Connected' /\ Cfg!Racing \subseteq {"raced"} /\ (s5 # Cfg!Idle => "raced" \in s11')
  BY <1>1 DEF Cfg!Connected, Cfg!Racing
<1>3. s6' # Cfg!Idle /\ s6'[1] = "update" /\ s6'[2] = s3
  BY <1>1, SettingsFiles DEF Cfg!Idle
<1>4. Cfg!Target' = Cfg!Source
  BY <1>1, <1>3 DEF Cfg!Target, Cfg!Source, Cfg!Ind, Cfg!Stages
<1>5. /\ s2' \in 0..(Cfg!Edit' - 1) /\ s1' \in [Cfg!Files -> {Cfg!NoFile} \cup 0..(Cfg!Edit' - 1)]
      /\ s9' \in Seq(SUBSET (Cfg!Files \cup {Cfg!NoGame})) /\ Cfg!Files \subseteq s9'[1] /\
           Cfg!Edit' >= 1
      /\ ~Cfg!Astray' => Cfg!RightFile' /\ Cfg!Target' \in s9'[s2' + 1]
  BY <1>1, <1>4, SettingsEdited
<1>6. Cfg!Types'
  BY <1>1, <1>2, <1>5 DEF Cfg!Ind, Cfg!Types, Cfg!Odds
<1>7. Cfg!Stages'
  BY <1>1, <1>2 DEF Cfg!Ind, Cfg!Stages, Cfg!Types
<1>8. Cfg!Alone'
  <2>1. "raced" \notin s11' => s5' = Cfg!Idle
    BY <1>1, <1>2
  <2>2. QED
    BY <1>3, <2>1, SettingsFiles DEF Cfg!Alone
<1>9. Cfg!Meant'
  <2>1. ~Cfg!Astray' => s5' = Cfg!Idle
    BY <1>1, <1>2 DEF Cfg!Astray
  <2>2. QED
    BY <1>3, <1>5, <2>1 DEF Cfg!Meant
<1>10. Cfg!Told'
  BY <1>1, <1>2, <1>3 DEF Cfg!Ind, Cfg!Told
<1>11. QED
  BY <1>6, <1>7, <1>8, <1>9, <1>10 DEF Cfg!Ind

LEMMA SettingsPrepare == Cfg!Ind /\ Cfg!Prepare => Cfg!Ind'
<1> SUFFICES ASSUME Cfg!Ind, Cfg!Prepare PROVE Cfg!Ind'
  OBVIOUS
<1>1. /\ Cfg!Ready /\ Cfg!Edited /\ s8' = FALSE /\ Cfg!Connected /\ s6 = Cfg!Idle
      /\ UNCHANGED <<s12, s1, s3, s4, s5, s6, s7, s10, s11>>
  BY DEF Cfg!Prepare, Cfg!Ready
<1>2. Cfg!Connected' /\ Cfg!Source' = Cfg!Source
  BY <1>1 DEF Cfg!Connected, Cfg!Source
<1>3. Cfg!Target' = Cfg!Source
  BY <1>1, <1>2, SettingsFiles DEF Cfg!Target
<1>4. /\ s2' \in 0..(Cfg!Edit' - 1) /\ s1' \in [Cfg!Files -> {Cfg!NoFile} \cup 0..(Cfg!Edit' - 1)]
      /\ s9' \in Seq(SUBSET (Cfg!Files \cup {Cfg!NoGame})) /\ Cfg!Files \subseteq s9'[1] /\
           Cfg!Edit' >= 1
      /\ ~Cfg!Astray' => Cfg!RightFile' /\ Cfg!Target' \in s9'[s2' + 1]
  BY <1>1, <1>3, SettingsEdited
<1>5. Cfg!Types'
  BY <1>1, <1>4 DEF Cfg!Ind, Cfg!Types
<1>6. Cfg!Stages'
  BY <1>1, <1>2 DEF Cfg!Ind, Cfg!Stages
<1>7. Cfg!Alone'
  BY <1>1, <1>2 DEF Cfg!Ind, Cfg!Alone
<1>8. Cfg!Meant'
  <2>1. ~Cfg!Astray' => s5' = Cfg!Idle /\ s7'.file = Cfg!Source'
    BY <1>1, <1>2 DEF Cfg!Ind, Cfg!Meant, Cfg!Astray
  <2>2. QED
    BY <1>4, <2>1 DEF Cfg!Meant
<1>9. Cfg!Told'
  BY <1>1, <1>2 DEF Cfg!Ind, Cfg!Told
<1>10. QED
  BY <1>5, <1>6, <1>7, <1>8, <1>9 DEF Cfg!Ind

LEMMA SettingsExecute == Cfg!Ind /\ Cfg!Execute => Cfg!Ind'
<1> SUFFICES ASSUME Cfg!Ind, Cfg!Execute PROVE Cfg!Ind'
  OBVIOUS
<1>1. /\ ~s7.ota /\ s11' = s11 \cup Cfg!Racing /\ Cfg!Connected /\ s6 = Cfg!Idle
      /\ \/ ~s10 /\ s6' = <<"update", s3>> /\ s8' = FALSE
         \/ s10 /\ s6' = s6 /\ s8' = TRUE
      /\ UNCHANGED <<s12, s1, s2, s3, s4, s5, s7, s9, s10>>
  BY DEF Cfg!Execute, Cfg!Keeps, Cfg!Kept, Cfg!Ready, Cfg!Unusual
<1>2. Cfg!Connected' /\ Cfg!Racing \subseteq {"raced"} /\ (s5 # Cfg!Idle => "raced" \in s11') /\
      Cfg!Source' = Cfg!Source
  BY <1>1 DEF Cfg!Connected, Cfg!Racing, Cfg!Source
<1>3. Cfg!Types'
  BY <1>1, <1>2, SettingsTypes DEF Cfg!Ind, Cfg!Types, Cfg!Odds
<1>4. CASE ~s10 /\ s6' = <<"update", s3>> /\ s8' = FALSE
  <2>1. s6' # Cfg!Idle /\ s6'[1] = "update" /\ s6'[2] = s3
    BY <1>4, SettingsFiles DEF Cfg!Idle
  <2>2. Cfg!Target' = Cfg!Source /\ Cfg!Target = Cfg!Source
    BY <1>1, <2>1, SettingsFiles DEF Cfg!Target, Cfg!Source, Cfg!Ind, Cfg!Stages
  <2>3. Cfg!Stages'
    BY <1>1, <1>2, <1>4 DEF Cfg!Ind, Cfg!Stages, Cfg!Types
  <2>4. Cfg!Alone'
    BY <1>1, <1>2, <2>1 DEF Cfg!Ind, Cfg!Alone
  <2>5. Cfg!Meant'
    <3>1. SUFFICES ASSUME ~Cfg!Astray'
                   PROVE  Cfg!RightFile' /\ s5' = Cfg!Idle /\ Cfg!Target' \in s9'[s2' + 1]
      BY <2>1 DEF Cfg!Meant
    <3>2. ~Cfg!Astray /\ s5 = Cfg!Idle
      BY <1>1, <1>2, <3>1 DEF Cfg!Astray
    <3>3. QED
      BY <1>1, <2>2, <3>2 DEF Cfg!Ind, Cfg!Meant, Cfg!RightFile
  <2>6. Cfg!Told'
    BY <1>1, <1>2, <2>1 DEF Cfg!Ind, Cfg!Told
  <2>7. QED
    BY <1>3, <2>3, <2>4, <2>5, <2>6 DEF Cfg!Ind
<1>5. CASE s10 /\ s6' = s6 /\ s8' = TRUE
  <2>1. "otaLeft" \in s11
    BY <1>1, <1>5 DEF Cfg!Ind, Cfg!Told
  <2>2. Cfg!Stages'
    BY <1>1, <1>2, <1>5 DEF Cfg!Ind, Cfg!Stages
  <2>3. Cfg!Alone'
    BY <1>1, <1>2, <1>5 DEF Cfg!Ind, Cfg!Alone
  <2>4. Cfg!Meant'
    <3>1. Cfg!Target' = Cfg!Target
      BY <1>1, <1>2, <1>5 DEF Cfg!Target
    <3>2. SUFFICES ASSUME ~Cfg!Astray'
                   PROVE  /\ Cfg!RightFile' /\ s5' = Cfg!Idle /\ s7'.file = Cfg!Source'
                          /\ Cfg!Target' \in s9'[s2' + 1]
      BY DEF Cfg!Meant
    <3>3. ~Cfg!Astray
      BY <1>1, <3>2 DEF Cfg!Astray
    <3>4. QED
      BY <1>1, <1>2, <3>1, <3>3 DEF Cfg!Ind, Cfg!Meant, Cfg!RightFile
  <2>5. Cfg!Told'
    <3>1. "otaLeft" \in s11'
      BY <1>1, <2>1
    <3>2. QED
      BY <3>1 DEF Cfg!Told
  <2>6. QED
    BY <1>3, <2>2, <2>3, <2>4, <2>5 DEF Cfg!Ind
<1>6. QED
  BY <1>1, <1>4, <1>5

\* config_update: what is in config is kept.
LEMMA SettingsBtDefault == Cfg!Ind /\ Cfg!BtDefault => Cfg!Ind'
<1> SUFFICES ASSUME Cfg!Ind, Cfg!BtDefault PROVE Cfg!Ind'
  OBVIOUS
<1>1. /\ s6[1] = "update" /\ s3' = "default" /\ s6' = <<"target", s6[2]>>
      /\ UNCHANGED <<s12, s1, s2, s4, s5, s7, s8, s9, s10, s11>>
  BY DEF Cfg!BtDefault
<1>2. /\ s6 # Cfg!Idle /\ s6[2] \in {"default", "game"} /\ s6' # Cfg!Idle /\ s6'[1] = "target" /\
           s6'[2] = s6[2]
      /\ Cfg!Connected /\ Cfg!Connected'
  BY <1>1, SettingsFiles DEF Cfg!Ind, Cfg!Stages, Cfg!Idle, Cfg!Connected
<1>3. Cfg!Types'
  BY <1>1, SettingsTypes DEF Cfg!Ind, Cfg!Types
<1>4. Cfg!Stages'
  BY <1>1, <1>2, SettingsFiles DEF Cfg!Ind, Cfg!Stages
<1>5. Cfg!Alone'
  <2>1. "raced" \notin s11' => s5' = Cfg!Idle
    BY <1>1, <1>2 DEF Cfg!Ind, Cfg!Alone
  <2>2. QED
    BY <1>1, <1>2, <2>1, SettingsFiles DEF Cfg!Alone
<1>6. Cfg!Target' = Cfg!Target
  BY <1>1, <1>2 DEF Cfg!Target
<1>7. Cfg!Meant'
  <2>1. Cfg!RightFile => Cfg!RightFile'
    BY <1>1 DEF Cfg!RightFile, Cfg!Astray
  <2>2. Cfg!Astray' <=> Cfg!Astray
    BY <1>1 DEF Cfg!Astray
  <2>3. QED
    BY <1>1, <1>2, <1>6, <2>1, <2>2 DEF Cfg!Ind, Cfg!Meant
<1>8. Cfg!Told'
  BY <1>1, <1>2 DEF Cfg!Ind, Cfg!Told
<1>9. QED
  BY <1>3, <1>4, <1>5, <1>7, <1>8 DEF Cfg!Ind

LEMMA SettingsBtTarget == Cfg!Ind /\ Cfg!BtTarget => Cfg!Ind'
<1> SUFFICES ASSUME Cfg!Ind, Cfg!BtTarget PROVE Cfg!Ind'
  OBVIOUS
<1> DEFINE file == IF s6[2] = "game" /\ s4 # Cfg!NoGame THEN s4 ELSE "default"
<1>1. /\ s6[1] = "target" /\ s6' = <<"store", file>>
      /\ s3' = (IF s6[2] = "game" /\ s4 # Cfg!NoGame THEN "game" ELSE s3)
      /\ UNCHANGED <<s12, s1, s2, s4, s5, s7, s8, s9, s10, s11>>
  BY DEF Cfg!BtTarget
<1>2. Cfg!Target = file /\ file \in Cfg!Files /\ s6[2] \in {"default", "game"} /\ s6 # Cfg!Idle
  BY <1>1, SettingsFiles DEF Cfg!Ind, Cfg!Stages, Cfg!Types, Cfg!Target
<1>3. s3 = "default" => Cfg!Source' = file
  BY <1>1, <1>2 DEF Cfg!Source
<1>4. s3' \in {"default", "game"} /\ (s3' = "game" => s4' # Cfg!NoGame)
  BY <1>1 DEF Cfg!Ind, Cfg!Types, Cfg!Stages
<1> HIDE DEF file
<1>5. s6' # Cfg!Idle /\ s6'[1] = "store" /\ s6'[2] = file /\ Cfg!Connected /\ Cfg!Connected'
  BY <1>1, <1>2, SettingsFiles DEF Cfg!Ind, Cfg!Stages, Cfg!Idle, Cfg!Connected
<1>6. Cfg!Types'
  BY <1>1, <1>4, SettingsTypes DEF Cfg!Ind, Cfg!Types
<1>7. Cfg!Stages'
  BY <1>1, <1>2, <1>4, <1>5 DEF Cfg!Ind, Cfg!Stages
<1>8. "raced" \notin s11' => s5' = Cfg!Idle /\ Cfg!Source' = file
  BY <1>1, <1>2, <1>3 DEF Cfg!Ind, Cfg!Alone
<1>9. Cfg!Alone'
  BY <1>5, <1>8, SettingsFiles DEF Cfg!Alone
<1>10. Cfg!Meant'
  <2>1. SUFFICES ASSUME ~Cfg!Astray'
                 PROVE  Cfg!RightFile' /\ s5' = Cfg!Idle /\ Cfg!Target' \in s9'[s2' + 1]
    BY <1>5 DEF Cfg!Meant
  <2>2. ~Cfg!Astray /\ "raced" \notin s11'
    BY <1>1, <2>1 DEF Cfg!Astray
  <2>3. Cfg!Target' = file
    BY <1>5, <1>8, <2>2 DEF Cfg!Target
  <2>4. QED
    BY <1>1, <1>2, <1>8, <2>2, <2>3 DEF Cfg!Ind, Cfg!Meant, Cfg!RightFile
<1>11. Cfg!Told'
  BY <1>1, <1>5 DEF Cfg!Ind, Cfg!Told
<1>12. QED
  BY <1>6, <1>7, <1>9, <1>10, <1>11 DEF Cfg!Ind

LEMMA SettingsBtStore == ASSUME Cfg!Ind, NEW ok \in BOOLEAN, Cfg!BtStore(ok) PROVE Cfg!Ind'
<1> DEFINE file == s6[2]
<1>1. /\ s6[1] = "store" /\ s6' = Cfg!Idle /\ s8' = TRUE
      /\ s1' = (IF ok THEN [s1 EXCEPT ![file] = s2] ELSE s1)
      /\ s12' = (IF ~ok THEN s12 ELSE IF "ram" \in s12 THEN s12 \cup {file} ELSE s12 \ {file})
      /\ s11' = (IF ok THEN s11 \ {"unsaved"} ELSE s11 \cup {"unsaved"})
      /\ UNCHANGED <<s2, s3, s4, s5, s9, s10>>
  BY DEF Cfg!BtStore, Cfg!Unusual
<1>2. file \in Cfg!Files /\ s6 # Cfg!Idle /\ Cfg!Connected
  BY <1>1, SettingsFiles DEF Cfg!Ind, Cfg!Stages
<1> HIDE DEF file
<1>3. s7' = [s7 EXCEPT !.file = Cfg!Source] /\ Cfg!Source' = Cfg!Source /\ Cfg!Source \in Cfg!Files
  BY <1>1, <1>2, SettingsSource DEF Cfg!BtStore, Cfg!Source, Cfg!Ind
<1>4. /\ s7'.file = Cfg!Source /\ s7'.ota = s7.ota /\ Cfg!Connected'
      /\ s7' \in [file : Cfg!Files \cup {"none"}, ota : BOOLEAN]
  BY <1>3, SettingsFiles DEF Cfg!Ind, Cfg!Stages, Cfg!Connected
<1>5. /\ ok => s1'[file] = s2
      /\ s2 # Cfg!NoFile /\ \A f \in Cfg!Files : s1'[f] \in {s1[f], s2}
      /\ \A f \in Cfg!Files : f # file => s1'[f] = s1[f]
      /\ Cfg!Edit' = Cfg!Edit
  BY <1>1, <1>2, SettingsEdits DEF Cfg!Ind, Cfg!Types, Cfg!NoFile, Cfg!Edit
<1>6. s11' \subseteq Cfg!Odds /\ s11 \ {"unsaved"} \subseteq s11'
  BY <1>1 DEF Cfg!Ind, Cfg!Types, Cfg!Odds
<1>7. Cfg!Types'
  <2>1. s1' \in [Cfg!Files -> {Cfg!NoFile} \cup 0..(Cfg!Edit - 1)]
    BY <1>1, <1>2 DEF Cfg!Ind, Cfg!Types
  <2>2. s12' \subseteq Cfg!Files \cup {"ram"}
    BY <1>1, <1>2 DEF Cfg!Ind, Cfg!Types
  <2>3. QED
    BY <1>1, <1>5, <1>6, <2>1, <2>2 DEF Cfg!Ind, Cfg!Types
<1>8. Cfg!Stages'
  BY <1>1, <1>3, <1>4, SettingsFiles DEF Cfg!Ind, Cfg!Stages
<1>9. "raced" \notin s11' => s5' = Cfg!Idle /\ file = Cfg!Source'
  BY <1>1, <1>2, <1>3, <1>6 DEF Cfg!Ind, Cfg!Alone, file
<1>10. Cfg!Alone'
  <2>1. ASSUME "raced" \notin s11', "unsaved" \notin s11', s3' = "game" PROVE s1'[s4'] # Cfg!NoFile
    <3>1. ok /\ s4' = file
      BY <1>1, <1>9, <2>1 DEF Cfg!Source
    <3>2. QED
      BY <1>5, <3>1
  <2>2. QED
    BY <1>1, <1>9, <2>1, SettingsFiles DEF Cfg!Alone
<1>11. Cfg!Meant'
  <2>1. SUFFICES ASSUME ~Cfg!Astray'
                 PROVE  Cfg!RightFile' /\ s5' = Cfg!Idle /\ s7'.file = Cfg!Source' /\
                        Cfg!Target' \in s9'[s2' + 1]
    BY DEF Cfg!Meant
  <2>2. ~Cfg!Astray /\ s5' = Cfg!Idle /\ file = Cfg!Source
    BY <1>3, <1>6, <1>9, <2>1 DEF Cfg!Astray
  <2>3. Cfg!Target = Cfg!Source /\ Cfg!Target' = Cfg!Source
    BY <1>1, <1>3, SettingsFiles DEF Cfg!Target
  <2>4. Cfg!RightFile /\ Cfg!Source \in s9[s2 + 1]
    BY <1>1, <2>2, <2>3 DEF Cfg!Ind, Cfg!Meant
  <2>5. Cfg!RightFile'
    BY <1>1, <1>5, <2>2, <2>4 DEF Cfg!RightFile
  <2>6. QED
    BY <1>1, <1>3, <1>4, <2>2, <2>3, <2>4, <2>5
<1>12. Cfg!Told'
  <2>1. ASSUME s11' \subseteq {"switched"} PROVE Cfg!InUse'
    <3>1. ok /\ file = Cfg!Source'
      BY <1>1, <1>9, <2>1
    <3>2. s2' = s1'[Cfg!Source']
      BY <1>1, <1>5, <3>1
    <3>3. "ram" \in s12' => Cfg!Source' \in s12'
      BY <1>1, <3>1
    <3>4. QED
      BY <3>2, <3>3 DEF Cfg!InUse
  <2>2. QED
    BY <1>1, <1>2, <1>4, <1>6, <2>1 DEF Cfg!Ind, Cfg!Told
<1>13. QED
  BY <1>7, <1>8, <1>10, <1>11, <1>12 DEF Cfg!Ind

\* What is used becomes the configuration of the game.
LEMMA SettingsSetGame == Cfg!Ind /\ Cfg!SetGame => Cfg!Ind'
<1> SUFFICES ASSUME Cfg!Ind, Cfg!SetGame PROVE Cfg!Ind'
  OBVIOUS
<1>1. /\ s6' = <<"update", "game">> /\ s8' = FALSE /\ s11' = s11 \cup Cfg!Racing
      /\ s9' = [n \in DOMAIN s9 |-> IF n - 1 = s2 THEN s9[n] \cup {s4} ELSE s9[n]]
      /\ Cfg!Connected /\ s6 = Cfg!Idle
      /\ s12' = Cfg!Traceless
      /\ UNCHANGED <<s1, s2, s3, s4, s5, s7, s10>>
  BY DEF Cfg!SetGame, Cfg!Ready, Cfg!Unusual
<1>2. Cfg!Connected' /\ Cfg!Racing \subseteq {"raced"} /\ (s5 # Cfg!Idle => "raced" \in s11')
  BY <1>1 DEF Cfg!Connected, Cfg!Racing
<1>3. s6' # Cfg!Idle /\ s6'[1] = "update" /\ s6'[2] = "game"
  BY <1>1, SettingsFiles DEF Cfg!Idle
<1>4. /\ Cfg!Edit \in Nat /\ Cfg!Edit >= 1 /\ DOMAIN s9 = 1..Cfg!Edit /\ s2 + 1 \in 1..Cfg!Edit /\
           s2 \in Int
      /\ \A n \in 1..Cfg!Edit : s9[n] \subseteq Cfg!Files \cup {Cfg!NoGame}
      /\ \A f \in Cfg!Files : s1[f] # Cfg!NoFile => s1[f] + 1 \in 1..Cfg!Edit
      /\ s4 \in Cfg!Files \cup {Cfg!NoGame} /\ Cfg!Files \subseteq s9[1]
  BY SettingsEdits, SettingsFiles DEF Cfg!Ind, Cfg!Types
<1>5. /\ DOMAIN s9' = 1..Cfg!Edit /\ \A n \in 1..Cfg!Edit : s9[n] \subseteq s9'[n] /\
           s9'[n] \in SUBSET (Cfg!Files \cup {Cfg!NoGame})
      /\ s4 \in s9'[s2 + 1]
  <2> HIDE DEF Cfg!Edit
  <2>1. s9' = [n \in 1..Cfg!Edit |-> IF n - 1 = s2 THEN s9[n] \cup {s4} ELSE s9[n]]
    BY <1>1, <1>4
  <2>2. (s2 + 1) - 1 = s2
    BY <1>4
  <2>3. QED
    BY <1>4, <2>1, <2>2
<1>6. s9' \in Seq(SUBSET (Cfg!Files \cup {Cfg!NoGame})) /\ Cfg!Edit' = Cfg!Edit
  <2>1. s9' \in [1..Cfg!Edit -> SUBSET (Cfg!Files \cup {Cfg!NoGame})]
    BY <1>1, <1>4, <1>5
  <2>2. s9' \in Seq(SUBSET (Cfg!Files \cup {Cfg!NoGame})) /\ Len(s9') = Cfg!Edit
    BY <1>4, <2>1
  <2>3. QED
    BY <2>2 DEF Cfg!Edit
<1>7. Cfg!Types'
  <2>1. Cfg!Files \subseteq s9'[1]
    BY <1>4, <1>5
  <2>2. s11' \subseteq Cfg!Odds
    BY <1>1, <1>2 DEF Cfg!Ind, Cfg!Types, Cfg!Odds
  <2>3. QED
    BY <1>1, <1>6, <2>1, <2>2 DEF Cfg!Ind, Cfg!Types, Cfg!Traceless
<1>8. Cfg!Stages'
  BY <1>1, <1>2 DEF Cfg!Ind, Cfg!Stages
<1>9. Cfg!Alone'
  <2>1. "raced" \notin s11' => s5' = Cfg!Idle
    BY <1>1, <1>2
  <2>2. QED
    BY <1>3, <2>1, SettingsFiles DEF Cfg!Alone
<1>10. Cfg!Meant'
  <2>1. SUFFICES ASSUME ~Cfg!Astray'
                 PROVE  Cfg!RightFile' /\ s5' = Cfg!Idle /\ Cfg!Target' \in s9'[s2' + 1]
    BY <1>3 DEF Cfg!Meant
  <2>2. ~Cfg!Astray /\ s5 = Cfg!Idle
    BY <1>1, <1>2, <2>1 DEF Cfg!Astray
  <2>3. Cfg!RightFile /\ Cfg!Target \in s9[s2 + 1] /\ Cfg!Target = Cfg!Source
    BY <1>1, <2>2, SettingsFiles DEF Cfg!Ind, Cfg!Meant, Cfg!Target
  <2>4. Cfg!RightFile'
    BY <1>1, <1>4, <1>5, <2>2, <2>3 DEF Cfg!RightFile
  <2>5. Cfg!Target' = (IF s4 # Cfg!NoGame THEN s4 ELSE "default")
    BY <1>1, <1>3 DEF Cfg!Target
  <2>6. s4 = Cfg!NoGame => Cfg!Source = "default"
    BY SettingsSource DEF Cfg!Ind, Cfg!Stages, Cfg!Types
  <2>7. QED
    BY <1>1, <1>4, <1>5, <2>2, <2>3, <2>4, <2>5, <2>6
<1>11. Cfg!Told'
  BY <1>1, <1>2, <1>3 DEF Cfg!Ind, Cfg!Told
<1>12. QED
  BY <1>7, <1>8, <1>9, <1>10, <1>11 DEF Cfg!Ind

\* The file of a game goes, and what is used with it if it is that game's.
LEMMA SettingsRemoves == ASSUME Cfg!Ind, NEW file \in Cfg!Files \cup {"used"},
Cfg!Removes(file) PROVE Cfg!Ind'
<1>1. /\ s6' = <<"init", file>> /\ s11' = s11 \cup Cfg!Racing /\ Cfg!Connected /\ s6 = Cfg!Idle
      /\ s12' = Cfg!Traceless
      /\ UNCHANGED <<s1, s2, s3, s4, s5, s7, s8, s9, s10>>
  BY DEF Cfg!Removes, Cfg!Ready, Cfg!Unusual
<1>2. /\ Cfg!Connected' /\ Cfg!Racing \subseteq {"raced"} /\ (s5 # Cfg!Idle => "raced" \in s11')
      /\ Cfg!Source' = Cfg!Source
  BY <1>1 DEF Cfg!Connected, Cfg!Racing, Cfg!Source
<1>3. s6' # Cfg!Idle /\ s6'[1] = "init" /\ s6'[2] = file
  BY <1>1, SettingsFiles DEF Cfg!Idle
<1>4. Cfg!Types'
  BY <1>1, <1>2, SettingsTypes DEF Cfg!Ind, Cfg!Types, Cfg!Odds
<1>5. Cfg!Stages'
  BY <1>1, <1>2 DEF Cfg!Ind, Cfg!Stages
<1>6. Cfg!Alone'
  <2>1. "raced" \notin s11' =>
          s5' = Cfg!Idle /\ ("unsaved" \notin s11' /\ s3' = "game" => s1'[s4'] # Cfg!NoFile)
    BY <1>1, <1>2 DEF Cfg!Ind, Cfg!Alone
  <2>2. QED
    BY <1>3, <2>1, SettingsFiles DEF Cfg!Alone
<1>7. Cfg!Meant'
  <2>1. SUFFICES ASSUME ~Cfg!Astray'
                 PROVE  Cfg!RightFile' /\ s5' = Cfg!Idle /\ Cfg!Target' \in s9'[s2' + 1]
    BY <1>3 DEF Cfg!Meant
  <2>2. ~Cfg!Astray /\ s5 = Cfg!Idle
    BY <1>1, <1>2, <2>1 DEF Cfg!Astray
  <2>3. Cfg!Target' = Cfg!Target
    BY <1>1, <1>2, <1>3, SettingsFiles DEF Cfg!Target
  <2>4. QED
    BY <1>1, <2>2, <2>3 DEF Cfg!Ind, Cfg!Meant, Cfg!RightFile
<1>8. Cfg!Told'
  <2>1. s11' \subseteq {"switched"} => s11 \subseteq {"switched"}
    BY <1>1
  <2>2. Cfg!InUse => Cfg!InUse'
    BY <1>1, <1>2, SettingsSame
  <2>3. s6[1] = "idle"
    BY <1>1, SettingsFiles
  <2>4. QED
    BY <1>1, <1>2, <2>1, <2>2, <2>3 DEF Cfg!Ind, Cfg!Told
<1>9. QED
  BY <1>4, <1>5, <1>6, <1>7, <1>8 DEF Cfg!Ind

\* A write that is not of the configuration only turns the debug trace off.
LEMMA SettingsWriteOther == Cfg!Ind /\ Cfg!WriteOther => Cfg!Ind'
<1> SUFFICES ASSUME Cfg!Ind, Cfg!WriteOther PROVE Cfg!Ind'
  OBVIOUS
<1>1. /\ s12' = Cfg!Traceless
      /\ UNCHANGED <<s1, s2, s3, s4, s5, s6, s7, s8, s9, s10, s11>>
  BY DEF Cfg!WriteOther
<1>2. Cfg!Types'
  BY <1>1, SettingsTypes DEF Cfg!Ind, Cfg!Types
<1>3. Cfg!Stages' /\ Cfg!Alone'
  BY <1>1 DEF Cfg!Ind, Cfg!Stages, Cfg!Alone, Cfg!Connected, Cfg!Source
<1>4. Cfg!Meant'
  BY <1>1 DEF Cfg!Ind, Cfg!Meant, Cfg!Astray, Cfg!RightFile, Cfg!Connected, Cfg!Target, Cfg!Source
<1>5. Cfg!Told'
  <2>1. Cfg!Source' = Cfg!Source /\ (Cfg!Connected' <=> Cfg!Connected)
    BY <1>1 DEF Cfg!Source, Cfg!Connected
  <2>2. Cfg!InUse => Cfg!InUse'
    BY <1>1, <2>1, SettingsSame
  <2>3. QED
    BY <1>1, <2>1, <2>2 DEF Cfg!Ind, Cfg!Told
<1>6. QED
  BY <1>2, <1>3, <1>4, <1>5 DEF Cfg!Ind

LEMMA SettingsBtRemove == ASSUME Cfg!Ind, NEW ok \in BOOLEAN, Cfg!BtRemove(ok) PROVE Cfg!Ind'
<1> DEFINE file == s6[2]
           named == IF file = "used" THEN s4 ELSE file
           now == IF s3' = "game" THEN s4 ELSE "default"
           loaded == Cfg!FilesLoaded("default", ok)
<1>1. /\ s6[1] = "init" /\ s6' = Cfg!Idle
      /\ \/ /\ Cfg!Current(file) /\ s3' = "default" /\ s8' = TRUE
            /\ s11' = Cfg!Outcome("default", ok)
            /\ s2' = Cfg!RamLoaded("default", ok) /\ s12' = Cfg!DbgLoaded("default", ok) \ {named}
            /\ s1' = [f \in Cfg!Files |-> IF f = named THEN Cfg!NoFile ELSE loaded[f]]
         \/ /\ ~Cfg!Current(file) /\ UNCHANGED <<s3, s8, s11, s2>> /\ s12' = s12 \ {named}
            /\ s1' = [f \in Cfg!Files |-> IF f = named THEN Cfg!NoFile ELSE s1[f]]
      /\ UNCHANGED <<s4, s5, s9, s10>>
  BY DEF Cfg!BtRemove, Cfg!Unusual
<1>2. file \in Cfg!Files \cup {"used"} /\ s6 # Cfg!Idle /\ Cfg!Connected
  BY <1>1, SettingsFiles DEF Cfg!Ind, Cfg!Stages
<1>3. /\ Cfg!Current(file) => named = s4 /\ named # "default"
      /\ ~Cfg!Current(file) => named = file /\ named \in Cfg!Files /\ named # s4
  BY <1>2, SettingsFiles DEF Cfg!Current, Cfg!Ind, Cfg!Types, Cfg!NoGame
<1>4. Cfg!Source' = now /\ s7' = [s7 EXCEPT !.file = now]
  BY <1>1, <1>2 DEF Cfg!BtRemove, Cfg!Source
<1>5. loaded = s1 \/ (s1["default"] = Cfg!NoFile /\ loaded = [s1 EXCEPT !["default"] = Cfg!Made])
  BY DEF Cfg!FilesLoaded
<1>6. ok => loaded["default"] = Cfg!RamLoaded("default", ok)
  BY SettingsFiles DEF Cfg!FilesLoaded, Cfg!RamLoaded, Cfg!Ind, Cfg!Types
<1> HIDE DEF file, named, loaded
<1>7. /\ Cfg!Source' = (IF Cfg!Current(file) THEN "default" ELSE Cfg!Source) /\
           Cfg!Source' \in Cfg!Files
      /\ (s3 = "game" => Cfg!Source = s4 /\ Cfg!Source \in CsvGames) /\ (s3 = "default" =>
           Cfg!Source = "default")
      /\ s3 \in {"default", "game"}
  BY <1>1, <1>4, SettingsFiles, SettingsSource DEF Cfg!Ind, Cfg!Types, Cfg!Source
<1> HIDE DEF now
<1>8. /\ s7'.file = Cfg!Source' /\ s7'.ota = s7.ota /\ Cfg!Connected'
      /\ s7' \in [file : Cfg!Files \cup {"none"}, ota : BOOLEAN]
  BY <1>4, <1>7, SettingsFiles DEF Cfg!Ind, Cfg!Stages, Cfg!Connected
<1>9. /\ Cfg!Edit' = Cfg!Edit /\ Cfg!Edit \in Nat /\ Cfg!Edit >= 1
      /\ \A f \in Cfg!Files : s1'[f] \in {Cfg!NoFile, Cfg!Made, s1[f]}
      /\ \A f \in Cfg!Files : f # named /\ f # "default" => s1'[f] = s1[f]
      /\ s2' \in {Cfg!Made, s2, s1["default"]} /\ s2' # Cfg!NoFile
  <2>1. Cfg!Edit' = Cfg!Edit /\ Cfg!Edit \in Nat /\ Cfg!Edit >= 1
    BY <1>1, SettingsEdits DEF Cfg!Ind, Cfg!Edit
  <2>2. s2 # Cfg!NoFile /\ Cfg!Made # Cfg!NoFile
    BY DEF Cfg!Ind, Cfg!Types, Cfg!NoFile, Cfg!Made
  <2>3. \A f \in Cfg!Files : s1'[f] \in {Cfg!NoFile, Cfg!Made, s1[f]}
    BY <1>1, <1>5 DEF Cfg!Ind, Cfg!Types
  <2>4. \A f \in Cfg!Files : f # named /\ f # "default" => s1'[f] = s1[f]
    BY <1>1, <1>5 DEF Cfg!Ind, Cfg!Types
  <2>5. s2' \in {Cfg!Made, s2, s1["default"]} /\ s2' # Cfg!NoFile
    BY <1>1, <2>2 DEF Cfg!RamLoaded
  <2>6. QED
    BY <2>1, <2>3, <2>4, <2>5
<1> HIDE DEF Cfg!Edit
<1>10. Cfg!Current(file) => s11 \ {"unsaved"} \subseteq s11' /\ s11' \subseteq s11
       \cup {"unsaved", "unread"}
  BY <1>1 DEF Cfg!Outcome, Cfg!Failed
<1>11. s11' \subseteq Cfg!Odds /\ ("raced" \notin s11' => "raced" \notin s11)
       /\ (~Cfg!Astray' => ~Cfg!Astray) /\ ("otaLeft" \notin s11' => "otaLeft" \notin s11)
  <2>1. s11 \subseteq Cfg!Odds
    BY DEF Cfg!Ind, Cfg!Types
  <2>2. s11 \ {"unsaved"} \subseteq s11' /\ s11' \subseteq s11 \cup {"unsaved", "unread"}
    BY <1>1, <1>10
  <2>3. QED
    BY <2>1, <2>2 DEF Cfg!Odds, Cfg!Astray
<1>12. Cfg!Types'
  <2>1. s1' \in [Cfg!Files -> {Cfg!NoFile} \cup 0..(Cfg!Edit - 1)]
    <3>1. s1' = [f \in Cfg!Files |-> s1'[f]]
      BY <1>1
    <3>2. Cfg!Made \in 0..(Cfg!Edit - 1)
      BY <1>9 DEF Cfg!Made
    <3>3. \A f \in Cfg!Files : s1'[f] \in {Cfg!NoFile} \cup 0..(Cfg!Edit - 1)
      BY <1>9, <3>2 DEF Cfg!Ind, Cfg!Types
    <3>4. QED
      BY <3>1, <3>3
  <2>2. s2' \in 0..(Cfg!Edit - 1)
    <3>1. Cfg!Made \in 0..(Cfg!Edit - 1)
      BY <1>9 DEF Cfg!Made
    <3>2. s1["default"] \in {Cfg!NoFile} \cup 0..(Cfg!Edit - 1) /\ s2 \in 0..(Cfg!Edit - 1)
      BY SettingsFiles DEF Cfg!Ind, Cfg!Types
    <3>3. QED
      BY <1>9, <3>1, <3>2
  <2>3. s8' \in BOOLEAN
    BY <1>1 DEF Cfg!Ind, Cfg!Types
  <2>4. s3' \in {"default", "game"}
    BY <1>1, <1>7
  <2>5. s12' \subseteq Cfg!Files \cup {"ram"}
    BY <1>1 DEF Cfg!DbgLoaded, Cfg!Ind, Cfg!Types
  <2>6. QED
    BY <1>1, <1>9, <1>11, <2>1, <2>2, <2>3, <2>4, <2>5 DEF Cfg!Ind, Cfg!Types
<1>13. Cfg!Stages'
  <2>1. s3' = "game" => s4' # Cfg!NoGame
    BY <1>1 DEF Cfg!Ind, Cfg!Stages
  <2>2. QED
    BY <1>1, <1>7, <1>8, <2>1, SettingsFiles DEF Cfg!Ind, Cfg!Stages
<1>14. "raced" \notin s11' => s5' = Cfg!Idle
  BY <1>1, <1>2, <1>11 DEF Cfg!Ind, Cfg!Alone
<1>15. Cfg!Alone'
  <2>1. ASSUME "raced" \notin s11', "unsaved" \notin s11', s3' = "game"
        PROVE  s1'[s4'] # Cfg!NoFile
    <3>1. ~Cfg!Current(file) /\ s4' = s4 /\ s4 \in CsvGames /\ s11' = s11 /\ s3 = "game"
      BY <1>1, <1>7, <2>1
    <3>2. s1[s4] # Cfg!NoFile
      BY <1>1, <1>2, <1>14, <2>1, <3>1 DEF Cfg!Ind, Cfg!Alone
    <3>3. s1'[s4] = s1[s4]
      BY <1>3, <1>9, <3>1, SettingsFiles
    <3>4. QED
      BY <3>1, <3>2, <3>3
  <2>2. QED
    BY <1>1, <1>14, <2>1, SettingsFiles DEF Cfg!Alone
<1>16. Cfg!Meant'
  <2>1. SUFFICES ASSUME ~Cfg!Astray'
                 PROVE  Cfg!RightFile' /\ s5' = Cfg!Idle /\ s7'.file = Cfg!Source' /\
                        Cfg!Target' \in s9'[s2' + 1]
    BY DEF Cfg!Meant
  <2>2. ~Cfg!Astray /\ s5' = Cfg!Idle /\ s5 = Cfg!Idle /\ "unread" \notin s11'
    BY <1>1, <1>11, <1>14, <2>1 DEF Cfg!Astray
  <2>3. Cfg!Target = Cfg!Source /\ Cfg!Target' = Cfg!Source'
    BY <1>1, SettingsFiles DEF Cfg!Target
  <2>4. Cfg!RightFile /\ Cfg!Source \in s9[s2 + 1]
    BY <1>1, <2>2, <2>3 DEF Cfg!Ind, Cfg!Meant
  <2>5. \A f \in Cfg!Files : f \in s9[Cfg!Made + 1]
    BY DEF Cfg!Ind, Cfg!Types, Cfg!Made
  <2>6. Cfg!RightFile'
    <3>1. \A f \in Cfg!Files : s1'[f] # Cfg!NoFile => f \in s9[s1'[f] + 1]
      BY <1>9, <2>2, <2>4, <2>5 DEF Cfg!RightFile
    <3>2. QED
      BY <1>1, <3>1 DEF Cfg!RightFile
  <2>7. Cfg!Source' \in s9[s2' + 1]
    <3>1. CASE Cfg!Current(file)
      <4>1. s2' = Cfg!Made \/ (s2' = s1["default"] /\ s1["default"] # Cfg!NoFile)
        <5>1. s2' = Cfg!RamLoaded("default", ok) /\ s11' = Cfg!Outcome("default", ok)
          BY <1>1, <3>1
        <5>2. s1["default"] = Cfg!NoFile \/ ok
          BY <2>2, <5>1 DEF Cfg!Outcome, Cfg!Failed
        <5>3. QED
          BY <5>1, <5>2 DEF Cfg!RamLoaded
      <4>2. "default" \in s9[s2' + 1]
        BY <2>2, <2>4, <2>5, <4>1, SettingsFiles DEF Cfg!RightFile
      <4>3. QED
        BY <1>7, <3>1, <4>2
    <3>2. CASE ~Cfg!Current(file)
      BY <1>1, <1>7, <2>4, <3>2
    <3>3. QED
      BY <3>1, <3>2
  <2>8. QED
    BY <1>1, <1>8, <2>2, <2>3, <2>6, <2>7
<1>17. Cfg!Told'
  <2>1. ASSUME s11' \subseteq {"switched"}, s8', s1'[Cfg!Source'] # Cfg!NoFile PROVE Cfg!InUse'
    <3>1. s5 = Cfg!Idle
      BY <1>1, <1>14, <2>1
    <3>2. CASE Cfg!Current(file)
      <4>1. ok /\ Cfg!Source' = "default" /\ s2' = Cfg!RamLoaded("default", ok)
        BY <1>1, <1>7, <2>1, <3>2 DEF Cfg!Outcome, Cfg!Failed
      <4>2. s1'["default"] = loaded["default"]
        BY <1>1, <1>3, <3>2, SettingsFiles
      <4>3. s2' = s1'[Cfg!Source']
        BY <1>6, <4>1, <4>2
      <4>4. "ram" \in s12' => "default" \in s12'
        <5>1. s12' = Cfg!DbgLoaded("default", ok) \ {named} /\ named # "default"
          BY <1>1, <1>3, <3>2
        <5>2. "ram" \in Cfg!DbgLoaded("default", ok) => "default" \in Cfg!DbgLoaded("default", ok)
          BY <4>1 DEF Cfg!DbgLoaded
        <5>3. QED
          BY <5>1, <5>2
      <4>5. QED
        BY <4>1, <4>3, <4>4 DEF Cfg!InUse
    <3>3. CASE ~Cfg!Current(file)
      <4>1. s8 /\ s11 \subseteq {"switched"} /\ s2' = s2 /\ Cfg!Source' = Cfg!Source
        BY <1>1, <1>7, <2>1, <3>3
      <4>2. Cfg!Source # named /\ s1'[Cfg!Source] = s1[Cfg!Source] /\ s1[Cfg!Source] # Cfg!NoFile
        BY <1>1, <1>3, <1>7, <2>1, <3>3, <4>1
      <4>3. Cfg!InUse
        BY <1>1, <3>1, <4>1, <4>2 DEF Cfg!Ind, Cfg!Told
      <4>4. s12' = s12 \ {named}
        BY <1>1, <3>3
      <4>5. QED
        BY <4>1, <4>2, <4>3, <4>4 DEF Cfg!InUse
    <3>4. QED
      BY <3>2, <3>3
  <2>2. "otaLeft" \notin s11' => s10' = s7'.ota
    BY <1>1, <1>2, <1>8, <1>11 DEF Cfg!Ind, Cfg!Told
  <2>3. (s8' \/ ~Cfg!Connected') => s8'
    BY <1>8
  <2>4. QED
    BY <2>1, <2>2, <2>3 DEF Cfg!Told
<1>18. QED
  BY <1>12, <1>13, <1>15, <1>16, <1>17 DEF Cfg!Ind

\* An update of the firmware begins, fails or is given up.
LEMMA SettingsOta ==
  ASSUME Cfg!Ind, (\E ok \in BOOLEAN : Cfg!OtaStart(ok)) \/ Cfg!OtaEndFails \/ Cfg!OtaAbort
         PROVE Cfg!Ind'
<1>1. /\ Cfg!Connected /\ s6 = Cfg!Idle /\ s11 \subseteq s11' /\ s11' \subseteq s11
           \cup {"otaLeft"}
      /\ s10' \in BOOLEAN
      /\ s12' = Cfg!Traceless
      /\ UNCHANGED <<s1, s2, s3, s4, s5, s6, s8, s9>>
  BY DEF Cfg!OtaStart, Cfg!OtaEndFails, Cfg!OtaAbort, Cfg!Ready, Cfg!Ind, Cfg!Types, Cfg!Unusual
<1>2. /\ \E k \in BOOLEAN : s7' = [s7 EXCEPT !.ota = k]
      /\ "otaLeft" \notin s11' => s10' = s7'.ota
  <2>1. s7 \in [file : Cfg!Files \cup {"none"}, ota : BOOLEAN]
    BY DEF Cfg!Ind, Cfg!Stages
  <2>2. ASSUME NEW ok \in BOOLEAN, Cfg!OtaStart(ok)
        PROVE  s7' = [s7 EXCEPT !.ota = ok] /\ s10' = ok /\ s7'.ota = ok
    BY <2>1, <2>2 DEF Cfg!OtaStart
  <2>3. CASE Cfg!OtaEndFails
    BY <2>3 DEF Cfg!OtaEndFails, Cfg!Unusual
  <2>4. CASE Cfg!OtaAbort
    <3>1. s7' = [s7 EXCEPT !.ota = FALSE] /\ s10' = FALSE /\ s7'.ota = FALSE
      BY <2>1, <2>4 DEF Cfg!OtaAbort
    <3>2. QED
      BY <3>1
  <2>5. QED
    BY <2>2, <2>3, <2>4
<1>3. /\ s7'.file = s7.file /\ Cfg!Connected' /\ s7'.file \in Cfg!Files
      /\ s7' \in [file : Cfg!Files \cup {"none"}, ota : BOOLEAN]
  BY <1>1, <1>2, SettingsFiles DEF Cfg!Ind, Cfg!Stages, Cfg!Connected
<1>4. Cfg!Source' = Cfg!Source /\ Cfg!Target' = Cfg!Target
  BY <1>1, SettingsFiles DEF Cfg!Source, Cfg!Target
<1>5. Cfg!Types'
  BY <1>1, SettingsTypes DEF Cfg!Ind, Cfg!Types, Cfg!Odds
<1>6. Cfg!Stages'
  BY <1>1, <1>3 DEF Cfg!Ind, Cfg!Stages
<1>7. Cfg!Alone'
  BY <1>1, <1>4 DEF Cfg!Ind, Cfg!Alone
<1>8. Cfg!Meant'
  <2>1. ~Cfg!Astray' => ~Cfg!Astray
    BY <1>1 DEF Cfg!Astray
  <2>2. Cfg!RightFile /\ ~Cfg!Astray => Cfg!RightFile'
    BY <1>1 DEF Cfg!RightFile
  <2>3. QED
    BY <1>1, <1>3, <1>4, <2>1, <2>2 DEF Cfg!Ind, Cfg!Meant
<1>9. Cfg!Told'
  <2>1. s11' \subseteq {"switched"} => s11 \subseteq {"switched"}
    BY <1>1
  <2>2. Cfg!InUse => Cfg!InUse'
    BY <1>1, <1>4, SettingsSame
  <2>3. QED
    BY <1>1, <1>2, <1>3, <1>4, <2>1, <2>2 DEF Cfg!Ind, Cfg!Told
<1>10. QED
  BY <1>5, <1>6, <1>7, <1>8, <1>9 DEF Cfg!Ind

\* The adapter starts again, its files removed or not.
LEMMA SettingsRestart ==
  ASSUME Cfg!Ind, NEW factory \in BOOLEAN, NEW read \in BOOLEAN, NEW ok \in BOOLEAN,
         Cfg!Restart(factory, read, ok)
  PROVE  Cfg!Ind'
<1> DEFINE left == IF factory THEN [f \in Cfg!Files |-> Cfg!NoFile] ELSE s1
           dbg == IF factory THEN {} ELSE s12 \ {"ram"}
           kept == left["default"] # Cfg!NoFile /\ read
<1>1. /\ s5 = Cfg!Idle /\ s6 = Cfg!Idle /\ s3' = "default" /\ s4' = Cfg!NoGame
      /\ s2' = (IF kept THEN left["default"] ELSE Cfg!Made)
      /\ s1' = (IF kept \/ ~ok THEN left ELSE [left EXCEPT !["default"] = Cfg!Made])
      /\ s12' = (IF kept THEN dbg \cup (IF "default" \in dbg THEN {"ram"} ELSE {})
                    ELSE IF ok THEN dbg \ {"default"} ELSE dbg)
      /\ s11' = (IF kept \/ ok THEN {} ELSE {"unsaved"})
      /\ s7' = Cfg!Gone /\ s8' = TRUE /\ s10' = FALSE
      /\ s9' = [n \in DOMAIN s9 |-> Cfg!Files] /\ UNCHANGED <<s5, s6>>
  BY DEF Cfg!Restart, Cfg!Ready, Cfg!Unusual
<1>2. Cfg!Edit \in Nat /\ Cfg!Edit >= 1 /\ DOMAIN s9 = 1..Cfg!Edit /\
      s1 \in [Cfg!Files -> {Cfg!NoFile} \cup 0..(Cfg!Edit - 1)]
  BY SettingsEdits DEF Cfg!Ind, Cfg!Types
<1>3. s9' \in Seq(SUBSET (Cfg!Files \cup {Cfg!NoGame})) /\ Cfg!Edit' = Cfg!Edit /\
      \A n \in 1..Cfg!Edit : s9'[n] = Cfg!Files
  <2>1. s9' = [n \in 1..Cfg!Edit |-> Cfg!Files]
    BY <1>1, <1>2
  <2>2. s9' \in Seq(SUBSET (Cfg!Files \cup {Cfg!NoGame})) /\ Len(s9') = Cfg!Edit
    BY <1>2, <2>1
  <2>3. QED
    BY <1>2, <2>1, <2>2 DEF Cfg!Edit
<1> HIDE DEF Cfg!Edit
<1>4. left \in [Cfg!Files -> {Cfg!NoFile} \cup 0..(Cfg!Edit - 1)]
  BY <1>2
<1>5. dbg \subseteq Cfg!Files \cup {"ram"} /\ "ram" \notin dbg
  BY DEF Cfg!Ind, Cfg!Types
<1> HIDE DEF left, dbg
<1>6. s1' \in [Cfg!Files -> {Cfg!NoFile} \cup 0..(Cfg!Edit - 1)] /\ s2' \in 0..(Cfg!Edit - 1)
  <2>1. Cfg!Made \in 0..(Cfg!Edit - 1)
    BY <1>2 DEF Cfg!Made
  <2>2. QED
    BY <1>1, <1>4, <2>1, SettingsFiles
<1>7. s12' \subseteq Cfg!Files \cup {"ram"}
  BY <1>1, <1>5
<1>8. s11' = {} => s2' = s1'["default"] /\ ("ram" \in s12' => "default" \in s12')
  <2>1. ASSUME s11' = {} PROVE kept \/ ok
    BY <1>1, <2>1
  <2>2. ASSUME s11' = {} PROVE s2' = s1'["default"]
    BY <1>1, <1>4, <2>1, <2>2, SettingsFiles
  <2>3. "ram" \in s12' => "default" \in s12'
    BY <1>1, <1>5
  <2>4. QED
    BY <2>2, <2>3
<1>9. \A f \in Cfg!Files : s1'[f] # Cfg!NoFile => s1'[f] + 1 \in 1..Cfg!Edit
  BY <1>2, <1>6 DEF Cfg!NoFile
<1>10. Cfg!Types'
  <2>1. Cfg!Files \subseteq s9'[1] /\ Cfg!Edit' >= 1
    BY <1>2, <1>3
  <2>2. s3' \in {"default", "game"} /\ s4' \in CsvGames \cup {Cfg!NoGame} /\ s8' \in BOOLEAN
        /\ s10' \in BOOLEAN /\ s11' \subseteq Cfg!Odds
    BY <1>1 DEF Cfg!Odds
  <2>3. QED
    BY <1>3, <1>6, <1>7, <2>1, <2>2 DEF Cfg!Types
<1>11. Cfg!Stages'
  BY <1>1, SettingsFiles DEF Cfg!Ind, Cfg!Stages, Cfg!Connected, Cfg!Gone
<1>12. Cfg!Source' = "default" /\ ~Cfg!Connected'
  BY <1>1 DEF Cfg!Source, Cfg!Connected
<1>13. Cfg!Alone'
  BY <1>1, <1>12, SettingsFiles DEF Cfg!Alone
<1>14. Cfg!Meant'
  <2>1. Cfg!RightFile'
    BY <1>3, <1>9 DEF Cfg!RightFile
  <2>2. Cfg!Target' = "default"
    BY <1>1, <1>12, SettingsFiles DEF Cfg!Target
  <2>3. s2' + 1 \in 1..Cfg!Edit
    <3>1. ASSUME NEW r \in 0..(Cfg!Edit - 1) PROVE r + 1 \in 1..Cfg!Edit
      BY <1>2
    <3>2. QED
      BY <1>6, <3>1
  <2>4. QED
    BY <1>3, <1>12, <2>1, <2>2, <2>3, SettingsFiles DEF Cfg!Meant
<1>15. Cfg!Told'
  <2>1. ASSUME s11' \subseteq {"switched"} PROVE Cfg!InUse'
    <3>1. s11' = {}
      BY <1>1, <2>1
    <3>2. QED
      BY <1>8, <1>12, <3>1 DEF Cfg!InUse
  <2>2. QED
    BY <1>12, <2>1 DEF Cfg!Told
<1>16. QED
  BY <1>10, <1>11, <1>13, <1>14, <1>15 DEF Cfg!Ind

\* Every step of the service and of bt_fb_task keeps the invariant.
LEMMA SettingsStep ==
  ASSUME Cfg!Ind, Cfg!Next \/ UNCHANGED Cfg!csvVars
  PROVE  Cfg!Ind'
<1>1. CASE UNCHANGED Cfg!csvVars
  <2>1. Cfg!Types' /\ Cfg!Stages' /\ Cfg!Alone'
    BY <1>1 DEF Cfg!csvVars, Cfg!Ind, Cfg!Types, Cfg!Stages, Cfg!Alone, Cfg!Edit, Cfg!Source,
       Cfg!Connected
  <2>2. Cfg!Meant' /\ Cfg!Told'
    BY <1>1 DEF Cfg!csvVars, Cfg!Ind, Cfg!Meant, Cfg!Told, Cfg!RightFile, Cfg!Target, Cfg!Source,
       Cfg!Connected, Cfg!Astray, Cfg!InUse
  <2>3. QED
    BY <2>1, <2>2 DEF Cfg!Ind
<1>2. QED
  BY <1>1, SettingsGame, SettingsRemoves, SettingsFbDefault, SettingsFbChoose, SettingsFbLoad,
     SettingsConnect,
     SettingsLeave, SettingsWrite, SettingsWriteOther, SettingsPrepare, SettingsExecute,
     SettingsBtDefault, SettingsBtTarget,
     SettingsBtStore, SettingsSetGame, SettingsBtRemove, SettingsOta, SettingsRestart DEF Cfg!Next

\* What the invariant says of the files.
LEMMA SettingsKeeps ==
  ASSUME Cfg!Ind
  PROVE  Cfg!RightFile /\ Cfg!ToldIsKept /\ Cfg!SourceThere
<1>1. Cfg!RightFile
  BY DEF Cfg!Ind, Cfg!Meant, Cfg!RightFile, Cfg!Astray
<1>2. Cfg!ToldIsKept
  BY SettingsFiles DEF Cfg!Ind, Cfg!Told, Cfg!ToldIsKept, Cfg!Busy
<1>3. Cfg!SourceThere
  BY DEF Cfg!Ind, Cfg!Alone, Cfg!SourceThere, Cfg!Busy
<1>4. QED
  BY <1>1, <1>2, <1>3

(***************************************************************************)
(* A Wii remote (WiiExt): what its extension goes through.                 *)
(***************************************************************************)
Wx == INSTANCE WiiExt WITH
  wxPlug <- s1, wxOpen <- s2, wxReports <- s3, wxState <- s4, wxType <- s5, wxOut <- s6,
  wxIn <- s7, wxCount <- s8, wxOdd <- s9

\* A queue whose head and rest are of a kind is of that kind, and what was put behind was.
LEMMA WiiQueue ==
  ASSUME NEW S, NEW T, T \subseteq S, NEW q \in Seq(S)
  PROVE  /\ q # <<>> => Head(q) \in S /\ Tail(q) \in Seq(S)
         /\ q # <<>> /\ Head(q) \in T /\ Tail(q) \in Seq(T) => q \in Seq(T)
         /\ \A r \in S : Append(q, r) \in Seq(S) /\ Append(q, r) # <<>>
         /\ \A r \in S : Append(q, r) \in Seq(T) => q \in Seq(T) /\ r \in T
         /\ \A r \in S : q \o <<r>> = Append(q, r)
         /\ q \o <<>> = q
<1>1. q # <<>> => Head(q) \in S /\ Tail(q) \in Seq(S)
  OBVIOUS
<1>2. ASSUME q # <<>>, Head(q) \in T, Tail(q) \in Seq(T) PROVE q \in Seq(T)
  <2>1. \A i \in 1..Len(q) : q[i] \in T
    <3> SUFFICES ASSUME NEW i \in 1..Len(q) PROVE q[i] \in T
      OBVIOUS
    <3>1. CASE i = 1
      BY <1>2, <3>1
    <3>2. CASE i # 1
      <4>1. i - 1 \in 1..Len(Tail(q)) /\ q[i] = Tail(q)[i - 1]
        BY <1>2, <3>2
      <4>2. QED
        BY <1>2, <4>1
    <3>3. QED
      BY <3>1, <3>2
  <2>2. QED
    BY <2>1
<1>3. \A r \in S : Append(q, r) \in Seq(S) /\ Append(q, r) # <<>>
  <2> SUFFICES ASSUME NEW r \in S PROVE Append(q, r) \in Seq(S) /\ Append(q, r) # <<>>
    OBVIOUS
  <2>1. Append(q, r) \in Seq(S) /\ Len(Append(q, r)) = Len(q) + 1
    OBVIOUS
  <2>2. QED
    BY <2>1
<1>4. ASSUME NEW r \in S, Append(q, r) \in Seq(T) PROVE q \in Seq(T) /\ r \in T
  <2>1. Len(Append(q, r)) = Len(q) + 1 /\ Append(q, r)[Len(q) + 1] = r
        /\ \A i \in 1..Len(q) : Append(q, r)[i] = q[i]
    OBVIOUS
  <2>2. \A i \in 1..(Len(q) + 1) : Append(q, r)[i] \in T
    BY <1>4, <2>1
  <2>3. QED
    BY <2>1, <2>2
<1>5. \A r \in S : q \o <<r>> = Append(q, r)
  OBVIOUS
<1>6. q \o <<>> = q
  OBVIOUS
<1>7. QED
  BY <1>1, <1>2, <1>3, <1>4, <1>5, <1>6

Acks == {"ack"} \X BOOLEAN
Asks == Wx!Writes \cup {"type", "rep"}

\* ----------------------------------------------------------------------
LEMMA WiiInit == Wx!Init => Wx!Ind
BY DEF Wx!Init, Wx!Ind, Wx!Types, Wx!Plugged, Wx!Known, Wx!Answered, Wx!Orderly, Wx!Phase, Wx!Shown

LEMMA WiiAnswer ==
  ASSUME Wx!Types
  PROVE  <<"data", Wx!Answer>> \in Wx!Messages /\ <<"data", Wx!Answer>> \notin Acks
BY DEF Wx!Types, Wx!Answer, Wx!Messages, Wx!Plugged, Wx!Known, Acks

\* What the requests and the messages are.
LEMMA WiiQueues ==
  ASSUME Wx!Types
  PROVE  /\ Wx!Writes \subseteq Asks /\ Acks \subseteq Wx!Messages /\ s6 \in Seq(Asks) /\
              s7 \in Seq(Wx!Messages)
         /\ "rep" \in Asks /\ "type" \in Asks /\ "rep" \notin Wx!Writes /\ "type" \notin Wx!Writes
BY DEF Wx!Types, Wx!Writes, Asks, Acks, Wx!Messages

LEMMA WiiOutKinds ==
  ASSUME Wx!Types
  PROVE  /\ s6 # <<>> => Head(s6) \in Asks /\ Tail(s6) \in Seq(Asks)
         /\ s6 # <<>> /\ Head(s6) \in Wx!Writes /\ Tail(s6) \in Seq(Wx!Writes) =>
              s6 \in Seq(Wx!Writes)
         /\ \A r \in Asks : s6 \o <<r>> \in Seq(Asks) /\ s6 \o <<r>> # <<>>
         /\ \A r \in Asks : s6 \o <<r>> \in Seq(Wx!Writes) => (s6 \in Seq(Wx!Writes) /\
              r \in Wx!Writes)
         /\ s6 \o <<>> = s6
<1>1. Wx!Writes \subseteq Asks /\ s6 \in Seq(Asks)
  BY WiiQueues
<1>2. QED
  BY <1>1, WiiQueue

LEMMA WiiInKinds ==
  ASSUME Wx!Types
  PROVE  /\ s7 # <<>> => Head(s7) \in Wx!Messages /\ Tail(s7) \in Seq(Wx!Messages)
         /\ s7 # <<>> /\ Head(s7) \in Acks /\ Tail(s7) \in Seq(Acks) => s7 \in Seq(Acks)
         /\ \A r \in Wx!Messages : Append(s7, r) \in Seq(Wx!Messages) /\ Append(s7, r) # <<>>
         /\ \A r \in Wx!Messages : Append(s7, r) \in Seq(Acks) => (s7 \in Seq(Acks) /\ r \in Acks)
<1>1. Acks \subseteq Wx!Messages /\ s7 \in Seq(Wx!Messages)
  BY WiiQueues
<1>2. QED
  BY <1>1, WiiQueue

LEMMA WiiMessage ==
  /\ Wx!Done[1] = "ack" /\ Wx!Done[2] = FALSE
  /\ \A b \in BOOLEAN : <<"status", b>>[1] = "status" /\ <<"status", b>>[2] = b
  /\ \A t : <<"data", t>>[1] = "data" /\ <<"data", t>>[2] = t
BY DEF Wx!Done

LEMMA WiiPlugs ==
  ASSUME Wx!Ind, NEW p \in Wx!Plugged, Wx!Plugs(p)
  PROVE  Wx!Ind'
<1>0. Wx!Types
  BY DEF Wx!Ind
<1>1. <<"status", p # "none">> \in Wx!Messages /\ <<"status", p # "none">> \notin Acks
  BY DEF Wx!Messages, Acks
<1>2. s1' = p /\ s2' = 0 /\ s3' = FALSE /\ s4' = s4 /\ s5' = s5
      /\ s6' = s6 /\ s7' = Append(s7, <<"status", p # "none">>) /\ s8' = s8 + 1
      /\ s9' = s9 \cup (IF s6 # <<>> \/ s7 # <<>> THEN {"mixed"} ELSE {})
  BY DEF Wx!Plugs
<1>3. Wx!Types'
  <2>1. s7' \in Seq(Wx!Messages)
    BY <1>0, <1>1, <1>2, WiiInKinds, Zenon
  <2>2. s1' \in Wx!Plugged /\ s2' \in 0..3 /\ s3' \in BOOLEAN /\ s4' \in Nat
        /\ s5' \in Wx!Known /\ s8' \in Nat
    <3>1. s4 \in Nat /\ s5 \in Wx!Known /\ s8 \in Nat
      BY <1>0 DEF Wx!Types
    <3>2. s1' = p /\ s2' = 0 /\ s3' = FALSE /\ s4' = s4 /\ s5' = s5
          /\ s8' = s8 + 1
      BY <1>2
    <3>3. s8 + 1 \in Nat
      BY <3>1
    <3>4. s3' \in BOOLEAN
      BY <3>2
    <3>5. s2' \in 0..3
      <4>1. s2' = 0
        BY <3>2
      <4>2. QED
        BY <4>1
    <3>6. s1' \in Wx!Plugged /\ s4' \in Nat /\ s5' \in Wx!Known /\ s8' \in Nat
      BY <3>1, <3>2, <3>3, Zenon
    <3>7. QED
      BY <3>4, <3>5, <3>6
  <2>3. QED
    BY <1>0, <1>2, <2>1, <2>2 DEF Wx!Types
<1>4. Wx!Answered'
  <2>1. s7' \notin Seq(Acks)
    BY <1>0, <1>1, <1>2, WiiInKinds
  <2>2. QED
    BY <2>1 DEF Wx!Answered, Acks
<1>5. Wx!Orderly'
  <2>1. ASSUME "mixed" \notin s9' PROVE Wx!Phase'
    <3>1. s6 = <<>> /\ s7 = <<>>
      BY <1>2, <2>1
    <3>2. Append(s7, <<"status", p # "none">>) = <<<<"status", p # "none">>>>
      BY <3>1
    <3>3. QED
      BY <1>2, <3>1, <3>2 DEF Wx!Phase
  <2>2. QED
    BY <2>1 DEF Wx!Orderly
<1>6. QED
  BY <1>3, <1>4, <1>5 DEF Wx!Ind

\* The extension goes a step further, and the acknowledgment says whether there is one.
Opened(req) == CASE s1 = "none" -> 0 [] req = "init0" -> 1
                 [] req = "init1" -> IF s2 = 1 THEN 2 ELSE s2
                 [] OTHER -> IF s2 = 2 THEN 3 ELSE s2

LEMMA WiiServes ==
  ASSUME Wx!Ind, Wx!Serves
  PROVE  Wx!Ind'
<1>0. Wx!Types
  BY DEF Wx!Ind
<1> DEFINE req == Head(s6)
<1>1. s6 # <<>> /\ s6' = Tail(s6) /\ s1' = s1 /\ s4' = s4 /\ s5' = s5
      /\ s8' = s8 /\ s9' = s9
  BY DEF Wx!Serves
<1>2. req \in Asks /\ s6' \in Seq(Asks)
  BY <1>0, <1>1, WiiOutKinds
<1>3. /\ req = "rep" => s3' = TRUE /\ s2' = s2 /\ s7' = s7
      /\ req = "type" => s3' = s3 /\ s2' = s2 /\ s7' = Append(s7, <<"data", Wx!Answer>>)
      /\ req \in Wx!Writes => s3' = s3 /\ s2' = Opened(req)
                          /\ s7' = Append(s7, <<"ack", s1 = "none">>)
  BY DEF Wx!Serves, Opened, Wx!Writes
<1>4. req = "rep" \/ req = "type" \/ req \in Wx!Writes
  BY <1>2 DEF Asks
<1>5. <<"ack", s1 = "none">> \in Wx!Messages
  BY DEF Wx!Messages
<1>6. Wx!Types'
  <2>1. s7' \in Seq(Wx!Messages)
    <3>1. s7 \in Seq(Wx!Messages)
      BY <1>0 DEF Wx!Types
    <3>2. Append(s7, <<"data", Wx!Answer>>) \in Seq(Wx!Messages) /\ Append(s7, <<"ack",
          s1 = "none">>) \in Seq(Wx!Messages)
      BY <1>0, <1>5, WiiInKinds, WiiAnswer, Zenon
    <3>3. QED
      BY <1>3, <1>4, <3>1, <3>2, Zenon
  <2>2. s2' \in 0..3
    <3>1. s2 \in 0..3
      BY <1>0 DEF Wx!Types
    <3>2. Opened(req) \in 0..3
      BY <3>1 DEF Opened
    <3>3. QED
      BY <1>3, <1>4, <3>1, <3>2
  <2>3. s3' \in BOOLEAN
    BY <1>0, <1>3, <1>4, Zenon DEF Wx!Types
  <2>4. QED
    BY <1>0, <1>1, <1>2, <2>1, <2>2, <2>3 DEF Wx!Types, Asks
<1>7. Wx!Answered'
  <2>1. ASSUME ~s3', s6' \in Seq(Wx!Writes), s7' \in Seq(Acks) PROVE s7' # <<>> /\ s4' <= 3
    <3>1. req # "rep"
      BY <1>3, <2>1
    <3>2. req # "type"
      BY <1>0, <1>3, <2>1, WiiAnswer, WiiInKinds, Zenon
    <3>3. req \in Wx!Writes
      BY <1>4, <3>1, <3>2
    <3>4. s6 \in Seq(Wx!Writes)
      BY <1>0, <1>1, <2>1, <3>3, WiiOutKinds
    <3>5. s7 \in Seq(Acks) /\ s7' # <<>>
      BY <1>0, <1>3, <1>5, <2>1, <3>3, WiiInKinds, Zenon
    <3>6. ~s3
      BY <1>3, <2>1, <3>3
    <3>7. QED
      BY <1>1, <3>4, <3>5, <3>6 DEF Wx!Ind, Wx!Answered, Acks
  <2>2. QED
    BY <2>1 DEF Wx!Answered, Wx!Quiet, Acks
<1>8. Wx!Orderly'
  <2>1. ASSUME "mixed" \notin s9' PROVE Wx!Phase'
    <3>1. Wx!Phase
      BY <1>1, <2>1 DEF Wx!Ind, Wx!Orderly
    <3>2. \/ /\ s6 = <<"rep">> /\ s7 = <<>> /\ Wx!Shown
          \/ /\ s7 = <<>> /\ s1 # "none"
             /\ \/ s6 = <<"init0">> /\ s4 = 0 /\ s2 = 0
                \/ s6 = <<"init1">> /\ s4 = 1 /\ s2 = 1
                \/ s6 = <<"type">> /\ s4 = 2 /\ s2 = 2
                \/ s1 = "classic" /\ s6 = <<"8bit">> /\ s4 = 3 /\ s2 = 2
                \/ s1 = "classic" /\ s6 = <<"type">> /\ s4 = 4 /\ s2 = 3
      BY <1>1, <3>1 DEF Wx!Phase, Wx!Opening, Wx!Longer, Wx!Sent, Wx!Said
    <3>3. \A r : Head(<<r>>) = r /\ Tail(<<r>>) = <<>>
      OBVIOUS
    <3>4. s7 = <<>> => \A r : Append(s7, r) = <<r>>
      OBVIOUS
    <3>5. CASE s6 = <<"rep">> /\ s7 = <<>> /\ Wx!Shown
      <4>1. s6' = <<>> /\ s7' = <<>> /\ Wx!Shown'
        BY <1>1, <1>3, <3>3, <3>5 DEF Wx!Shown
      <4>2. QED
        BY <4>1 DEF Wx!Phase
    <3>6. CASE s7 = <<>> /\ s1 # "none" /\ s6 = <<"init0">> /\ s4 = 0 /\ s2 = 0
      <4>1. Wx!Said(Wx!Done, 0, 1)'
        BY <1>1, <1>3, <3>3, <3>4, <3>6 DEF Wx!Said, Wx!Done, Opened, Wx!Writes
      <4>2. QED
        BY <4>1 DEF Wx!Phase, Wx!Opening
    <3>7. CASE s7 = <<>> /\ s1 # "none" /\ s6 = <<"init1">> /\ s4 = 1 /\ s2 = 1
      <4>1. Wx!Said(Wx!Done, 1, 2)'
        BY <1>1, <1>3, <3>3, <3>4, <3>7 DEF Wx!Said, Wx!Done, Opened, Wx!Writes
      <4>2. QED
        BY <4>1 DEF Wx!Phase, Wx!Opening
    <3>8. CASE s7 = <<>> /\ s1 # "none" /\ s6 = <<"type">> /\ s4 = 2 /\ s2 = 2
      <4>1. Wx!Said(<<"data", s1>>, 2, 2)'
        BY <1>1, <1>3, <3>3, <3>4, <3>8 DEF Wx!Said, Wx!Answer
      <4>2. QED
        BY <4>1 DEF Wx!Phase, Wx!Opening
    <3>9. CASE s7 = <<>> /\ s1 = "classic" /\ s6 = <<"8bit">> /\ s4 = 3 /\ s2 = 2
      <4>1. Wx!Said(Wx!Done, 3, 3)' /\ s1' = "classic"
        BY <1>1, <1>3, <3>3, <3>4, <3>9 DEF Wx!Said, Wx!Done, Opened, Wx!Writes
      <4>2. QED
        BY <4>1 DEF Wx!Phase, Wx!Longer
    <3>10. CASE s7 = <<>> /\ s1 = "classic" /\ s6 = <<"type">> /\ s4 = 4 /\ s2 = 3
      <4>0. Wx!Answer = "classic 8 bit"
        BY <3>10 DEF Wx!Answer
      <4>1. Wx!Said(<<"data", "classic 8 bit">>, 4, 3)' /\ s1' = "classic"
        BY <1>1, <1>3, <3>3, <3>4, <3>10, <4>0 DEF Wx!Said
      <4>2. QED
        BY <4>1 DEF Wx!Phase, Wx!Longer
    <3>11. QED
      BY <3>2, <3>5, <3>6, <3>7, <3>8, <3>9, <3>10
  <2>2. QED
    BY <2>1 DEF Wx!Orderly
<1>9. QED
  BY <1>6, <1>7, <1>8 DEF Wx!Ind

\* What an acknowledgment is followed by.
LEMMA WiiRequest ==
  ASSUME NEW s \in Nat
  PROVE  /\ Wx!Request(s) = <<>> \/ \E r \in Asks : Wx!Request(s) = <<r>>
         /\ s <= 3 => \E r \in Asks : Wx!Request(s) = <<r>>
         /\ s = 4 => Wx!Request(s) = <<"type">>
BY DEF Wx!Request, Asks, Wx!Writes

LEMMA WiiTakes ==
  ASSUME Wx!Ind, Wx!Takes
  PROVE  Wx!Ind'
<1>0. Wx!Types
  BY DEF Wx!Ind
<1> DEFINE msg == Head(s7)
<1>1. s7 # <<>> /\ s7' = Tail(s7) /\ s1' = s1 /\ s2' = s2 /\ s3' = s3
      /\ s8' = s8 /\ s9' = s9
  BY DEF Wx!Takes
<1>2. msg \in Wx!Messages /\ s7' \in Seq(Wx!Messages)
  BY <1>0, <1>1, WiiInKinds
<1>3. /\ msg[1] = "status" => s4' = Wx!Status(msg[2]).state /\ s6' = s6 \o Wx!Status(msg[2]).out
                               /\ s5' = "none"
      /\ msg[1] = "data" => s4' = Wx!Data(msg[2]).state /\ s6' = s6 \o Wx!Data(msg[2]).out
                             /\ s5' = Wx!Typed(msg[2])
      /\ msg[1] = "ack" => s4' = Wx!Ack(msg[2]).state /\ s6' = s6 \o Wx!Ack(msg[2]).out
                            /\ s5' = s5
  BY DEF Wx!Takes
<1>4. \/ msg[1] = "status" /\ msg[2] \in BOOLEAN
      \/ msg[1] = "data" /\ msg[2] \in Wx!Known \cup {"unknown"}
      \/ msg[1] = "ack" /\ msg[2] \in BOOLEAN /\ msg \in Acks
  BY <1>2 DEF Wx!Messages, Acks
<1>5. s4 \in Nat /\ s4 + 1 \in Nat
  BY <1>0 DEF Wx!Types
<1>6. /\ msg[1] = "status" /\ msg[2] => s4' = 0 /\ s6' = s6 \o <<"init0">>
      /\ msg[1] = "status" /\ ~msg[2] => s4' = s4 /\ s6' = s6 \o <<"rep">>
  BY <1>3 DEF Wx!Status
<1>7. /\ msg[1] = "data" /\ msg[2] = "classic" /\ s4 < 3 => s4' = 3 /\ s6' = s6 \o <<"8bit">>
      /\ msg[1] = "data" /\ ~(msg[2] = "classic" /\ s4 < 3) => s4' = s4 /\ s6' = s6 \o <<"rep">>
  BY <1>3 DEF Wx!Data, Wx!Request
<1>8. /\ msg[1] = "ack" /\ msg[2] => s4' = s4 /\ s6' = s6 \o Wx!Request(s4)
      /\ msg[1] = "ack" /\ ~msg[2] => s4' = s4 + 1 /\ s6' = s6 \o Wx!Request(s4 + 1)
  BY <1>3 DEF Wx!Ack
<1>9. s4' \in Nat /\ (s6' = s6 \/ \E r \in Asks : s6' = s6 \o <<r>>)
  <2>1. CASE msg[1] = "status" /\ msg[2] \in BOOLEAN
    BY <1>5, <1>6, <2>1 DEF Asks, Wx!Writes
  <2>2. CASE msg[1] = "data"
    BY <1>5, <1>7, <2>2 DEF Asks, Wx!Writes
  <2>3. CASE msg[1] = "ack" /\ msg[2] \in BOOLEAN
    <3>1. s4' \in Nat /\ s6' = s6 \o Wx!Request(s4')
      BY <1>5, <1>8, <2>3
    <3>2. Wx!Request(s4') = <<>> \/ \E r \in Asks : Wx!Request(s4') = <<r>>
      BY <3>1, WiiRequest
    <3>3. QED
      BY <1>0, <3>1, <3>2, WiiOutKinds
  <2>4. QED
    BY <1>4, <2>1, <2>2, <2>3
<1>10. Wx!Types'
  <2>1. s6' \in Seq(Asks)
    BY <1>0, <1>9, WiiOutKinds, WiiQueues, Zenon
  <2>2. s5' \in Wx!Known
    <3>1. s5 \in Wx!Known
      BY <1>0 DEF Wx!Types
    <3>2. QED
      BY <1>3, <1>4, <3>1 DEF Wx!Typed, Wx!Known, Wx!Plugged
  <2>3. QED
    BY <1>0, <1>1, <1>2, <1>9, <2>1, <2>2 DEF Wx!Types, Asks
<1>11. Wx!Answered'
  <2>1. ASSUME ~s3', s6' \in Seq(Wx!Writes), s7' \in Seq(Acks) PROVE ~(s6' = <<>>) /\ s4' <= 3
    <3>1. CASE msg[1] = "status" /\ msg[2] \in BOOLEAN
      <4>1. "init0" \in Asks
        BY DEF Asks, Wx!Writes
      <4>2. msg[2]
        BY <1>0, <1>6, <2>1, <3>1, WiiOutKinds, WiiQueues
      <4>3. s4' = 0 /\ s6' = s6 \o <<"init0">>
        BY <1>6, <3>1, <4>2
      <4>4. s6' # <<>>
        BY <1>0, <4>1, <4>3, WiiOutKinds
      <4>5. QED
        BY <4>3, <4>4
    <3>2. CASE msg[1] = "data"
      <4>1. "8bit" \in Asks
        BY DEF Asks, Wx!Writes
      <4>2. msg[2] = "classic" /\ s4 < 3
        BY <1>0, <1>7, <2>1, <3>2, WiiOutKinds, WiiQueues
      <4>3. s4' = 3 /\ s6' = s6 \o <<"8bit">>
        BY <1>7, <3>2, <4>2
      <4>4. s6' # <<>>
        BY <1>0, <4>1, <4>3, WiiOutKinds
      <4>5. QED
        BY <4>3, <4>4
    <3>3. CASE msg[1] = "ack" /\ msg[2] \in BOOLEAN /\ msg \in Acks
      <4>1. s7 \in Seq(Acks)
        BY <1>0, <1>1, <2>1, <3>3, WiiInKinds
      <4>2. s6 \in Seq(Wx!Writes)
        BY <1>0, <1>9, <2>1, WiiOutKinds, Zenon
      <4>3. s4 <= 3
        BY <1>1, <2>1, <4>1, <4>2 DEF Wx!Ind, Wx!Answered, Acks
      <4>4. s4' = s4 \/ s4' = s4 + 1
        BY <1>8, <3>3
      <4>5. s4' \in Nat /\ s6' = s6 \o Wx!Request(s4')
        BY <1>5, <1>8, <3>3
      <4>6. s4' # 4
        <5>1. ASSUME s4' = 4 PROVE FALSE
          <6>1. s6' = s6 \o <<"type">>
            BY <4>5, <5>1, WiiRequest
          <6>2. QED
            BY <1>0, <2>1, <6>1, WiiOutKinds, WiiQueues
        <5>2. QED
          BY <5>1
      <4>7. s4' <= 3
        BY <1>5, <4>3, <4>4, <4>6
      <4>8. PICK r \in Asks : Wx!Request(s4') = <<r>>
        BY <4>5, <4>7, WiiRequest
      <4>9. s6' # <<>>
        BY <1>0, <4>5, <4>8, WiiOutKinds
      <4>10. QED
        BY <4>7, <4>9
    <3>4. QED
      BY <1>4, <3>1, <3>2, <3>3
  <2>2. QED
    BY <2>1 DEF Wx!Answered, Wx!Quiet, Acks
<1>12. Wx!Orderly'
  <2>1. ASSUME "mixed" \notin s9' PROVE Wx!Phase'
    <3>1. Wx!Phase
      BY <1>1, <2>1 DEF Wx!Ind, Wx!Orderly
    <3>2. \/ s6 = <<>> /\ s7 = <<<<"status", s1 # "none">>>> /\ s2 = 0
          \/ /\ s6 = <<>> /\ s1 # "none"
             /\ \/ s7 = <<Wx!Done>> /\ s4 = 0 /\ s2 = 1
                \/ s7 = <<Wx!Done>> /\ s4 = 1 /\ s2 = 2
                \/ s7 = <<<<"data", s1>>>> /\ s4 = 2 /\ s2 = 2
                \/ s1 = "classic" /\ s7 = <<Wx!Done>> /\ s4 = 3 /\ s2 = 3
                \/ s1 = "classic" /\ s7 = <<<<"data", "classic 8 bit">>>> /\ s4 = 4 /\ s2 = 3
      BY <1>1, <3>1 DEF Wx!Phase, Wx!Opening, Wx!Longer, Wx!Sent, Wx!Said
    <3>3. \A r : Head(<<r>>) = r /\ Tail(<<r>>) = <<>>
      OBVIOUS
    <3>4. s6 = <<>> => \A r : s6 \o <<r>> = <<r>>
      OBVIOUS
    <3>5. CASE s6 = <<>> /\ s7 = <<<<"status", s1 # "none">>>> /\ s2 = 0
      <4>1. msg = <<"status", s1 # "none">> /\ s7' = <<>>
        BY <1>1, <3>3, <3>5
      <4>2. CASE s1 = "none"
        <5>0. msg[1] = "status" /\ ~msg[2]
          BY <4>1, <4>2, WiiMessage, Zenon
        <5>1. s6' = <<"rep">> /\ Wx!Shown'
          BY <1>1, <1>3, <1>6, <3>4, <3>5, <4>2, <5>0 DEF Wx!Shown
        <5>2. QED
          BY <4>1, <5>1 DEF Wx!Phase
      <4>3. CASE s1 # "none"
        <5>0. msg[1] = "status" /\ msg[2]
          BY <4>1, <4>3, WiiMessage, Zenon
        <5>1. Wx!Sent("init0", 0, 0)'
          BY <1>1, <1>6, <3>4, <3>5, <4>1, <4>3, <5>0 DEF Wx!Sent
        <5>2. QED
          BY <5>1 DEF Wx!Phase, Wx!Opening
      <4>4. QED
        BY <4>2, <4>3
    <3>6. CASE s6 = <<>> /\ s1 # "none" /\ s7 = <<Wx!Done>> /\ s4 = 0 /\ s2 = 1
      <4>1. msg = Wx!Done /\ s7' = <<>>
        BY <1>1, <3>3, <3>6
      <4>2. s4' = 1 /\ s6' = s6 \o <<"init1">>
        <5>1. msg[1] = "ack" /\ ~msg[2]
          BY <4>1, WiiMessage, Zenon
        <5>0. s4 + 1 = 1
          BY <3>6
        <5>2. Wx!Request(1) = <<"init1">>
          BY DEF Wx!Request
        <5>3. QED
          BY <1>8, <5>0, <5>1, <5>2
      <4>3. Wx!Sent("init1", 1, 1)'
        BY <1>1, <3>4, <3>6, <4>1, <4>2 DEF Wx!Sent
      <4>4. QED
        BY <4>3 DEF Wx!Phase, Wx!Opening
    <3>7. CASE s6 = <<>> /\ s1 # "none" /\ s7 = <<Wx!Done>> /\ s4 = 1 /\ s2 = 2
      <4>1. msg = Wx!Done /\ s7' = <<>>
        BY <1>1, <3>3, <3>7
      <4>2. s4' = 2 /\ s6' = s6 \o <<"type">>
        <5>1. msg[1] = "ack" /\ ~msg[2]
          BY <4>1, WiiMessage, Zenon
        <5>0. s4 + 1 = 2
          BY <3>7
        <5>2. Wx!Request(2) = <<"type">>
          BY DEF Wx!Request
        <5>3. QED
          BY <1>8, <5>0, <5>1, <5>2
      <4>3. Wx!Sent("type", 2, 2)'
        BY <1>1, <3>4, <3>7, <4>1, <4>2 DEF Wx!Sent
      <4>4. QED
        BY <4>3 DEF Wx!Phase, Wx!Opening
    <3>8. CASE s6 = <<>> /\ s1 # "none" /\ s7 = <<<<"data", s1>>>> /\ s4 = 2 /\ s2 = 2
      <4>1. msg = <<"data", s1>> /\ s7' = <<>>
        BY <1>1, <3>3, <3>8
      <4>2. s1 \in Wx!Plugged
        BY <1>0 DEF Wx!Types
      <4>3. CASE s1 = "classic"
        <5>1. s4' = 3 /\ s6' = s6 \o <<"8bit">>
          BY <1>7, <3>8, <4>1, <4>3
        <5>2. Wx!Sent("8bit", 3, 2)' /\ s1' = "classic"
          BY <1>1, <3>4, <3>8, <4>1, <4>3, <5>1 DEF Wx!Sent
        <5>3. QED
          BY <5>2 DEF Wx!Phase, Wx!Longer
      <4>4. CASE s1 # "classic"
        <5>1. s6' = s6 \o <<"rep">> /\ s5' = s1
          BY <1>3, <1>7, <4>1, <4>2, <4>4 DEF Wx!Typed, Wx!Plugged
        <5>2. s6' = <<"rep">> /\ Wx!Shown'
          BY <1>1, <3>4, <3>8, <4>4, <5>1 DEF Wx!Shown
        <5>3. QED
          BY <4>1, <5>2 DEF Wx!Phase
      <4>5. QED
        BY <4>3, <4>4
    <3>9. CASE s6 = <<>> /\ s1 = "classic" /\ s7 = <<Wx!Done>> /\ s4 = 3 /\ s2 = 3
      <4>1. msg = Wx!Done /\ s7' = <<>>
        BY <1>1, <3>3, <3>9
      <4>2. s4' = 4 /\ s6' = s6 \o <<"type">>
        <5>1. msg[1] = "ack" /\ ~msg[2]
          BY <4>1, WiiMessage, Zenon
        <5>0. s4 + 1 = 4
          BY <3>9
        <5>2. Wx!Request(4) = <<"type">>
          BY DEF Wx!Request
        <5>3. QED
          BY <1>8, <5>0, <5>1, <5>2
      <4>3. Wx!Sent("type", 4, 3)' /\ s1' = "classic"
        BY <1>1, <3>4, <3>9, <4>1, <4>2 DEF Wx!Sent
      <4>4. QED
        BY <4>3 DEF Wx!Phase, Wx!Longer
    <3>10. CASE s6 = <<>> /\ s1 = "classic" /\ s7 = <<<<"data", "classic 8 bit">>>> /\ s4 = 4
                /\ s2 = 3
      <4>1. msg = <<"data", "classic 8 bit">> /\ s7' = <<>>
        BY <1>1, <3>3, <3>10
      <4>2. s6' = s6 \o <<"rep">> /\ s5' = "classic 8 bit"
        <5>1. msg[1] = "data" /\ msg[2] = "classic 8 bit" /\ msg[2] # "classic"
          BY <4>1, WiiMessage
        <5>2. QED
          BY <1>3, <1>7, <5>1 DEF Wx!Typed
      <4>3. s6' = <<"rep">> /\ Wx!Shown'
        BY <1>1, <3>4, <3>10, <4>2 DEF Wx!Shown
      <4>4. QED
        BY <4>1, <4>3 DEF Wx!Phase
    <3>11. QED
      BY <3>2, <3>5, <3>6, <3>7, <3>8, <3>9, <3>10
  <2>2. QED
    BY <2>1 DEF Wx!Orderly
<1>13. QED
  BY <1>10, <1>11, <1>12 DEF Wx!Ind

LEMMA WiiStep ==
  ASSUME Wx!Ind, Wx!Next \/ UNCHANGED Wx!wxVars
  PROVE  Wx!Ind'
<1>1. CASE Wx!Next
  BY <1>1, WiiServes, WiiTakes, WiiPlugs DEF Wx!Next, Wx!Plugged
<1>2. CASE UNCHANGED Wx!wxVars
  BY <1>2 DEF Wx!wxVars, Wx!Ind, Wx!Types, Wx!Answered, Wx!Quiet, Wx!Orderly, Wx!Phase, Wx!Shown,
     Wx!Opening, Wx!Longer, Wx!Sent, Wx!Said
<1>3. QED
  BY <1>1, <1>2

LEMMA WiiSettled == Wx!Ind => Wx!Reporting /\ Wx!TypeIsPlugged
<1> SUFFICES ASSUME Wx!Ind PROVE Wx!Reporting /\ Wx!TypeIsPlugged
  OBVIOUS
<1>1. ASSUME Wx!Quiet PROVE s3
  <2>1. s6 \in Seq(Wx!Writes) /\ s7 \in Seq({"ack"} \X BOOLEAN)
    BY <1>1 DEF Wx!Quiet
  <2>2. QED
    BY <1>1, <2>1 DEF Wx!Ind, Wx!Answered
<1>2. ASSUME Wx!Quiet, "mixed" \notin s9 PROVE s5 = IF s1 = "classic" THEN "classic 8 bit" ELSE s1
  <2>1. s6 = <<>> /\ s7 = <<>> /\ Wx!Phase
    BY <1>2 DEF Wx!Quiet, Wx!Ind, Wx!Orderly
  <2>2. \A r : <<r>> # <<>>
    OBVIOUS
  <2>3. QED
    BY <2>1, <2>2 DEF Wx!Phase, Wx!Opening, Wx!Longer, Wx!Sent, Wx!Said, Wx!Shown
<1>3. QED
  BY <1>1, <1>2 DEF Wx!Reporting, Wx!TypeIsPlugged

(***************************************************************************)
(* The upgrade (CfgUpgrade): what becomes of a configuration.              *)
(***************************************************************************)
Up == INSTANCE CfgUpgrade WITH
  cuFile <- s1, cuRam <- s2, cuPc <- s3, cuWas <- s4, cuCount <- s5, cuOdd <- s6

\* A default mapping, which has KBM_MAX entries and the ten combos (adapter.h:272, 286), fits
\* ADAPTER_MAPPING_MAX (config.h:17).
ASSUME UpgradeAssumption ==
  /\ CuDevs \in Nat /\ CuKbm \in Nat /\ CuCombos \in Nat \ {0} /\ CuMax \in Nat
  /\ CuCombos < CuMax /\ CuKbm + CuCombos <= CuMax

\* The combos of device i are appended.
Appended(t, i) ==
  [j \in Up!Devs |-> CASE j = i -> t[i] + CuCombos
                    [] t[i] + CuCombos > CuMax /\ j = i + 1 -> i - 1
                    [] OTHER -> t[j]]

\* The sizes on the way, device after device.
LEMMA UpgradeTill ==
  ASSUME NEW s
  PROVE  \E f : /\ f = [i \in 0..CuDevs |-> IF i = 0 THEN s ELSE Appended(f[i - 1], i)]
                /\ Up!Sizes(s) = f[CuDevs]
<1> DEFINE Till(f, n) == f = [i \in 0..n |-> IF i = 0 THEN s ELSE Appended(f[i - 1], i)]
           Bad == {n \in 0..CuDevs : ~ \E f : Till(f, n)}
<1>1. Bad = {}
  <2>1. SUFFICES ASSUME Bad # {} PROVE FALSE
    OBVIOUS
  <2>2. Bad \in SUBSET Nat
    BY UpgradeAssumption
  <2>3. PICK n \in Bad : \A m \in Bad : n <= m
    BY <2>1, <2>2, Smallest
  <2>4. n \in 0..CuDevs /\ ~ \E f : Till(f, n)
    BY <2>3
  <2>5. CASE n = 0
    <3> DEFINE f == [i \in 0..0 |-> s]
    <3>1. Till(f, 0)
      OBVIOUS
    <3>2. QED
      BY <2>4, <2>5, <3>1
  <2>6. CASE n # 0
    <3>1. n - 1 \in 0..CuDevs /\ n - 1 \notin Bad /\ n \in Nat
      BY <2>3, <2>4, <2>6, UpgradeAssumption
    <3>2. PICK f : Till(f, n - 1)
      BY <3>1
    <3> DEFINE g == [i \in 0..n |-> IF i < n THEN f[i] ELSE Appended(f[n - 1], n)]
    <3>3. ASSUME NEW i \in 0..n PROVE g[i] = IF i = 0 THEN s ELSE Appended(g[i - 1], i)
      <4>1. CASE i = 0
        BY <2>6, <3>1, <3>2, <4>1
      <4>2. CASE i # 0 /\ i < n
        <5>1. i \in 0..(n - 1) /\ i - 1 \in 0..(n - 1) /\ i - 1 < n /\ i - 1 \in 0..n
          BY <3>1, <4>2
        <5>2. f[i] = Appended(f[i - 1], i)
          BY <3>2, <4>2, <5>1
        <5>3. g[i] = f[i] /\ g[i - 1] = f[i - 1]
          BY <4>2, <5>1
        <5> HIDE DEF g
        <5>4. QED
          BY <4>2, <5>2, <5>3
      <4>3. CASE i = n
        <5>1. n - 1 \in 0..n /\ n - 1 < n /\ ~(n < n) /\ n \in 0..n
          BY <2>6, <3>1
        <5>2. g[n] = Appended(f[n - 1], n) /\ g[n - 1] = f[n - 1]
          BY <5>1
        <5> HIDE DEF g
        <5>3. QED
          BY <2>6, <4>3, <5>2
      <4>4. QED
        BY <3>1, <4>1, <4>2, <4>3
    <3>4. g = [i \in 0..n |-> g[i]]
      OBVIOUS
    <3>5. Till(g, n)
      <4> HIDE DEF g
      <4>1. QED
        BY <3>3, <3>4
    <3>6. QED
      BY <2>4, <3>5
  <2>7. QED
    BY <2>5, <2>6
<1>2. \E f : Till(f, CuDevs)
  BY <1>1, UpgradeAssumption
<1> DEFINE t == CHOOSE f : Till(f, CuDevs)
<1>3. Till(t, CuDevs)
  BY <1>2
<1>4. Up!Sizes(s) = t[CuDevs]
  BY DEF Up!Sizes, Appended
<1>5. QED
  BY <1>3, <1>4

\* Every device has the combos in the end, and where there is room they are all that is added.
LEMMA UpgradeSizes ==
  ASSUME NEW s \in [Up!Devs -> Nat]
  PROVE  /\ Up!Sizes(s) \in [Up!Devs -> Nat] /\ \A j \in Up!Devs : Up!Sizes(s)[j] > 0
         /\ (\A j \in Up!Devs : s[j] + CuCombos <= CuMax) =>
              \A j \in Up!Devs : Up!Sizes(s)[j] = s[j] + CuCombos
<1>1. PICK f : /\ f = [i \in 0..CuDevs |-> IF i = 0 THEN s ELSE Appended(f[i - 1], i)]
               /\ Up!Sizes(s) = f[CuDevs]
  BY UpgradeTill
<1> DEFINE Room == \A j \in Up!Devs : s[j] + CuCombos <= CuMax
           Right(n) == /\ f[n] \in [Up!Devs -> Nat] /\ \A j \in Up!Devs : j <= n => f[n][j] > 0
                       /\ Room => \A j \in Up!Devs :
                            f[n][j] = IF j <= n THEN s[j] + CuCombos ELSE s[j]
           Bad == {n \in 0..CuDevs : ~Right(n)}
<1>2. Bad = {}
  <2>1. SUFFICES ASSUME Bad # {} PROVE FALSE
    OBVIOUS
  <2>2. Bad \in SUBSET Nat
    BY UpgradeAssumption
  <2>3. PICK n \in Bad : \A m \in Bad : n <= m
    BY <2>1, <2>2, Smallest
  <2>4. n \in 0..CuDevs /\ ~Right(n) /\ n \in Nat
    BY <2>3, UpgradeAssumption
  <2>5. CASE n = 0
    <3>1. f[0] = s
      BY <1>1, UpgradeAssumption
    <3>2. \A j \in Up!Devs : ~(j <= 0)
      BY DEF Up!Devs
    <3>3. Right(0)
      BY <3>1, <3>2
    <3>4. QED
      BY <2>4, <2>5, <3>3
  <2>6. CASE n # 0
    <3> DEFINE t == f[n - 1]
    <3>1. n - 1 \in 0..CuDevs /\ n \in Up!Devs
      BY <2>4, <2>6, UpgradeAssumption DEF Up!Devs
    <3>2. Right(n - 1)
      BY <2>3, <2>4, <3>1
    <3>3. f[n] = Appended(t, n)
      BY <1>1, <2>4, <2>6
    <3>4. t \in [Up!Devs -> Nat]
      BY <3>2
    <3>5. \A j \in Up!Devs : j \in Nat /\ (j <= n <=> j <= n - 1 \/ j = n)
      BY <2>4 DEF Up!Devs
    <3>6. f[n] \in [Up!Devs -> Nat]
      <4> HIDE DEF t
      <4>1. n - 1 \in Nat
        BY <2>4, <2>6
      <4>2. QED
        BY <3>1, <3>3, <3>4, <4>1, UpgradeAssumption DEF Appended
    <3>7. ASSUME NEW j \in Up!Devs, j <= n PROVE f[n][j] > 0
      <4>1. CASE j = n
        <5> HIDE DEF t
        <5>1. QED
          BY <3>1, <3>3, <3>4, <4>1, UpgradeAssumption DEF Appended
      <4>2. CASE j # n
        <5>1. t[j] > 0 /\ j # n + 1
          BY <2>4, <3>2, <3>5, <3>7, <4>2
        <5> HIDE DEF t
        <5>2. QED
          BY <3>3, <4>2, <5>1 DEF Appended
      <4>3. QED
        BY <4>1, <4>2
    <3>8. ASSUME Room, NEW j \in Up!Devs
          PROVE  f[n][j] = IF j <= n THEN s[j] + CuCombos ELSE s[j]
      <4>1. \A k \in Up!Devs : t[k] = IF k <= n - 1 THEN s[k] + CuCombos ELSE s[k]
        BY <3>2, <3>8
      <4>2. t[n] = s[n] /\ ~(t[n] + CuCombos > CuMax)
        <5>1. ~(n <= n - 1) /\ s[n] \in Nat
          BY <2>4, <3>1
        <5>2. t[n] = s[n]
          BY <3>1, <4>1, <5>1
        <5> HIDE DEF t
        <5>3. QED
          BY <3>1, <3>8, <5>1, <5>2, UpgradeAssumption
      <4> HIDE DEF t
      <4>3. f[n][j] = IF j = n THEN t[n] + CuCombos ELSE t[j]
        BY <3>3, <4>2 DEF Appended
      <4>4. QED
        BY <3>5, <4>1, <4>2, <4>3
    <3>9. Right(n)
      BY <3>6, <3>7, <3>8
    <3>10. QED
      BY <2>4, <3>9
  <2>7. QED
    BY <2>5, <2>6
<1>3. Right(CuDevs)
  BY <1>2, UpgradeAssumption
<1>4. \A j \in Up!Devs : j <= CuDevs
  BY DEF Up!Devs
<1>5. QED
  BY <1>1, <1>3, <1>4

LEMMA UpgradeInit == Up!Init => Up!Ind
<1> SUFFICES ASSUME Up!Init PROVE Up!Ind
  OBVIOUS
<1>1. \A i \in Up!Devs : i \in Nat
  BY DEF Up!Devs
<1>2. Up!All(0) \in [Up!Devs -> Nat] /\ Up!All(1) \in [Up!Devs -> Nat] /\
      Up!All(CuMax) \in [Up!Devs -> Nat]
  BY UpgradeAssumption DEF Up!All
<1>3. Up!NoFile \in Up!Config /\ Up!Zero \in Up!Config
  BY <1>2 DEF Up!NoFile, Up!Zero, Up!Config, Up!Maps, Up!NoMagic, Up!Present
<1>4. ASSUME NEW v \in 0..2, NEW c \in Up!Old(v)
      PROVE  /\ c \in Up!Config /\ c.magic = v /\ c.map = "user"
             /\ \A i \in Up!Devs : c.size[i] > 0 /\ c.combos[i] = 0
  <2>1. PICK s \in [Up!Devs -> {1, CuMax - CuCombos, CuMax}
             \cup (IF v < 2 THEN {CuMax + 1} ELSE {})] :
          c = [magic |-> v, size |-> s, combos |-> Up!All(0), map |-> "user"]
    BY DEF Up!Old
  <2>2. s \in [Up!Devs -> Nat] /\ \A i \in Up!Devs : s[i] > 0
    BY <2>1, UpgradeAssumption
  <2>3. QED
    BY <1>2, <2>1, <2>2 DEF Up!Config, Up!Maps, Up!Present, Up!All
<1>5. \A c \in Up!New : c \in Up!Config /\ Up!Done(c) /\ Up!Whole(c) /\ c.magic = Up!Present /\
      c.map = "user"
  BY <1>2, UpgradeAssumption DEF Up!New, Up!Config, Up!Maps, Up!Present, Up!Done, Up!Whole, Up!All
<1>6. s1 \in Up!Config /\ s3 = <<"load", 0>> /\ s3[1] = "load" /\ s5 = 0 /\ s6 = {} /\ s4 = s1
      /\ s6 \subseteq {"unsaved"}
  BY <1>3, <1>4, <1>5 DEF Up!Init
<1>7. s1.magic < 0 => s1 = Up!NoFile
  BY <1>4, <1>5 DEF Up!Init, Up!Present
<1>8. Up!Stages
  BY <1>3, <1>6, <1>7 DEF Up!Init, Up!Stages
<1>9. Up!WholeAllAlong
  BY <1>4, <1>5, <1>6 DEF Up!Init, Up!WholeAllAlong, Up!Whole
<1>10. Up!KeptAllAlong
  <2>1. s4.magic > 0 => s1.map = "user"
    BY <1>4, <1>5, <1>6 DEF Up!Init, Up!NoFile
  <2>2. \A i \in Up!Devs : s1.size[i] >= s4.size[i]
    BY <1>6 DEF Up!Config
  <2>3. QED
    BY <1>6, <2>1, <2>2 DEF Up!KeptAllAlong, Up!Kept
<1>11. Up!DoneAllAlong
  BY <1>4, <1>5, <1>6 DEF Up!Init, Up!DoneAllAlong
<1>12. QED
  BY <1>8, <1>9, <1>10, <1>11 DEF Up!Ind

\* What a file or config made anew is.
LEMMA UpgradeDefault ==
  /\ Up!Default \in Up!Config /\ Up!Default.magic = Up!Present /\ Up!Whole(Up!Default) /\
       Up!Done(Up!Default)
  /\ Up!Preset \in Up!Config /\ Up!Preset.magic = Up!Present /\ Up!Whole(Up!Preset) /\
       Up!Done(Up!Preset)
  /\ Up!Zero \in Up!Config /\ Up!Zero.magic = -1 /\ Up!NoFile \in Up!Config /\ Up!NoFile.magic = -2
<1>1. /\ Up!All(0) \in [Up!Devs -> Nat] /\ Up!All(1) \in [Up!Devs -> Nat] /\
           Up!All(CuKbm + CuCombos) \in [Up!Devs -> Nat]
      /\ \A i \in Up!Devs : Up!All(1)[i] = 1
      /\ \A i \in Up!Devs : Up!All(CuKbm + CuCombos)[i] > 0
      /\ \A i \in Up!Devs : Up!All(CuKbm + CuCombos)[i] <= CuMax
  BY UpgradeAssumption DEF Up!All
<1>2. QED
  BY <1>1 DEF Up!Default, Up!Preset, Up!Zero, Up!NoFile, Up!Config, Up!Maps, Up!Whole, Up!Done,
     Up!Present, Up!NoMagic

LEMMA UpgradeLoad == Up!Ind /\ Up!Load => Up!Ind'
<1> SUFFICES ASSUME Up!Ind, Up!Load PROVE Up!Ind'
  OBVIOUS
<1>1. /\ s3[1] = "load" /\ UNCHANGED <<s1, s4, s5>>
      /\ s1 \in Up!Config /\ s1.magic \in -2..Up!Present
  BY DEF Up!Load, Up!Ind, Up!Stages, Up!Config
<1>0. s6 \subseteq {"cut", "part", "unread", "unsaved", "misread"}
  BY DEF Up!Ind, Up!Stages
<1>2. CASE /\ s2' \in {Up!Preset, Up!Default} /\ s3' = <<"open", Up!Present>>
           /\ \/ Up!Unusable(s1) /\ UNCHANGED s6
              \/ s6' = s6 \cup {"unread"}
  <2>1. s2' \in {Up!Preset, Up!Default} /\ s3' = <<"open", Up!Present>> /\ s3'[1] = "open" /\
        s3'[2] = Up!Present
    BY <1>2
  <2>0. /\ s6' \subseteq {"cut", "part", "unread", "unsaved", "misread"}
        /\ s6' \subseteq {"unsaved"} => Up!Unusable(s1) /\ s6 \subseteq {"unsaved"}
        /\ s6' \cap {"part", "misread"} = s6 \cap {"part", "misread"}
    <3>1. CASE Up!Unusable(s1) /\ s6' = s6
      BY <1>0, <3>1
    <3>2. CASE s6' = s6 \cup {"unread"}
      BY <1>0, <3>2
    <3>3. QED
      BY <1>2, <3>1, <3>2
  <2>2. Up!Stages'
    BY <1>1, <2>0, <2>1, UpgradeDefault DEF Up!Ind, Up!Stages, Up!Present
  <2>3. Up!WholeAllAlong'
    BY <1>1, <2>0, <2>1, UpgradeDefault DEF Up!Ind, Up!WholeAllAlong, Up!Whole
  <2>4. Up!KeptAllAlong'
    <3>1. SUFFICES ASSUME Up!Upgradable, s4.magic > 0, s6' \subseteq {"unsaved"} PROVE FALSE
      BY <1>1 DEF Up!KeptAllAlong, Up!Upgradable
    <3>2. s1.map = "user"
      BY <1>1, <2>0, <3>1 DEF Up!Ind, Up!KeptAllAlong, Up!Kept
    <3>3. s1 \in {Up!NoFile, Up!Zero}
      BY <1>1, <2>0, <3>1, UpgradeDefault DEF Up!Unusable, Up!NoMagic, Up!Ind, Up!Stages
    <3>4. QED
      BY <3>2, <3>3 DEF Up!NoFile, Up!Zero
  <2>5. Up!DoneAllAlong'
    <3>1. Up!Done(s2')
      BY <2>1, UpgradeDefault
    <3>2. QED
      BY <1>1, <2>0, <2>1, <3>1 DEF Up!Ind, Up!DoneAllAlong, Up!Upgradable, Up!Done
  <2>6. QED
    BY <2>2, <2>3, <2>4, <2>5 DEF Up!Ind
<1>3. CASE /\ ~Up!Unusable(s1) /\ s2' = s1 /\ s3' = <<"upgrade", s1.magic>>
           /\ s6' = s6 \ {"unsaved"}
  <2>1. s2' = s1 /\ s3' = <<"upgrade", s1.magic>> /\ s3'[1] = "upgrade" /\ s3'[2] = s1.magic
    BY <1>3
  <2>0. /\ s6' \subseteq {"cut", "part", "unread", "unsaved", "misread"}
        /\ s6' \subseteq {"unsaved"} => s6 \subseteq {"unsaved"}
        /\ s6' \cap {"part", "misread"} = s6 \cap {"part", "misread"}
    BY <1>0, <1>3
  <2>2. s1.magic \in 0..Up!Present /\ s1 # Up!NoFile /\ s1 # Up!Zero
    BY <1>1, <1>3, UpgradeDefault DEF Up!Unusable, Up!NoMagic, Up!Ind, Up!Stages, Up!Present
  <2>3. Up!Stages'
    BY <1>1, <2>0, <2>1, <2>2 DEF Up!Ind, Up!Stages, Up!Present
  <2>4. Up!WholeAllAlong'
    BY <1>1, <2>0, <2>1, <2>2 DEF Up!Ind, Up!WholeAllAlong, Up!Whole
  <2>5. Up!KeptAllAlong'
    <3>1. SUFFICES ASSUME Up!Upgradable, s4.magic > 0, s6' \subseteq {"unsaved"}
                   PROVE  /\ Up!Kept(s1) /\ (s1.magic # Up!Present => s1 = s4)
                          /\ s1.magic < Up!Present => Up!Roomy(s1)
                          /\ s1.magic < 2 => s1 = s4
      BY <1>1, <2>1 DEF Up!KeptAllAlong, Up!Upgradable, Up!Kept, Up!Roomy
    <3>2. Up!Kept(s1) /\ (s1.magic # Up!Present => s1 = s4)
      BY <1>1, <2>0, <3>1 DEF Up!Ind, Up!KeptAllAlong
    <3>3. ASSUME s1.magic < Up!Present PROVE Up!Roomy(s1)
      <4>1. s1 = s4 /\ s4.magic \in 1..2
        BY <2>2, <3>1, <3>2, <3>3 DEF Up!Present
      <4>2. \A i \in Up!Devs : s4.size[i] <= CuMax - CuCombos
        BY <3>1, <4>1 DEF Up!Upgradable
      <4>3. \A i \in Up!Devs : s4.combos[i] = 0
        BY <4>1 DEF Up!Ind, Up!Stages, Up!Old, Up!New, Up!NoFile, Up!Present, Up!All
      <4>4. QED
        BY <4>1, <4>2, <4>3 DEF Up!Roomy
    <3>4. QED
      BY <2>2, <3>2, <3>3 DEF Up!Present
  <2>6. Up!DoneAllAlong'
    <3>1. ASSUME s4.magic \notin 0..2, s6 \subseteq {"unsaved"} PROVE Up!Done(s1)
      BY <1>1, <2>2, <3>1 DEF Up!Ind, Up!DoneAllAlong
    <3>2. Up!Done(s1) => s1.magic = Up!Present
      BY DEF Up!Done
    <3>3. ASSUME Up!Upgradable, s4.magic \in 1..2, s5 = 0, s6 \subseteq {"unsaved"}
                 PROVE s1.magic # Up!Present
      BY <1>1, <3>3 DEF Up!Ind, Up!DoneAllAlong, Up!Present
    <3>4. QED
      BY <1>1, <2>0, <2>1, <3>1, <3>2, <3>3 DEF Up!DoneAllAlong, Up!Upgradable, Up!Done
  <2>7. QED
    BY <2>3, <2>4, <2>5, <2>6 DEF Up!Ind
<1>4. QED
  BY <1>2, <1>3 DEF Up!Load

\* The last upgrade is done.
LEMMA UpgradeOver == Up!Ind /\ Up!Upgrades => Up!Ind'
<1> SUFFICES ASSUME Up!Ind, Up!Upgrades PROVE Up!Ind'
  OBVIOUS
<1>1. /\ s3[1] = "upgrade" /\ s3' = <<"run", 0>> /\ s3'[1] = "run"
      /\ UNCHANGED <<s1, s2, s4, s5, s6>>
  BY DEF Up!Upgrades
<1>2. s3[2] = Up!Present
  BY DEF Up!Upgrades
<1>3. Up!Stages'
  BY <1>1, <1>2 DEF Up!Ind, Up!Stages
<1>4. Up!WholeAllAlong'
  BY <1>1 DEF Up!Ind, Up!WholeAllAlong, Up!Whole
<1>5. Up!KeptAllAlong'
  BY <1>1 DEF Up!Ind, Up!KeptAllAlong, Up!Kept, Up!Roomy, Up!Upgradable
<1>6. Up!DoneAllAlong'
  BY <1>1, <1>2 DEF Up!Ind, Up!DoneAllAlong, Up!Upgradable, Up!Done
<1>7. QED
  BY <1>3, <1>4, <1>5, <1>6 DEF Up!Ind

\* The fields of a configuration of the present version.
LEMMA UpgradeRecord ==
  ASSUME NEW s \in [Up!Devs -> Nat], NEW k \in [Up!Devs -> Nat], NEW m \in Up!Maps, NEW r,
         r = [magic |-> Up!Present, size |-> s, combos |-> k, map |-> m]
  PROVE  r \in Up!Config /\ r.magic = Up!Present /\ r.size = s /\ r.combos = k /\ r.map = m
<1>1. Up!Present \in -2..Up!Present
  BY DEF Up!Present
<1>2. QED
  BY <1>1 DEF Up!Config

\* What the first upgrade makes of a configuration.
LEMMA UpgradeV0 ==
  ASSUME NEW c \in Up!Config, NEW u, u = Up!V0(c)
  PROVE  u \in Up!Config /\ u.magic = Up!Present /\ u.size = c.size /\ u.map = "garbage"
<1>1. c.size \in [Up!Devs -> Nat] /\ c.combos \in [Up!Devs -> Nat] /\ "garbage" \in Up!Maps
  BY DEF Up!Config, Up!Maps
<1>2. u = [magic |-> Up!Present, size |-> c.size, combos |-> c.combos, map |-> "garbage"]
  BY DEF Up!V0, Up!Config
<1>3. QED
  BY <1>1, <1>2, UpgradeRecord

\* What the second makes of one of its version, and of another.
LEMMA UpgradeV1 ==
  ASSUME NEW c \in Up!Config, NEW f \in Up!Config, NEW u \in Up!V1(c, f), f.magic = 1
  PROVE  /\ u \in Up!Config /\ u.magic = Up!Present /\ u.map = c.map /\ u.combos = c.combos
         /\ \A i \in Up!Devs : f.size[i] > 0 => u.size[i] > 0
         /\ Up!Roomy(f) => u.size = f.size
<1> DEFINE z == [i \in Up!Devs |-> Up!Fits(f.size[i])]
<1>1. f.size \in [Up!Devs -> Nat] /\ c.combos \in [Up!Devs -> Nat] /\ c.map \in Up!Maps
  BY DEF Up!Config
<1>2. u = [magic |-> Up!Present, size |-> z, combos |-> c.combos, map |-> c.map]
  <2>1. Up!V1(c, f) = {[c EXCEPT !.magic = Up!Present, !.size = z]}
    BY DEF Up!V1
  <2> HIDE DEF z
  <2>2. u = [c EXCEPT !.magic = Up!Present, !.size = z]
    BY <2>1
  <2>3. QED
    BY <2>2 DEF Up!Config
<1>3. z \in [Up!Devs -> Nat]
  BY <1>1, UpgradeAssumption DEF Up!Fits
<1>4. \A i \in Up!Devs : f.size[i] > 0 => z[i] > 0
  BY <1>1, UpgradeAssumption DEF Up!Fits
<1>5. ASSUME Up!Roomy(f) PROVE z = f.size
  <2>1. \A i \in Up!Devs : f.size[i] <= CuMax - CuCombos
    BY <1>5 DEF Up!Roomy
  <2>2. \A i \in Up!Devs : z[i] = f.size[i]
    BY <1>1, <2>1, UpgradeAssumption DEF Up!Fits
  <2>3. QED
    BY <1>1, <2>2
<1> HIDE DEF z
<1>6. u \in Up!Config /\ u.magic = Up!Present /\ u.size = z /\ u.combos = c.combos /\ u.map = c.map
  BY <1>1, <1>2, <1>3, UpgradeRecord
<1>7. QED
  BY <1>4, <1>5, <1>6

\* What the third makes of any.
LEMMA UpgradeV2 ==
  ASSUME NEW c \in Up!Config, NEW u, u = Up!V2(c)
  PROVE  /\ u \in Up!Config /\ u.magic = Up!Present /\ u.map = c.map
         /\ \A j \in Up!Devs : u.size[j] > 0
         /\ Up!Roomy(c) => Up!Done(u) /\ \A j \in Up!Devs : u.size[j] >= c.size[j]
<1> DEFINE k == [i \in Up!Devs |-> c.combos[i] + 1]
           z == Up!Sizes(c.size)
<1>1. c.size \in [Up!Devs -> Nat] /\ c.combos \in [Up!Devs -> Nat] /\ c.map \in Up!Maps
  BY DEF Up!Config
<1>2. u = [magic |-> Up!Present, size |-> z, combos |-> k, map |-> c.map]
  BY DEF Up!V2, Up!Config
<1>3. /\ z \in [Up!Devs -> Nat] /\ \A j \in Up!Devs : z[j] > 0
      /\ (\A j \in Up!Devs : c.size[j] + CuCombos <= CuMax) =>
           \A j \in Up!Devs : z[j] = c.size[j] + CuCombos
  BY <1>1, UpgradeSizes
<1>4. k \in [Up!Devs -> Nat] /\ \A j \in Up!Devs : k[j] = c.combos[j] + 1
  BY <1>1
<1> HIDE DEF z, k
<1>5. u \in Up!Config /\ u.magic = Up!Present /\ u.size = z /\ u.combos = k /\ u.map = c.map
  BY <1>1, <1>2, <1>3, <1>4, UpgradeRecord
<1>6. ASSUME Up!Roomy(c) PROVE Up!Done(u) /\ \A j \in Up!Devs : u.size[j] >= c.size[j]
  <2>1. \A j \in Up!Devs : c.combos[j] = 0 /\ c.size[j] \in Nat /\ c.size[j] + CuCombos <= CuMax
    BY <1>1, <1>6, UpgradeAssumption DEF Up!Roomy
  <2>2. \A j \in Up!Devs : z[j] = c.size[j] + CuCombos
    BY <1>3, <2>1
  <2>3. \A j \in Up!Devs : k[j] = 1
    BY <1>4, <2>1
  <2>4. \A j \in Up!Devs : z[j] <= CuMax /\ z[j] >= c.size[j]
    BY <2>1, <2>2, UpgradeAssumption
  <2>5. QED
    BY <1>5, <2>3, <2>4 DEF Up!Done
<1>7. QED
  BY <1>3, <1>5, <1>6

\* What an upgrade makes of a configuration.
LEMMA UpgradeUpgraded ==
  ASSUME NEW c \in Up!Config, NEW f \in Up!Config, NEW v \in 0..2, NEW u \in Up!Upgraded(c, v, f)
  PROVE  /\ u \in Up!Config /\ u.magic = Up!Present
         /\ Up!Whole(c) /\ (f.magic = 1 => Up!Whole(f)) /\ ~(v = 1 /\ f.magic = 0) => Up!Whole(u)
         /\ v = 1 /\ f = c /\ c.magic = 1 /\ Up!Roomy(c) => u.map = c.map /\ u.size = c.size /\
              Up!Roomy(u)
         /\ v = 2 /\ Up!Roomy(c) => u.map = c.map /\ Up!Done(u) /\
              \A i \in Up!Devs : u.size[i] >= c.size[i]
<1>1. CASE v = 0
  <2>1. u = Up!V0(c)
    BY <1>1 DEF Up!Upgraded
  <2>2. u \in Up!Config /\ u.magic = Up!Present /\ u.size = c.size /\ u.map = "garbage"
    BY <2>1, UpgradeV0
  <2>3. Up!Whole(c) => Up!Whole(u)
    BY <2>2 DEF Up!Whole
  <2>4. QED
    BY <1>1, <2>2, <2>3
<1>2. CASE v = 1
  <2>1. u \in Up!V1(c, f)
    BY <1>2 DEF Up!Upgraded
  <2>2. CASE f.magic = 1
    <3>1. /\ u \in Up!Config /\ u.magic = Up!Present /\ u.map = c.map /\ u.combos = c.combos
          /\ \A i \in Up!Devs : f.size[i] > 0 => u.size[i] > 0
          /\ Up!Roomy(f) => u.size = f.size
      BY <2>1, <2>2, UpgradeV1
    <3>2. Up!Whole(c) /\ Up!Whole(f) => Up!Whole(u)
      BY <3>1 DEF Up!Whole
    <3>3. f = c /\ Up!Roomy(c) => Up!Roomy(u)
      BY <3>1 DEF Up!Roomy
    <3>4. QED
      BY <1>2, <2>2, <3>1, <3>2, <3>3
  <2>3. CASE f.magic = 0
    <3>1. PICK z \in [Up!Devs -> 0..CuMax] : u = [c EXCEPT !.magic = Up!Present, !.size = z]
      <4>1. f.magic # 1
        BY <2>3
      <4>2. Up!V1(c, f) = {[c EXCEPT !.magic = Up!Present,
            !.size = z] : z \in [Up!Devs -> 0..CuMax]}
        BY <2>3, <4>1, Zenon DEF Up!V1
      <4>3. QED
        BY <2>1, <4>2
    <3>2. z \in [Up!Devs -> Nat] /\ c.combos \in [Up!Devs -> Nat] /\ c.map \in Up!Maps
      BY <3>1, UpgradeAssumption DEF Up!Config
    <3>3. u = [magic |-> Up!Present, size |-> z, combos |-> c.combos, map |-> c.map]
      BY <3>1 DEF Up!Config
    <3>4. u \in Up!Config /\ u.magic = Up!Present
      BY <3>2, <3>3, UpgradeRecord
    <3>5. QED
      BY <1>2, <2>3, <3>4
  <2>4. CASE f.magic \notin 0..1
    <3>1. u = Up!Preset
      <4>1. f.magic # 1 /\ f.magic # 0
        BY <2>4
      <4>2. Up!V1(c, f) = {Up!Preset}
        BY <4>1, Zenon DEF Up!V1
      <4>3. QED
        BY <2>1, <4>2
    <3>2. u \in Up!Config /\ u.magic = Up!Present /\ Up!Whole(u)
      BY <3>1, UpgradeDefault
    <3>3. QED
      BY <1>2, <2>4, <3>2
  <2>5. QED
    BY <2>2, <2>3, <2>4
<1>3. CASE v = 2
  <2>1. u = Up!V2(c)
    BY <1>3 DEF Up!Upgraded
  <2>2. /\ u \in Up!Config /\ u.magic = Up!Present /\ u.map = c.map
        /\ \A j \in Up!Devs : u.size[j] > 0
        /\ Up!Roomy(c) => Up!Done(u) /\ \A j \in Up!Devs : u.size[j] >= c.size[j]
    BY <2>1, UpgradeV2
  <2>3. Up!Whole(c) => Up!Whole(u)
    BY <2>2 DEF Up!Whole
  <2>4. QED
    BY <1>3, <2>2, <2>3
<1>4. QED
  BY <1>1, <1>2, <1>3

LEMMA UpgradeUpgrade == Up!Ind /\ Up!Upgrade => Up!Ind'
<1> SUFFICES ASSUME Up!Ind, Up!Upgrade PROVE Up!Ind'
  OBVIOUS
<1> DEFINE v == s3[2]
<1>1. /\ s3[1] = "upgrade" /\ s1 \in Up!Config /\ s2 \in Up!Config /\ v \in 0..2
      /\ s6 \subseteq {"cut", "part", "unread", "unsaved", "misread"}
  BY DEF Up!Upgrade, Up!Ind, Up!Stages, Up!Present
<1>2. /\ s3' = <<"open", v + 1>> /\ s3'[1] = "open" /\ s3'[2] = v + 1
      /\ s2' \in Up!Upgraded(s2, v, s1) /\ UNCHANGED <<s1, s4, s5>>
  BY <1>1 DEF Up!Upgrade
<1>3. /\ s2' \in Up!Config /\ s2'.magic = Up!Present
      /\ Up!Whole(s2) /\ (s1.magic = 1 => Up!Whole(s1)) /\ ~(v = 1 /\ s1.magic = 0) =>
           Up!Whole(s2')
      /\ v = 1 /\ s1 = s2 /\ s2.magic = 1 /\ Up!Roomy(s2) =>
           s2'.map = s2.map /\ s2'.size = s2.size /\ Up!Roomy(s2')
      /\ v = 2 /\ Up!Roomy(s2) =>
           s2'.map = s2.map /\ Up!Done(s2') /\ \A i \in Up!Devs : s2'.size[i] >= s2.size[i]
  BY <1>1, <1>2, UpgradeUpgraded
<1>4. /\ s6' \subseteq {"cut", "part", "unread", "unsaved", "misread"}
      /\ s6' \subseteq {"unsaved"} => s6 \subseteq {"unsaved"}
      /\ s6' \cap {"part", "misread"} = {} =>
           s6 \cap {"part", "misread"} = {} /\ ~(v = 1 /\ s1.magic = 0)
  <2>1. s6' = s6 \cup (IF v = 1 /\ s1.magic = 0 THEN {"misread"} ELSE {})
    BY DEF Up!Upgrade
  <2> HIDE DEF v
  <2>2. QED
    BY <1>1, <2>1
<1>13. v < Up!Present /\ v + 1 \in 0..Up!Present /\ v < 3
  BY <1>1 DEF Up!Present
<1> HIDE DEF v
<1>5. Up!Stages'
  BY <1>1, <1>2, <1>3, <1>4, <1>13 DEF Up!Ind, Up!Stages
<1>6. Up!WholeAllAlong'
  <2>1. SUFFICES ASSUME s6' \cap {"part", "misread"} = {}
                 PROVE  (Up!Whole(s1) \/ s1 \in {Up!NoFile, Up!Zero}) /\ Up!Whole(s2')
    BY <1>2 DEF Up!WholeAllAlong, Up!Whole
  <2>2. (Up!Whole(s1) \/ s1 \in {Up!NoFile, Up!Zero}) /\ Up!Whole(s2) /\ ~(v = 1 /\ s1.magic = 0)
    BY <1>1, <1>4, <2>1 DEF Up!Ind, Up!WholeAllAlong
  <2>3. s1.magic = 1 => Up!Whole(s1)
    BY <2>2, UpgradeDefault
  <2>4. QED
    BY <1>3, <2>2, <2>3
<1>7. ASSUME Up!Upgradable, s4.magic > 0, s6 \subseteq {"unsaved"}
      PROVE  /\ Up!Kept(s1) /\ (s1.magic # Up!Present => s1 = s4) /\ Up!Kept(s2)
             /\ Up!Roomy(s2) /\ v \in 1..2 /\ (v = 1 => s2.magic = 1 /\ s1 = s2)
  <2>1. /\ Up!Kept(s1) /\ (s1.magic # Up!Present => s1 = s4) /\ Up!Kept(s2)
        /\ Up!Roomy(s2) /\ (v < 2 => s1 = s4 /\ s2 = s4 /\ s1.magic = v)
    BY <1>1, <1>13, <1>7 DEF Up!Ind, Up!KeptAllAlong, v
  <2>2. QED
    BY <1>1, <1>7, <2>1
<1>8. Up!KeptAllAlong'
  <2>1. SUFFICES ASSUME Up!Upgradable, s4.magic > 0, s6' \subseteq {"unsaved"}
                 PROVE  /\ Up!Kept(s1) /\ (s1.magic # Up!Present => s1 = s4) /\ Up!Kept(s2')
                        /\ (v + 1 < Up!Present => Up!Roomy(s2')) /\ v + 1 > 1
    BY <1>2 DEF Up!KeptAllAlong, Up!Upgradable, Up!Kept, Up!Roomy
  <2>2. /\ Up!Kept(s1) /\ (s1.magic # Up!Present => s1 = s4) /\ Up!Kept(s2)
        /\ Up!Roomy(s2) /\ v \in 1..2 /\ (v = 1 => s2.magic = 1 /\ s1 = s2)
    BY <1>4, <1>7, <2>1
  <2>3. CASE v = 1
    BY <1>3, <2>2, <2>3 DEF Up!Kept
  <2>4. CASE v = 2
    <3>1. \A i \in Up!Devs : s2'.size[i] >= s4.size[i]
      BY <1>1, <1>3, <2>2, <2>4 DEF Up!Kept, Up!Config, Up!Ind, Up!Stages
    <3>2. QED
      BY <1>3, <2>2, <2>4, <3>1 DEF Up!Kept, Up!Present
  <2>5. QED
    BY <2>2, <2>3, <2>4
<1>9. Up!DoneAllAlong'
  <2>1. ASSUME s4.magic \notin 0..2, s6 \subseteq {"unsaved"} PROVE FALSE
    BY <1>1, <1>13, <2>1 DEF Up!Ind, Up!DoneAllAlong, v
  <2>2. ASSUME Up!Upgradable, s4.magic \in 1..2, s5 = 0, s6 \subseteq {"unsaved"},
               v + 1 = Up!Present
        PROVE  Up!Done(s2')
    <3>1. v = 2 /\ s4.magic > 0
      BY <1>1, <2>2 DEF Up!Present
    <3>2. QED
      BY <1>3, <1>7, <2>2, <3>1
  <2>3. QED
    BY <1>2, <1>4, <2>1, <2>2 DEF Up!DoneAllAlong, Up!Upgradable, Up!Done
<1>10. QED
  BY <1>5, <1>6, <1>8, <1>9 DEF Up!Ind

\* The file cannot be read again: the configuration is reset.
LEMMA UpgradeUnreadable == Up!Ind /\ Up!UpgradeUnread => Up!Ind'
<1> SUFFICES ASSUME Up!Ind, Up!UpgradeUnread PROVE Up!Ind'
  OBVIOUS
<1>1. /\ s3[1] = "upgrade" /\ s3[2] = 1 /\ s3' = <<"open", 2>> /\ s3'[1] = "open" /\ s3'[2] = 2
      /\ s2' = Up!Preset /\ UNCHANGED <<s1, s4, s5>>
      /\ s6' = s6 \cup {"unread"}
  BY DEF Up!UpgradeUnread
<1>2. /\ s6' \subseteq {"cut", "part", "unread", "unsaved", "misread"}
      /\ ~(s6' \subseteq {"unsaved"})
      /\ s6' \cap {"part", "misread"} = s6 \cap {"part", "misread"}
  BY <1>1 DEF Up!Ind, Up!Stages
<1>3. Up!Stages'
  BY <1>1, <1>2, UpgradeDefault DEF Up!Ind, Up!Stages, Up!Present
<1>4. Up!WholeAllAlong'
  BY <1>1, <1>2, UpgradeDefault DEF Up!Ind, Up!WholeAllAlong, Up!Whole
<1>5. Up!KeptAllAlong' /\ Up!DoneAllAlong'
  BY <1>2 DEF Up!KeptAllAlong, Up!DoneAllAlong
<1>6. QED
  BY <1>3, <1>4, <1>5 DEF Up!Ind

LEMMA UpgradeStoreOpen == Up!Ind /\ Up!StoreOpen => Up!Ind'
<1> SUFFICES ASSUME Up!Ind, Up!StoreOpen PROVE Up!Ind'
  OBVIOUS
<1>1. /\ s3[1] = "open" /\ s3' = <<"write", s3[2]>> /\ s3'[1] = "write" /\ s3'[2] = s3[2]
      /\ s1' = Up!Zero /\ UNCHANGED <<s2, s4, s5, s6>>
  BY DEF Up!StoreOpen
<1>2. Up!Stages'
  BY <1>1, UpgradeDefault DEF Up!Ind, Up!Stages
<1>3. Up!WholeAllAlong'
  BY <1>1 DEF Up!Ind, Up!WholeAllAlong, Up!Whole
<1>4. Up!KeptAllAlong'
  BY <1>1 DEF Up!Ind, Up!KeptAllAlong, Up!Kept, Up!Roomy, Up!Upgradable
<1>5. Up!DoneAllAlong'
  BY <1>1 DEF Up!Ind, Up!DoneAllAlong, Up!Upgradable, Up!Done
<1>6. QED
  BY <1>2, <1>3, <1>4, <1>5 DEF Up!Ind

\* The file cannot be opened: what is to be stored stays in config.
LEMMA UpgradeStoreFails == Up!Ind /\ Up!StoreFails => Up!Ind'
<1> SUFFICES ASSUME Up!Ind, Up!StoreFails PROVE Up!Ind'
  OBVIOUS
<1>1. /\ s3[1] = "open" /\ s3' = <<"upgrade", s3[2]>> /\ s3'[1] = "upgrade" /\ s3'[2] = s3[2]
      /\ UNCHANGED <<s1, s2, s4, s5>> /\ s6' = s6 \cup {"unsaved"}
  BY DEF Up!StoreFails
<1>2. /\ s6' \subseteq {"cut", "part", "unread", "unsaved", "misread"} /\ "unsaved" \in s6'
      /\ s6' \subseteq {"unsaved"} <=> s6 \subseteq {"unsaved"}
      /\ s6' \cap {"part", "misread"} = s6 \cap {"part", "misread"}
      /\ s3[2] \in 0..Up!Present
  BY <1>1 DEF Up!Ind, Up!Stages
<1>3. Up!Stages'
  BY <1>1, <1>2 DEF Up!Ind, Up!Stages
<1>4. Up!WholeAllAlong'
  BY <1>1, <1>2 DEF Up!Ind, Up!WholeAllAlong, Up!Whole
<1>5. Up!KeptAllAlong'
  <2>1. SUFFICES ASSUME Up!Upgradable, s4.magic > 0, s6 \subseteq {"unsaved"}
                 PROVE  /\ Up!Kept(s1) /\ (s1.magic # Up!Present => s1 = s4) /\ Up!Kept(s2)
                        /\ (s3[2] < Up!Present => Up!Roomy(s2)) /\ ~(s3[2] < 2)
    BY <1>1, <1>2 DEF Up!KeptAllAlong, Up!Upgradable, Up!Kept, Up!Roomy
  <2>2. QED
    BY <1>1, <1>2, <2>1 DEF Up!Ind, Up!KeptAllAlong, Up!Present
<1>6. Up!DoneAllAlong'
  BY <1>1, <1>2 DEF Up!Ind, Up!DoneAllAlong, Up!Upgradable, Up!Done
<1>7. QED
  BY <1>3, <1>4, <1>5, <1>6 DEF Up!Ind

LEMMA UpgradeStoreWrite == Up!Ind /\ Up!StoreWrite => Up!Ind'
<1> SUFFICES ASSUME Up!Ind, Up!StoreWrite PROVE Up!Ind'
  OBVIOUS
<1>1. /\ s3[1] = "write" /\ s3' = <<"upgrade", s3[2]>> /\ s3'[1] = "upgrade" /\ s3'[2] = s3[2]
      /\ s1' = s2 /\ UNCHANGED <<s2, s4, s5>> /\ s6' = s6 \ {"unsaved"}
  BY DEF Up!StoreWrite, Up!Stored
<1>2. s2.magic = Up!Present /\ s2 \in Up!Config /\ s3[2] \in 0..Up!Present
  BY <1>1 DEF Up!Ind, Up!Stages
<1>8. /\ s6' \subseteq {"cut", "part", "unread", "unsaved", "misread"}
      /\ s6' \subseteq {"unsaved"} <=> s6 \subseteq {"unsaved"}
      /\ s6' \cap {"part", "misread"} = s6 \cap {"part", "misread"}
  BY <1>1 DEF Up!Ind, Up!Stages
<1>3. Up!Stages'
  BY <1>1, <1>2, <1>8 DEF Up!Ind, Up!Stages, Up!Present
<1>4. Up!WholeAllAlong'
  BY <1>1, <1>8 DEF Up!Ind, Up!WholeAllAlong, Up!Whole
<1>5. Up!KeptAllAlong'
  <2>1. SUFFICES ASSUME Up!Upgradable, s4.magic > 0, s6 \subseteq {"unsaved"}
                 PROVE  /\ Up!Kept(s2) /\ (s3[2] < Up!Present => Up!Roomy(s2)) /\ ~(s3[2] < 2)
    BY <1>1, <1>2, <1>8 DEF Up!KeptAllAlong, Up!Upgradable, Up!Kept, Up!Roomy
  <2>2. QED
    BY <1>1, <1>2, <2>1 DEF Up!Ind, Up!KeptAllAlong, Up!Present
<1>6. Up!DoneAllAlong'
  BY <1>1, <1>8 DEF Up!Ind, Up!DoneAllAlong, Up!Upgradable, Up!Done
<1>7. QED
  BY <1>3, <1>4, <1>5, <1>6 DEF Up!Ind

\* An entry more.
LEMMA UpgradeRemap == ASSUME Up!Ind, NEW i \in Up!Devs, Up!Remap(i) PROVE Up!Ind'
<1>1. /\ s3[1] = "run" /\ s3' = <<"open", Up!Present>> /\ s3'[1] = "open" /\ s3'[2] = Up!Present
      /\ s2.magic = Up!Present /\ s2 \in Up!Config /\ s2.size[i] < CuMax
      /\ UNCHANGED <<s1, s4, s5, s6>>
  BY DEF Up!Remap, Up!Ind, Up!Stages
<1>2. s2.size \in [Up!Devs -> Nat] /\ s2.combos \in [Up!Devs -> Nat]
  BY <1>1 DEF Up!Config
<1> DEFINE z == [s2.size EXCEPT ![i] = @ + 1]
<1>3. /\ z \in [Up!Devs -> Nat]
      /\ \A j \in Up!Devs : z[j] >= s2.size[j] /\ (s2.size[j] <= CuMax => z[j] <= CuMax)
  BY <1>1, <1>2, UpgradeAssumption
<1>4. s2' = [s2 EXCEPT !.size = z, !.map = "user"]
  BY <1>2 DEF Up!Remap
<1> HIDE DEF z
<1>5. /\ s2' \in Up!Config /\ s2'.magic = Up!Present /\ s2'.size = z /\ s2'.combos = s2.combos
      /\ s2'.map = "user"
  BY <1>1, <1>3, <1>4 DEF Up!Config, Up!Maps
<1>6. Up!Stages'
  BY <1>1, <1>5 DEF Up!Ind, Up!Stages, Up!Present
<1>7. Up!WholeAllAlong'
  BY <1>1, <1>2, <1>3, <1>5 DEF Up!Ind, Up!WholeAllAlong, Up!Whole
<1>8. Up!KeptAllAlong'
  <2>1. SUFFICES ASSUME Up!Upgradable, s4.magic > 0, s6 \subseteq {"unsaved"}
                 PROVE  Up!Kept(s1) /\ (s1.magic # Up!Present => s1 = s4) /\ Up!Kept(s2')
    BY <1>1 DEF Up!KeptAllAlong, Up!Upgradable, Up!Kept, Up!Roomy, Up!Present
  <2>2. Up!Kept(s2) /\ Up!Kept(s1) /\ (s1.magic # Up!Present => s1 = s4)
    BY <1>1, <2>1 DEF Up!Ind, Up!KeptAllAlong
  <2>3. \A j \in Up!Devs : z[j] >= s4.size[j]
    BY <1>1, <1>2, <1>3, <2>2 DEF Up!Kept, Up!Config, Up!Ind, Up!Stages
  <2>4. QED
    BY <1>1, <1>5, <2>2, <2>3 DEF Up!Kept
<1>9. Up!DoneAllAlong'
  BY <1>1, <1>3, <1>5 DEF Up!Ind, Up!DoneAllAlong, Up!Upgradable, Up!Done
<1>10. QED
  BY <1>6, <1>7, <1>8, <1>9 DEF Up!Ind

\* The power goes.
LEMMA UpgradePowerCut == Up!Ind /\ Up!PowerCut => Up!Ind'
<1> SUFFICES ASSUME Up!Ind, Up!PowerCut PROVE Up!Ind'
  OBVIOUS
<1>1. /\ s3' = <<"load", 0>> /\ s3'[1] = "load" /\ s2' = Up!Zero /\ UNCHANGED s4
      /\ s5 \in Nat /\ s5' = s5 + 1
      /\ s2 \in Up!Config /\ s1 \in Up!Config
  BY DEF Up!PowerCut, Up!Ind, Up!Stages
<1>2. Up!Partial \in Up!Config /\ Up!Partial.magic = s2.magic
  <2>1. s2.size \in [Up!Devs -> Nat]
    BY <1>1 DEF Up!Config
  <2>2. [i \in Up!Devs |-> IF i = 1 THEN s2.size[i] ELSE 0] \in [Up!Devs -> Nat] /\
        [i \in Up!Devs |-> 0] \in [Up!Devs -> Nat]
    BY <2>1
  <2>3. Up!Partial = [s2 EXCEPT !.size = [i \in Up!Devs |-> IF i = 1 THEN s2.size[i] ELSE 0],
                                !.combos = [i \in Up!Devs |-> 0]]
    BY <1>1 DEF Up!Partial, Up!Config
  <2>4. QED
    BY <1>1, <2>2, <2>3 DEF Up!Config
<1>3. CASE s3[1] # "write"
  <2>1. UNCHANGED <<s1, s6>>
    BY <1>3 DEF Up!PowerCut
  <2>2. Up!Stages'
    BY <1>1, <2>1, UpgradeDefault DEF Up!Ind, Up!Stages
  <2>3. Up!WholeAllAlong' /\ Up!KeptAllAlong' /\ Up!DoneAllAlong'
    BY <1>1, <1>3, <2>1 DEF Up!Ind, Up!WholeAllAlong, Up!KeptAllAlong, Up!DoneAllAlong, Up!Whole,
       Up!Kept, Up!Roomy, Up!Done, Up!Upgradable
  <2>4. QED
    BY <2>2, <2>3 DEF Up!Ind
<1>4. CASE s3[1] = "write"
  <2>1. s2.magic = Up!Present /\ ~(Up!Present < 0)
    BY <1>4 DEF Up!Ind, Up!Stages, Up!Present
  <2>2. CASE s1' = Up!Zero /\ s6' = s6 \cup {"cut"}
    <3>1. Up!Stages'
      BY <1>1, <2>2, UpgradeDefault DEF Up!Ind, Up!Stages
    <3>2. ~(s6' \subseteq {"unsaved"}) /\ s6' \cap {"part", "misread"} = s6 \cap {"part",
          "misread"}
      BY <2>2
    <3>3. QED
      BY <1>1, <2>2, <3>1, <3>2 DEF Up!Ind, Up!WholeAllAlong, Up!KeptAllAlong, Up!DoneAllAlong,
         Up!Whole
  <2>3. CASE s1' = Up!Partial /\ s6' = s6 \cup {"cut", "part"}
    <3>1. Up!Stages'
      BY <1>1, <1>2, <2>1, <2>3, UpgradeDefault DEF Up!Ind, Up!Stages
    <3>2. ~(s6' \subseteq {"unsaved"}) /\ s6' \cap {"part", "misread"} # {}
      BY <2>3
    <3>3. QED
      BY <1>1, <2>3, <3>1, <3>2 DEF Up!Ind, Up!WholeAllAlong, Up!KeptAllAlong, Up!DoneAllAlong
  <2>4. CASE s1' = s2 /\ UNCHANGED s6
    <3>1. Up!Stages'
      BY <1>1, <2>1, <2>4, UpgradeDefault DEF Up!Ind, Up!Stages
    <3>2. Up!WholeAllAlong' /\ Up!KeptAllAlong' /\ Up!DoneAllAlong'
      BY <1>1, <1>4, <2>1, <2>4
         DEF Up!Ind, Up!WholeAllAlong, Up!KeptAllAlong, Up!DoneAllAlong, Up!Whole, Up!Kept,
         Up!Roomy, Up!Done, Up!Upgradable
    <3>3. QED
      BY <3>1, <3>2 DEF Up!Ind
  <2>5. QED
    BY <1>4, <2>2, <2>3, <2>4 DEF Up!PowerCut
<1>5. QED
  BY <1>3, <1>4

\* Every step of the upgrade keeps the invariant.
LEMMA UpgradeStep ==
  ASSUME Up!Ind, Up!Next \/ UNCHANGED Up!cuVars
  PROVE  Up!Ind'
<1>1. CASE UNCHANGED Up!cuVars
  <2>1. Up!Stages' /\ Up!WholeAllAlong'
    BY <1>1 DEF Up!cuVars, Up!Ind, Up!Stages, Up!WholeAllAlong, Up!Whole
  <2>2. Up!KeptAllAlong' /\ Up!DoneAllAlong'
    BY <1>1 DEF Up!cuVars, Up!Ind, Up!KeptAllAlong, Up!DoneAllAlong, Up!Kept, Up!Roomy, Up!Done,
       Up!Upgradable
  <2>3. QED
    BY <2>1, <2>2 DEF Up!Ind
<1>2. QED
  BY <1>1, UpgradeLoad, UpgradeOver, UpgradeUpgrade, UpgradeUnreadable, UpgradeStoreOpen,
     UpgradeStoreFails,
     UpgradeStoreWrite, UpgradeRemap, UpgradePowerCut DEF Up!Next

\* What the invariant says of the configuration in use.
LEMMA UpgradeKeeps ==
  ASSUME Up!Ind
  PROVE  Up!CombosOnce /\ Up!MappingKept /\ Up!FileIsRam /\ Up!WholeOrReset
<1>1. Up!CombosOnce
  <2>1. SUFFICES ASSUME Up!Running, Up!Upgradable, s6 \subseteq {"unsaved"}, s5 = 0 \/
                        s4.magic \notin 0..2
                 PROVE  Up!Done(s2)
    BY DEF Up!CombosOnce, Up!Done
  <2>2. s3[1] = "run"
    BY <2>1 DEF Up!Running
  <2>3. s4.magic \in -2..Up!Present /\ s4.magic # 0
    BY <2>1 DEF Up!Ind, Up!Stages, Up!Config, Up!Upgradable
  <2>4. s4.magic \in 1..2 \/ s4.magic \notin 0..2
    BY <2>3 DEF Up!Present
  <2>5. QED
    BY <2>1, <2>2, <2>4 DEF Up!Ind, Up!DoneAllAlong
<1>2. Up!MappingKept
  BY DEF Up!Ind, Up!KeptAllAlong, Up!Kept, Up!MappingKept, Up!Running
<1>3. Up!FileIsRam
  BY DEF Up!Ind, Up!Stages, Up!FileIsRam, Up!Running
<1>4. Up!WholeOrReset
  BY DEF Up!Ind, Up!Stages, Up!WholeAllAlong, Up!Whole, Up!Config, Up!Maps, Up!WholeOrReset,
     Up!Running
<1>5. QED
  BY <1>1, <1>2, <1>3, <1>4

(***************************************************************************)
(* The keys (LinkKeys): who is in the table, with which key.               *)
(***************************************************************************)
Keys == INSTANCE LinkKeys WITH
  lkKind <- s1, lkTab <- s2, lkFile <- s3, lkStep <- s4, lkPeer <- s5, lkNews <- s6, lkCount <- s7,
  lkOdd <- s8

\* The table is an array of a fixed number of entries (host.c:48), whose free ones have an address
\* of zeros, which no peer has.
ASSUME KeysAssumption == LkSize \in Nat \ {0} /\ IsFiniteSet(LkPeers) /\ Keys!Nobody \notin LkPeers

LEMMA KeysCardinality == \A S : Keys!Cardinality(S) = Cardinality(S)
BY DEF Keys!Cardinality, Cardinality

LEMMA KeysEmpty == Keys!Empty \in Keys!Tables /\ Keys!Single(Keys!Empty)
BY KeysAssumption DEF Keys!Empty, Keys!Tables, Keys!Entries, Keys!NoEntry, Keys!Single, Keys!Nobody

LEMMA KeysInit == Keys!Init => Keys!Ind
<1> SUFFICES ASSUME Keys!Init PROVE Keys!Ind
  OBVIOUS
<1>1. Keys!Types
  BY KeysEmpty DEF Keys!Init, Keys!Types
<1>2. Keys!Single(s2) /\ Keys!Single(s3)
  BY KeysEmpty DEF Keys!Init
<1>3. Keys!Numbered
  BY DEF Keys!Init, Keys!Numbered
<1>4. \A i \in 1..LkSize : s2.keys[i].a = Keys!Nobody
  BY DEF Keys!Init, Keys!Empty, Keys!NoEntry
<1>5. s2.index = 1
  BY DEF Keys!Init, Keys!Empty
<1>6. Keys!Clean
  <2>1. Keys!Filled /\ Keys!InTurn /\ Keys!Held /\ Keys!Half
    BY <1>4, <1>5 DEF Keys!Filled, Keys!InTurn, Keys!Held, Keys!Half, Keys!Init
  <2>2. Keys!Left
    BY DEF Keys!Init, Keys!Left
  <2>3. QED
    BY <2>1, <2>2 DEF Keys!Clean, Keys!Init, Keys!Odd
<1>7. QED
  BY <1>1, <1>2, <1>3, <1>6 DEF Keys!Ind

\* A key goes to the entry of its peer if there is one.
LEMMA KeysPlace ==
  ASSUME NEW tab \in Keys!Tables, NEW a \in LkPeers
  PROVE  /\ Keys!Place(tab, a) \in 1..LkSize
         /\ tab.keys[Keys!Place(tab, a)].a = a \/ Keys!Place(tab, a) = tab.index
         /\ (\E i \in 1..LkSize : tab.keys[i].a = a) => tab.keys[Keys!Place(tab, a)].a = a
<1>1. CASE \E i \in 1..LkSize : tab.keys[i].a = a
  <2> DEFINE back == {LkSize - i : i \in {j \in 1..LkSize : tab.keys[j].a = a}}
  <2>1. back \in SUBSET Nat /\ back # {}
    BY <1>1, KeysAssumption
  <2>2. PICK s \in back : \A t \in back : s <= t
    BY <2>1, Smallest
  <2>3. PICK i \in 1..LkSize : tab.keys[i].a = a /\ s = LkSize - i
    BY <2>2
  <2>4. ASSUME NEW j \in (i + 1)..LkSize PROVE tab.keys[j].a # a
    <3>1. LkSize - j < s /\ j \in 1..LkSize
      BY <2>3, KeysAssumption
    <3>2. LkSize - j \notin back
      BY <2>2, <2>3, <3>1, KeysAssumption
    <3>3. QED
      BY <3>1, <3>2
  <2>5. QED
    BY <1>1, <2>3, <2>4 DEF Keys!Place
<1>2. CASE ~ \E i \in 1..LkSize : tab.keys[i].a = a
  BY <1>2 DEF Keys!Place, Keys!Tables
<1>3. QED
  BY <1>1, <1>2

\* What a key that is stored leaves.
LEMMA KeysTable ==
  ASSUME Keys!Ind, NEW a \in LkPeers, NEW f \in {"key", "ident"}, Keys!Told(a, f), NEW i,
         i = Keys!Place(s2, a)
  PROVE  /\ s2' \in Keys!Tables /\ Keys!Single(s2')
         /\ s2'.index = IF i # s2.index THEN s2.index ELSE (s2.index % LkSize) + 1
         /\ s2'.keys[i].a = a
         /\ f = "key" => s2'.keys[i].key = s5.key[a]
         /\ f # "key" => s2'.keys[i].key = s2.keys[i].key
         /\ \A j \in 1..LkSize : j # i => s2'.keys[j] = s2.keys[j]
<1>1. i \in 1..LkSize /\ s2.index \in 1..LkSize /\ s2.keys \in [1..LkSize -> Keys!Entries]
  BY KeysPlace DEF Keys!Tables, Keys!Ind, Keys!Types
<1> DEFINE e == [s2.keys[i] EXCEPT !.a = a, ![f] = s5.key[a]]
<1>2. s2' = [index |-> Keys!Moved(s2, i), keys |-> [s2.keys EXCEPT ![i] = e]]
  BY DEF Keys!Told, Keys!Stored
<1>3. e \in Keys!Entries /\ e.a = a /\ (f = "key" => e.key = s5.key[a]) /\ (f # "key" =>
      e.key = s2.keys[i].key)
  <2>1. s2.keys[i] \in Keys!Entries
    BY <1>1
  <2>0. s5.key[a] \in Nat
    BY DEF Keys!Ind, Keys!Types
  <2>2. CASE f = "key"
    BY <2>0, <2>1, <2>2 DEF Keys!Entries
  <2>3. CASE f = "ident"
    BY <2>0, <2>1, <2>3 DEF Keys!Entries
  <2>4. QED
    BY <2>2, <2>3
<1> HIDE DEF e
<1>4. s2'.index = (IF i # s2.index THEN s2.index ELSE (s2.index % LkSize) + 1) /\
      s2'.index \in 1..LkSize
  BY <1>1, <1>2, KeysAssumption DEF Keys!Moved
<1>5. s2'.keys = [s2.keys EXCEPT ![i] = e] /\ s2'.keys \in [1..LkSize -> Keys!Entries]
  BY <1>1, <1>2, <1>3
<1>6. s2' \in Keys!Tables
  BY <1>2, <1>4, <1>5 DEF Keys!Tables
<1>7. s2'.keys[i] = e /\ \A j \in 1..LkSize : j # i => s2'.keys[j] = s2.keys[j]
  BY <1>1, <1>5
<1>8. Keys!Single(s2')
  <2> SUFFICES ASSUME NEW m \in 1..LkSize, NEW n \in 1..LkSize, s2'.keys[m].a = s2'.keys[n].a,
                      s2'.keys[m].a # Keys!Nobody,
                      m # n
               PROVE  FALSE
    BY DEF Keys!Single
  <2>1. CASE m # i /\ n # i
    BY <1>7, <2>1 DEF Keys!Single, Keys!Ind
  <2>2. CASE m = i \/ n = i
    <3>1. PICK j \in 1..LkSize : j # i /\ s2.keys[j].a = a
      BY <1>3, <1>7, <2>2
    <3>2. s2.keys[i].a = a
      BY <3>1, KeysPlace DEF Keys!Ind, Keys!Types
    <3>3. QED
      BY <1>1, <3>1, <3>2, KeysAssumption DEF Keys!Single, Keys!Ind
  <2>3. QED
    BY <2>1, <2>2
<1>9. QED
  BY <1>3, <1>4, <1>6, <1>7, <1>8

\* The key of a peer that has an entry of its own goes there.
LEMMA KeysRenewed ==
  ASSUME Keys!Ind, NEW a \in LkPeers, NEW f \in {"key", "ident"}, Keys!Told(a, f), Keys!Odd = {},
         Keys!Place(s2, a) # s2.index
  PROVE  Keys!Clean'
<1> DEFINE i == Keys!Place(s2, a)
<1>1. s2 \in Keys!Tables /\ Keys!Single(s2) /\ s5.key[a] \in Nat /\ s2' = Keys!Stored(s2, a, f,
      s5.key[a])
  BY DEF Keys!Ind, Keys!Types, Keys!Told
<1>2. /\ s2'.index = s2.index /\ s2'.keys[i].a = a
      /\ (f = "key" => s2'.keys[i].key = s5.key[a])
      /\ (f # "key" => s2'.keys[i].key = s2.keys[i].key)
      /\ \A j \in 1..LkSize : j # i => s2'.keys[j] = s2.keys[j]
  BY <1>1, KeysTable
<1>3. i \in 1..LkSize /\ s2.keys[i].a = a /\ i # s2.index
  BY <1>1, KeysPlace
<1>4. s6' = s6
  BY <1>3 DEF Keys!Told, Keys!Brings
<1>5. \A j \in 1..LkSize : s2'.keys[j].a = s2.keys[j].a
  BY <1>2, <1>3
<1> HIDE DEF i
<1>6. s5'.key = s5.key /\ s5'.untold \subseteq {<<a, "ident">>} /\ <<a, f>> \in s5.untold
  BY DEF Keys!Told, Keys!Ind, Keys!Types
<1>7. Keys!Filled'
  BY <1>2, <1>5 DEF Keys!Ind, Keys!Clean, Keys!Filled
<1>8. Keys!InTurn'
  BY <1>2, <1>4, <1>5 DEF Keys!Ind, Keys!Clean, Keys!InTurn, Keys!Older
<1>9. Keys!Left'
  BY <1>4, <1>5 DEF Keys!Ind, Keys!Clean, Keys!Left
<1>10. Keys!Held'
  <2> SUFFICES ASSUME NEW j \in 1..LkSize, s2'.keys[j].a # Keys!Nobody
               PROVE  /\ s6'[s2'.keys[j].a] > 0
                      /\ \/ <<s2'.keys[j].a, "key">> \in s5'.untold
                         \/ s2'.keys[j].key = s5'.key[s2'.keys[j].a]
    BY DEF Keys!Held
  <2>1. /\ s6[s2.keys[j].a] > 0
        /\ \/ <<s2.keys[j].a, "key">> \in s5.untold
           \/ s2.keys[j].key = s5.key[s2.keys[j].a]
    BY <1>5 DEF Keys!Ind, Keys!Clean, Keys!Held
  <2>2. \A t \in s5.untold : t = <<a, f>>
    BY <1>6 DEF Keys!Ind, Keys!Numbered
  <2>3. CASE j = i
    BY <1>2, <1>3, <1>4, <1>6, <2>1, <2>2, <2>3
  <2>4. CASE j # i
    <3>1. s2.keys[j].a # a
      BY <1>1, <1>3, <2>4, KeysAssumption DEF Keys!Single
    <3>2. QED
      BY <1>2, <1>4, <1>6, <2>1, <2>2, <2>4, <3>1
  <2>5. QED
    BY <2>3, <2>4
<1>11. Keys!Half'
  BY <1>2, <1>3, <1>6 DEF Keys!Half
<1>12. s4' = "store" \/ (s4' = "run" /\ "unsaved" \in s8')
  BY DEF Keys!Told, Keys!SaveBegins
<1>13. QED
  BY <1>7, <1>8, <1>9, <1>10, <1>11, <1>12 DEF Keys!Clean

\* That of another goes to the oldest entry, which becomes the newest.
LEMMA KeysEntered ==
  ASSUME Keys!Ind, NEW a \in LkPeers, NEW f \in {"key", "ident"}, Keys!Told(a, f), Keys!Odd = {},
         Keys!Place(s2, a) = s2.index
  PROVE  Keys!Clean'
<1> DEFINE i == Keys!Place(s2, a)
<1>0. i = s2.index
  OBVIOUS
<1>1. s2 \in Keys!Tables /\ Keys!Single(s2) /\ s5.key[a] \in Nat /\ s2' = Keys!Stored(s2, a, f,
      s5.key[a])
  BY DEF Keys!Ind, Keys!Types, Keys!Told
<1>2. /\ s2' \in Keys!Tables
      /\ s2'.index = (i % LkSize) + 1 /\ s2'.keys[i].a = a
      /\ (f = "key" => s2'.keys[i].key = s5.key[a])
      /\ (f # "key" => s2'.keys[i].key = s2.keys[i].key)
      /\ \A j \in 1..LkSize : j # i => s2'.keys[j] = s2.keys[j]
  BY <1>0, <1>1, KeysTable
<1> HIDE DEF i
<1>3. i \in 1..LkSize /\ LkSize \in Nat
  BY <1>0, <1>1, KeysAssumption DEF Keys!Tables
<1>4. \A j \in 1..LkSize : j # i => s2.keys[j].a # a
  <2> SUFFICES ASSUME NEW j \in 1..LkSize, j # i, s2.keys[j].a = a PROVE FALSE
    OBVIOUS
  <2>1. s2.keys[i].a = a
    BY <1>1, KeysPlace DEF i
  <2>2. QED
    BY <1>1, <1>3, <2>1, KeysAssumption DEF Keys!Single
<1>5. s6 \in [LkPeers -> Nat] /\ s7.pairings \in Nat
  BY DEF Keys!Ind, Keys!Types
<1>6. s6' = [s6 EXCEPT ![a] = s7.pairings]
  BY <1>0, <1>4 DEF Keys!Told, Keys!Brings
<1>7. s6'[a] = s7.pairings /\ \A b \in LkPeers : b # a => s6'[b] = s6[b]
  BY <1>5, <1>6
<1>8. s5'.key = s5.key /\ s5'.untold \subseteq {<<a, "ident">>} /\ <<a, f>> \in s5.untold
  BY DEF Keys!Told, Keys!Ind, Keys!Types
<1>9. s7.pairings > 0 /\ \A b \in LkPeers : b # a => s6[b] < s7.pairings
  BY <1>8 DEF Keys!Ind, Keys!Numbered
<1>10. s2'.index = IF i = LkSize THEN 1 ELSE i + 1
  BY <1>2, <1>3
<1>11. \A j \in 1..LkSize : s2.keys[j].a \in LkPeers \cup {Keys!Nobody} /\
       s2'.keys[j].a \in LkPeers \cup {Keys!Nobody}
  BY <1>1, <1>2 DEF Keys!Tables, Keys!Entries
<1>12. \A j \in 1..LkSize : j # i => s2'.keys[j].a = s2.keys[j].a /\ s2'.keys[j].a # a
  BY <1>2, <1>4
<1>13. \A j \in 1..LkSize : s2.keys[j].a = Keys!Nobody =>
         j >= i /\ \A m \in 1..LkSize : m >= i => s2.keys[m].a = Keys!Nobody
  BY <1>0 DEF Keys!Ind, Keys!Clean, Keys!Filled
<1>14. Keys!Filled'
  <2> SUFFICES ASSUME NEW j \in 1..LkSize, s2'.keys[j].a = Keys!Nobody
               PROVE  /\ j >= s2'.index
                      /\ \A m \in 1..LkSize : m >= s2'.index => s2'.keys[m].a = Keys!Nobody
    BY DEF Keys!Filled
  <2>1. j # i /\ s2.keys[j].a = Keys!Nobody
    BY <1>2, <1>12, KeysAssumption
  <2>2. j >= i /\ \A m \in 1..LkSize : m >= i => s2.keys[m].a = Keys!Nobody
    BY <1>13, <2>1
  <2>3. s2'.index = i + 1
    BY <1>3, <1>10, <2>1, <2>2
  <2>4. QED
    BY <1>3, <1>12, <2>1, <2>2, <2>3
<1>15. Keys!InTurn'
  <2> SUFFICES ASSUME NEW m \in 1..LkSize, NEW n \in 1..LkSize, Keys!Older(m, n)',
                      s2'.keys[m].a # Keys!Nobody, s2'.keys[n].a # Keys!Nobody
               PROVE  s6'[s2'.keys[m].a] < s6'[s2'.keys[n].a]
    BY DEF Keys!InTurn
  <2>1. m # i
    BY <1>3, <1>10 DEF Keys!Older
  <2>2. s2'.keys[m].a \in LkPeers /\ s2'.keys[m].a # a
    BY <1>11, <1>12, <2>1
  <2>3. CASE n = i
    BY <1>2, <1>7, <1>9, <2>2, <2>3
  <2>4. CASE n # i
    <3>1. Keys!Older(m, n)
      BY <1>0, <1>3, <1>10, <2>1, <2>4 DEF Keys!Older
    <3>2. s6[s2.keys[m].a] < s6[s2.keys[n].a]
      BY <1>12, <2>1, <2>4, <3>1 DEF Keys!Ind, Keys!Clean, Keys!InTurn
    <3>3. QED
      BY <1>7, <1>11, <1>12, <2>1, <2>2, <2>4, <3>2
  <2>5. QED
    BY <2>3, <2>4
<1>16. Keys!Left'
  <2> SUFFICES ASSUME NEW b \in LkPeers, s6'[b] > 0, ~ \E j \in 1..LkSize : s2'.keys[j].a = b,
                      NEW j \in 1..LkSize
               PROVE  s2'.keys[j].a # Keys!Nobody /\ s6'[s2'.keys[j].a] > s6'[b]
    BY DEF Keys!Left
  <2>1. b # a /\ s6'[b] = s6[b]
    BY <1>2, <1>3, <1>7
  <2>2. CASE j = i
    BY <1>2, <1>3, <1>7, <1>9, <2>1, <2>2, KeysAssumption
  <2>3. CASE j # i
    <3>1. s2'.keys[j].a = s2.keys[j].a /\ s2.keys[j].a # a
      BY <1>12, <2>3
    <3>2. CASE s2.keys[i].a = b
      <4>1. Keys!Older(i, j)
        BY <1>0, <1>3, <2>3 DEF Keys!Older
      <4>2. s2.keys[j].a # Keys!Nobody
        BY <1>3, <1>13, <3>2, KeysAssumption
      <4>3. s6[b] < s6[s2.keys[j].a]
        BY <1>3, <3>2, <4>1, <4>2, KeysAssumption DEF Keys!Ind, Keys!Clean, Keys!InTurn
      <4>4. QED
        BY <1>7, <1>11, <2>1, <3>1, <4>2, <4>3, <1>5
    <3>3. CASE s2.keys[i].a # b
      <4>1. ~ \E m \in 1..LkSize : s2.keys[m].a = b
        BY <1>12, <3>3
      <4>2. s2.keys[j].a # Keys!Nobody /\ s6[s2.keys[j].a] > s6[b]
        BY <2>1, <4>1 DEF Keys!Ind, Keys!Clean, Keys!Left
      <4>3. QED
        BY <1>7, <1>11, <2>1, <3>1, <4>2
    <3>4. QED
      BY <3>2, <3>3
  <2>4. QED
    BY <2>2, <2>3
<1>17. Keys!Held'
  <2> SUFFICES ASSUME NEW j \in 1..LkSize, s2'.keys[j].a # Keys!Nobody
               PROVE  /\ s6'[s2'.keys[j].a] > 0
                      /\ \/ <<s2'.keys[j].a, "key">> \in s5'.untold
                         \/ s2'.keys[j].key = s5'.key[s2'.keys[j].a]
    BY DEF Keys!Held
  <2>1. \A t \in s5.untold : t = <<a, f>>
    BY <1>8 DEF Keys!Ind, Keys!Numbered
  <2>2. \A m \in 1..LkSize : s2.keys[m].a # Keys!Nobody =>
          /\ s6[s2.keys[m].a] > 0
          /\ \/ <<s2.keys[m].a, "key">> \in s5.untold
             \/ s2.keys[m].key = s5.key[s2.keys[m].a]
    BY DEF Keys!Ind, Keys!Clean, Keys!Held
  <2>3. CASE j = i
    <3>1. CASE f = "key"
      BY <1>2, <1>7, <1>8, <1>9, <2>3, <3>1
    <3>2. CASE f = "ident"
      <4>1. s2.keys[i].a = a
        BY <1>1, <1>8, <3>2, KeysPlace DEF Keys!Ind, Keys!Clean, Keys!Half, i
      <4>2. s2.keys[i].key = s5.key[a]
        BY <1>3, <2>1, <2>2, <3>2, <4>1, KeysAssumption
      <4>3. QED
        BY <1>2, <1>7, <1>8, <1>9, <2>3, <3>2, <4>2
    <3>3. QED
      BY <3>1, <3>2
  <2>4. CASE j # i
    <3>1. s2'.keys[j] = s2.keys[j] /\ s2.keys[j].a # a /\ s2.keys[j].a \in LkPeers
      BY <1>2, <1>11, <1>12, <2>4
    <3>2. QED
      BY <1>7, <1>8, <2>1, <2>2, <3>1
  <2>5. QED
    BY <2>3, <2>4
<1>18. Keys!Half'
  BY <1>2, <1>3, <1>8 DEF Keys!Half
<1>19. s4' = "store" \/ (s4' = "run" /\ "unsaved" \in s8')
  BY DEF Keys!Told, Keys!SaveBegins
<1>20. QED
  BY <1>14, <1>15, <1>16, <1>17, <1>18, <1>19 DEF Keys!Clean

LEMMA KeysTold ==
  ASSUME Keys!Ind, NEW a \in LkPeers, NEW f \in {"key", "ident"}, Keys!Told(a, f)
  PROVE  Keys!Ind'
<1>1. s2' \in Keys!Tables /\ Keys!Single(s2')
  BY KeysTable
<1>2. /\ s5'.key = s5.key /\ s5'.untold \subseteq {<<a, "ident">>} /\ <<a, f>> \in s5.untold
      /\ s5' \in [key : [LkPeers -> Nat], untold : SUBSET (LkPeers \X {"key", "ident"})]
  BY DEF Keys!Told, Keys!Ind, Keys!Types
<1>3. s6' = s6 \/ s6' = [s6 EXCEPT ![a] = s7.pairings]
  BY DEF Keys!Told, Keys!Brings
<1>4. s6 \in [LkPeers -> Nat] /\ s7 \in [pairings : Nat, cuts : Nat] /\ s7.pairings \in Nat
  BY DEF Keys!Ind, Keys!Types
<1>5. s3' \in {Keys!Empty, s3} /\ s4' \in {"run", "store"} /\ s7' = s7 /\ Keys!Odd' = Keys!Odd
  BY DEF Keys!Told, Keys!SaveBegins, Keys!Odd
<1>50. s3 \in Keys!Tables /\ Keys!Single(s3)
  BY DEF Keys!Ind, Keys!Types
<1>6. Keys!Types'
  BY <1>1, <1>2, <1>3, <1>4, <1>5, <1>50, KeysEmpty DEF Keys!Types
<1>7. Keys!Single(s3')
  BY <1>5, <1>50, KeysEmpty
<1>8. Keys!Numbered'
  <2>1. s7.pairings > 0 /\ \A b \in LkPeers : b # a => s6[b] < s7.pairings
    BY <1>2 DEF Keys!Ind, Keys!Numbered
  <2>2. \A b \in LkPeers : b # a => s6'[b] = s6[b]
    BY <1>3, <1>4
  <2>3. s6'[a] <= s7.pairings
    BY <1>3, <1>4 DEF Keys!Ind, Keys!Numbered
  <2>4. \A b \in LkPeers : s6'[b] <= s7.pairings
    BY <1>4, <2>1, <2>2, <2>3
  <2>5. \A t \in s5'.untold : t[1] = a /\ \A u \in s5'.untold : u = t
    BY <1>2
  <2>6. QED
    BY <1>5, <2>1, <2>2, <2>4, <2>5 DEF Keys!Numbered
<1>9. Keys!Clean'
  <2>1. Keys!Odd = {} => Keys!Clean'
    BY KeysRenewed, KeysEntered
  <2>2. QED
    BY <1>5, <2>1 DEF Keys!Clean
<1>10. QED
  BY <1>1, <1>6, <1>7, <1>8, <1>9 DEF Keys!Ind

LEMMA KeysPairs ==
  ASSUME Keys!Ind, NEW a \in LkPeers, Keys!Pairs(a)
  PROVE  Keys!Ind'
<1>1. s7 \in [pairings : Nat, cuts : Nat] /\ s6 \in [LkPeers -> Nat]
  BY DEF Keys!Ind, Keys!Types
<1>2. s7' = [s7 EXCEPT !.pairings = @ + 1] /\ s7'.pairings = s7.pairings + 1
  BY <1>1 DEF Keys!Pairs
<1>3. s5' = [key |-> [s5.key EXCEPT ![a] = s7'.pairings], untold |-> {<<a, "key">>}]
  BY DEF Keys!Pairs
<1>4. UNCHANGED <<s2, s3, s4, s6, s8>> /\ s4 = "run" /\ s5.untold = {}
  BY DEF Keys!Pairs
<1>5. s5.key \in [LkPeers -> Nat]
  BY DEF Keys!Ind, Keys!Types
<1>6. Keys!Types'
  BY <1>1, <1>2, <1>3, <1>4, <1>5 DEF Keys!Ind, Keys!Types
<1>7. Keys!Numbered'
  <2>1. \A b \in LkPeers : s6'[b] < s7'.pairings
    BY <1>1, <1>2, <1>4 DEF Keys!Ind, Keys!Numbered
  <2>2. s7'.pairings \in Nat /\ s7'.pairings > 0
    BY <1>1, <1>2
  <2>3. \A t \in s5'.untold : t = <<a, "key">>
    BY <1>3
  <2>4. QED
    BY <1>1, <1>4, <2>1, <2>2, <2>3 DEF Keys!Numbered
<1>8. Keys!Clean'
  <2> SUFFICES ASSUME Keys!Odd = {}
               PROVE  /\ (s4 = "off" \/ (s4 = "run" /\ "unsaved" \notin s8) => s3 = s2)'
                      /\ Keys!Filled' /\ Keys!InTurn' /\ Keys!Left' /\ Keys!Held' /\ Keys!Half'
    BY <1>4 DEF Keys!Clean, Keys!Odd
  <2>1. Keys!Filled' /\ Keys!InTurn' /\ Keys!Left'
    BY <1>4 DEF Keys!Ind, Keys!Clean, Keys!Filled, Keys!InTurn, Keys!Older, Keys!Left
  <2>2. Keys!Half'
    BY <1>3 DEF Keys!Half
  <2>3. \A b \in LkPeers : b # a => s5'.key[b] = s5.key[b]
    BY <1>3, <1>5
  <2>4. \A i \in 1..LkSize : s2.keys[i].a \in LkPeers \cup {Keys!Nobody}
    BY DEF Keys!Ind, Keys!Types, Keys!Tables, Keys!Entries
  <2>5. <<a, "key">> \in s5'.untold
    BY <1>3
  <2>6. Keys!Held'
    BY <1>4, <2>3, <2>4, <2>5 DEF Keys!Ind, Keys!Clean, Keys!Held
  <2>7. QED
    BY <1>4, <2>1, <2>2, <2>6 DEF Keys!Ind, Keys!Clean
<1>9. QED
  BY <1>4, <1>6, <1>7, <1>8 DEF Keys!Ind

LEMMA KeysCleared ==
  ASSUME Keys!Ind, NEW a \in LkPeers, Keys!ClearLe(a)
  PROVE  Keys!Ind'
<1>1. s2 \in Keys!Tables /\ s2.keys \in [1..LkSize -> Keys!Entries] /\ s2.index \in 1..LkSize
  BY DEF Keys!Ind, Keys!Types, Keys!Tables
<1>2. s2' = [index |-> s2.index,
      keys |-> [i \in 1..LkSize |-> IF s2.keys[i].a = a THEN Keys!NoEntry ELSE s2.keys[i]]]
  BY <1>1 DEF Keys!ClearLe, Keys!Tables
<1>3. s2' \in Keys!Tables
  BY <1>1, <1>2 DEF Keys!Tables, Keys!Entries, Keys!NoEntry, Keys!Nobody
<1>4. Keys!Single(s2')
  <2> SUFFICES ASSUME NEW i \in 1..LkSize, NEW j \in 1..LkSize, s2'.keys[i].a = s2'.keys[j].a,
                      s2'.keys[i].a # Keys!Nobody
               PROVE  i = j
    BY DEF Keys!Single
  <2>1. s2'.keys[i] = s2.keys[i] /\ s2'.keys[j] = s2.keys[j]
    BY <1>2 DEF Keys!NoEntry
  <2>2. QED
    BY <2>1 DEF Keys!Ind, Keys!Single
<1>5. s5' = [s5 EXCEPT !.key[a] = 0] /\ s5.untold = {}
  BY DEF Keys!ClearLe
<1>6. s5' \in [key : [LkPeers -> Nat], untold : SUBSET (LkPeers \X {"key", "ident"})] /\
      s5'.untold = {}
  BY <1>5 DEF Keys!Ind, Keys!Types
<1>7. s6 \in [LkPeers -> Nat] /\ s6' = [s6 EXCEPT ![a] = 0] /\ s7 \in [pairings : Nat, cuts : Nat]
  BY DEF Keys!ClearLe, Keys!Ind, Keys!Types
<1>8. s3' \in {Keys!Empty, s3} /\ s4' \in {"run", "store"} /\ s7' = s7 /\ Keys!Odd' # {}
  BY DEF Keys!ClearLe, Keys!Odd
<1>80. s3 \in Keys!Tables /\ Keys!Single(s3)
  BY DEF Keys!Ind, Keys!Types
<1>9. Keys!Types'
  BY <1>3, <1>6, <1>7, <1>8, <1>80, KeysEmpty DEF Keys!Types
<1>10. Keys!Numbered'
  BY <1>6, <1>7, <1>8 DEF Keys!Ind, Keys!Numbered
<1>11. Keys!Single(s3')
  BY <1>8, <1>80, KeysEmpty
<1>12. QED
  BY <1>4, <1>8, <1>9, <1>10, <1>11 DEF Keys!Ind, Keys!Clean

LEMMA KeysCut ==
  ASSUME Keys!Ind, Keys!PowerCut
  PROVE  Keys!Ind'
<1>1. s2 \in Keys!Tables /\ s2.keys \in [1..LkSize -> Keys!Entries] /\ s2.index \in 1..LkSize
  BY DEF Keys!Ind, Keys!Types, Keys!Tables
<1>2. s3' \in Keys!Tables /\ Keys!Single(s3')
  <2>1. CASE s4 = "store"
    <3>1. PICK n \in 0..LkSize : s3' = Keys!Short(n)
      BY <2>1 DEF Keys!PowerCut
    <3>2. s3' = [index |-> s2.index,
          keys |-> [i \in 1..LkSize |-> IF i <= n THEN s2.keys[i] ELSE Keys!NoEntry]]
      BY <1>1, <3>1 DEF Keys!Short, Keys!Tables
    <3>3. s3' \in Keys!Tables
      BY <1>1, <3>2 DEF Keys!Tables, Keys!Entries, Keys!NoEntry, Keys!Nobody
    <3>4. ASSUME NEW i \in 1..LkSize, NEW j \in 1..LkSize, s3'.keys[i].a = s3'.keys[j].a,
                 s3'.keys[i].a # Keys!Nobody
          PROVE  i = j
      <4>1. s3'.keys[i] = s2.keys[i] /\ s3'.keys[j] = s2.keys[j]
        BY <3>2, <3>4 DEF Keys!NoEntry
      <4>2. QED
        BY <3>4, <4>1 DEF Keys!Ind, Keys!Single
    <3>5. QED
      BY <3>3, <3>4 DEF Keys!Single
  <2>2. CASE s4 # "store"
    BY <2>2 DEF Keys!PowerCut, Keys!Ind, Keys!Types
  <2>3. QED
    BY <2>1, <2>2
<1>3. s5' = [s5 EXCEPT !.untold = {}] /\ s7' = [s7 EXCEPT !.cuts = @ + 1]
  BY DEF Keys!PowerCut
<1>4. /\ s5' \in [key : [LkPeers -> Nat], untold : SUBSET (LkPeers \X {"key", "ident"})]
      /\ s5'.untold = {} /\ s5'.key = s5.key
      /\ s7' \in [pairings : Nat, cuts : Nat] /\ s7'.pairings = s7.pairings
  BY <1>3 DEF Keys!Ind, Keys!Types
<1>5. UNCHANGED <<s2, s6>> /\ s4' = "off"
  BY DEF Keys!PowerCut
<1>6. Keys!Types'
  BY <1>1, <1>2, <1>4, <1>5 DEF Keys!Ind, Keys!Types
<1>7. Keys!Numbered'
  BY <1>4, <1>5 DEF Keys!Ind, Keys!Numbered
<1>8. Keys!Clean'
  <2> SUFFICES ASSUME Keys!Odd' = {}
               PROVE  (s3 = s2)' /\ Keys!Filled' /\ Keys!InTurn' /\ Keys!Left' /\ Keys!Held' /\
                      Keys!Half'
    BY DEF Keys!Clean
  <2>1. s4 # "store" /\ s5.untold = {} /\ "unsaved" \notin s8 /\ Keys!Odd = {} /\ s3' = s3
    BY DEF Keys!PowerCut, Keys!Odd
  <2>2. Keys!Filled' /\ Keys!InTurn' /\ Keys!Left'
    BY <1>5, <2>1 DEF Keys!Ind, Keys!Clean, Keys!Filled, Keys!InTurn, Keys!Older, Keys!Left
  <2>3. Keys!Held' /\ Keys!Half'
    BY <1>4, <1>5, <2>1 DEF Keys!Ind, Keys!Clean, Keys!Held, Keys!Half
  <2>4. QED
    BY <1>5, <2>1, <2>2, <2>3 DEF Keys!Ind, Keys!Clean, Keys!Types
<1>9. QED
  BY <1>2, <1>5, <1>6, <1>7, <1>8 DEF Keys!Ind

LEMMA KeysBoot ==
  ASSUME Keys!Ind, Keys!Boot
  PROVE  Keys!Ind'
<1>1. UNCHANGED <<s3, s5, s6, s7>> /\ s4' = "run" /\ s4 = "off"
  BY DEF Keys!Boot
<1>2. s2' \in {s3, Keys!Empty} /\ s3 \in Keys!Tables /\ Keys!Single(s3)
  BY DEF Keys!Boot, Keys!Ind, Keys!Types
<1>3. Keys!Types' /\ Keys!Single(s2)' /\ Keys!Single(s3)'
  BY <1>1, <1>2, KeysEmpty DEF Keys!Ind, Keys!Types
<1>4. Keys!Numbered'
  BY <1>1 DEF Keys!Ind, Keys!Numbered
<1>5. Keys!Clean'
  <2> SUFFICES ASSUME Keys!Odd' = {} PROVE Keys!Clean'
    BY DEF Keys!Clean
  <2>1. s2' = s3 /\ s8' = s8
    BY DEF Keys!Boot, Keys!Odd
  <2>2. s2' = s2
    BY <1>1, <2>1 DEF Keys!Ind, Keys!Clean, Keys!Odd
  <2>3. QED
    BY <1>1, <2>1, <2>2 DEF Keys!Ind, Keys!Clean, Keys!Odd, Keys!Filled, Keys!InTurn, Keys!Older,
       Keys!Left, Keys!Held, Keys!Half
<1>6. QED
  BY <1>3, <1>4, <1>5 DEF Keys!Ind

LEMMA KeysStep == Keys!Ind /\ (Keys!Next \/ UNCHANGED Keys!lkVars) => Keys!Ind'
<1> SUFFICES ASSUME Keys!Ind, Keys!Next \/ UNCHANGED Keys!lkVars PROVE Keys!Ind'
  OBVIOUS
<1>1. CASE \E a \in LkPeers : Keys!Pairs(a) \/ Keys!ClearLe(a)
  BY <1>1, KeysPairs, KeysCleared
<1>2. CASE \E a \in LkPeers, f \in {"key", "ident"} : Keys!Told(a, f)
  BY <1>2, KeysTold
<1>3. CASE Keys!StoreFile
  <2>1. UNCHANGED <<s2, s5, s6, s7, s8>> /\ s3' = s2 /\ s4' = "run"
    BY <1>3 DEF Keys!StoreFile, Keys!Written
  <2>2. QED
    BY <2>1 DEF Keys!Ind, Keys!Types, Keys!Single, Keys!Numbered, Keys!Clean, Keys!Odd,
       Keys!Filled, Keys!InTurn, Keys!Older, Keys!Left, Keys!Held, Keys!Half
<1>4. CASE Keys!PowerCut
  BY <1>4, KeysCut
<1>5. CASE Keys!Boot
  BY <1>5, KeysBoot
<1>6. CASE UNCHANGED Keys!lkVars
  BY <1>6 DEF Keys!lkVars, Keys!Ind, Keys!Types, Keys!Single, Keys!Numbered, Keys!Clean, Keys!Odd,
     Keys!Filled, Keys!InTurn, Keys!Older, Keys!Left, Keys!Held, Keys!Half
<1>7. QED
  BY <1>1, <1>2, <1>3, <1>4, <1>5, <1>6 DEF Keys!Next

\* A peer has one entry.
LEMMA KeysOne == Keys!Ind => Keys!OneEntryEach
<1> SUFFICES ASSUME Keys!Ind, NEW a \in LkPeers PROVE Cardinality(Keys!Loaded(a)) <= 1
  BY KeysCardinality DEF Keys!OneEntryEach
<1>1. \A d, e \in Keys!Loaded(a) : d = e
  BY KeysAssumption DEF Keys!Loaded, Keys!Ind, Keys!Single
<1>2. CASE Keys!Loaded(a) = {}
  BY <1>2, FS_EmptySet, KeysCardinality
<1>3. CASE Keys!Loaded(a) # {}
  <2>1. PICK e : Keys!Loaded(a) = {e}
    BY <1>1, <1>3
  <2>2. QED
    BY <2>1, FS_Singleton, KeysCardinality
<1>4. QED
  BY <1>2, <1>3

\* Who is not in the table has as many before it as the table has entries.
LEMMA KeysAnswer == Keys!Ind => Keys!AnswersRight
<1> SUFFICES ASSUME Keys!Ind, s4 = "run", Keys!Odd = {}, NEW a \in Keys!Recent,
                    <<a, "key">> \notin s5.untold
             PROVE  \E e \in Keys!Loaded(a) : e.key = s5.key[a]
  BY DEF Keys!AnswersRight
<1>1. a \in LkPeers /\ s6[a] > 0
  BY DEF Keys!Recent
<1>2. CASE \E i \in 1..LkSize : s2.keys[i].a = a
  BY <1>1, <1>2, KeysAssumption DEF Keys!Loaded, Keys!Ind, Keys!Clean, Keys!Held
<1>3. CASE ~ \E i \in 1..LkSize : s2.keys[i].a = a
  <2> DEFINE after == {b \in LkPeers : s6[b] > s6[a]}
             who == [i \in 1..LkSize |-> s2.keys[i].a]
  <2>1. \A i \in 1..LkSize : s2.keys[i].a # Keys!Nobody /\ s6[s2.keys[i].a] > s6[a]
    BY <1>1, <1>3 DEF Keys!Ind, Keys!Clean, Keys!Left
  <2>2. \A i \in 1..LkSize : s2.keys[i].a \in LkPeers
    BY <2>1 DEF Keys!Ind, Keys!Types, Keys!Tables, Keys!Entries
  <2>3. who \in Injection(1..LkSize, after)
    BY <2>1, <2>2 DEF Keys!Ind, Keys!Single, Injection, IsInjective
  <2>4. IsFiniteSet(after)
    BY KeysAssumption, FS_Subset
  <2>5. IsFiniteSet(1..LkSize) /\ Cardinality(1..LkSize) = LkSize
    BY KeysAssumption, FS_Interval
  <2>6. LkSize <= Cardinality(after)
    BY <2>3, <2>4, <2>5, FS_Injection
  <2>7. Cardinality(after) < LkSize /\ Cardinality(after) \in Nat
    BY <2>4, FS_CardinalityType, KeysCardinality DEF Keys!Recent
  <2>8. QED
    BY <2>6, <2>7, KeysAssumption
<1>4. QED
  BY <1>2, <1>3

\* Whose entry is taken in a table filled from its beginning has the oldest, in a full one.
LEMMA KeysLeave == Keys!Ind /\ Keys!Next => Keys!Leaves
<1> SUFFICES ASSUME Keys!Ind, Keys!Next, NEW a \in LkPeers, Keys!Loaded(a) # {}, s4 = "run",
                    Keys!Odd' = {},
                    \A i \in 1..LkSize : s2'.keys[i].a # a
             PROVE  \A i \in 1..LkSize : s2.keys[i].a # Keys!Nobody
  BY DEF Keys!Leaves
<1>0. s2' # s2
  BY DEF Keys!Loaded
<1>1. \E b \in LkPeers, f \in {"key", "ident"} : Keys!Told(b, f)
  BY <1>0 DEF Keys!Next, Keys!Pairs, Keys!ClearLe, Keys!StoreFile, Keys!PowerCut, Keys!Boot,
     Keys!Odd
<1>2. PICK b \in LkPeers, f \in {"key", "ident"} : Keys!Told(b, f)
  BY <1>1
<1> DEFINE i == Keys!Place(s2, b)
<1>3. s2'.keys[i].a = b /\ \A j \in 1..LkSize : j # i => s2'.keys[j] = s2.keys[j]
  BY <1>2, KeysTable
<1>4. i \in 1..LkSize /\ (s2.keys[i].a = b \/ i = s2.index)
  BY KeysPlace DEF Keys!Ind, Keys!Types
<1> HIDE DEF i
<1>5. PICK j \in 1..LkSize : s2.keys[j].a = a
  BY DEF Keys!Loaded
<1>6. j = i /\ a # b
  BY <1>3, <1>4, <1>5
<1>7. i = s2.index /\ s2.keys[i].a # Keys!Nobody
  BY <1>4, <1>5, <1>6, KeysAssumption
<1>8. Keys!Odd = {}
  BY <1>2 DEF Keys!Told, Keys!SaveBegins, Keys!Odd
<1>9. Keys!Filled /\ i >= s2.index
  BY <1>4, <1>7, <1>8 DEF Keys!Ind, Keys!Clean, Keys!Types, Keys!Tables
<1>10. QED
  BY <1>4, <1>7, <1>9 DEF Keys!Filled

(***************************************************************************)
(* A Switch controller (SwInit): how often its init calls back.            *)
(***************************************************************************)
Sw == INSTANCE SwInit WITH
  swState <- s1, swRetries <- s2, swTimer <- s3, swSent <- s4, swFlags <- s5, swFired <- s6,
  swOdd <- s7

\* A request is answered or lost before its step is given up: those on their way are no more
\* than a step is sent (sw.c:219).
ASSUME SwitchAssumption == SwRetry \in Nat /\ SwFlight \in Nat /\ SwFlight <= SwRetry + 1

LEMMA SwitchInit == Sw!Init => Sw!Ind
<1> SUFFICES ASSUME Sw!Init PROVE Sw!Ind
  OBVIOUS
<1>1. Sw!Types
  BY SwitchAssumption DEF Sw!Init, Sw!Types
<1>2. Sw!Reached /\ Sw!LastStep /\ Sw!InStep
  BY SwitchAssumption DEF Sw!Init, Sw!Reached, Sw!LastStep, Sw!InStep, Sw!SetLed
<1>3. Sw!Counted
  BY SwitchAssumption DEF Sw!Init, Sw!Counted
<1>4. QED
  BY <1>1, <1>2, <1>3 DEF Sw!Ind

\* A step more has as many callbacks more.
LEMMA SwitchOneMore == \A s \in Nat : (s + 1) * (SwRetry + 2) = s * (SwRetry + 2) + SwRetry + 2
BY SwitchAssumption

\* What is sent comes behind, what is answered is the oldest.
LEMMA SwitchQueue ==
  ASSUME NEW S, NEW q \in Seq(S)
  PROVE  /\ \A r \in S : Append(q, r) \in Seq(S) /\ Len(Append(q, r)) = Len(q) + 1
         /\ q # <<>> => /\ Head(q) \in S /\ Tail(q) \in Seq(S) /\ Len(Tail(q)) = Len(q) - 1
                        /\ \A r \in S : Append(Tail(q), r) \in Seq(S) /\ Len(Append(Tail(q),
                             r)) = Len(q)
<1>1. \A r \in S : Append(q, r) \in Seq(S) /\ Len(Append(q, r)) = Len(q) + 1
  OBVIOUS
<1>2. ASSUME q # <<>>
      PROVE  /\ Head(q) \in S /\ Tail(q) \in Seq(S) /\ Len(Tail(q)) = Len(q) - 1
             /\ \A r \in S : Append(Tail(q), r) \in Seq(S) /\ Len(Append(Tail(q), r)) = Len(q)
  <2>1. Head(q) \in S /\ Tail(q) \in Seq(S) /\ Len(Tail(q)) = Len(q) - 1 /\ Len(q) \in Nat
    BY <1>2
  <2>2. ASSUME NEW r \in S PROVE Append(Tail(q), r) \in Seq(S) /\ Len(Append(Tail(q), r)) = Len(q)
    <3> DEFINE t == Tail(q)
    <3> HIDE DEF t
    <3>1. t \in Seq(S) /\ Len(t) = Len(q) - 1
      BY <2>1 DEF t
    <3>2. Append(t, r) \in Seq(S) /\ Len(Append(t, r)) = Len(t) + 1
      BY <3>1
    <3>3. QED
      BY <2>1, <3>1, <3>2 DEF t
  <2>3. QED
    BY <2>1, <2>2
<1>3. QED
  BY <1>1, <1>2

LEMMA SwitchAsked ==
  ASSUME NEW s \in Nat
  PROVE  Sw!Request(s) \in Sw!Requests /\ (s < Sw!SetLed =>
         Sw!Request(s) \in Sw!Requests \ {"led"})
BY DEF Sw!Request, Sw!Requests, Sw!SetLed

\* A callback more is made up for by a retry more, or by a step more with the retries back to none.
LEMMA SwitchBound ==
  ASSUME NEW m \in Nat, NEW f \in Nat, NEW r \in Nat, NEW g \in Nat, NEW q \in Nat, f <= m + r
  PROVE  /\ g <= f + 1 /\ q = r + 1 => g <= m + q
         /\ g = f /\ q = r => g <= m + q
         /\ g <= f + 1 /\ r <= SwRetry + 1 /\ q = 0 => g <= m + SwRetry + 2 + q
         /\ g = f /\ q = r => g <= m + SwRetry + 2 + q
BY SwitchAssumption

\* The steps passed and the retries account for one callback more.
LEMMA SwitchCounted ==
  ASSUME Sw!Ind, s6' \in Nat, s2' \in Nat,
         \/ s1' = s1 /\ s6' <= s6 + 1 /\ s2' = s2 + 1
         \/ s1' = s1 /\ s6' = s6 /\ s2' = s2
         \/ s1' = s1 + 1 /\ s6' <= s6 + 1 /\ s2 <= SwRetry + 1 /\ s2' = 0
         \/ s1' = s1 + 1 /\ s6' = s6 /\ s2' = s2
  PROVE  Sw!Counted'
<1> DEFINE m == s1 * (SwRetry + 2)
           f == s6'
           q == s2'
<1>0. f \in Nat /\ q \in Nat
  OBVIOUS
<1>1. s1 \in Nat /\ s6 \in Nat /\ s2 \in Nat
  BY DEF Sw!Ind, Sw!Types
<1>2. m \in Nat
  BY <1>1, SwitchAssumption
<1>3. s6 <= m + s2
  BY DEF Sw!Ind, Sw!Counted
<1>4. s1' = s1 + 1 => s1' * (SwRetry + 2) = m + SwRetry + 2
  BY <1>1, SwitchOneMore
<1>5. s1' = s1 => s1' * (SwRetry + 2) = m
  OBVIOUS
<1> HIDE DEF m
<1>6. \/ s1' = s1 /\ f <= m + q
      \/ s1' = s1 + 1 /\ f <= m + SwRetry + 2 + q
  <2> HIDE DEF f, q
  <2>1. /\ f <= s6 + 1 /\ q = s2 + 1 => f <= m + q
        /\ f = s6 /\ q = s2 => f <= m + q
        /\ f <= s6 + 1 /\ s2 <= SwRetry + 1 /\ q = 0 => f <= m + SwRetry + 2 + q
        /\ f = s6 /\ q = s2 => f <= m + SwRetry + 2 + q
    BY <1>0, <1>1, <1>2, <1>3, SwitchBound
  <2>2. \/ s1' = s1 /\ f <= s6 + 1 /\ q = s2 + 1
        \/ s1' = s1 /\ f = s6 /\ q = s2
        \/ s1' = s1 + 1 /\ f <= s6 + 1 /\ s2 <= SwRetry + 1 /\ q = 0
        \/ s1' = s1 + 1 /\ f = s6 /\ q = s2
    BY DEF f, q
  <2>3. QED
    BY <2>1, <2>2, Zenon
<1>7. QED
  BY <1>4, <1>5, <1>6 DEF Sw!Counted

LEMMA SwitchFires ==
  ASSUME Sw!Ind, Sw!Fire
  PROVE  Sw!Ind'
<1>1. s1 \in Nat /\ s6 \in Nat /\ s2 \in Nat /\ s2 <= SwRetry + 2 /\ Len(s4) <= SwFlight
  BY DEF Sw!Ind, Sw!Types
<1>2. s4 \in Seq(Sw!Requests) /\ Len(s4) \in Nat
  <2>1. s4 \in Seq(Sw!Requests)
    BY DEF Sw!Ind, Sw!Types
  <2>2. QED
    BY <2>1
<1>3. s3 = "armed" /\ Len(s4) < SwFlight /\ s6' = s6 + 1 /\ s5' = s5 /\ s7' = s7
  BY DEF Sw!Fire
<1>4. s2 <= SwRetry + 1
  BY <1>3 DEF Sw!Ind, Sw!LastStep
<1>5. ASSUME s1' \in Nat, s1' >= s1, s4' = Append(s4, Sw!Request(s1'))
      PROVE  s4' \in Seq(Sw!Requests) /\ Len(s4') = Len(s4) + 1 /\ Sw!Reached'
  <2>1. s4' \in Seq(Sw!Requests) /\ Len(s4') = Len(s4) + 1
    BY <1>2, <1>5, SwitchAsked, SwitchQueue
  <2>2. ASSUME s1' < Sw!SetLed PROVE s4' \in Seq(Sw!Requests \ {"led"})
    <3>1. s4 \in Seq(Sw!Requests \ {"led"})
      BY <1>1, <1>5, <2>2 DEF Sw!Ind, Sw!Reached, Sw!SetLed
    <3>2. QED
      BY <1>5, <2>2, <3>1, SwitchAsked, SwitchQueue
  <2>3. QED
    BY <2>1, <2>2 DEF Sw!Reached
<1>6. CASE s2 <= SwRetry
  <2>1. s2' = s2 + 1 /\ s1' = s1 /\ s3' = "callback"
        /\ s4' = Append(s4, Sw!Request(s1))
    BY <1>6 DEF Sw!Fire
  <2>2. s4' \in Seq(Sw!Requests) /\ Len(s4') = Len(s4) + 1 /\ Sw!Reached'
    BY <1>1, <1>5, <2>1
  <2>3. Sw!Types'
    BY <1>1, <1>2, <1>3, <1>6, <2>1, <2>2, SwitchAssumption DEF Sw!Types
  <2>4. Sw!Counted'
    BY <1>1, <1>3, <2>1, SwitchCounted
  <2>5. Sw!LastStep'
    BY <1>1, <1>3, <1>6, <2>1, SwitchAssumption DEF Sw!Ind, Sw!LastStep, Sw!SetLed
  <2>6. Sw!InStep'
    <3>1. s7 = {} => Len(s4') = s6' /\ s2' = s6'
      BY <1>3, <2>1, <2>2 DEF Sw!Ind, Sw!InStep
    <3>2. QED
      BY <1>3, <2>1, <3>1 DEF Sw!Ind, Sw!InStep
  <2>7. QED
    BY <2>2, <2>3, <2>4, <2>5, <2>6 DEF Sw!Ind
<1>7. CASE ~(s2 <= SwRetry)
  <2>1. ASSUME s7 = {} PROVE FALSE
    <3>1. Len(s4) = s6 /\ s2 = s6
      BY <1>3, <2>1 DEF Sw!Ind, Sw!InStep
    <3>2. QED
      BY <1>1, <1>2, <1>3, <1>7, <3>1, SwitchAssumption
  <2>2. Sw!InStep'
    BY <1>3, <2>1 DEF Sw!InStep
  <2>3. CASE Sw!GivesUp
    <3>1. s2' = s2 + 1 /\ s1' = s1 /\ s3' = "deleted" /\ s4' = s4 /\ s1 = 3
      BY <1>7, <2>3 DEF Sw!Fire, Sw!GivesUp, Sw!SetLed
    <3>2. Sw!Types'
      BY <1>1, <1>2, <1>3, <1>4, <3>1, SwitchAssumption DEF Sw!Types
    <3>3. Sw!Reached' /\ Sw!LastStep'
      BY <1>3, <3>1 DEF Sw!Ind, Sw!Reached, Sw!LastStep, Sw!SetLed
    <3>4. Sw!Counted'
      BY <1>1, <1>3, <3>1, SwitchCounted
    <3>5. QED
      BY <2>2, <3>2, <3>3, <3>4 DEF Sw!Ind
  <2>4. CASE ~Sw!GivesUp
    <3>1. s2' = 0 /\ s1' = s1 + 1 /\ s3' = "callback"
          /\ s4' = Append(s4, Sw!Request(s1 + 1)) /\ s1 # 3
      BY <1>7, <2>4 DEF Sw!Fire, Sw!GivesUp, Sw!SetLed
    <3>2. s4' \in Seq(Sw!Requests) /\ Len(s4') = Len(s4) + 1 /\ Sw!Reached'
      BY <1>1, <1>5, <3>1
    <3>3. Sw!Types'
      BY <1>1, <1>2, <1>3, <3>1, <3>2, SwitchAssumption DEF Sw!Types
    <3>4. Sw!Counted'
      BY <1>1, <1>3, <1>4, <3>1, SwitchCounted
    <3>5. Sw!LastStep'
      <4>1. "late" \notin s7 => s1 <= 3
        BY DEF Sw!Ind, Sw!LastStep, Sw!SetLed
      <4>2. "late" \notin s7' => s1' <= 3
        BY <1>1, <1>3, <3>1, <4>1
      <4>3. QED
        BY <3>1, <4>2, SwitchAssumption DEF Sw!LastStep, Sw!SetLed
    <3>6. QED
      BY <2>2, <3>2, <3>3, <3>4, <3>5 DEF Sw!Ind
  <2>5. QED
    BY <2>3, <2>4
<1>8. QED
  BY <1>6, <1>7

LEMMA SwitchRearms ==
  ASSUME Sw!Ind, Sw!Rearm
  PROVE  Sw!Ind'
<1>1. Sw!Types' /\ Sw!Reached'
  BY DEF Sw!Ind, Sw!Rearm, Sw!Types, Sw!Reached
<1>2. Sw!Counted'
  BY DEF Sw!Ind, Sw!Rearm, Sw!Counted
<1>3. Sw!LastStep'
  BY DEF Sw!Ind, Sw!Rearm, Sw!LastStep
<1>4. Sw!InStep'
  BY DEF Sw!Ind, Sw!Rearm, Sw!InStep
<1>5. QED
  BY <1>1, <1>2, <1>3, <1>4 DEF Sw!Ind

LEMMA SwitchAnswered ==
  ASSUME Sw!Ind, Sw!Ack
  PROVE  Sw!Ind'
<1> DEFINE of == Head(s4)
<1>1. s1 \in Nat /\ s6 \in Nat /\ s2 \in Nat /\ s2 <= SwRetry + 2 /\ Len(s4) <= SwFlight
  BY DEF Sw!Ind, Sw!Types
<1>2. s4 \in Seq(Sw!Requests) /\ Len(s4) \in Nat
  <2>1. s4 \in Seq(Sw!Requests)
    BY DEF Sw!Ind, Sw!Types
  <2>2. QED
    BY <2>1
<1>3. s3 \in {"armed", "callback", "callback deleted", "deleted"}
  BY DEF Sw!Ind, Sw!Types
<1>4. s4 # <<>> /\ s5' = s5 \cup {of} \cup (IF of = "8010" THEN {"calib"} ELSE {})
      /\ s2' = s2 /\ s6' = s6
  BY DEF Sw!Ack
<1>5. of \in Sw!Requests /\ Tail(s4) \in Seq(Sw!Requests) /\ Len(Tail(s4)) = Len(s4) - 1
      /\ \A r \in Sw!Requests : Append(Tail(s4), r) \in Seq(Sw!Requests) /\ Len(Append(Tail(s4),
           r)) = Len(s4)
  BY <1>2, <1>4, SwitchQueue
<1>6. s1 < 3 => /\ of # "led" /\ Tail(s4) \in Seq(Sw!Requests \ {"led"})
                     /\ \A r \in Sw!Requests \ {"led"} : Append(Tail(s4),
                          r) \in Seq(Sw!Requests \ {"led"})
  <2> SUFFICES ASSUME s1 < 3
               PROVE  /\ of # "led" /\ Tail(s4) \in Seq(Sw!Requests \ {"led"})
                      /\ \A r \in Sw!Requests \ {"led"} : Append(Tail(s4),
                           r) \in Seq(Sw!Requests \ {"led"})
    OBVIOUS
  <2>1. s4 \in Seq(Sw!Requests \ {"led"})
    BY DEF Sw!Ind, Sw!Reached, Sw!SetLed
  <2>2. of \in Sw!Requests \ {"led"} /\ Tail(s4) \in Seq(Sw!Requests \ {"led"})
        /\ \A r \in Sw!Requests \ {"led"} : Append(Tail(s4), r) \in Seq(Sw!Requests \ {"led"})
    BY <1>4, <2>1, SwitchQueue
  <2>3. QED
    BY <2>2
<1>7. CASE of = "led"
  <2>1. s3' = Sw!Deleted /\ s4' = Tail(s4) /\ s1' = s1 /\ s7' = s7
    BY <1>7 DEF Sw!Ack, Sw!NextRead
  <2>2. s3' \in {"callback deleted", "deleted"} /\ (s3' # "deleted" => s3 # "deleted")
    BY <2>1 DEF Sw!Deleted
  <2> HIDE DEF of
  <2>3. Sw!Types'
    <3>1. s4' \in Seq(Sw!Requests) /\ Len(s4') <= SwFlight
      BY <1>1, <1>2, <1>5, <2>1, SwitchAssumption
    <3>2. QED
      BY <1>1, <1>4, <2>1, <2>2, <3>1 DEF Sw!Types
  <2>4. Sw!Reached'
    BY <1>6, <2>1 DEF Sw!Reached, Sw!SetLed
  <2>5. Sw!Counted'
    BY <1>1, <1>4, <2>1, SwitchCounted
  <2>6. Sw!LastStep'
    BY <1>4, <2>1, <2>2 DEF Sw!Ind, Sw!LastStep
  <2>7. Sw!InStep'
    <3>1. s1 >= 2 /\ s1 >= 3
      BY <1>1, <1>6, <1>7
    <3>2. s7 = {} => "calib" \in s5 /\ "rumble" \in s5
      BY <3>1 DEF Sw!Ind, Sw!InStep, Sw!SetLed
    <3>3. s7 = {} => {"calib", "rumble", "led"} \subseteq s5'
      BY <1>4, <1>7, <3>2
    <3>4. QED
      BY <2>1, <2>2, <3>3 DEF Sw!InStep
  <2>8. QED
    BY <2>3, <2>4, <2>5, <2>6, <2>7 DEF Sw!Ind
<1>8. CASE of \in {"603D", "6086", "6098"}
  <2> DEFINE r == Sw!NextRead(of)
  <2>1. r \in Sw!Requests \ {"led"} /\ r # "none"
    BY <1>8 DEF Sw!NextRead, Sw!Requests
  <2>2. s4' = Append(Tail(s4), r) /\ s3' = s3 /\ s1' = s1 /\ s7' = s7
    BY <1>8, <2>1 DEF Sw!Ack
  <2> HIDE DEF of, r
  <2>3. s4' \in Seq(Sw!Requests) /\ Len(s4') = Len(s4)
    BY <1>5, <2>1, <2>2
  <2>4. Sw!Types'
    BY <1>1, <1>3, <1>4, <2>2, <2>3 DEF Sw!Types
  <2>5. Sw!Reached'
    BY <1>6, <2>1, <2>2 DEF Sw!Reached, Sw!SetLed
  <2>6. Sw!Counted'
    BY <1>1, <1>4, <2>2, SwitchCounted
  <2>7. Sw!LastStep'
    BY <1>4, <2>2 DEF Sw!Ind, Sw!LastStep
  <2>8. Sw!InStep'
    BY <1>4, <2>2, <2>3 DEF Sw!Ind, Sw!InStep
  <2>9. QED
    BY <2>4, <2>5, <2>6, <2>7, <2>8 DEF Sw!Ind
<1>9. CASE of \in {"info", "8010", "rumble"}
  <2> DEFINE r == Sw!Request(s1 + 1)
  <2>1. s1' = s1 + 1 /\ s4' = Append(Tail(s4), r) /\ s3' = s3
        /\ s7' = s7 \cup (IF Sw!Step(of) # s1 THEN {"late"} ELSE {})
    BY <1>9 DEF Sw!Ack, Sw!NextRead, Sw!Moves
  <2>2. Sw!Step(of) = IF of = "info" THEN 0 ELSE IF of = "rumble" THEN 2 ELSE 1
    BY <1>9 DEF Sw!Step
  <2>3. r \in Sw!Requests /\ (s1' < 3 => r \in Sw!Requests \ {"led"}) /\ s1' \in Nat /\
        (s1' < 3 => s1 < 3)
    BY <1>1, <2>1, SwitchAsked DEF Sw!SetLed
  <2> HIDE DEF of, r
  <2>4. s4' \in Seq(Sw!Requests) /\ Len(s4') = Len(s4)
    BY <1>5, <2>1, <2>3
  <2>5. Sw!Types'
    BY <1>1, <1>3, <1>4, <2>1, <2>3, <2>4 DEF Sw!Types
  <2>6. Sw!Reached'
    BY <1>6, <2>1, <2>3 DEF Sw!Reached, Sw!SetLed
  <2>7. Sw!Counted'
    BY <1>1, <1>4, <2>1, SwitchCounted
  <2>8. s7' = {} \/ "late" \notin s7' => Sw!Step(of) = s1 /\ "late" \notin s7
    BY <2>1
  <2>9. Sw!LastStep'
    <3>1. "late" \notin s7' => s1' <= 3
      BY <1>1, <1>9, <2>1, <2>2, <2>8
    <3>2. QED
      BY <1>4, <2>1, <3>1 DEF Sw!Ind, Sw!LastStep, Sw!SetLed
  <2>10. Sw!InStep'
    <3> SUFFICES ASSUME s7' = {}
                 PROVE  /\ s3' \in {"armed", "callback"} => Len(s4') = s6' /\ s2' = s6'
                        /\ s1' >= 2 => "calib" \in s5'
                        /\ s1' >= Sw!SetLed => "rumble" \in s5'
                        /\ s3' \in {"callback deleted", "deleted"} => {"calib", "rumble",
                             "led"} \subseteq s5'
      BY DEF Sw!InStep
    <3>1. s7 = {} /\ Sw!Step(of) = s1
      BY <2>1, <2>8
    <3>2. s3' \in {"armed", "callback"} => Len(s4') = s6' /\ s2' = s6'
      BY <1>4, <2>1, <2>4, <3>1 DEF Sw!Ind, Sw!InStep
    <3>3. /\ s1 \in 0..2 /\ (s1 = 1 => of = "8010") /\ (s1 = 2 => of = "rumble")
      BY <1>9, <2>2, <3>1
    <3>4. s1 = 2 => "calib" \in s5
      <4>1. s1 >= 2 => "calib" \in s5
        BY <3>1 DEF Sw!Ind, Sw!InStep
      <4>2. QED
        BY <4>1
    <3>5. s1' >= 2 => "calib" \in s5'
      BY <1>4, <2>1, <3>3, <3>4
    <3>6. s1' >= Sw!SetLed => "rumble" \in s5'
      BY <1>4, <2>1, <3>3 DEF Sw!SetLed
    <3>7. s3' \in {"callback deleted", "deleted"} => {"calib", "rumble", "led"} \subseteq s5'
      BY <1>4, <2>1, <3>1 DEF Sw!Ind, Sw!InStep
    <3>8. QED
      BY <3>2, <3>5, <3>6, <3>7
  <2>11. QED
    BY <2>5, <2>6, <2>7, <2>9, <2>10 DEF Sw!Ind
<1>10. QED
  BY <1>5, <1>7, <1>8, <1>9 DEF Sw!Requests

LEMMA SwitchLoses ==
  ASSUME Sw!Ind, Sw!Lost
  PROVE  Sw!Ind'
<1>1. s4 # <<>> /\ s4' = Tail(s4) /\ s7' = s7 \cup {"silent"}
      /\ UNCHANGED <<s1, s2, s3, s5, s6>>
  BY DEF Sw!Lost
<1>2. s4 \in Seq(Sw!Requests) /\ Len(s4) \in Nat /\ Len(s4) <= SwFlight
  <2>1. s4 \in Seq(Sw!Requests) /\ Len(s4) <= SwFlight
    BY DEF Sw!Ind, Sw!Types
  <2>2. QED
    BY <2>1
<1>3. s4' \in Seq(Sw!Requests) /\ Len(s4') = Len(s4) - 1
  BY <1>1, <1>2, SwitchQueue
<1>4. Sw!Types'
  <2>1. Len(s4') <= SwFlight
    BY <1>2, <1>3, SwitchAssumption
  <2>2. QED
    BY <1>1, <1>3, <2>1 DEF Sw!Ind, Sw!Types
<1>5. Sw!Reached'
  <2>1. s1 < Sw!SetLed => s4 \in Seq(Sw!Requests \ {"led"})
    BY DEF Sw!Ind, Sw!Reached
  <2>2. QED
    BY <1>1, <2>1, SwitchQueue DEF Sw!Reached
<1>6. Sw!Counted' /\ Sw!LastStep' /\ Sw!InStep'
  BY <1>1 DEF Sw!Ind, Sw!Counted, Sw!LastStep, Sw!InStep
<1>7. QED
  BY <1>4, <1>5, <1>6 DEF Sw!Ind

LEMMA SwitchStep == Sw!Ind /\ (Sw!Next \/ UNCHANGED Sw!swVars) => Sw!Ind'
<1>1. ASSUME Sw!Ind, UNCHANGED Sw!swVars PROVE Sw!Ind'
  BY <1>1 DEF Sw!swVars, Sw!Ind, Sw!Types, Sw!Reached, Sw!Counted, Sw!LastStep, Sw!InStep
<1>2. QED
  BY <1>1, SwitchFires, SwitchRearms, SwitchAnswered, SwitchLoses DEF Sw!Next

\* The steps are taken, and the callback has an end.
LEMMA SwitchEnds == Sw!Ind => Sw!StepsTaken /\ Sw!CallbacksEnd
<1> SUFFICES ASSUME Sw!Ind PROVE Sw!StepsTaken /\ Sw!CallbacksEnd
  OBVIOUS
<1>1. Sw!StepsTaken
  BY DEF Sw!Ind, Sw!InStep, Sw!StepsTaken
<1>2. ASSUME "late" \notin s7 PROVE s6 <= Sw!Fires
  <2>1. s1 \in Nat /\ s2 <= SwRetry + 2 /\ s2 \in Nat /\ s6 \in Nat
    BY DEF Sw!Ind, Sw!Types
  <2>2. s1 <= 3
    BY <1>2 DEF Sw!Ind, Sw!LastStep, Sw!SetLed
  <2>3. s1 * (SwRetry + 2) <= 3 * (SwRetry + 2) /\ s1 * (SwRetry + 2) \in Nat
    BY <2>1, <2>2, SwitchAssumption
  <2>4. s6 <= s1 * (SwRetry + 2) + s2
    BY DEF Sw!Ind, Sw!Counted
  <2>5. QED
    BY <2>1, <2>3, <2>4, SwitchAssumption DEF Sw!Fires, Sw!SetLed
<1>3. QED
  BY <1>1, <1>2 DEF Sw!CallbacksEnd

(***************************************************************************)
(* The services (AttChain): where the search stands.                       *)
(***************************************************************************)
Att == INSTANCE AttChain WITH
  acPeer <- s1, acState <- s2, acReady <- s3, acTab <- s4, acReqs <- s5, acSdp <- s6,
  acParsed <- s7, acVid <- s8, acSubs <- s9, acInits <- s10, acOdd <- s11

\* The shortest answer that finds attributes has room for one.
ASSUME ServicesAssumption == AcBatch \in Nat \ {0}

LEMMA ServicesHid == Len(Att!Hid) \in 10..18
<1>1. CASE s1 = "keys"
  BY <1>1 DEF Att!Hid
<1>2. CASE s1 = "full"
  BY <1>2 DEF Att!Hid
<1>3. CASE s1 = "many"
  BY <1>3 DEF Att!Hid
<1>4. CASE s1 \notin {"keys", "full", "many"}
  BY <1>4 DEF Att!Hid
<1>5. QED
  BY <1>1, <1>2, <1>3, <1>4

LEMMA ServicesInit == Att!Init => Att!Ind
<1> SUFFICES ASSUME Att!Init PROVE Att!Ind
  OBVIOUS
<1>1. s5 = <<Att!Ask("mtu", Att!Name, 0)>> /\ s5[1] = Att!Ask("mtu", Att!Name, 0)
  BY DEF Att!Init
<1>2. Att!OnTheWay
  BY <1>1 DEF Att!OnTheWay, Att!Asked, Att!Ask, Att!Name, Att!Done, Att!FindHid, Att!IdentHid
<1>3. Att!InStep
  BY <1>1 DEF Att!InStep, Att!Ask, Att!Init
<1>4. Att!Bounded(s4)
  BY DEF Att!Init, Att!Bounded, Att!Wiped
<1>5. QED
  BY <1>2, <1>3, <1>4 DEF Att!Ind, Att!Init, Att!Name, Att!Done

\* What an answer that is not dropped leads to: the chain is over, stays where it is with nothing
\* asked, or asks n, of the state it has come to.
Goes(n) == n.st = s2' /\ Att!Asked(n) /\ s3' = s3 /\ s5' = Append(Tail(s5), n)
Further(n) ==
  LET r == Head(s5) IN
  IF n.op \in {"group", "info"} THEN s2' = s2 + 1 \/ (r.op = n.op /\ (s1 # "tiny" =>
  n.arg > r.arg))
  ELSE TRUE
Led ==
  /\ s2' \in Att!Name..Att!Done /\ s2' >= s2 /\ Att!Bounded(s4')
  /\ \/ s5' = Tail(s5) /\ (s3' = TRUE \/ (s2' = s2 /\ s3' = s3))
     \/ \E n : Goes(n) /\ Further(n)

\* A table that is changed elsewhere keeps the handles of the service.
LEMMA ServicesBounded ==
  ASSUME NEW tab, Att!Bounded(tab)
  PROVE  /\ \A v : Att!Bounded([tab EXCEPT !.idx = v])
         /\ \A v : Att!Bounded([tab EXCEPT !.rows = v])
         /\ \A v, w : Att!Bounded([tab EXCEPT !.rows = v, !.idx = w])
         /\ \A v \in 0..1 : Att!Bounded([tab EXCEPT !.first = v, !.last = Len(Att!Hid)])
         /\ \A a, b : /\ Att!Bounded(Att!Attributes(tab, a, b))
                      /\ Att!Attributes(tab, a, b).first = tab.first /\ Att!Attributes(tab, a,
                           b).last = tab.last
<1>1. \A v : Att!Bounded([tab EXCEPT !.idx = v])
  BY DEF Att!Bounded
<1>2. \A v : Att!Bounded([tab EXCEPT !.rows = v])
  BY DEF Att!Bounded
<1>3. \A v, w : Att!Bounded([tab EXCEPT !.rows = v, !.idx = w])
  BY DEF Att!Bounded
<1>4. \A v \in 0..1 : Att!Bounded([tab EXCEPT !.first = v, !.last = Len(Att!Hid)])
  BY DEF Att!Bounded
<1>5. ASSUME NEW a, NEW b
      PROVE  /\ Att!Bounded(Att!Attributes(tab, a, b))
             /\ Att!Attributes(tab, a, b).first = tab.first /\ Att!Attributes(tab, a,
                  b).last = tab.last
  <2>1. PICK t : Att!Attributes(tab, a, b) =
               [tab EXCEPT !.cnt = t.cnt, !.found = t.found, !.map = t.map, !.rows = t.rows,
               !.over = t.over]
    BY DEF Att!Attributes
  <2>2. QED
    BY <2>1 DEF Att!Bounded
<1>6. QED
  BY <1>1, <1>2, <1>3, <1>4, <1>5

LEMMA ServicesEnters ==
  ASSUME Att!Ind, NEW tab, Att!Bounded(tab), NEW st \in Att!Name..Att!Done, st >= s2,
         st \in {Att!FindHid, Att!IdentHid} => st = s2 + 1, Att!Enter(st, tab, Tail(s5))
  PROVE  Led
<1> USE DEF Att!Name, Att!Appearance, Att!Pnp, Att!FindHid, Att!IdentHid, Att!CharProp,
    Att!ReportMap, Att!ReportRef, Att!ReportCfg, Att!Ppcp, Att!Battery, Att!Done
<1>1. st \in 1..11 /\ st # 8
  BY DEF Att!Enter
<1>2. Att!Bounded(s4')
  <2>1. s4' = tab \/ s4' = [tab EXCEPT !.idx = 0]
    BY <1>1 DEF Att!Enter
  <2>2. Att!Bounded([tab EXCEPT !.idx = 0])
    BY ServicesBounded
  <2>3. QED
    BY <2>1, <2>2
<1>3. CASE st \in {1, 2, 9, 10}
  <2> DEFINE n == Att!Ask("type", st, 1)
  <2>1. Goes(n) /\ s2' = st
    BY <1>3 DEF Att!Enter, Att!Go, Goes, Att!Asked, Att!Ask
  <2>2. Further(n)
    BY DEF Further, Att!Ask
  <2>3. QED
    BY <1>2, <2>1, <2>2 DEF Led
<1>4. CASE st = 3
  <2> DEFINE n == Att!Ask("group", st, 1)
  <2>1. Goes(n) /\ s2' = st
    BY <1>4 DEF Att!Enter, Att!Go, Goes, Att!Asked, Att!Ask
  <2>2. Further(n)
    BY <1>4, <2>1 DEF Further
  <2>3. QED
    BY <1>2, <2>1, <2>2 DEF Led
<1>5. CASE st = 4
  <2> DEFINE n == Att!Ask("info", st, tab.first)
  <2>1. Goes(n) /\ s2' = st
    BY <1>5 DEF Att!Enter, Att!Go, Goes, Att!Asked, Att!Ask, Att!Bounded
  <2>2. Further(n)
    BY <1>5, <2>1 DEF Further
  <2>3. QED
    BY <1>2, <2>1, <2>2 DEF Led
<1>6. CASE st = 5
  <2> DEFINE n == Att!Ask("type", st, tab.first)
  <2>1. Goes(n) /\ s2' = st
    BY <1>6 DEF Att!Enter, Att!Go, Goes, Att!Asked, Att!Ask
  <2>2. Further(n)
    BY DEF Further, Att!Ask
  <2>3. QED
    BY <1>2, <2>1, <2>2 DEF Led
<1>7. CASE st = 6
  <2> DEFINE n == Att!Ask("read", st, tab.map)
  <2>1. Goes(n) /\ s2' = st
    BY <1>7 DEF Att!Enter, Att!Go, Goes, Att!Asked, Att!Ask
  <2>2. Further(n)
    BY DEF Further, Att!Ask
  <2>3. QED
    BY <1>2, <2>1, <2>2 DEF Led
<1>8. CASE st = 7
  <2> DEFINE n == Att!Ask("read", st, tab.rows[0].ref)
  <2>1. Goes(n) /\ s2' = st
    BY <1>8 DEF Att!Enter, Att!Go, Goes, Att!Asked, Att!Ask
  <2>2. Further(n)
    BY DEF Further, Att!Ask
  <2>3. QED
    BY <1>2, <2>1, <2>2 DEF Led
<1>9. CASE st = 11
  <2>1. s2' = st /\ s5' = Tail(s5) /\ s3' = TRUE
    BY <1>9 DEF Att!Enter
  <2>2. s2' \in Att!Name..Att!Done
    BY <2>1
  <2>3. s2' >= s2
    BY <2>1
  <2>4. QED
    BY <1>2, <2>1, <2>2, <2>3, Zenon DEF Led
<1>10. QED
  BY <1>1, <1>3, <1>4, <1>5, <1>6, <1>7, <1>8, <1>9

LEMMA ServicesTells ==
  ASSUME Att!Ind, NEW tab, Att!Bounded(tab), s2 <= Att!ReportCfg, Att!Tell(tab, Tail(s5))
  PROVE  Led
<1> USE DEF Att!Name, Att!Appearance, Att!Pnp, Att!FindHid, Att!IdentHid, Att!CharProp,
    Att!ReportMap, Att!ReportRef, Att!ReportCfg, Att!Ppcp, Att!Battery, Att!Done
<1>1. CASE Att!ToTell(tab) = {}
  BY <1>1, ServicesEnters DEF Att!Tell, Att!Ind
<1>2. CASE Att!ToTell(tab) # {}
  <2> DEFINE i == Att!Least(Att!ToTell(tab))
             n == Att!Ask("write", Att!ReportCfg, tab.rows[i].cfg)
  <2>1. Att!Go(Att!ReportCfg, Append(Tail(s5), n)) /\ s4' = [tab EXCEPT !.idx = i + 1]
    BY <1>2 DEF Att!Tell
  <2> HIDE DEF i
  <2>2. Att!Bounded(s4')
    BY <2>1, ServicesBounded
  <2>3. Goes(n) /\ s2' = Att!ReportCfg
    BY <2>1 DEF Att!Go, Goes, Att!Asked, Att!Ask
  <2>4. Further(n)
    BY DEF Further, Att!Ask
  <2>5. QED
    BY <2>2, <2>3, <2>4 DEF Led, Att!Ind
<1>3. QED
  BY <1>1, <1>2

LEMMA ServicesOnward ==
  ASSUME Att!Ind, NEW tab, Att!Bounded(tab), s2 # Att!Done, Att!Onward(tab, Tail(s5))
  PROVE  Led
<1> USE DEF Att!Name, Att!Appearance, Att!Pnp, Att!FindHid, Att!IdentHid, Att!CharProp,
    Att!ReportMap, Att!ReportRef, Att!ReportCfg, Att!Ppcp, Att!Battery, Att!Done
<1>1. CASE s2 = 7
  <2> DEFINE begun == [tab EXCEPT !.idx = 0]
  <2>1. Att!Tell(begun, Tail(s5))
    BY <1>1 DEF Att!Onward
  <2>2. Att!Bounded(begun)
    BY ServicesBounded
  <2> HIDE DEF begun
  <2>3. QED
    BY <1>1, <2>1, <2>2, ServicesTells
<1>2. CASE s2 # 7
  <2>1. s2 \in 0..10
    BY DEF Att!Ind
  <2>2. Att!Enter(s2 + 1, tab, Tail(s5))
    BY <1>2, <2>1 DEF Att!Onward
  <2>3. QED
    BY <2>1, <2>2, ServicesEnters
<1>3. QED
  BY <1>1, <1>2

\* It asks for more in the state it is in.
LEMMA ServicesMore ==
  ASSUME Att!Ind, NEW n, n.st = s2, Att!Asked(n), Further(n), NEW tab, Att!Bounded(tab),
         Att!More(n, Tail(s5), tab)
  PROVE  Led
BY DEF Att!More, Att!Go, Led, Goes, Att!Ind

\* The first of the services from a handle on ends further on.
LEMMA ServicesAfter ==
  ASSUME NEW h \in Nat, Att!After(h) # {}, NEW s,
         s = CHOOSE x \in Att!After(h) : \A y \in Att!After(h) : x[1] <= y[1]
  PROVE  /\ s[2] \in Nat /\ (s1 # "tiny" => s[2] > h)
         /\ s[1] = 1 => s[2] = Len(Att!Hid)
<1> DEFINE a == <<1, Len(Att!Hid)>>
           b == <<20, IF s1 = "tiny" THEN 20 ELSE 25>>
<1>1. Att!ToSet(Att!Services) = {a, b}
  BY DEF Att!ToSet, Att!Services
<1>2. Att!After(h) = {x \in {a, b} : x[1] >= h}
  BY <1>1 DEF Att!After
<1>3. \E x \in Att!After(h) : \A y \in Att!After(h) : x[1] <= y[1]
  BY <1>2
<1>4. s \in Att!After(h)
  BY <1>3
<1>5. CASE s = a
  <2>1. s[1] = 1 /\ s[2] = Len(Att!Hid) /\ 1 >= h
    BY <1>2, <1>4, <1>5
  <2> HIDE DEF a, b
  <2>2. s[2] \in 10..18
    BY <2>1, ServicesHid
  <2>3. s[2] \in Nat /\ s[2] > h
    BY <2>1, <2>2
  <2>4. QED
    BY <2>1, <2>3
<1>6. CASE s = b
  <2>1. s[1] = 20 /\ s[2] = (IF s1 = "tiny" THEN 20 ELSE 25) /\ 20 >= h
    BY <1>2, <1>4, <1>6
  <2>2. QED
    BY <2>1
<1>7. QED
  BY <1>2, <1>4, <1>5, <1>6

LEMMA ServicesFind ==
  ASSUME Att!Ind, s5 # <<>>, s2 = Att!FindHid, NEW r, r = Head(s5), NEW ok \in Att!Has(r), ok =>
         r.op = "group", Att!Asked(r),
         Att!ProcFind(r, Tail(s5), ok)
  PROVE  Led
<1>1. CASE ok
  <2> DEFINE s == CHOOSE x \in Att!After(r.arg) : \A y \in Att!After(r.arg) : x[1] <= y[1]
             tab == IF s[1] = 1 THEN [s4 EXCEPT !.first = s[1], !.last = s[2]] ELSE s4
             n == Att!Ask("group", Att!FindHid, s[2])
  <2>1. Att!More(n, Tail(s5), tab)
    BY <1>1 DEF Att!ProcFind, Att!FromEnd
  <2>2. Att!After(r.arg) # {} /\ r.arg \in Nat
    <3>0. r.op = "group"
      BY <1>1, Zenon
    <3>1. r.st = Att!FindHid
      BY <3>0 DEF Att!Asked
    <3>4. Att!Has(r) = {Att!After(r.arg) # {}}
      BY <3>0, <3>1 DEF Att!Has, Att!FindHid, Att!CharProp, Att!IdentHid, Att!ReportMap,
         Att!ReportRef, Att!ReportCfg
    <3>2. Att!After(r.arg) # {}
      BY <1>1, <3>4, Zenon
    <3>3. QED
      BY <1>1, <3>2 DEF Att!Asked
  <2>3. s[2] \in Nat /\ (s1 # "tiny" => s[2] > r.arg) /\ (s[1] = 1 => s[2] = Len(Att!Hid))
    BY <2>2, ServicesAfter
  <2> HIDE DEF s
  <2>4. Att!Bounded(tab)
    <3>1. Att!Bounded(s4)
      BY DEF Att!Ind
    <3>2. CASE s[1] = 1
      <4>1. tab = [s4 EXCEPT !.first = 1, !.last = Len(Att!Hid)]
        BY <2>3, <3>2
      <4>2. Att!Bounded([s4 EXCEPT !.first = 1, !.last = Len(Att!Hid)])
        BY <3>1 DEF Att!Bounded
      <4>3. QED
        BY <4>1, <4>2
    <3>3. QED
      BY <3>1, <3>2
  <2> HIDE DEF tab
  <2>5. Att!Asked(n) /\ n.st = s2 /\ Further(n)
    BY <1>1, <2>3 DEF Att!Asked, Att!Ask, Further, Att!Name, Att!FindHid, Att!IdentHid, Att!Done
  <2> HIDE DEF n
  <2>6. QED
    BY <2>1, <2>4, <2>5, ServicesMore
<1>2. CASE ~ok
  BY <1>2, ServicesOnward DEF Att!ProcFind, Att!Ind, Att!FindHid, Att!Done
<1>3. QED
  BY <1>1, <1>2

LEMMA ServicesIdent ==
  ASSUME Att!Ind, s5 # <<>>, s2 = Att!IdentHid, NEW r, r = Head(s5), NEW ok \in Att!Has(r), ok =>
         r.op = "info", Att!Asked(r),
         Att!ProcIdent(r, Tail(s5), ok)
  PROVE  Led
<1>0. Att!Bounded(s4)
  BY DEF Att!Ind
<1>1. CASE ok
  <2> DEFINE b == IF r.arg + AcBatch > Len(Att!Hid) THEN Len(Att!Hid) ELSE r.arg + AcBatch - 1
             tab == Att!Attributes(s4, r.arg, b)
             n == Att!Ask("info", Att!IdentHid, b + 1)
  <2>1. IF b < tab.last THEN Att!More(n, Tail(s5), tab) ELSE Att!Enter(Att!CharProp, tab, Tail(s5))
    BY <1>1 DEF Att!ProcIdent
  <2>2. Att!Bounded(tab) /\ tab.last = s4.last /\ tab.last \in {0, Len(Att!Hid)}
    BY <1>0, ServicesBounded DEF Att!Bounded
  <2>3. r.arg \in Nat
    BY <1>1 DEF Att!Asked
  <2>4. b \in Nat /\ (b < tab.last => b + 1 > r.arg)
    BY <2>2, <2>3, ServicesHid, ServicesAssumption
  <2> HIDE DEF b, tab
  <2>5. CASE b < tab.last
    <3>1. Att!Asked(n) /\ n.st = s2 /\ Further(n)
      BY <1>1, <2>4, <2>5 DEF Att!Asked, Att!Ask, Further, Att!Name, Att!FindHid, Att!IdentHid,
         Att!Done
    <3> HIDE DEF n
    <3>2. QED
      BY <2>1, <2>2, <2>5, <3>1, ServicesMore
  <2>6. CASE ~(b < tab.last)
    BY <2>1, <2>2, <2>6, ServicesEnters DEF Att!Name, Att!Done, Att!CharProp, Att!FindHid,
       Att!IdentHid
  <2>7. QED
    BY <2>5, <2>6
<1>2. CASE ~ok
  BY <1>0, <1>2, ServicesOnward DEF Att!ProcIdent, Att!IdentHid, Att!Done
<1>3. QED
  BY <1>1, <1>2

LEMMA ServicesChar ==
  ASSUME Att!Ind, s2 = Att!CharProp, NEW r, NEW ok, Att!ProcChar(r, Tail(s5), ok)
  PROVE  Led
<1>0. Att!Bounded(s4) /\ s2 # Att!Done
  BY DEF Att!Ind, Att!CharProp, Att!Done
<1>1. CASE ok /\ r.st = Att!CharProp
  <2> DEFINE c == Att!Least(Att!Char(r.arg))
             rows == [i \in 0..AcMax |-> IF s4.rows[i].hdl = c + 1
                                         THEN [s4.rows[i] EXCEPT !.notify = Att!Notifies(c + 1)]
                                         ELSE s4.rows[i]]
             tab == [s4 EXCEPT !.rows = rows]
             n == Att!Ask("type", Att!CharProp, c + 1)
  <2>1. IF c < tab.last THEN Att!More(n, Tail(s5), tab) ELSE Att!Onward(tab, Tail(s5))
    BY <1>1 DEF Att!ProcChar
  <2> HIDE DEF c, rows
  <2>2. Att!Bounded(tab)
    BY <1>0, ServicesBounded
  <2>3. Att!Asked(n) /\ n.st = s2 /\ Further(n)
    BY DEF Att!Asked, Att!Ask, Further, Att!Name, Att!FindHid, Att!IdentHid, Att!CharProp, Att!Done
  <2> HIDE DEF tab, n
  <2>4. QED
    BY <1>0, <2>1, <2>2, <2>3, ServicesMore, ServicesOnward
<1>2. CASE ~(ok /\ r.st = Att!CharProp)
  BY <1>0, <1>2, ServicesOnward DEF Att!ProcChar
<1>3. QED
  BY <1>1, <1>2

LEMMA ServicesMap ==
  ASSUME Att!Ind, s2 = Att!ReportMap, NEW r, NEW ok, Att!ProcMap(r, Tail(s5), ok)
  PROVE  Led
<1>0. Att!Bounded(s4) /\ s2 # Att!Done
  BY DEF Att!Ind, Att!ReportMap, Att!Done
<1>1. PICK k : LET n == Att!Ask("blob", Att!ReportMap, k) IN
               \/ Att!More(n, Tail(s5), s4)
               \/ Att!Onward(s4, Tail(s5))
               \/ Att!Go(s2, Tail(s5)) /\ s4' = s4
  BY DEF Att!ProcMap
<1> DEFINE n == Att!Ask("blob", Att!ReportMap, k)
<1>2. CASE Att!More(n, Tail(s5), s4)
  <2>1. Att!Asked(n) /\ n.st = s2 /\ Further(n)
    BY DEF Att!Asked, Att!Ask, Further, Att!Name, Att!FindHid, Att!IdentHid, Att!ReportMap,
       Att!Done
  <2> HIDE DEF n
  <2>2. QED
    BY <1>0, <1>2, <2>1, ServicesMore
<1>3. CASE Att!Onward(s4, Tail(s5))
  BY <1>0, <1>3, ServicesOnward
<1>4. CASE Att!Go(s2, Tail(s5)) /\ s4' = s4
  BY <1>0, <1>4 DEF Att!Go, Led, Att!Ind, Att!Name, Att!Done
<1>5. QED
  BY <1>1, <1>2, <1>3, <1>4

LEMMA ServicesRef ==
  ASSUME Att!Ind, s2 = Att!ReportRef, NEW r, NEW ok, Att!ProcRef(r, Tail(s5), ok)
  PROVE  Led
<1>0. Att!Bounded(s4) /\ s2 # Att!Done
  BY DEF Att!Ind, Att!ReportRef, Att!Done
<1>1. CASE ok
  <2> DEFINE tab == [s4 EXCEPT !.rows[s4.idx].id = IF r.st = Att!ReportRef THEN r.arg ELSE -1,
             !.idx = @ + 1]
             n == Att!Ask("read", Att!ReportRef, Att!NextRef(tab))
  <2>1. IF Att!NextRef(tab) # 0 THEN Att!More(n, Tail(s5), tab) ELSE Att!Onward(tab, Tail(s5))
    BY <1>1 DEF Att!ProcRef
  <2>2. Att!Bounded(tab)
    BY <1>0 DEF Att!Bounded
  <2> HIDE DEF tab
  <2>3. Att!Asked(n) /\ n.st = s2 /\ Further(n)
    BY DEF Att!Asked, Att!Ask, Further, Att!Name, Att!FindHid, Att!IdentHid, Att!ReportRef,
       Att!Done
  <2> HIDE DEF n
  <2>4. QED
    BY <1>0, <2>1, <2>2, <2>3, ServicesMore, ServicesOnward
<1>2. CASE ~ok
  BY <1>0, <1>2, ServicesOnward DEF Att!ProcRef
<1>3. QED
  BY <1>1, <1>2

LEMMA ServicesName ==
  ASSUME Att!Ind, s2 = Att!Name, NEW ok, Att!ProcName(Tail(s5), ok)
  PROVE  Led
<1>0. Att!Bounded(s4) /\ s2 # Att!Done
  BY DEF Att!Ind, Att!Name, Att!Done
<1> DEFINE n == Att!Ask("blob", Att!Name, 1)
<1>1. Att!Asked(n) /\ n.st = s2 /\ Further(n)
  BY DEF Att!Asked, Att!Ask, Further, Att!Name, Att!FindHid, Att!IdentHid, Att!Done
<1>2. Att!Onward(s4, Tail(s5)) \/ Att!More(n, Tail(s5), s4)
  BY DEF Att!ProcName
<1> HIDE DEF n
<1>3. QED
  BY <1>0, <1>1, <1>2, ServicesMore, ServicesOnward

\* An answer passed on is one the state expects.
LEMMA ServicesFits ==
  ASSUME NEW op, Att!Fits(op), s2 \in Att!Name..Att!Done
  PROVE  s2 # Att!Done /\ (s2 = Att!FindHid => op = "group") /\ (s2 = Att!IdentHid => op = "info")
BY DEF Att!Fits, Att!Name, Att!Appearance, Att!Pnp, Att!FindHid, Att!IdentHid, Att!CharProp,
   Att!ReportMap, Att!ReportRef, Att!ReportCfg, Att!Ppcp, Att!Battery, Att!Done

LEMMA ServicesLed ==
  ASSUME Att!Ind, s5 # <<>>, NEW r, r = Head(s5), Att!Asked(r), NEW ok \in Att!Has(r),
         ok \in BOOLEAN, r.op # "mtu",
         ok => Att!Fits(r.op), ~ok => s2 # Att!Done, Att!Process(r, Tail(s5), ok)
  PROVE  Led
<1>0. s2 \in Att!Name..Att!Done /\ Att!Bounded(s4)
  BY DEF Att!Ind
<1>1. s2 # Att!Done /\ (s2 = Att!FindHid /\ ok => r.op = "group") /\ (s2 = Att!IdentHid /\ ok =>
      r.op = "info")
  BY <1>0, ServicesFits
<1>2. CASE s2 = Att!Name
  <2>1. Att!ProcName(Tail(s5), ok)
    BY <1>2 DEF Att!Process, Att!Name, Att!Appearance, Att!Pnp, Att!FindHid, Att!IdentHid,
       Att!CharProp, Att!ReportMap, Att!ReportRef, Att!ReportCfg, Att!Ppcp,
                 Att!Battery, Att!Done
  <2>2. QED
    BY <1>2, <2>1, ServicesName
<1>3. CASE s2 = Att!Pnp
  <2>1. Att!Onward(s4, Tail(s5))
    BY <1>3 DEF Att!Process, Att!ProcPnp, Att!Name, Att!Appearance, Att!Pnp, Att!FindHid,
       Att!IdentHid, Att!CharProp, Att!ReportMap, Att!ReportRef, Att!ReportCfg, Att!Ppcp,
                 Att!Battery, Att!Done
  <2>2. QED
    BY <1>0, <1>1, <2>1, ServicesOnward
<1>4. CASE s2 = Att!FindHid
  <2>1. Att!ProcFind(r, Tail(s5), ok)
    BY <1>4 DEF Att!Process, Att!Name, Att!Appearance, Att!Pnp, Att!FindHid, Att!IdentHid,
       Att!CharProp, Att!ReportMap, Att!ReportRef, Att!ReportCfg, Att!Ppcp,
                 Att!Battery, Att!Done
  <2>2. QED
    BY <1>1, <1>4, <2>1, ServicesFind
<1>5. CASE s2 = Att!IdentHid
  <2>1. Att!ProcIdent(r, Tail(s5), ok)
    BY <1>5 DEF Att!Process, Att!Name, Att!Appearance, Att!Pnp, Att!FindHid, Att!IdentHid,
       Att!CharProp, Att!ReportMap, Att!ReportRef, Att!ReportCfg, Att!Ppcp,
                 Att!Battery, Att!Done
  <2>2. QED
    BY <1>1, <1>5, <2>1, ServicesIdent
<1>6. CASE s2 = Att!CharProp
  <2>1. Att!ProcChar(r, Tail(s5), ok)
    BY <1>6 DEF Att!Process, Att!Name, Att!Appearance, Att!Pnp, Att!FindHid, Att!IdentHid,
       Att!CharProp, Att!ReportMap, Att!ReportRef, Att!ReportCfg, Att!Ppcp,
                 Att!Battery, Att!Done
  <2>2. QED
    BY <1>6, <2>1, ServicesChar
<1>7. CASE s2 = Att!ReportMap
  <2>1. Att!ProcMap(r, Tail(s5), ok)
    BY <1>7 DEF Att!Process, Att!Name, Att!Appearance, Att!Pnp, Att!FindHid, Att!IdentHid,
       Att!CharProp, Att!ReportMap, Att!ReportRef, Att!ReportCfg, Att!Ppcp,
                 Att!Battery, Att!Done
  <2>2. QED
    BY <1>7, <2>1, ServicesMap
<1>8. CASE s2 = Att!ReportRef
  <2>1. Att!ProcRef(r, Tail(s5), ok)
    BY <1>8 DEF Att!Process, Att!Name, Att!Appearance, Att!Pnp, Att!FindHid, Att!IdentHid,
       Att!CharProp, Att!ReportMap, Att!ReportRef, Att!ReportCfg, Att!Ppcp,
                 Att!Battery, Att!Done
  <2>2. QED
    BY <1>8, <2>1, ServicesRef
<1>9. CASE s2 = Att!ReportCfg
  <2>1. Att!Tell(s4, Tail(s5))
    BY <1>9 DEF Att!Process, Att!Name, Att!Pnp, Att!FindHid, Att!IdentHid, Att!CharProp,
       Att!ReportMap, Att!ReportRef, Att!ReportCfg
  <2>2. QED
    BY <1>0, <1>9, <2>1, ServicesTells DEF Att!ReportCfg
<1>10. CASE s2 \in {Att!Appearance, Att!Ppcp, Att!Battery}
  <2>1. Att!Onward(s4, Tail(s5))
    BY <1>10 DEF Att!Process, Att!Name, Att!Appearance, Att!Pnp, Att!FindHid, Att!IdentHid,
       Att!CharProp, Att!ReportMap, Att!ReportRef, Att!ReportCfg,
                 Att!Ppcp, Att!Battery
  <2>2. QED
    BY <1>0, <1>1, <2>1, ServicesOnward
<1>11. QED
  BY <1>0, <1>1, <1>2, <1>3, <1>4, <1>5, <1>6, <1>7, <1>8, <1>9, <1>10
     DEF Att!Name, Att!Appearance, Att!Pnp, Att!FindHid, Att!IdentHid, Att!CharProp,
     Att!ReportMap, Att!ReportRef, Att!ReportCfg, Att!Ppcp, Att!Battery, Att!Done

\* The answers there are: yes or no; what the next request is, and what stands behind it.
LEMMA ServicesAnswers ==
  ASSUME Att!Ind, Att!Answer
  PROVE  /\ s5 # <<>> /\ Att!Asked(Head(s5)) /\ s1' = s1 /\ s10' = s10
         /\ \/ /\ s5' = Tail(s5) /\ s4' = s4 /\ s2' = s2 /\ s3' = s3
            \/ /\ s5' = Append(Tail(s5), Att!Ask("type", Att!Name, 1)) /\ s4' = s4
               /\ s2' = Att!Name /\ s3' = s3 /\ ~s3
            \/ Led /\ ~s3
<1> DEFINE r == Head(s5)
           q == Tail(s5)
<1>1. s5 # <<>> /\ s1' = s1 /\ s10' = s10
  BY DEF Att!Answer
<1>2. Att!Asked(r)
  <2>1. CASE s5 = <<s5[1]>> /\ Att!Asked(s5[1])
    BY <2>1
  <2>2. CASE s5 = <<s5[1], s5[2]>> /\ Att!Asked(s5[1])
    BY <2>2
  <2>3. QED
    BY <1>1, <2>1, <2>2 DEF Att!Ind, Att!OnTheWay
<1>3. PICK ok \in Att!Has(r) :
        IF s3 \/ (ok /\ r.op # "mtu" /\ ~Att!Fits(r.op)) \/ (~ok /\
        s2 = Att!Done) THEN Att!Drops(q)
        ELSE IF r.op = "mtu"
          THEN Att!Go(Att!Name, Append(q, Att!Ask("type", Att!Name, 1))) /\ s4' = s4
        ELSE Att!Process(r, q, ok)
  BY DEF Att!Answer
<1>4. ok \in BOOLEAN
  <2>1. CASE r.op = "mtu"
    BY <1>2, <2>1 DEF Att!Has, Att!Asked, Att!Name, Att!CharProp, Att!IdentHid, Att!ReportMap,
       Att!ReportRef, Att!ReportCfg
  <2>2. CASE r.op = "group"
    BY <1>2, <2>2 DEF Att!Has, Att!Asked, Att!FindHid, Att!CharProp, Att!IdentHid, Att!ReportMap,
       Att!ReportRef, Att!ReportCfg
  <2>3. CASE r.op \notin {"mtu", "group"}
    BY <2>3 DEF Att!Has, Att!CharProp, Att!IdentHid, Att!ReportMap, Att!ReportRef, Att!ReportCfg
  <2>4. QED
    BY <2>1, <2>2, <2>3
<1>5. CASE s3 \/ (ok /\ r.op # "mtu" /\ ~Att!Fits(r.op)) \/ (~ok /\ s2 = Att!Done)
  <2>1. Att!Drops(q)
    BY <1>3, <1>5
  <2>2. QED
    BY <1>1, <1>2, <2>1 DEF Att!Drops
<1>6. CASE ~(s3 \/ (ok /\ r.op # "mtu" /\ ~Att!Fits(r.op)) \/ (~ok /\ s2 = Att!Done)) /\
           r.op = "mtu"
  <2>1. Att!Go(Att!Name, Append(q, Att!Ask("type", Att!Name, 1))) /\ s4' = s4
    BY <1>3, <1>6
  <2>2. QED
    BY <1>1, <1>2, <1>6, <2>1 DEF Att!Go
<1>7. CASE ~(s3 \/ (ok /\ r.op # "mtu" /\ ~Att!Fits(r.op)) \/ (~ok /\ s2 = Att!Done)) /\
           r.op # "mtu"
  <2>1. Att!Process(r, q, ok) /\ ~s3
    BY <1>3, <1>7
  <2>2. (ok => Att!Fits(r.op)) /\ (~ok => s2 # Att!Done)
    BY <1>7
  <2>3. Led
    BY <1>1, <1>2, <1>4, <1>7, <2>1, <2>2, ServicesLed
  <2>4. QED
    BY <1>1, <1>2, <2>1, <2>3
<1>8. QED
  BY <1>5, <1>6, <1>7

LEMMA ServicesOne == ASSUME NEW n PROVE Append(<<>>, n) = <<n>>
OBVIOUS

LEMMA ServicesTwo == ASSUME NEW a, NEW n PROVE Append(<<a>>, n) = <<a, n>>
<1> DEFINE S == {a, n}
           s == Append(<<a>>, n)
<1>1. <<a>> \in Seq(S) /\ n \in S /\ Len(<<a>>) = 1 /\ <<a>>[1] = a
  OBVIOUS
<1> HIDE DEF S
<1>2. s \in Seq(S) /\ Len(s) = 2
  BY <1>1
<1>3. s[1] = a
  BY <1>1
<1>4. s[2] = n
  BY <1>1
<1> HIDE DEF s
<1>5. s = <<a, n>>
  BY <1>2, <1>3, <1>4
<1>6. QED
  BY <1>5 DEF s

\* The requests that are left, and those with one more.
LEMMA ServicesRequests ==
  ASSUME Att!Ind, s5 # <<>>
  PROVE  \/ /\ s5 = <<s5[1]>> /\ Att!Asked(s5[1]) /\ Tail(s5) = <<>>
            /\ \A n : Append(Tail(s5), n) = <<n>> /\ Append(s5, n) = <<s5[1], n>>
         \/ /\ s5 = <<s5[1], s5[2]>> /\ Att!Asked(s5[1]) /\ Att!Asked(s5[2]) /\ s10 = 2
            /\ Tail(s5) = <<s5[2]>> /\ \A n : Append(Tail(s5), n) = <<s5[2], n>>
<1> DEFINE a == s5[1]
           b == s5[2]
<1>1. CASE s5 = <<a>> /\ Att!Asked(a)
  <2> HIDE DEF a
  <2>1. Tail(s5) = <<>>
    BY <1>1
  <2>2. ASSUME NEW n PROVE Append(Tail(s5), n) = <<n>>
    BY <2>1, ServicesOne
  <2>3. ASSUME NEW n PROVE Append(s5, n) = <<a, n>>
    BY <1>1, ServicesTwo
  <2>4. QED
    BY <1>1, <2>1, <2>2, <2>3 DEF a
<1>2. CASE s5 = <<a, b>> /\ Att!Asked(a) /\ Att!Asked(b) /\ s10 = 2
  <2> HIDE DEF a, b
  <2>1. Tail(s5) = <<b>>
    BY <1>2
  <2>2. ASSUME NEW n PROVE Append(Tail(s5), n) = <<b, n>>
    BY <2>1, ServicesTwo
  <2>3. QED
    BY <1>2, <2>1, <2>2 DEF a, b
<1>3. QED
  BY <1>1, <1>2 DEF Att!Ind, Att!OnTheWay

LEMMA ServicesPeer ==
  ASSUME s1' = s1, Att!Bounded(s4')
  PROVE  Att!Bounded(s4)'
BY DEF Att!Bounded, Att!Hid

\* An answer taken leaves what is in step, if what it asks next is of the state it goes to.
LEMMA ServicesStays ==
  ASSUME Att!Ind, s5 # <<>>, Att!Bounded(s4)', s2' \in Att!Name..Att!Done, s10' = s10,
         \/ s5' = Tail(s5) /\ (s3' = TRUE \/ (s2' = s2 /\ s3' = s3))
         \/ \E n : /\ s5' = Append(Tail(s5), n) /\ n.st = s2' /\ Att!Asked(n)
                   /\ s2' >= s2 \/ s2' = Att!Name
                   /\ s3' = s3
  PROVE  Att!Ind'
<1>0. s10' \in 1..2 /\ s2 \in Att!Name..Att!Done
  BY DEF Att!Ind
<1> DEFINE One == /\ s5 = <<s5[1]>> /\ Att!Asked(s5[1]) /\ Tail(s5) = <<>>
                  /\ \A n : Append(Tail(s5), n) = <<n>> /\ Append(s5, n) = <<s5[1], n>>
           b == s5[2]
           Two == /\ s5 = <<s5[1], b>> /\ Att!Asked(s5[1]) /\ Att!Asked(b) /\ s10 = 2
                  /\ Tail(s5) = <<b>> /\ \A n : Append(Tail(s5), n) = <<b, n>>
<1>1. One \/ Two
  BY ServicesRequests
<1>2. ~s3 /\ Two => b.op = "mtu" \/ b.st = s2
  BY DEF Att!Ind, Att!InStep
<1>3. CASE s5' = Tail(s5) /\ (s3' = TRUE \/ (s2' = s2 /\ s3' = s3))
  <2>1. CASE One
    <3>1. s5' = <<>>
      BY <1>3, <2>1
    <3>2. Att!OnTheWay' /\ Att!InStep'
      BY <3>1 DEF Att!OnTheWay, Att!InStep
    <3>3. QED
      BY <1>0, <3>2 DEF Att!Ind
  <2>2. CASE Two
    <3>1. s5' = <<b>> /\ s5'[1] = b /\ Len(s5') = 1
      BY <1>3, <2>2
    <3>2. Att!OnTheWay'
      BY <2>2, <3>1 DEF Att!OnTheWay, Att!Asked
    <3>3. Att!InStep'
      BY <1>2, <1>3, <2>2, <3>1 DEF Att!InStep
    <3>4. QED
      BY <1>0, <3>2, <3>3 DEF Att!Ind
  <2>3. QED
    BY <1>1, <2>1, <2>2
<1>4. ASSUME NEW n, s5' = Append(Tail(s5), n), n.st = s2', Att!Asked(n),
             s2' >= s2 \/ s2' = Att!Name, s3' = s3
      PROVE  Att!Ind'
  <2>1. CASE One
    <3>1. s5' = <<n>> /\ s5'[1] = n /\ Len(s5') = 1
      BY <1>4, <2>1
    <3>2. Att!OnTheWay'
      BY <1>4, <3>1 DEF Att!OnTheWay, Att!Asked
    <3>3. n.st = s2'
      BY <1>4
    <3>4. s5'[Len(s5')] = n /\ Len(s5') # 2
      BY <3>1
    <3>5. Att!InStep'
      BY <3>3, <3>4 DEF Att!InStep
    <3>6. QED
      BY <1>0, <3>2, <3>5 DEF Att!Ind
  <2>2. CASE Two
    <3>1. s5' = <<b, n>> /\ s5'[1] = b /\ s5'[2] = n /\ Len(s5') = 2
      BY <1>4, <2>2
    <3>2. Att!OnTheWay'
      BY <1>4, <2>2, <3>1 DEF Att!OnTheWay, Att!Asked
    <3>3. ~s3' /\ b.op # "mtu" => b.st <= s2' \/ s2' = Att!Name
      BY <1>0, <1>2, <1>4, <2>2 DEF Att!Name, Att!Done
    <3>4. Att!InStep'
      BY <1>4, <3>1, <3>3 DEF Att!InStep
    <3>5. QED
      BY <1>0, <3>2, <3>4 DEF Att!Ind
  <2>3. QED
    BY <1>1, <2>1, <2>2
<1>5. QED
  BY <1>3, <1>4

LEMMA ServicesAgain ==
  ASSUME Att!Ind, Att!Again
  PROVE  Att!Ind'
<1> DEFINE m == Att!Ask("mtu", Att!Name, 0)
<1>1. s10 = 1 /\ s10' = 2 /\ s4' = Att!Wiped /\ s5' = Append(s5, m) /\ s1' = s1
      /\ s2' = s2 /\ s3' = s3 /\ s2 \in Att!Name..Att!Done
  BY DEF Att!Again, Att!Ind
<1>2. Att!Asked(m) /\ m.op = "mtu"
  BY DEF Att!Asked, Att!Ask, Att!Name, Att!FindHid, Att!IdentHid, Att!Done
<1> HIDE DEF m
<1>3. Att!Bounded(s4)'
  BY <1>1 DEF Att!Bounded, Att!Wiped
<1>4. CASE s5 = <<>>
  <2>1. s5' = <<m>> /\ s5'[1] = m /\ Len(s5') = 1
    BY <1>1, <1>4
  <2>2. Att!OnTheWay'
    BY <1>2, <2>1 DEF Att!OnTheWay, Att!Asked
  <2>3. Att!InStep'
    BY <1>2, <2>1 DEF Att!InStep
  <2>4. QED
    BY <1>1, <1>3, <2>2, <2>3 DEF Att!Ind
<1>5. CASE s5 # <<>>
  <2> DEFINE a == s5[1]
  <2>1. s5 = <<a>> /\ Att!Asked(a) /\ s5' = <<a, m>>
    <3>1. s5 = <<a>> /\ Att!Asked(a) /\ \A n : Append(s5, n) = <<a, n>>
      BY <1>1, <1>5, ServicesRequests
    <3>2. QED
      BY <1>1, <3>1
  <2>2. s5'[1] = a /\ s5'[2] = m /\ Len(s5') = 2
    <3> HIDE DEF a
    <3>1. QED
      BY <2>1
  <2>3. Att!OnTheWay'
    BY <1>1, <1>2, <2>1, <2>2 DEF Att!OnTheWay, Att!Asked
  <2>4. ~s3 => a.op = "mtu" \/ a.st = s2
    BY <1>5, <2>1 DEF Att!Ind, Att!InStep
  <2>5. Att!InStep'
    BY <1>1, <1>2, <2>2, <2>4 DEF Att!InStep, Att!Name, Att!Done
  <2>6. QED
    BY <1>1, <1>3, <2>3, <2>5 DEF Att!Ind
<1>6. QED
  BY <1>4, <1>5

LEMMA ServicesStep == Att!Ind /\ (Att!Next \/ UNCHANGED Att!acVars) => Att!Ind'
<1> SUFFICES ASSUME Att!Ind, Att!Next \/ UNCHANGED Att!acVars PROVE Att!Ind'
  OBVIOUS
<1>0. s2 \in Att!Name..Att!Done /\ Att!Bounded(s4)
  BY DEF Att!Ind
<1>1. CASE Att!Again
  BY <1>1, ServicesAgain
<1>2. CASE Att!Answer
  <2>1. s5 # <<>> /\ s1' = s1 /\ s10' = s10
    BY <1>2, ServicesAnswers
  <2>2. CASE s5' = Tail(s5) /\ s4' = s4 /\ s2' = s2 /\ s3' = s3
    <3>1. Att!Bounded(s4)'
      BY <1>0, <2>1, <2>2, ServicesPeer
    <3>2. s2' \in Att!Name..Att!Done
      BY <1>0, <2>2
    <3>3. QED
      BY <2>1, <2>2, <3>1, <3>2, ServicesStays
  <2>3. CASE s5' = Append(Tail(s5), Att!Ask("type", Att!Name, 1)) /\ s4' = s4 /\ s2' = Att!Name
             /\ s3' = s3
    <3> DEFINE n == Att!Ask("type", Att!Name, 1)
    <3>1. Att!Bounded(s4)'
      BY <1>0, <2>1, <2>3, ServicesPeer
    <3>2. s2' \in Att!Name..Att!Done /\ n.st = s2' /\ Att!Asked(n)
      BY <2>3 DEF Att!Asked, Att!Ask, Att!Name, Att!FindHid, Att!IdentHid, Att!Done
    <3> HIDE DEF n
    <3>3. s5' = Append(Tail(s5), n)
      BY <2>3 DEF n
    <3>4. QED
      BY <2>1, <2>3, <3>1, <3>2, <3>3, ServicesStays
  <2>4. CASE Led
    <3>1. Att!Bounded(s4)' /\ s2' \in Att!Name..Att!Done /\ s2' >= s2
      BY <2>1, <2>4, ServicesPeer DEF Led
    <3>2. CASE s5' = Tail(s5) /\ (s3' = TRUE \/ (s2' = s2 /\ s3' = s3))
      BY <2>1, <3>1, <3>2, ServicesStays
    <3>3. CASE \E n : Goes(n) /\ Further(n)
      <4>1. PICK n : Goes(n)
        BY <3>3
      <4>2. s5' = Append(Tail(s5), n) /\ n.st = s2' /\ Att!Asked(n) /\ s3' = s3
        BY <4>1 DEF Goes
      <4>3. QED
        BY <2>1, <3>1, <4>2, ServicesStays
    <3>4. QED
      BY <2>4, <3>2, <3>3 DEF Led
  <2>5. QED
    BY <1>2, <2>2, <2>3, <2>4, ServicesAnswers
<1>3. CASE UNCHANGED Att!acVars
  BY <1>3 DEF Att!acVars, Att!Ind, Att!OnTheWay, Att!InStep, Att!Bounded, Att!Hid, Att!Asked
<1>4. QED
  BY <1>1, <1>2, <1>3 DEF Att!Next

LEMMA ServicesMove == Att!Ind /\ Att!Next => Att!MovesOn
<1> SUFFICES ASSUME Att!Ind, Att!Next, s1 # "tiny", s5 # <<>>, Len(s5') = Len(s5),
                    s5'[Len(s5')].op = Head(s5).op, Head(s5).op \in {"group", "info"}
             PROVE  s5'[Len(s5')].arg > Head(s5).arg
  BY DEF Att!MovesOn
<1> DEFINE r == Head(s5)
           a == s5[1]
           b == s5[2]
           One == /\ s5 = <<a>> /\ Att!Asked(a) /\ Tail(s5) = <<>>
                  /\ \A n : Append(Tail(s5), n) = <<n>> /\ Append(s5, n) = <<a, n>>
           Two == /\ s5 = <<a, b>> /\ Att!Asked(a) /\ Att!Asked(b) /\ s10 = 2
                  /\ Tail(s5) = <<b>> /\ \A n : Append(Tail(s5), n) = <<b, n>>
<1>1. One \/ Two
  BY ServicesRequests
<1>2. \/ Len(s5) = 1 /\ Tail(s5) = <<>> /\ (\A n : Append(Tail(s5), n) = <<n>>)
         /\ \A n : Append(s5, n) = <<a, n>>
      \/ Len(s5) = 2 /\ Tail(s5) = <<b>> /\ (\A n : Append(Tail(s5), n) = <<b, n>>)
         /\ s10 = 2
  <2>1. CASE One
    BY <2>1
  <2>2. CASE Two
    BY <2>2
  <2>3. QED
    BY <1>1, <2>1, <2>2
<1>3. r = a
  OBVIOUS
<1>4. ~Att!Again
  <2> SUFFICES ASSUME Att!Again PROVE FALSE
    OBVIOUS
  <2>1. s10 = 1 /\ s5' = Append(s5, Att!Ask("mtu", Att!Name, 0))
    BY DEF Att!Again
  <2>2. Len(s5) = 1 /\ s5' = <<a, Att!Ask("mtu", Att!Name, 0)>>
    BY <1>2, <2>1
  <2>3. QED
    BY <2>2
<1>5. Att!Answer
  BY <1>4 DEF Att!Next
<1>6. Len(Tail(s5)) = Len(s5) - 1
  BY <1>2
<1>7. s5' # Tail(s5)
  BY <1>2, <1>6
<1>8. ASSUME NEW n, s5' = Append(Tail(s5), n) PROVE s5'[Len(s5')] = n
  <2>1. s5' = <<n>> \/ s5' = <<b, n>>
    BY <1>2, <1>8
  <2> HIDE DEF b
  <2>2. QED
    BY <2>1
<1>9. s5' # Append(Tail(s5), Att!Ask("type", Att!Name, 1))
  BY <1>8 DEF Att!Ask
<1>10. Led /\ ~s3 /\ Att!Asked(r)
  BY <1>5, <1>7, <1>9, ServicesAnswers
<1>11. PICK n : Goes(n) /\ Further(n)
  BY <1>7, <1>10 DEF Led
<1>12. s5'[Len(s5')] = n /\ n.st = s2' /\ Att!Asked(n) /\ n.op = r.op
  BY <1>8, <1>11 DEF Goes
<1>13. r.st = s2' /\ s2' # Att!Name
  BY <1>10, <1>12 DEF Att!Asked, Att!Name, Att!FindHid, Att!IdentHid
<1>14. s2' # s2 + 1
  <2> SUFFICES ASSUME s2' = s2 + 1 PROVE FALSE
    OBVIOUS
  <2>1. s2 \in 0..11 /\ r.op # "mtu"
    BY DEF Att!Ind, Att!Name, Att!Done
  <2>2. r.st <= s2 \/ s2 = Att!Name
    <3>1. CASE Len(s5) = 1
      <4>1. a.st = s2
        BY <1>3, <1>10, <2>1, <3>1 DEF Att!Ind, Att!InStep
      <4>2. QED
        BY <1>3, <2>1, <4>1
    <3>2. CASE Len(s5) = 2
      BY <1>3, <1>10, <2>1, <3>2 DEF Att!Ind, Att!InStep
    <3>3. QED
      BY <1>2, <3>1, <3>2
  <2>3. s2 # Att!Name
    BY <1>10, <1>12, <1>13 DEF Att!Asked, Att!Name, Att!FindHid, Att!IdentHid
  <2>4. QED
    BY <1>13, <2>1, <2>2, <2>3
<1>15. r.op = n.op /\ n.arg > r.arg
  BY <1>11, <1>12, <1>14 DEF Further
<1>16. QED
  BY <1>12, <1>15

(***************************************************************************)
(* The system manager (SysTask): what erases and what switches off.        *)
(***************************************************************************)
Sys == INSTANCE SysTask WITH
  syExt <- s1, syPower <- s2, syBtn <- s3, syPc <- s4, syHold <- s5, syState <- s6, syQdp <- s7,
  syInh <- s8, syFw <- s9, syCurr <- s10, syCmds <- s11, syDev <- s12, syAsked <- s13,
  syInq <- s14, syOver <- s15, syCall <- s16, syNew <- s17, syWoke <- s18, sySince <- s19,
  syLong <- s20, syOdd <- s21, syCount <- s22

\* sw_io0_hold_thres_ms has three thresholds.
ASSUME ManagerAssumption ==
  /\ SyErase \in Nat /\ SyInhibit \in Nat /\ SyQueue \in Nat
  /\ IsFiniteSet(SyThres) /\ Cardinality(SyThres) <= 3

LEMMA ManagerParts == Sys!Ind <=> Sys!Flags /\ Sys!Numbers /\ Sys!Quick /\ Sys!Causes
BY DEF Sys!Ind, Sys!TypeOK

LEMMA ManagerInit == Sys!Init => Sys!Ind
<1> SUFFICES ASSUME Sys!Init PROVE Sys!Flags /\ Sys!Numbers /\ Sys!Quick /\ Sys!Causes
  BY ManagerParts
<1>1. Sys!Flags
  BY DEF Sys!Init, Sys!Flags, Sys!Long
<1>2. Sys!Numbers
  BY ManagerAssumption DEF Sys!Init, Sys!Numbers
<1>3. Sys!Quick /\ Sys!Causes
  BY DEF Sys!Init, Sys!Quick, Sys!Causes, Sys!ErasedOnHold, Sys!OffOnDouble, Sys!QuietWhenOff,
     Sys!StaysOff
<1>4. QED
  BY <1>1, <1>2, <1>3

\* A restart clears all that the invariant speaks of, but what switched the console on.
LEMMA ManagerRestarts ==
  ASSUME Sys!Ind, Sys!Restart, s1' = s1, s3' = s3, s21' = s21
  PROVE  Sys!Ind'
<1>1. Sys!Flags'
  BY ManagerParts DEF Sys!Restart, Sys!Flags, Sys!Long
<1>2. Sys!Numbers'
  BY ManagerAssumption DEF Sys!Restart, Sys!Numbers
<1>3. Sys!Quick'
  BY DEF Sys!Restart, Sys!Quick
<1>4. Sys!Causes'
  BY ManagerParts DEF Sys!Restart, Sys!Causes, Sys!ErasedOnHold, Sys!OffOnDouble,
     Sys!QuietWhenOff, Sys!StaysOff
<1>5. QED
  BY <1>1, <1>2, <1>3, <1>4 DEF Sys!Ind, Sys!TypeOK

LEMMA ManagerErases ==
  ASSUME Sys!Ind, Sys!FactoryReset, s1' = s1, s3' = s3
  PROVE  Sys!Ind'
<1>1. s21' = s21
  BY ManagerParts DEF Sys!FactoryReset, Sys!Flags, Sys!Causes
<1>2. QED
  BY <1>1, ManagerRestarts DEF Sys!FactoryReset

LEMMA ManagerCardinality == \A S : Sys!Cardinality(S) = Cardinality(S)
BY DEF Sys!Cardinality, Cardinality

\* The state of a hold is the number of thresholds passed.
LEMMA ManagerThresholds ==
  ASSUME NEW hold
  PROVE  Cardinality({thres \in SyThres : hold > thres}) \in 0..3
<1> DEFINE passed == {thres \in SyThres : hold > thres}
<1>1. IsFiniteSet(passed) /\ Cardinality(passed) <= Cardinality(SyThres)
  BY ManagerAssumption, FS_Subset
<1>2. Cardinality(passed) \in Nat /\ Cardinality(SyThres) \in Nat
  BY <1>1, ManagerAssumption, FS_CardinalityType
<1>3. QED
  BY <1>1, <1>2, ManagerAssumption

\* What leaves the button alone.
LEMMA ManagerBeside ==
  ASSUME Sys!Ind, UNCHANGED <<s5, s6, s8, s19, s7, SyQueue>>, 
         \/ s11' = s11
         \/ Len(s11) < SyQueue /\ \E c \in Sys!Cmds : s11' = Append(s11, c)
         \/ s11 # <<>> /\ s11' = Tail(s11)
  PROVE  Sys!Numbers' /\ Sys!Quick'
<1>0. Sys!Numbers /\ Sys!Quick
  BY ManagerParts
<1>1. s11' \in Seq(Sys!Cmds) /\ Len(s11') <= SyQueue
  <2>1. CASE Len(s11) < SyQueue /\ \E c \in Sys!Cmds : s11' = Append(s11, c)
    BY <1>0, <2>1, ManagerAssumption DEF Sys!Numbers
  <2>2. CASE s11 # <<>> /\ s11' = Tail(s11)
    BY <1>0, <2>2, ManagerAssumption DEF Sys!Numbers
  <2>3. QED
    BY <1>0, <2>1, <2>2 DEF Sys!Numbers
<1>2. Sys!Numbers'
  BY <1>0, <1>1 DEF Sys!Numbers
<1>3. Sys!Quick'
  BY <1>0 DEF Sys!Quick
<1>4. QED
  BY <1>2, <1>3

\* What leaves the invariant alone but for the flags: the presses and calls around the task.
LEMMA ManagerAround ==
  ASSUME Sys!Ind,
         \/ Sys!Button \/ Sys!Switch \/ Sys!Found \/ Sys!DevReady \/ Sys!Gone
         \/ Sys!CallTests \/ Sys!CallEnds
         \/ \E c \in Sys!Cmds : Sys!Command(c)
  PROVE  Sys!Ind'
<1>0. Sys!Flags /\ Sys!Causes
  BY ManagerParts
<1>1. Sys!Flags' /\ Sys!Causes'
  <2>1. CASE Sys!Button
    BY <1>0, <2>1 DEF Sys!Button, Sys!btnVars, Sys!btVars, Sys!Flags, Sys!Causes,
       Sys!ErasedOnHold, Sys!OffOnDouble, Sys!QuietWhenOff, Sys!StaysOff
  <2>2. CASE Sys!Switch
    BY <1>0, <2>2 DEF Sys!Switch, Sys!btnVars, Sys!btVars, Sys!Flags, Sys!Causes,
       Sys!ErasedOnHold, Sys!OffOnDouble, Sys!QuietWhenOff, Sys!StaysOff
  <2>3. CASE Sys!Found
    BY <1>0, <2>3 DEF Sys!Found, Sys!btnVars, Sys!Flags, Sys!Causes, Sys!ErasedOnHold,
       Sys!OffOnDouble, Sys!QuietWhenOff, Sys!StaysOff
  <2>4. CASE Sys!DevReady
    BY <1>0, <2>4 DEF Sys!DevReady, Sys!btnVars, Sys!Flags, Sys!Causes, Sys!ErasedOnHold,
       Sys!OffOnDouble, Sys!QuietWhenOff, Sys!StaysOff
  <2>5. CASE Sys!Gone
    <3>0. s13' \in BOOLEAN
      BY <1>0, <2>5 DEF Sys!Gone, Sys!Flags
    <3>1. Sys!Flags'
      BY <1>0, <2>5, <3>0 DEF Sys!Gone, Sys!Change, Sys!btnVars, Sys!Flags
    <3>2. Sys!Causes'
      BY <1>0, <2>5 DEF Sys!Gone, Sys!Change, Sys!btnVars, Sys!Flags, Sys!Causes,
         Sys!ErasedOnHold, Sys!OffOnDouble, Sys!QuietWhenOff, Sys!StaysOff
    <3>3. QED
      BY <3>1, <3>2
  <2>6. CASE Sys!CallTests
    BY <1>0, <2>6 DEF Sys!CallTests, Sys!btnVars, Sys!Flags, Sys!Causes, Sys!ErasedOnHold,
       Sys!OffOnDouble, Sys!QuietWhenOff, Sys!StaysOff
  <2>7. CASE Sys!CallEnds
    <3>0. s14' \in BOOLEAN /\ s16' \in BOOLEAN
      BY <1>0, <2>7 DEF Sys!CallEnds, Sys!Flags
    <3>1. Sys!Flags'
      BY <1>0, <2>7, <3>0 DEF Sys!CallEnds, Sys!Change, Sys!btnVars, Sys!Flags
    <3>2. Sys!Causes'
      BY <1>0, <2>7 DEF Sys!CallEnds, Sys!Change, Sys!btnVars, Sys!Flags, Sys!Causes,
         Sys!ErasedOnHold, Sys!OffOnDouble, Sys!QuietWhenOff, Sys!StaysOff
    <3>3. QED
      BY <3>1, <3>2
  <2>8. CASE \E c \in Sys!Cmds : Sys!Command(c)
    BY <1>0, <2>8 DEF Sys!Command, Sys!btnVars, Sys!btVars, Sys!Flags, Sys!Causes,
       Sys!ErasedOnHold, Sys!OffOnDouble, Sys!QuietWhenOff, Sys!StaysOff
  <2>9. QED
    BY <2>1, <2>2, <2>3, <2>4, <2>5, <2>6, <2>7, <2>8
<1>2. /\ UNCHANGED <<s5, s6, s8, s19, s7>>
      /\ \/ s11' = s11
         \/ Len(s11) < SyQueue /\ \E c \in Sys!Cmds : s11' = Append(s11, c)
  <2>1. CASE \E c \in Sys!Cmds : Sys!Command(c)
    BY <2>1 DEF Sys!Command, Sys!btnVars
  <2>2. CASE ~ \E c \in Sys!Cmds : Sys!Command(c)
    BY <2>2 DEF Sys!Button, Sys!Switch, Sys!Found, Sys!DevReady, Sys!Gone, Sys!CallTests,
       Sys!CallEnds, Sys!btnVars
  <2>3. QED
    BY <2>1, <2>2
<1>3. Sys!Numbers' /\ Sys!Quick'
  BY <1>2, ManagerBeside
<1>4. QED
  BY <1>1, <1>3 DEF Sys!Ind, Sys!TypeOK

LEMMA ManagerTurns ==
  ASSUME Sys!Ind, Sys!NoCommand \/ Sys!NoPass \/ Sys!PassOn \/ Sys!PassOff \/ Sys!PassWakes \/
         Sys!Quiet
  PROVE  Sys!Ind'
<1>0. Sys!Flags /\ Sys!Causes
  BY ManagerParts
<1>1. Sys!Flags' /\ Sys!Causes'
  <2>1. CASE Sys!NoCommand
    BY <1>0, <2>1 DEF Sys!NoCommand, Sys!btnVars, Sys!btVars, Sys!Flags, Sys!Causes,
       Sys!ErasedOnHold, Sys!OffOnDouble, Sys!QuietWhenOff, Sys!StaysOff
  <2>2. CASE Sys!NoPass
    BY <1>0, <2>2 DEF Sys!NoPass, Sys!btnVars, Sys!btVars, Sys!Flags, Sys!Causes,
       Sys!ErasedOnHold, Sys!OffOnDouble, Sys!QuietWhenOff, Sys!StaysOff
  <2>3. CASE Sys!PassOn
    BY <1>0, <2>3 DEF Sys!PassOn, Sys!btnVars, Sys!Flags, Sys!Causes, Sys!ErasedOnHold,
       Sys!OffOnDouble, Sys!QuietWhenOff, Sys!StaysOff
  <2>4. CASE Sys!PassOff
    BY <1>0, <2>4 DEF Sys!PassOff, Sys!WentOff, Sys!DisconnectAll, Sys!btnVars, Sys!Flags,
       Sys!Causes, Sys!ErasedOnHold, Sys!OffOnDouble, Sys!QuietWhenOff, Sys!StaysOff
  <2>5. CASE Sys!PassWakes
    BY <1>0, <2>5 DEF Sys!PassWakes, Sys!WentOff, Sys!PowerOn, Sys!btnVars, Sys!Flags, Sys!Causes,
       Sys!ErasedOnHold, Sys!OffOnDouble, Sys!QuietWhenOff, Sys!StaysOff
  <2>6. CASE Sys!Quiet
    <3>0. s14' \in BOOLEAN
      BY <1>0, <2>6 DEF Sys!Quiet, Sys!Flags
    <3>1. Sys!Flags'
      BY <1>0, <2>6, <3>0 DEF Sys!Quiet, Sys!btnVars, Sys!Flags
    <3>2. Sys!Causes'
      BY <1>0, <2>6 DEF Sys!Quiet, Sys!btnVars, Sys!Flags, Sys!Causes, Sys!ErasedOnHold,
         Sys!OffOnDouble, Sys!QuietWhenOff, Sys!StaysOff
    <3>3. QED
      BY <3>1, <3>2
  <2>7. QED
    BY <2>1, <2>2, <2>3, <2>4, <2>5, <2>6
<1>2. UNCHANGED <<s5, s6, s8, s19, s7, s11>>
  BY DEF Sys!NoCommand, Sys!NoPass, Sys!PassOn, Sys!PassOff, Sys!PassWakes, Sys!Quiet, Sys!btnVars
<1>3. Sys!Numbers' /\ Sys!Quick'
  BY <1>2, ManagerBeside
<1>4. QED
  BY <1>1, <1>3 DEF Sys!Ind, Sys!TypeOK

LEMMA ManagerInhibited ==
  ASSUME Sys!Ind, Sys!Inhibited
  PROVE  Sys!Ind'
<1>0. Sys!Flags /\ Sys!Numbers /\ Sys!Quick /\ Sys!Causes
  BY ManagerParts
<1>1. Sys!Flags'
  <2>1. s7' \in BOOLEAN /\ s13' \in BOOLEAN /\ s2' \in BOOLEAN
    BY <1>0 DEF Sys!Inhibited, Sys!Double, Sys!PowerOff, Sys!DisconnectAll, Sys!Flags
  <2>2. QED
    BY <1>0, <2>1 DEF Sys!Inhibited, Sys!Flags
<1>2. Sys!Numbers'
  BY <1>0, ManagerAssumption DEF Sys!Inhibited, Sys!Numbers
<1>3. s7 => ~(s19 > SyInhibit)
  BY <1>0, ManagerAssumption DEF Sys!Inhibited, Sys!Numbers, Sys!Quick
<1>4. Sys!Causes'
  BY <1>0, <1>3 DEF Sys!Inhibited, Sys!Double, Sys!PowerOff, Sys!DisconnectAll, Sys!Flags,
     Sys!Causes,
                    Sys!ErasedOnHold, Sys!OffOnDouble, Sys!QuietWhenOff, Sys!StaysOff
<1>5. Sys!Quick'
  <2>1. SUFFICES ASSUME s7' PROVE s19' + s8' = SyInhibit
    BY DEF Sys!Quick
  <2>2. s7
    BY <2>1 DEF Sys!Inhibited
  <2>3. s19 + s8 = SyInhibit
    BY <1>0, <2>2 DEF Sys!Quick
  <2>4. QED
    BY <1>0, <2>3, ManagerAssumption DEF Sys!Inhibited, Sys!Numbers
<1>6. QED
  BY <1>1, <1>2, <1>4, <1>5 DEF Sys!Ind, Sys!TypeOK

LEMMA ManagerButton ==
  ASSUME Sys!Ind, Sys!ButtonTurn
  PROVE  Sys!Ind'
<1>0. Sys!Flags /\ Sys!Numbers /\ Sys!Quick /\ Sys!Causes
  BY ManagerParts
<1>1. Sys!Flags'
  BY <1>0 DEF Sys!ButtonTurn, Sys!btVars, Sys!Flags
<1>2. Sys!Causes'
  BY <1>0 DEF Sys!ButtonTurn, Sys!btVars, Sys!Flags, Sys!Causes, Sys!ErasedOnHold,
     Sys!OffOnDouble, Sys!QuietWhenOff, Sys!StaysOff
<1>3. Sys!Numbers'
  BY <1>0, ManagerAssumption DEF Sys!ButtonTurn, Sys!Numbers
<1>4. Sys!Quick'
  BY DEF Sys!ButtonTurn, Sys!Quick
<1>5. QED
  BY <1>1, <1>2, <1>3, <1>4 DEF Sys!Ind, Sys!TypeOK

LEMMA ManagerHolds ==
  ASSUME Sys!Ind, Sys!HoldTurn
  PROVE  Sys!Ind'
<1>0. Sys!Flags /\ Sys!Numbers /\ Sys!Quick /\ Sys!Causes
  BY ManagerParts
<1>1. s6' \in 0..3
  BY ManagerThresholds, ManagerCardinality DEF Sys!HoldTurn
<1>2. Sys!Numbers'
  BY <1>0, <1>1, ManagerAssumption DEF Sys!HoldTurn, Sys!Numbers
<1>3. s9' \in BOOLEAN /\ (s9' => s20.now' \/ s20.before') /\ s20' \in [now : BOOLEAN,
      before : BOOLEAN]
  <2>1. CASE s5 + 1 = SyErase
    BY <1>0, <2>1 DEF Sys!HoldTurn, Sys!AsksErase, Sys!Flags, Sys!Causes
  <2>2. CASE s5 + 1 # SyErase
    BY <1>0, <2>2 DEF Sys!HoldTurn, Sys!AsksErase, Sys!Flags, Sys!Causes
  <2>3. QED
    BY <2>1, <2>2
<1>4. Sys!Flags'
  BY <1>0, <1>3 DEF Sys!HoldTurn, Sys!btVars, Sys!Flags
<1>5. Sys!Causes'
  BY <1>0, <1>3 DEF Sys!HoldTurn, Sys!btVars, Sys!Causes, Sys!ErasedOnHold, Sys!OffOnDouble,
     Sys!QuietWhenOff, Sys!StaysOff
<1>6. Sys!Quick'
  BY <1>0 DEF Sys!HoldTurn, Sys!Quick
<1>7. QED
  BY <1>2, <1>4, <1>5, <1>6 DEF Sys!Ind, Sys!TypeOK

LEMMA ManagerPressed ==
  ASSUME Sys!Ind, NEW press \in 0..4, s4 = "hold", Sys!Pressed(press), s1' = s1, s3' = s3
  PROVE  Sys!Ind'
<1>0. Sys!Flags /\ Sys!Numbers /\ Sys!Causes
  BY ManagerParts
<1>1. CASE s2 /\ press >= 3
  BY <1>1, ManagerErases DEF Sys!Pressed
<1>2. CASE ~(s2 /\ press >= 3)
  <2>1. /\ UNCHANGED <<s9, s20, s10, s11, s12, s15, s16, s17, s21, s5, s6>>
        /\ s4' = "cmd" /\ s8' = SyInhibit
        /\ s7' = (s2 /\ press = 0)
        /\ s19' = IF s2 /\ press = 0 THEN 0 ELSE SyInhibit + 1
    BY <1>2 DEF Sys!Pressed
  <2>2. /\ s2' \in BOOLEAN /\ s14' \in BOOLEAN /\ s13' \in BOOLEAN
        /\ s18' \in {s18, "button"}
        /\ s14' => s14 \/ ~s15
        /\ s13 => s13'
    <3>1. CASE ~s2
      BY <1>0, <1>2, <3>1 DEF Sys!Pressed, Sys!PowerOn, Sys!Flags
    <3>2. CASE s2 /\ press = 0
      <4>1. UNCHANGED <<s14, s13, s2, s18>>
        BY <3>2 DEF Sys!Pressed
      <4>2. QED
        BY <1>0, <4>1 DEF Sys!Flags
    <3>3. CASE s2 /\ press = 1
      <4>1. s2' = s2 /\ s18' = s18
        BY <3>3 DEF Sys!Pressed
      <4>2. \/ s14' = FALSE /\ s13' = s13
            \/ s14' = s14 /\ Sys!DisconnectAll
        BY <3>3 DEF Sys!Pressed
      <4>3. s14' \in BOOLEAN /\ s13' \in BOOLEAN
        BY <1>0, <4>2 DEF Sys!DisconnectAll, Sys!Flags
      <4>4. QED
        BY <1>0, <4>1, <4>2, <4>3 DEF Sys!DisconnectAll, Sys!Flags
    <3>4. CASE s2 /\ press = 2
      <4>1. Sys!StartInquiry /\ UNCHANGED <<s13, s2, s18>>
        BY <3>4 DEF Sys!Pressed
      <4>2. QED
        BY <1>0, <4>1 DEF Sys!StartInquiry, Sys!Flags
    <3>5. QED
      BY <1>2, <3>1, <3>2, <3>3, <3>4
  <2>3. Sys!Flags'
    BY <1>0, <2>1, <2>2 DEF Sys!Flags
  <2>4. Sys!Causes'
    <3>1. Sys!ErasedOnHold' /\ Sys!OffOnDouble' /\ Sys!StaysOff'
      BY <1>0, <2>1, <2>2 DEF Sys!Causes, Sys!ErasedOnHold, Sys!OffOnDouble, Sys!StaysOff
    <3>2. Sys!QuietWhenOff'
      BY <1>0, <2>1, <2>2 DEF Sys!Causes, Sys!QuietWhenOff
    <3>3. (s9' => s20.now' \/ s20.before') /\ (~s17' => s12' = "none" \/ s13')
      BY <1>0, <2>1, <2>2 DEF Sys!Causes
    <3>4. QED
      BY <3>1, <3>2, <3>3 DEF Sys!Causes
  <2>5. Sys!Numbers'
    BY <1>0, <2>1, ManagerAssumption DEF Sys!Numbers
  <2>6. Sys!Quick'
    <3>1. CASE s2 /\ press = 0
      BY <2>1, <3>1, ManagerAssumption DEF Sys!Quick
    <3>2. CASE ~(s2 /\ press = 0)
      BY <2>1, <3>2 DEF Sys!Quick
    <3>3. QED
      BY <3>1, <3>2
  <2>7. QED
    BY <2>3, <2>4, <2>5, <2>6 DEF Sys!Ind, Sys!TypeOK
<1>3. QED
  BY <1>1, <1>2

LEMMA ManagerLetsGo ==
  ASSUME Sys!Ind, Sys!LetGo
  PROVE  Sys!Ind'
<1>1. s6 \in 0..3
  BY DEF Sys!Ind, Sys!TypeOK, Sys!Flags, Sys!Numbers
<1>2. (IF s1 THEN s6 + 1 ELSE s6) \in 0..4
  BY <1>1
<1>3. QED
  BY <1>2, ManagerPressed DEF Sys!LetGo

LEMMA ManagerExecutes ==
  ASSUME Sys!Ind, Sys!Execute
  PROVE  Sys!Ind'
<1> DEFINE c == Head(s11)
<1>0. Sys!Flags /\ Sys!Causes
  BY ManagerParts
<1>1. CASE c = "factory"
  BY <1>1, ManagerErases DEF Sys!Execute
<1>2. CASE c = "restart"
  BY <1>2, ManagerRestarts DEF Sys!Execute
<1>3. CASE c \notin {"factory", "restart"}
  <2>1. /\ s11 # <<>> /\ s11' = Tail(s11)
        /\ UNCHANGED <<Sys!btnVars, s10, s12, s15, s16, s17, s21, s1, s3>>
        /\ s4' \in {"sleep", "pass"} /\ s4 = "cmd"
        /\ s18' \in {s18, "command"}
    BY <1>3 DEF Sys!Execute
  <2>2. s2' \in BOOLEAN /\ s13' \in BOOLEAN /\ (s13 => s13')
    BY <1>0, <1>3 DEF Sys!Execute, Sys!PowerOff, Sys!DisconnectAll, Sys!Flags
  <2>3. s14' \in BOOLEAN /\ (s14' => s14 \/ ~s15)
    BY <1>0, <1>3 DEF Sys!Execute, Sys!ToggleInquiry, Sys!StartInquiry, Sys!Flags
  <2>4. Sys!Flags'
    BY <1>0, <2>1, <2>2, <2>3 DEF Sys!btnVars, Sys!Flags
  <2>7. Sys!Causes'
    BY <1>0, <2>1, <2>2, <2>3 DEF Sys!btnVars, Sys!Flags, Sys!Causes, Sys!ErasedOnHold,
       Sys!OffOnDouble, Sys!QuietWhenOff, Sys!StaysOff
  <2>5. Sys!Numbers' /\ Sys!Quick'
    BY <2>1, ManagerBeside DEF Sys!btnVars
  <2>6. QED
    BY <2>4, <2>5, <2>7 DEF Sys!Ind, Sys!TypeOK
<1>4. QED
  BY <1>1, <1>2, <1>3

LEMMA ManagerStep ==
  ASSUME Sys!Ind, Sys!Next \/ UNCHANGED Sys!syVars
  PROVE  Sys!Ind'
<1>1. CASE UNCHANGED Sys!syVars
  BY <1>1 DEF Sys!syVars, Sys!Ind, Sys!TypeOK, Sys!Flags, Sys!Numbers, Sys!Quick, Sys!Causes,
     Sys!ErasedOnHold, Sys!OffOnDouble, Sys!QuietWhenOff, Sys!StaysOff
<1>2. CASE Sys!Next
  BY <1>2, ManagerAround, ManagerTurns, ManagerInhibited, ManagerButton, ManagerHolds,
     ManagerLetsGo,
     ManagerExecutes DEF Sys!Next
<1>3. QED
  BY <1>1, <1>2
=============================================================================
