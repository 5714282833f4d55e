----------------------------- MODULE CfgUpgrade -----------------------------
(***************************************************************************)
(* The configuration from the power-on to its use (config.c): config_init  *)
(* loads the file, makes one if there is none, resets one with a magic it  *)
(* does not know, and upgrades one of an older version, one version after  *)
(* the other.  Every upgrade writes the file again, with the magic of the  *)
(* present version whatever the version it leads to.                       *)
(*                                                                         *)
(* The power may go at any step.  A mapping is its size for each wired     *)
(* device, how often the combos are in it, and whose it is.                *)
(***************************************************************************)
EXTENDS Integers

CONSTANTS
  CuDevs,    \* WIRED_MAX_DEV: devices 1..CuDevs
  CuKbm,     \* KBM_MAX: entries of a default mapping
  CuCombos,  \* BR_COMBO_CNT: entries the combos take
  CuMax,     \* ADAPTER_MAPPING_MAX
  CuCuts     \* power cuts

VARIABLES
  cuFile,    \* the file: its magic's version, what its mapping is, whether it is whole
  cuRam,     \* config
  cuPc,      \* what config_init is at, and the upgrade to go on with
  cuWas,     \* the file at the first power-on
  cuCount,   \* power cuts so far
  cuOdd      \* "cut": the power went while a file was written; "part": and its magic was in it;
             \* "unread": the file could not be read; "unsaved": nor, the last time, be opened to
             \* be written; "misread": the mappings of one version were read from a file of another

cuVars == <<cuFile, cuRam, cuPc, cuWas, cuCount, cuOdd>>

Devs == 1..CuDevs
Present == 3
NoMagic == -1
All(n) == [i \in Devs |-> n]
NoFile == [magic |-> -2, size |-> All(0), combos |-> All(0), map |-> "none"]
Zero == [magic |-> NoMagic, size |-> All(0), combos |-> All(0), map |-> "none"]

\* config_init_struct: the keyboard's mapping and the combos.
Default == [magic |-> Present, size |-> All(CuKbm + CuCombos), combos |-> All(1), map |-> "default"]

\* config_init_nvs_patch: the presets of the NVS, where a configuration is made anew.
Preset == [Default EXCEPT !.map = "preset"]

\* Files of earlier versions: those have no combos, and the oldest two took longer mappings.
Old(v) == {[magic |-> v, size |-> s, combos |-> All(0), map |-> "user"] :
             s \in [Devs -> {1, CuMax - CuCombos, CuMax} \cup (IF v < 2 THEN {CuMax + 1} ELSE {})]}
New == {[magic |-> Present, size |-> All(CuMax), combos |-> All(1), map |-> "user"]}

Init ==
  /\ cuFile \in {NoFile} \cup Old(0) \cup Old(1) \cup Old(2) \cup New
  /\ cuWas = cuFile /\ cuRam = Zero /\ cuPc = <<"load", 0>> /\ cuCount = 0 /\ cuOdd = {}

\* There is no file, or one with no magic.
Unusable(file) == file = NoFile \/ file.magic = NoMagic

\* config_load_from_file, up to the first file it writes or the first upgrade.  A file that cannot
\* be read leaves config as it is at the power-on, with no magic: it is reset.
Load ==
  /\ cuPc[1] = "load"
  /\ \/ /\ Unusable(cuFile)
        /\ cuRam' = (IF cuFile = NoFile THEN Preset ELSE Default) /\ cuPc' = <<"open", Present>>
        /\ UNCHANGED cuOdd
     \/ /\ ~Unusable(cuFile)
        /\ cuRam' = cuFile /\ cuPc' = <<"upgrade", cuFile.magic>> /\ cuOdd' = cuOdd \ {"unsaved"}
     \/ /\ ~Unusable(cuFile)
        /\ cuRam' = Default /\ cuPc' = <<"open", Present>> /\ cuOdd' = cuOdd \cup {"unread"}
  /\ UNCHANGED <<cuFile, cuWas, cuCount>>

\* config_v0_update: the layout of the mappings is not converted.
V0(c) == [c EXCEPT !.magic = Present, !.map = "garbage"]

\* config_v1_update: reads the mappings where that version has them.  A file that the upgrade
\* before has written is too short for that: the configuration is reset; one that it could not
\* write has others there.
Fits(n) == IF n > CuMax THEN CuMax ELSE n
V1(c, file) ==
  CASE file.magic = 1 -> {[c EXCEPT !.magic = Present,
                                     !.size = [i \in Devs |-> Fits(file.size[i])]]}
    [] file.magic = 0 -> {[c EXCEPT !.magic = Present, !.size = s] : s \in [Devs -> 0..CuMax]}
    [] OTHER -> {Preset}

\* config_v2_update: appends the combos.  Entries past the last are written over the next device's
\* size, which is then where that one's combos go: the first of them sets it to the device's index.
Sizes(s) ==
  LET till[i \in 0..CuDevs] ==   \* the sizes once the first i devices have theirs
        IF i = 0 THEN s
        ELSE LET t == till[i - 1]
                 over == t[i] + CuCombos > CuMax
             IN [j \in Devs |-> CASE j = i -> t[i] + CuCombos
                                 [] over /\ j = i + 1 -> i - 1
                                 [] OTHER -> t[j]]
  IN till[CuDevs]

V2(c) == [c EXCEPT !.magic = Present, !.size = Sizes(@), !.combos = [i \in Devs |-> @[i] + 1]]

\* config_ver_update: one upgrade, up to the file.
Upgraded(c, v, file) == CASE v = 0 -> {V0(c)} [] v = 1 -> V1(c, file) [] v = 2 -> {V2(c)}
Upgrade ==
  /\ cuPc[1] = "upgrade" /\ cuPc[2] < Present
  /\ cuRam' \in Upgraded(cuRam, cuPc[2], cuFile) /\ cuPc' = <<"open", cuPc[2] + 1>>
  /\ cuOdd' = cuOdd \cup (IF cuPc[2] = 1 /\ cuFile.magic = 0 THEN {"misread"} ELSE {})
  /\ UNCHANGED <<cuFile, cuWas, cuCount>>
\* Its file cannot be read again for the mappings.
UpgradeUnread ==
  /\ cuPc = <<"upgrade", 1>>
  /\ cuRam' = Preset /\ cuPc' = <<"open", 2>> /\ cuOdd' = cuOdd \cup {"unread"}
  /\ UNCHANGED <<cuFile, cuWas, cuCount>>
Upgrades ==
  /\ cuPc = <<"upgrade", Present>> /\ cuPc' = <<"run", 0>>
  /\ UNCHANGED <<cuFile, cuRam, cuWas, cuCount, cuOdd>>

\* config_store_on_file: the file is empty from its opening on.  What it returns where it cannot be
\* opened is returned in turn, to config_init and config_update, which go on.
StoreOpen ==
  /\ cuPc[1] = "open" /\ cuFile' = Zero /\ cuPc' = <<"write", cuPc[2]>>
  /\ UNCHANGED <<cuRam, cuWas, cuCount, cuOdd>>
StoreFails ==
  /\ cuPc[1] = "open" /\ cuPc' = <<"upgrade", cuPc[2]>> /\ cuOdd' = cuOdd \cup {"unsaved"}
  /\ UNCHANGED <<cuFile, cuRam, cuWas, cuCount>>

Stored(c) == c
StoreWrite ==
  /\ cuPc[1] = "write" /\ cuFile' = Stored(cuRam) /\ cuPc' = <<"upgrade", cuPc[2]>>
  /\ cuOdd' = cuOdd \ {"unsaved"}
  /\ UNCHANGED <<cuRam, cuWas, cuCount>>

\* The client of the configuration service adds an entry (config_update).
Remap(i) ==
  /\ cuPc[1] = "run" /\ cuRam.size[i] < CuMax
  /\ cuRam' = [cuRam EXCEPT !.size[i] = @ + 1, !.map = "user"] /\ cuPc' = <<"open", Present>>
  /\ UNCHANGED <<cuFile, cuWas, cuCount, cuOdd>>

\* The power goes: a file being written has nothing in it, or the magic and what follows it, or
\* all.  The adapter starts over with nothing in config.
Partial == [cuRam EXCEPT !.size = [i \in Devs |-> IF i = 1 THEN @[i] ELSE 0],
                         !.combos = [i \in Devs |-> 0]]
PowerCut ==
  /\ cuCount < CuCuts /\ cuCount' = cuCount + 1
  /\ cuPc' = <<"load", 0>> /\ cuRam' = Zero
  /\ IF cuPc[1] # "write" THEN UNCHANGED <<cuFile, cuOdd>>
     ELSE \/ cuFile' = Zero /\ cuOdd' = cuOdd \cup {"cut"}
          \/ cuFile' = Partial /\ cuOdd' = cuOdd \cup {"cut", "part"}
          \/ cuFile' = cuRam /\ UNCHANGED cuOdd
  /\ UNCHANGED cuWas

Next ==
  \/ Load \/ Upgrade \/ UpgradeUnread \/ Upgrades \/ StoreOpen \/ StoreFails \/ StoreWrite
  \/ PowerCut
  \/ \E i \in Devs : Remap(i)

Spec == Init /\ [][Next]_cuVars

Running == cuPc[1] = "run"

TypeOK ==
  /\ cuPc[1] \in {"load", "upgrade", "open", "write", "run"} /\ cuPc[2] \in 0..Present
  /\ cuRam.magic \in -1..Present /\ cuFile.magic \in -2..Present
  /\ \A i \in Devs : cuRam.size[i] \in 0..(CuMax + CuCombos)

\* A configuration of the first version is always lost, and its combos are then appended to a
\* mapping that has them.
Upgradable ==
  /\ cuWas.magic # 0
  /\ cuWas.magic \in 1..2 => \A i \in Devs : cuWas.size[i] <= CuMax - CuCombos

\* After the upgrade every mapping has the combos once and fits its table (config.c:199 writes
\* past it otherwise): for a file of a version after the first with room for them, which was
\* never being written, or between two upgrades, when the power went, and could be read.
CombosOnce ==
  Running /\ Upgradable /\ cuOdd \subseteq {"unsaved"} /\ (cuCount = 0 \/ cuWas.magic \notin 0..2)
    => \A i \in Devs : cuRam.combos[i] = 1 /\ cuRam.size[i] <= CuMax

\* A user's mapping is there after the upgrade, as long as it was, if its file could be read and was
\* never being written when the power went.
MappingKept ==
  Running /\ Upgradable /\ cuWas.magic > 0 /\ cuOdd \subseteq {"unsaved"}
    => /\ cuRam.map = "user"
       /\ \A i \in Devs : cuRam.size[i] >= cuWas.size[i]

\* The configuration in use is the one in the file, at the present version: nothing is upgraded
\* a second time at the next power-on, unless that file could not be opened for it (config.c:382).
FileIsRam == Running /\ "unsaved" \notin cuOdd => cuFile = cuRam /\ cuFile.magic = Present

\* The configuration in use is whole, whenever the power went, unless it went when a file had its
\* magic and no more (config.c:351 counts what was read, and only the magic is looked at), or the
\* mappings of the second version were read from a file of the first.
WholeOrReset ==
  Running /\ cuOdd \cap {"part", "misread"} = {} =>
    cuRam.map \in {"user", "default", "preset", "garbage"} /\ \A i \in Devs : cuRam.size[i] > 0

(***************************************************************************)
(* The inductive invariant.                                                *)
(***************************************************************************)
Maps == {"user", "default", "preset", "garbage", "none"}
Config == [magic : -2..Present, size : [Devs -> Nat], combos : [Devs -> Nat], map : Maps]

\* What config_init can be at.
Stages ==
  /\ cuFile \in Config /\ cuRam \in Config /\ cuWas \in Config /\ cuCount \in Nat
  /\ cuOdd \subseteq {"cut", "part", "unread", "unsaved", "misread"}
  /\ \/ cuPc \in {<<"load", 0>>, <<"run", 0>>}
     \/ cuPc \in {"upgrade", "open", "write"} \X (0..Present)
  /\ cuPc[1] \in {"open", "write", "run"} => cuRam.magic = Present
  /\ cuFile.magic < 0 => cuFile \in {NoFile, Zero}
  /\ cuPc[1] \in {"upgrade", "run"} /\ "unsaved" \notin cuOdd => cuFile = cuRam
  /\ cuPc[1] = "run" \/ (cuPc[1] = "upgrade" /\ cuPc[2] = Present) => cuRam.magic = Present
  /\ cuPc[1] = "write" => cuFile = Zero
  /\ cuWas \in {NoFile} \cup Old(0) \cup Old(1) \cup Old(2) \cup New

\* A configuration that has all of its sizes.
Whole(c) == c.map # "none" /\ \A i \in Devs : c.size[i] > 0

WholeAllAlong ==
  cuOdd \cap {"part", "misread"} = {} =>
    /\ Whole(cuFile) \/ cuFile \in {NoFile, Zero}
    /\ cuPc[1] # "load" => Whole(cuRam)

\* One with the user's entries; one still with room for the combos; one with the combos.
Kept(c) == c.map = "user" /\ \A i \in Devs : c.size[i] >= cuWas.size[i]
Roomy(c) == \A i \in Devs : c.combos[i] = 0 /\ c.size[i] <= CuMax - CuCombos
Done(c) == c.magic = Present /\ \A i \in Devs : c.combos[i] = 1 /\ c.size[i] <= CuMax

\* The user's mapping on its way through the upgrades, which may begin again while the file is
\* that of before.
KeptAllAlong ==
  Upgradable /\ cuWas.magic > 0 /\ cuOdd \subseteq {"unsaved"} =>
    /\ cuPc[1] # "write" => Kept(cuFile) /\ (cuFile.magic # Present => cuFile = cuWas)
    /\ cuPc[1] # "load" => Kept(cuRam)
    /\ cuPc[1] \in {"upgrade", "open", "write"} /\ cuPc[2] < Present => Roomy(cuRam)
    /\ cuPc[1] = "upgrade" /\ cuPc[2] < 2 =>
         cuFile = cuWas /\ cuRam = cuWas /\ cuFile.magic = cuPc[2]
    /\ cuPc[1] \in {"open", "write"} => cuPc[2] > 1

\* The combos come last, and once.
DoneAllAlong ==
  /\ cuWas.magic \notin 0..2 /\ cuOdd \subseteq {"unsaved"} =>
       /\ cuPc[1] # "write" => cuFile = NoFile \/ Done(cuFile)
       /\ cuPc[1] # "load" => Done(cuRam)
       /\ cuPc[1] \in {"upgrade", "open", "write"} => cuPc[2] = Present
  /\ Upgradable /\ cuWas.magic \in 1..2 /\ cuCount = 0 /\ cuOdd \subseteq {"unsaved"} =>
       /\ cuPc[1] = "load" => cuFile = cuWas
       /\ cuPc[1] = "run" \/ (cuPc[1] # "load" /\ cuPc[2] = Present) => Done(cuRam)

Ind == Stages /\ WholeAllAlong /\ KeptAllAlong /\ DoneAllAlong
=============================================================================
