----------------------------- MODULE CfgService -----------------------------
(***************************************************************************)
(* What the configuration service writes (att_cfg.c) and where it goes     *)
(* (config.c, gameid.c): config in memory, one file for all games and one  *)
(* for each game that has its own, and config_src, which of them config    *)
(* was taken from.                                                         *)
(*                                                                         *)
(* The service runs in the Bluetooth callback.  bt_fb_task, a task of its  *)
(* own, is told by the console which game runs and loads that game's file; *)
(* neither waits for the other.  The contents are a number: the last edit  *)
(* in them, 0 for a file as made, NoFile if there is none.  Apart from it, *)
(* whether banksel in them has the debug trace on: every write request     *)
(* turns that off, in memory.                                              *)
(***************************************************************************)
EXTENDS Integers, Sequences, FiniteSets

CONSTANTS
  CsvGames,  \* games that have ids
  CsvEdits,  \* edits by clients
  CsvTraced, \* those of them that turn the debug trace on
  CsvOdds    \* unusual things together

VARIABLES
  csvFile,   \* the files
  csvRam,    \* config
  csvSrc,    \* config_src: "default" or "game"
  csvGame,   \* gameid
  csvFb,     \* config_init in bt_fb_task: what it is at
  csvBt,     \* config_init or config_update in the callback: what it is at
  csvView,   \* the client: the file it edits as far as it has asked, and whether it started an OTA
  csvTold,   \* its last change of the configuration was answered as written
  csvMeant,  \* for each edit the files it was meant for
  csvOta,    \* ota_hdl: FALSE if 0
  csvDbg,    \* where banksel is CONFIG_BANKSEL_DBG: files, and "ram" for config
  csvOdd     \* what is unusual

csvVars == <<csvDbg, csvFile, csvRam, csvSrc, csvGame, csvFb, csvBt, csvView, csvTold, csvMeant,
             csvOta, csvOdd>>

NoGame == "none"
NoFile == -1
Made == 0
Files == {"default"} \cup CsvGames
Idle == <<"idle", "none">>
Gone == [file |-> "none", ota |-> FALSE]

Init ==
  /\ csvFile \in [Files -> {NoFile, Made}] /\ csvFile["default"] = Made
  /\ csvRam = Made /\ csvSrc = "default" /\ csvGame = NoGame /\ csvFb = Idle /\ csvBt = Idle
  /\ csvView = Gone /\ csvTold = TRUE /\ csvMeant = <<Files>> /\ csvOta = FALSE
  /\ csvDbg = {} /\ csvOdd = {}

Source == IF csvSrc = "game" THEN csvGame ELSE "default"
There(game) == game # NoGame /\ csvFile[game] # NoFile
Connected == csvView # Gone
Busy == csvFb # Idle \/ csvBt # Idle

\* config_init, in the task or the callback: the default file, or the game's if it has one.
Chosen(src) == IF src = "game" /\ There(csvGame) THEN csvGame ELSE "default"

\* config_load_from_file.  A file that is not there is made, if it can be opened; one that cannot be
\* read leaves config as it is, which has the magic.
FilesLoaded(file, ok) ==
  IF csvFile[file] = NoFile /\ ok THEN [csvFile EXCEPT ![file] = Made] ELSE csvFile
RamLoaded(file, ok) == IF csvFile[file] = NoFile THEN Made ELSE IF ok THEN csvFile[file] ELSE csvRam
DbgLoaded(file, ok) ==
  IF csvFile[file] = NoFile THEN csvDbg \ {"ram"}
  ELSE IF ~ok THEN csvDbg ELSE IF file \in csvDbg THEN csvDbg \cup {"ram"} ELSE csvDbg \ {"ram"}
Failed(file) == IF csvFile[file] = NoFile THEN "unsaved" ELSE "unread"
Outcome(file, ok) == IF ok THEN csvOdd \ {"unsaved"} ELSE csvOdd \cup {Failed(file)}

\* The bound on what is unusual.
Unusual(odd) == Cardinality(odd) <= CsvOdds /\ csvOdd' = odd

\* gid_update, gid_update_sys: a game other than the last.
GameChanges(game) ==
  /\ csvFb = Idle /\ game # csvGame
  /\ csvGame' = game /\ csvFb' = <<"init", "game">>
  /\ Unusual(csvOdd \cup (IF Connected THEN {"switched"} ELSE {})
       \cup (IF csvBt # Idle THEN {"raced"} ELSE {}))
  /\ UNCHANGED <<csvDbg, csvFile, csvRam, csvSrc, csvBt, csvView, csvTold, csvMeant, csvOta>>
FbDefault ==
  /\ csvFb[1] = "init" /\ csvSrc' = "default" /\ csvFb' = <<"choose", csvFb[2]>>
  /\ UNCHANGED <<csvDbg, csvFile, csvRam, csvGame, csvBt, csvView, csvTold, csvMeant, csvOta,
                 csvOdd>>
FbChoose ==
  /\ csvFb[1] = "choose"
  /\ csvFb' = <<"load", Chosen("game")>>
  /\ csvSrc' = IF Chosen("game") = "default" THEN csvSrc ELSE "game"
  /\ UNCHANGED <<csvDbg, csvFile, csvRam, csvGame, csvBt, csvView, csvTold, csvMeant, csvOta,
                 csvOdd>>
FbLoad(ok) ==
  /\ csvFb[1] = "load" /\ csvFb' = Idle /\ Unusual(Outcome(csvFb[2], ok))
  /\ csvRam' = RamLoaded(csvFb[2], ok) /\ csvFile' = FilesLoaded(csvFb[2], ok)
  /\ csvDbg' = DbgLoaded(csvFb[2], ok)
  /\ UNCHANGED <<csvSrc, csvGame, csvBt, csvView, csvTold, csvMeant, csvOta>>

\* Every BT_ATT_OP_WRITE_REQ turns the debug trace off in config, whatever it writes.
Traceless == csvDbg \ {"ram"}

\* A client connects and asks, with writes, which configuration is used (GET_CFG_SRC, GET_GAMEID).
Connect ==
  /\ ~Connected /\ csvBt = Idle
  /\ csvView' = [file |-> Source, ota |-> FALSE] /\ csvTold' = TRUE
  /\ Unusual(csvOdd \cup (IF csvFb # Idle THEN {"switched"} ELSE {})
       \cup (IF csvOta THEN {"otaLeft"} ELSE {}))
  /\ csvDbg' = Traceless
  /\ UNCHANGED <<csvFile, csvRam, csvSrc, csvGame, csvFb, csvBt, csvMeant, csvOta>>
\* Where the game changed under it, what is in the files then counts as meant for them.
Leave ==
  /\ Connected /\ csvBt = Idle /\ csvView' = Gone
  /\ IF csvFb = Idle /\ csvOdd \cap {"switched", "raced"} # {}
       THEN csvMeant' = [n \in DOMAIN csvMeant |-> Files] ELSE UNCHANGED csvMeant
  /\ Unusual((IF csvFb = Idle THEN csvOdd \ {"switched"} ELSE csvOdd)
       \cup (IF csvTold THEN {} ELSE {"unexecuted"}))
  /\ UNCHANGED <<csvDbg, csvFile, csvRam, csvSrc, csvGame, csvFb, csvBt, csvTold, csvOta>>

Ready == Connected /\ csvBt = Idle
Edit == Len(csvMeant)
Edited ==
  /\ Edit < CsvEdits + 1
  /\ csvRam' = Edit /\ csvMeant' = Append(csvMeant, {csvView.file})
Racing == IF csvFb # Idle THEN {"raced"} ELSE {}

\* Where a write is kept: where the configuration came from.
Kept == csvSrc

\* BT_ATT_OP_WRITE_REQ to one of the configuration's values: written and kept.  The global ones have
\* banksel in them.
Write ==
  /\ Ready /\ Edited /\ csvDbg' = IF Edit \in CsvTraced THEN Traceless \cup {"ram"} ELSE Traceless
  /\ csvBt' = <<"update", Kept>> /\ csvTold' = FALSE
  /\ Unusual(csvOdd \cup Racing)
  /\ UNCHANGED <<csvFile, csvSrc, csvGame, csvFb, csvView, csvOta>>

\* BT_ATT_OP_WRITE_REQ to anything else: a control value, the firmware, the memory card, a command
\* that asks, a handle there is not.
WriteOther ==
  /\ Ready /\ csvDbg' = Traceless
  /\ UNCHANGED <<csvFile, csvRam, csvSrc, csvGame, csvFb, csvBt, csvView, csvTold, csvMeant, csvOta,
                 csvOdd>>

\* BT_ATT_OP_PREPARE_WRITE_REQ: written at once; BT_ATT_OP_EXEC_WRITE_REQ: kept, unless an OTA is
\* on.
Prepare ==
  /\ Ready /\ ~csvView.ota /\ Edited /\ csvTold' = FALSE
  /\ UNCHANGED <<csvDbg, csvFile, csvSrc, csvGame, csvFb, csvBt, csvView, csvOta, csvOdd>>

\* Mutant of Keeps: executing does not keep what was written.
KeepsNot == FALSE

\* An update of the firmware is written with the same requests.
Keeps == ~csvOta
Execute ==
  /\ Ready /\ ~csvView.ota
  /\ IF Keeps THEN csvBt' = <<"update", Kept>> /\ csvTold' = FALSE
              ELSE csvBt' = csvBt /\ csvTold' = TRUE
  /\ Unusual(csvOdd \cup Racing)
  /\ UNCHANGED <<csvDbg, csvFile, csvRam, csvSrc, csvGame, csvFb, csvView, csvMeant, csvOta>>

\* config_update: default first, then the game's file if that is asked for and there is a game.
BtDefault ==
  /\ csvBt[1] = "update" /\ csvSrc' = "default" /\ csvBt' = <<"target", csvBt[2]>>
  /\ UNCHANGED <<csvDbg, csvFile, csvRam, csvGame, csvFb, csvView, csvTold, csvMeant, csvOta,
                 csvOdd>>
BtTarget ==
  /\ csvBt[1] = "target"
  /\ LET game == csvBt[2] = "game" /\ csvGame # NoGame
     IN /\ csvSrc' = IF game THEN "game" ELSE csvSrc
        /\ csvBt' = <<"store", IF game THEN csvGame ELSE "default">>
  /\ UNCHANGED <<csvDbg, csvFile, csvRam, csvGame, csvFb, csvView, csvTold, csvMeant, csvOta,
                 csvOdd>>
\* config_store_on_file: whether or not the file can be opened, the client is answered as if it had.
BtStore(ok) ==
  /\ csvBt[1] = "store" /\ csvBt' = Idle
  /\ csvFile' = IF ok THEN [csvFile EXCEPT ![csvBt[2]] = csvRam] ELSE csvFile
  /\ csvDbg' = IF ~ok THEN csvDbg
               ELSE IF "ram" \in csvDbg THEN csvDbg \cup {csvBt[2]} ELSE csvDbg \ {csvBt[2]}
  /\ Unusual(IF ok THEN csvOdd \ {"unsaved"} ELSE csvOdd \cup {"unsaved"})
  /\ csvTold' = TRUE /\ csvView' = IF Connected THEN [csvView EXCEPT !.file = Source] ELSE csvView
  /\ UNCHANGED <<csvRam, csvSrc, csvGame, csvFb, csvMeant, csvOta>>

\* CFG_CMD_SET_GAMEID_CFG: what is used becomes the game's configuration.
SetGame ==
  /\ Ready /\ csvBt' = <<"update", "game">> /\ csvTold' = FALSE /\ csvDbg' = Traceless
  /\ csvMeant' = [n \in DOMAIN csvMeant |->
       IF n - 1 = csvRam THEN csvMeant[n] \cup {csvGame} ELSE csvMeant[n]]
  /\ Unusual(csvOdd \cup Racing)
  /\ UNCHANGED <<csvFile, csvRam, csvSrc, csvGame, csvFb, csvView, csvOta>>

\* CFG_CMD_SET_DEFAULT_CFG and CFG_CMD_DEL_FILE: the file goes that is used for the game, or one
\* that is named, the default one as well; the default configuration is loaded first, unless the
\* file named is not that of the game.
Removes(file) ==
  /\ Ready /\ csvBt' = <<"init", file>> /\ csvDbg' = Traceless /\ Unusual(csvOdd \cup Racing)
  /\ UNCHANGED <<csvFile, csvRam, csvSrc, csvGame, csvFb, csvView, csvTold, csvMeant, csvOta>>

Current(file) == file \in {csvGame, "used"}
BtRemove(ok) ==
  /\ csvBt[1] = "init" /\ csvBt' = Idle
  /\ LET named == IF csvBt[2] = "used" THEN csvGame ELSE csvBt[2]
         without(files) == [f \in Files |-> IF f = named THEN NoFile ELSE files[f]]
     IN IF Current(csvBt[2])
          THEN /\ csvSrc' = "default" /\ csvTold' = TRUE /\ Unusual(Outcome("default", ok))
               /\ csvRam' = RamLoaded("default", ok)
               /\ csvFile' = without(FilesLoaded("default", ok))
               /\ csvDbg' = DbgLoaded("default", ok) \ {named}
          ELSE /\ csvFile' = without(csvFile) /\ csvDbg' = csvDbg \ {named}
               /\ UNCHANGED <<csvSrc, csvTold, csvOdd, csvRam>>
  /\ csvView' = IF Connected
       THEN [csvView EXCEPT !.file = IF csvSrc' = "game" THEN csvGame ELSE "default"]
       ELSE csvView
  /\ UNCHANGED <<csvGame, csvFb, csvMeant, csvOta>>

\* CFG_CMD_OTA_START, OTA_END and OTA_ABORT: an end that fails leaves the handle.
OtaStart(ok) ==
  /\ Ready /\ csvDbg' = Traceless /\ csvOta' = ok /\ csvView' = [csvView EXCEPT !.ota = ok]
  /\ UNCHANGED <<csvFile, csvRam, csvSrc, csvGame, csvFb, csvBt, csvTold, csvMeant, csvOdd>>
OtaEndFails ==
  /\ Ready /\ csvDbg' = Traceless /\ csvView.ota /\ csvView' = [csvView EXCEPT !.ota = FALSE]
  /\ Unusual(csvOdd \cup {"otaLeft"})
  /\ UNCHANGED <<csvFile, csvRam, csvSrc, csvGame, csvFb, csvBt, csvTold, csvMeant, csvOta>>
OtaAbort ==
  /\ Ready /\ csvDbg' = Traceless /\ csvOta' = FALSE /\ csvView' = [csvView EXCEPT !.ota = FALSE]
  /\ UNCHANGED <<csvFile, csvRam, csvSrc, csvGame, csvFb, csvBt, csvTold, csvMeant, csvOdd>>

\* SYS_MGR_CMD_ADAPTER_RST, after OTA_END or SYS_RESET, and SYS_MGR_CMD_FACTORY_RST, which
\* removes the files first.  A default file that is not there, or cannot be read, is made.
Restart(factory, read, ok) ==
  /\ Ready /\ csvFb = Idle /\ (factory \/ ~csvView.ota)
  /\ LET left == IF factory THEN [f \in Files |-> NoFile] ELSE csvFile
         dbg == IF factory THEN {} ELSE csvDbg \ {"ram"}
         kept == left["default"] # NoFile /\ read
     IN /\ csvRam' = IF kept THEN left["default"] ELSE Made
        /\ csvFile' = IF kept \/ ~ok THEN left ELSE [left EXCEPT !["default"] = Made]
        /\ csvDbg' = IF kept THEN dbg \cup (IF "default" \in dbg THEN {"ram"} ELSE {})
                     ELSE IF ok THEN dbg \ {"default"} ELSE dbg
        /\ Unusual(IF kept \/ ok THEN {} ELSE {"unsaved"})
  /\ csvSrc' = "default" /\ csvGame' = NoGame
  /\ csvView' = Gone /\ csvTold' = TRUE /\ csvOta' = FALSE
  /\ csvMeant' = [n \in DOMAIN csvMeant |-> Files]
  /\ UNCHANGED <<csvFb, csvBt>>

Next ==
  \/ \E game \in CsvGames : GameChanges(game)
  \/ \E file \in Files \cup {"used"} : Removes(file)
  \/ FbDefault \/ FbChoose \/ Connect \/ Leave
  \/ Write \/ WriteOther \/ Prepare \/ Execute \/ BtDefault \/ BtTarget \/ SetGame
  \/ \E ok \in BOOLEAN : FbLoad(ok) \/ BtStore(ok) \/ BtRemove(ok) \/ OtaStart(ok)
  \/ \E factory, read, ok \in BOOLEAN : Restart(factory, read, ok)
  \/ OtaEndFails \/ OtaAbort

Spec == Init /\ [][Next]_csvVars

TypeOK ==
  /\ csvSrc \in {"default", "game"} /\ csvGame \in CsvGames \cup {NoGame}

\* Where the game changed under a client, bt_fb_task was loading a file while the callback wrote
\* (att_cfg.c:461, config.c:438), or a file could not be read and config stayed what it was.
Astray == csvOdd \cap {"switched", "raced", "unread"} # {}

\* An edit is only ever in files it was meant for: the one the client was shown, and the game's
\* if it then made the configuration that of the game.
RightFile ==
  ~Astray => \A f \in Files : csvFile[f] # NoFile => f \in csvMeant[csvFile[f] + 1]

\* What is used is what is in the file, except that the debug trace may be off.
InUse == csvRam = csvFile[Source] /\ ("ram" \in csvDbg => Source \in csvDbg)

\* Once its last change has been answered as written, what a client reads is what is in the file
\* it was shown (att_cfg.c:789), unless it has removed that, an update of the firmware was left
\* open (what is written then is used, and lost with the next restart), or the file could not be
\* opened to be written or read: the answer is the same.
ToldIsKept ==
  (csvTold /\ Connected /\ ~Busy /\ csvOdd = {} /\ csvFile[Source] # NoFile) => InUse

\* A configuration said to be the game's has its file, unless that could not be opened to be
\* written.
SourceThere ==
  ~Busy /\ csvOdd \cap {"switched", "raced", "unsaved"} = {} /\ csvSrc = "game" =>
    csvFile[csvGame] # NoFile

(***************************************************************************)
(* The inductive invariant.                                                *)
(***************************************************************************)
Odds == {"switched", "raced", "otaLeft", "unexecuted", "unsaved", "unread"}
Types ==
  /\ csvFile \in [Files -> {NoFile} \cup 0..(Edit - 1)] /\ csvRam \in 0..(Edit - 1)
  /\ csvMeant \in Seq(SUBSET (Files \cup {NoGame})) /\ Files \subseteq csvMeant[1] /\ Edit >= 1
  /\ csvSrc \in {"default", "game"} /\ csvGame \in CsvGames \cup {NoGame}
  /\ csvOdd \subseteq Odds
  /\ csvDbg \subseteq Files \cup {"ram"}
  /\ csvTold \in BOOLEAN /\ csvOta \in BOOLEAN

\* What the two contexts can be at, and the client.
Stages ==
  /\ \/ csvFb = Idle \/ csvFb \in {"init", "choose"} \X {"game"}
     \/ csvFb \in {"load"} \X Files
  /\ \/ csvBt = Idle \/ csvBt \in {"update", "target"} \X {"default", "game"}
     \/ csvBt \in {"store"} \X Files \/ csvBt \in {"init"} \X (Files \cup {"used"})
  /\ csvView \in [file : Files \cup {"none"}, ota : BOOLEAN]
  /\ Connected => csvView.file \in Files
  /\ ~Connected => csvBt = Idle
  /\ csvSrc = "game" => csvGame # NoGame

\* Unless they raced, only one of the two is under way, and the source is the file it loads or has
\* stored.
Alone ==
  "raced" \notin csvOdd =>
    /\ csvFb # Idle => csvBt = Idle
    /\ csvFb[1] = "choose" => csvSrc = "default"
    /\ csvFb[1] = "load" => csvFb[2] = Source /\ (csvSrc = "game" => csvFile[csvGame] # NoFile)
    /\ csvBt[1] = "target" => csvSrc = "default"
    /\ csvBt[1] = "store" => csvBt[2] = Source
    /\ csvFb = Idle /\ (csvBt = Idle \/ csvBt[1] = "init")
       /\ "unsaved" \notin csvOdd /\ csvSrc = "game" => csvFile[csvGame] # NoFile

\* The file that config goes to next.
Target ==
  IF csvBt[1] \in {"update", "target"}
    THEN IF csvBt[2] = "game" /\ csvGame # NoGame THEN csvGame ELSE "default"
    ELSE Source

\* Unless the game changed under the client, what is in the files and in config is meant for them.
Meant ==
  ~Astray =>
    /\ RightFile
    /\ Connected => csvFb = Idle /\ (csvBt = Idle => csvView.file = Source)
    /\ csvFb = Idle => Target \in csvMeant[csvRam + 1]

\* What the client was told is kept, is: and so is what a client before it left.
Told ==
  /\ "otaLeft" \notin csvOdd /\ Connected => csvOta = csvView.ota
  /\ csvOdd \subseteq {"switched"} /\ (csvTold \/ ~Connected)
     /\ csvFb = Idle /\ csvBt[1] \in {"idle", "init"}
     /\ csvFile[Source] # NoFile => InUse

Ind == Types /\ Stages /\ Alone /\ Meant /\ Told
=============================================================================
