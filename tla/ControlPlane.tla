--------------------------- MODULE ControlPlane ---------------------------
(***************************************************************************)
(* The configuration in its four places: the file, the Config the process  *)
(* shows, the snapshot the engine was built from, and the list of sections *)
(* the status page says are waiting for a restart.  Threads of the HTTP    *)
(* server save documents (src/src/http/api_server.cpp), a start of the     *)
(* engine reloads the file (src/src/service.cpp), and the process is       *)
(* started, killed and started again (src/src/main.cpp, src/src/app.cpp).  *)
(*                                                                         *)
(* ApiServer and EngineService guard the Config with a mutex each, so the  *)
(* one's copy may meet the other's assignment half done.                   *)
(***************************************************************************)
EXTENDS Configuration

CONSTANTS Bodies,     \* the documents posted
          FirstFile,  \* what the file holds when the appliance is installed
          Dials,      \* the offsets dialled without a save
          Savers,     \* threads of the HTTP server
          Empty,      \* a file truncated and not written yet
          Garbled     \* a file holding part of a document, or parts of two

ASSUME SaversAssumption == IsFiniteSet(Savers)

(* The appliance is installed with a file it loads; what a document is     *)
(* read as has no value of the wrong type and an alarm in milliseconds,    *)
(* and neither is what the markers of a broken file stand for.             *)
ASSUME DocumentsAssumption ==
  /\ Accepts(FirstFile)
  /\ \A b \in Bodies \cup {FirstFile} : Accepts(b) =>
       LET c == ReadConfig(b)
       IN /\ b \notin {Empty, Garbled} /\ c \notin {Empty, Garbled} /\ c.alarm \in Int
          /\ \A k \in Keys : c[k] # WrongType
          /\ \A i \in DOMAIN c.blocks : \A k \in BlockKeys : c.blocks[i][k] # WrongType

VARIABLES
  up,           \* the process is "down", "starting" its first engine, or "up"
  fake,         \* it was started with -f
  conf, temp,   \* the inodes the file and its sibling name
  bytes,        \* what each inode holds
  config,       \* *config_
  pending,      \* pending_restart_
  engine,       \* the configuration the engine was prepared with, or NoEngine
  offset,       \* the A/V offset last posted to that engine
  startAt,      \* where a start of the engine is
  loaded,       \* the configuration that start read from the file
  save,         \* what each thread's save has come to
  truncated     \* some save had to write the file in place

processVars == <<up, fake>>
fileVars == <<conf, temp, bytes, truncated>>
shownVars == <<config, pending>>
engineVars == <<engine, offset>>
startVars == <<startAt, loaded>>
vars == <<processVars, fileVars, shownVars, engineVars, startVars, save>>

\* at: the step it is at; wanted: the configuration saved; live: it moves the
\* A/V offset, which needs no restart; restart: the sections that do; out: the
\* inode it has open; disturbed: a start or a dial came between its steps.
NoSave == [at |-> "idle", wanted |-> Empty, live |-> FALSE, restart |-> {}, out |-> 0,
           disturbed |-> FALSE]

NoEngine == Empty
NoFile == 0
\* One inode for the file and one for each save under way.
Inodes == 1 .. Cardinality(Savers) + 1

LoadsFrom(i) == bytes[i] \notin {Empty, Garbled} /\ Accepts(bytes[i])

ControlInit ==
  /\ up = "down" /\ fake = FALSE
  /\ conf = 1 /\ temp = NoFile /\ bytes = [i \in Inodes |-> IF i = 1 THEN FirstFile ELSE Empty]
  /\ truncated = FALSE
  /\ config = ReadConfig(FirstFile) /\ pending = {}
  /\ engine = NoEngine /\ offset = 0
  /\ startAt = "idle" /\ loaded = Empty
  /\ save = [s \in Savers |-> NoSave]

SaveGoes(s, place) == save' = [save EXCEPT ![s].at = place]
SaveHolds(s, place, i) == save' = [save EXCEPT ![s].at = place, ![s].out = i]
SaveCloses(s, place) == SaveHolds(s, place, NoFile)
Answered(s) == save' = [save EXCEPT ![s] = NoSave]
AllDisturbed ==
  save' = [s \in Savers |->
             [save[s] EXCEPT !.disturbed = save[s].at # "idle"]]

----------------------------------------------------------------------------
(* The process *)

\* main and App::run up to the first start, which the engine's service does.
Boot(withFake) ==
  /\ up = "down" /\ LoadsFrom(conf)
  /\ up' = "starting" /\ fake' = withFake
  /\ LET read == ReadConfig(bytes[conf])
     IN config' = IF withFake THEN Faked(read) ELSE read
  /\ startAt' = "loading"
  /\ UNCHANGED <<fileVars, pending, engineVars, loaded, save>>

\* What ends with the process.
ProcessEnds ==
  /\ up' = "down" /\ fake' = FALSE
  /\ config' = ReadConfig(FirstFile) /\ pending' = {}
  /\ engine' = NoEngine /\ offset' = 0 /\ startAt' = "idle" /\ loaded' = Empty
  /\ save' = [s \in Savers |-> NoSave]

\* Killed, or stopped by its supervisor, between any two steps.
Crash == up # "down" /\ ProcessEnds /\ UNCHANGED fileVars

----------------------------------------------------------------------------
(* A start of the engine: EngineService::start, and restart before it *)

Restart ==
  /\ up = "up" /\ startAt = "idle"
  /\ startAt' = "loading" /\ engine' = NoEngine /\ offset' = 0 /\ AllDisturbed
  /\ UNCHANGED <<processVars, fileVars, shownVars, loaded>>

\* A start that is refused changes nothing, and the first one ends the process.
StartRefused ==
  \/ up = "starting" /\ ProcessEnds
  \/ /\ up = "up" /\ startAt' = "idle" /\ AllDisturbed
     /\ UNCHANGED <<processVars, shownVars, engineVars, loaded>>

StartLoads ==
  /\ startAt = "loading" /\ UNCHANGED fileVars
  /\ \/ /\ LoadsFrom(conf) /\ loaded' = ReadConfig(bytes[conf])
        /\ startAt' = "assigning" /\ AllDisturbed
        /\ UNCHANGED <<processVars, shownVars, engineVars>>
     \/ ~LoadsFrom(conf) /\ StartRefused

StartAssigns ==
  /\ startAt = "assigning" /\ AllDisturbed
  /\ config' = loaded /\ loaded' = Empty /\ startAt' = "preparing"
  /\ UNCHANGED <<processVars, fileVars, pending, engineVars>>

StartPrepares ==
  /\ startAt = "preparing" /\ UNCHANGED fileVars
  /\ \/ /\ Prepares(config) /\ engine' = config /\ offset' = config.delay
        /\ up' = "up" /\ startAt' = "idle" /\ AllDisturbed
        /\ UNCHANGED <<fake, shownVars, loaded>>
     \/ ~Prepares(config) /\ StartRefused

----------------------------------------------------------------------------
(* A save: POST /api/config *)

\* What a copy of the Config may hold, when an assignment to it is half done.
Copies ==
  IF startAt # "assigning" THEN {config}
  ELSE {[k \in Keys |->
           IF \E s \in new : k \in Sections[s] THEN loaded[k] ELSE config[k]] :
        new \in SUBSET Differing(config, loaded)}

SaveRefused(s, body) ==
  /\ up # "down" /\ save[s].at = "idle" /\ ~Accepts(body)
  /\ Answered(s)
  /\ UNCHANGED <<processVars, fileVars, shownVars, engineVars, startVars>>

SaveAccepted(s, body) ==
  /\ up # "down" /\ save[s].at = "idle" /\ Accepts(body)
  /\ \E running \in Copies :
       LET new == ReadConfig(body)
           moved == Differing(new, running)
           isLive == "egress" \in moved /\ new.signal = running.signal
       IN save' = [save EXCEPT
                     ![s] = [at |-> IF isLive THEN "applying" ELSE "opening",
                             wanted |-> new, live |-> isLive,
                             restart |-> moved \ (IF isLive THEN {"egress"} ELSE {}),
                             out |-> NoFile, disturbed |-> startAt # "idle"]]
  /\ UNCHANGED <<processVars, fileVars, shownVars, engineVars, startVars>>

\* The engine takes the offset before the file does; no engine refuses it.
SaveApplies(s) ==
  /\ save[s].at = "applying"
  /\ \/ engine = NoEngine /\ Answered(s) /\ UNCHANGED offset
     \/ engine # NoEngine /\ SaveGoes(s, "opening") /\ offset' = save[s].wanted.delay
  /\ UNCHANGED <<processVars, fileVars, shownVars, engine, startVars>>

\* Mutant: the file itself is truncated and written.
SaveOpensInPlace(s) ==
  /\ save[s].at = "opening"
  /\ SaveHolds(s, "writing in place", conf)
  /\ bytes' = [bytes EXCEPT ![conf] = Empty]
  /\ UNCHANGED <<processVars, conf, temp, truncated, shownVars, engineVars, startVars>>

\* write_atomically: the sibling is created, or truncated when it is there; the
\* directory may not be writable.
SaveOpens(s) ==
  /\ save[s].at = "opening"
  /\ \/ SaveGoes(s, "falling back") /\ UNCHANGED <<temp, bytes>>
     \/ \E i \in Inodes :
          /\ IF temp # NoFile THEN i = temp
             ELSE i # conf /\ \A t \in Savers : save[t].out # i
          /\ temp' = i /\ bytes' = [bytes EXCEPT ![i] = Empty]
          /\ SaveHolds(s, "writing", i)
  /\ UNCHANGED <<processVars, conf, truncated, shownVars, engineVars, startVars>>

\* A stream into an inode another stream has filled may leave parts of both.
Overlays(i, c) == IF bytes[i] = Empty THEN {Written(c)} ELSE {Written(c), Garbled}

SaveWrites(s) ==
  /\ save[s].at = "writing"
  /\ \/ \E b \in Overlays(save[s].out, save[s].wanted) :
          bytes' = [bytes EXCEPT ![save[s].out] = b] /\ SaveCloses(s, "renaming")
     \/ bytes' = [bytes EXCEPT ![save[s].out] = Garbled] /\ SaveCloses(s, "falling back")
  /\ UNCHANGED <<processVars, conf, temp, truncated, shownVars, engineVars, startVars>>

\* An inode that nothing names or has open is free; its bytes are gone.
Freed(i, content) ==
  IF i = NoFile \/ \E t \in Savers : save[t].out = i THEN content
  ELSE [content EXCEPT ![i] = Empty]

\* The rename fails when another save has renamed the sibling away.
SaveRenames(s) ==
  /\ save[s].at = "renaming"
  /\ \/ /\ temp # NoFile /\ conf' = temp /\ temp' = NoFile
        /\ bytes' = Freed(conf, bytes) /\ SaveGoes(s, "publishing")
     \/ temp = NoFile /\ SaveGoes(s, "falling back") /\ UNCHANGED <<conf, temp, bytes>>
  /\ UNCHANGED <<processVars, truncated, shownVars, engineVars, startVars>>

\* The fallback: the sibling is removed and the file truncated, or not opened.
SaveFallsBack(s) ==
  /\ save[s].at = "falling back" /\ temp' = NoFile
  /\ \/ /\ bytes' = [Freed(temp, bytes) EXCEPT ![conf] = Empty] /\ truncated' = TRUE
        /\ SaveHolds(s, "writing in place", conf)
     \/ Answered(s) /\ bytes' = Freed(temp, bytes) /\ UNCHANGED truncated
  /\ UNCHANGED <<processVars, conf, shownVars, engineVars, startVars>>

SaveWritesInPlace(s) ==
  /\ save[s].at = "writing in place"
  /\ \/ \E b \in Overlays(save[s].out, save[s].wanted) :
          bytes' = [bytes EXCEPT ![save[s].out] = b] /\ SaveCloses(s, "publishing")
     \/ bytes' = [bytes EXCEPT ![save[s].out] = Garbled] /\ Answered(s)
  /\ UNCHANGED <<processVars, conf, temp, truncated, shownVars, engineVars, startVars>>

\* Mutant: the running configuration keeps its old offset.
SavePublishesListOnly(s) ==
  /\ save[s].at = "publishing" /\ Answered(s)
  /\ pending' = save[s].restart /\ UNCHANGED config
  /\ UNCHANGED <<processVars, fileVars, engineVars, startVars>>

\* Under ApiServer's mutex: the live field, and the list the status page shows.
SavePublishes(s) ==
  /\ save[s].at = "publishing" /\ Answered(s)
  /\ config' = IF save[s].live THEN [config EXCEPT !.delay = save[s].wanted.delay]
               ELSE config
  /\ pending' = save[s].restart
  /\ UNCHANGED <<processVars, fileVars, engineVars, startVars>>

\* POST /api/egress/delay moves the engine's offset and nothing else.
Dial(delay) ==
  /\ engine # NoEngine /\ offset' = delay /\ AllDisturbed
  /\ UNCHANGED <<processVars, fileVars, shownVars, engine, startVars>>

SaveStep(s) ==
  \/ SaveApplies(s) \/ SaveOpens(s) \/ SaveWrites(s) \/ SaveRenames(s)
  \/ SaveFallsBack(s) \/ SaveWritesInPlace(s) \/ SavePublishes(s)

ControlNext ==
  \/ \E f \in BOOLEAN : Boot(f)
  \/ Crash \/ Restart \/ StartLoads \/ StartAssigns \/ StartPrepares
  \/ \E d \in Dials : Dial(d)
  \/ \E s \in Savers :
       \/ \E b \in Bodies : SaveRefused(s, b) \/ SaveAccepted(s, b)
       \/ SaveStep(s)

ControlSpec == ControlInit /\ [][ControlNext]_vars

----------------------------------------------------------------------------
(* Properties *)

(* "A half-written file is an appliance that will not start, so the new    *)
(* document goes to a sibling and a rename (atomic within a filesystem)    *)
(* puts it in place" (api_server.cpp:60-64): as long as no save had to     *)
(* write the file in place, a process killed at any step finds a file it   *)
(* loads.                                                                  *)
FileSurvivesACrash == ~truncated => LoadsFrom(conf)

(* "file and running state agree on the field that did apply"              *)
(* (api_server.cpp:711): when a save that no start and no dial disturbed   *)
(* is answered, the file, the Config and the engine have the same offset,  *)
(* and pending_restart names exactly the other sections in which the file  *)
(* and the Config differ.                                                  *)
SaveLeavesAgreement ==
  [][\A s \in Savers :
       (save[s].at = "publishing" /\ save'[s].at = "idle" /\ up' # "down"
         /\ ~save[s].disturbed) =>
         /\ save[s].live => bytes'[conf'].delay = config'.delay /\ config'.delay = offset'
         /\ pending' = Differing(ReadConfig(bytes'[conf']), config')]_vars

(* "Validated configurations cannot be here" (engine.cpp:152): a start     *)
(* whose file was accepted is refused by prepare only for want of libopus, *)
(* or when the latency is less than half a period of an Opus block.        *)
AcceptedIsPrepared ==
  startAt = "preparing" /\ ~Prepares(config) =>
    CarriesOpus(config) /\ (~HasOpus \/ 2 * config.latency * MsFrames < config.period)

=============================================================================
