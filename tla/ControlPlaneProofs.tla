------------------------ MODULE ControlPlaneProofs --------------------------
(***************************************************************************)
(* Proofs about the configuration and its four places, for any documents   *)
(* posted and any order of saves, dials, starts and crashes.  What prepare *)
(* refuses is proved for any number of threads that save; what the file    *)
(* holds and what a save leaves, for one thread at a time.                 *)
(***************************************************************************)
EXTENDS ControlPlane, FiniteSetTheorems, TLAPS

(* Two saves at once share one sibling file (api_server.cpp:66), and one   *)
(* may rename what the other is still writing.                             *)
SoleSaver == \A s, t \in Savers : s = t

----------------------------------------------------------------------------
(* The invariant *)

\* The configurations an accepted document is read as.
Configs == {ReadConfig(b) : b \in {d \in Bodies \cup {FirstFile} : Accepts(d)}}

\* What prepare looks at is legal.
Startable(c) ==
  AudioIsLegal(c) /\ LinkIsLegal(c) /\ BlocksPartitionTheDevice(c) /\ c.alarm \in Int

IsConfig(c) == c = [k \in Keys |-> c[k]]

Places == {"idle", "applying", "opening", "writing", "renaming", "falling back",
           "writing in place", "publishing"}

SaveRecords ==
  [at : Places, wanted : Configs \cup {Empty}, live : BOOLEAN, restart : SUBSET DOMAIN Sections,
   out : Inodes \cup {NoFile}, disturbed : BOOLEAN]

SaveTypeOK == save \in [Savers -> SaveRecords]

Contents == {Empty, Garbled, FirstFile} \cup Configs

(* Only what was accepted is kept, loaded and started.                     *)
KeptIsAccepted ==
  /\ conf \in Inodes /\ temp \in Inodes \cup {NoFile}
  /\ bytes \in [Inodes -> Contents]
  /\ \A s \in Savers : save[s].at # "idle" => save[s].wanted \in Configs
  /\ IsConfig(config)
  /\ startAt = "assigning" => loaded \in Configs
  /\ startAt = "preparing" => Startable(config)
  /\ up = "down" => \A s \in Savers : save[s].at = "idle"

KeptInv == SaveTypeOK /\ KeptIsAccepted

(* What the one thread that saves has open and has written.                *)
FileOf(s) ==
  /\ save[s].at \notin {"writing", "writing in place"} => save[s].out = NoFile
  /\ save[s].at = "writing" => temp # NoFile /\ save[s].out = temp /\ bytes[temp] = Empty
  /\ save[s].at = "renaming" => temp # NoFile /\ bytes[temp] = save[s].wanted
  /\ save[s].at = "writing in place" => truncated /\ save[s].out = conf /\ bytes[conf] = Empty
  /\ save[s].at = "publishing" => bytes[conf] = save[s].wanted

FileStands == temp # conf /\ (~truncated => bytes[conf] \in {FirstFile} \cup Configs)

FilesAreKnown == FileStands /\ \A s \in Savers : FileOf(s)

(* An undisturbed save knows what the Config and the engine have.          *)
SavesAreCurrent ==
  \A s \in Savers : save[s].at # "idle" /\ ~save[s].disturbed =>
    /\ startAt = "idle"
    /\ save[s].restart =
         Differing(save[s].wanted, config) \ (IF save[s].live THEN {"egress"} ELSE {})
    /\ save[s].live => save[s].wanted.signal = config.signal
    /\ save[s].live /\ save[s].at # "applying" => offset = save[s].wanted.delay

SaveInv == KeptInv /\ FilesAreKnown /\ SavesAreCurrent

----------------------------------------------------------------------------
(* Reading and preparing *)

LEMMA KeysAre ==
  Keys = {"version", "backend", "device", "channels", "rate", "format", "period", "periods",
          "role", "mode", "peer", "port", "latency", "alarm", "passphrase", "linkBlocks",
          "receiveBuffer", "flowWindow", "daemonAddress", "daemonPort", "daemonFake", "delay",
          "signal", "httpAddress", "httpPort", "blocks"}
<1>1. DOMAIN Defaults =
        {"version", "backend", "device", "channels", "rate", "format", "period", "periods",
         "role", "mode", "peer", "port", "latency", "alarm", "passphrase", "linkBlocks",
         "receiveBuffer", "flowWindow", "daemonAddress", "daemonPort", "daemonFake", "delay",
         "signal", "httpAddress", "httpPort"}
  BY DEF Defaults
<1>2. QED
  BY <1>1 DEF Keys

\* The list of a configuration has whole blocks.
LEMMA BlocksAreWhole ==
  ASSUME NEW b, NEW c, c = ReadConfig(b)
  PROVE  /\ c.blocks = [i \in DOMAIN c.blocks |-> c.blocks[i]]
         /\ \A i \in DOMAIN c.blocks : c.blocks[i] = [k \in BlockKeys |-> c.blocks[i][k]]
<1>1. c.blocks = IF "blocks" \in DOMAIN b
                   THEN [i \in DOMAIN b.blocks |-> BlockRead(b.blocks[i], i)]
                   ELSE DefaultBlocks(Given(b, "linkBlocks"))
  BY KeysAre DEF ReadConfig
<1>2. CASE "blocks" \in DOMAIN b
  <2>1. c.blocks = [i \in DOMAIN b.blocks |-> BlockRead(b.blocks[i], i)]
    BY <1>1, <1>2
  <2>2. \A x, i : BlockRead(x, i) = [k \in BlockKeys |-> BlockRead(x, i)[k]]
    BY DEF BlockRead
  <2>3. ASSUME NEW i \in DOMAIN c.blocks
        PROVE  c.blocks[i] = [k \in BlockKeys |-> c.blocks[i][k]]
    <3>1. i \in DOMAIN b.blocks /\ c.blocks[i] = BlockRead(b.blocks[i], i)
      BY <2>1
    <3>2. QED
      BY <2>2, <3>1, Zenon
  <2>4. c.blocks = [i \in DOMAIN c.blocks |-> c.blocks[i]]
    BY <2>1
  <2>5. QED
    BY <2>3, <2>4, Zenon
<1>3. CASE "blocks" \notin DOMAIN b
  <2>1. PICK n : n = Given(b, "linkBlocks")
    OBVIOUS
  <2>2. c.blocks = DefaultBlocks(n)
    BY <1>1, <1>3, <2>1
  <2>3. DOMAIN DefaultBlocks(n) = 1 .. n
        /\ DefaultBlocks(n) = [i \in 1 .. n |-> DefaultBlocks(n)[i]]
    BY DEF DefaultBlocks
  <2>4. ASSUME NEW i \in 1 .. n
        PROVE  DefaultBlocks(n)[i] = [k \in BlockKeys |-> DefaultBlocks(n)[i][k]]
    <3>1. ASSUME NEW x, NEW v1, NEW v2, NEW v3, NEW v4, NEW v5, NEW v6,
                 x = [index |-> v1, gain |-> v2, mute |-> v3, codec |-> v4, bitrate |-> v5,
                      channels |-> v6]
          PROVE  x = [k \in BlockKeys |-> x[k]]
      <4>1. DOMAIN x = BlockKeys /\ x = [k \in DOMAIN x |-> x[k]]
        BY <3>1 DEF BlockKeys
      <4>2. QED
        BY <4>1
    <3>2. QED
      BY <3>1 DEF DefaultBlocks
  <2>5. QED
    BY <2>2, <2>3, <2>4
<1>4. QED
  BY <1>2, <1>3

\* A configuration kept in the file is read back as itself, and accepted.
LEMMA ConfigsReadBack ==
  ASSUME NEW c \in Configs
  PROVE  /\ IsConfig(c) /\ ReadConfig(c) = c /\ Accepts(c) /\ Startable(c)
         /\ c \notin {Empty, Garbled}
<1>1. PICK b \in Bodies \cup {FirstFile} : Accepts(b) /\ c = ReadConfig(b)
  BY DEF Configs
<1>2. /\ c \notin {Empty, Garbled} /\ c.alarm \in Int /\ \A k \in Keys : c[k] # WrongType
      /\ \A i \in DOMAIN c.blocks : \A k \in BlockKeys : c.blocks[i][k] # WrongType
  BY <1>1, DocumentsAssumption
<1>3. IsConfig(c) /\ DOMAIN c = Keys
  BY <1>1 DEF IsConfig, ReadConfig
<1>4. /\ c.blocks = [i \in DOMAIN c.blocks |-> c.blocks[i]]
      /\ \A i \in DOMAIN c.blocks : c.blocks[i] = [k \in BlockKeys |-> c.blocks[i][k]]
  BY <1>1, BlocksAreWhole
<1>5. ReadConfig(c) = c
  <2>1. ASSUME NEW i \in DOMAIN c.blocks
        PROVE  BlockRead(c.blocks[i], i) = c.blocks[i]
    <3>1. PICK x : x = c.blocks[i]
      OBVIOUS
    <3>2. x = [k \in BlockKeys |-> x[k]] /\ DOMAIN x = BlockKeys
      BY <1>4, <3>1
    <3>3. BlockRead(x, i) = x
      BY <3>2 DEF BlockRead
    <3>4. QED
      BY <3>1, <3>3
  <2>2. [i \in DOMAIN c.blocks |-> BlockRead(c.blocks[i], i)] = c.blocks
    BY <1>4, <2>1
  <2>3. \A k \in Keys : ReadConfig(c)[k] = c[k]
    BY <1>3, <2>2, Zenon DEF ReadConfig, Given
  <2>4. ReadConfig(c) = [k \in Keys |-> ReadConfig(c)[k]]
    BY DEF ReadConfig
  <2>5. QED
    BY <1>3, <2>3, <2>4 DEF IsConfig
<1>6. Readable(c)
  <2>1. \A i \in DOMAIN c.blocks : BlockIsReadable(c.blocks[i])
    <3>1. SUFFICES ASSUME NEW i \in DOMAIN c.blocks PROVE BlockIsReadable(c.blocks[i])
      OBVIOUS
    <3>2. DOMAIN c.blocks[i] = BlockKeys /\ "channels" \in BlockKeys
      BY <1>4 DEF BlockKeys
    <3>3. QED
      BY <1>2, <3>2 DEF BlockIsReadable
  <2>2. QED
    BY <1>2, <1>3, <2>1 DEF Readable
<1>7. Valid(c)
  BY <1>1 DEF Accepts
<1>8. QED
  BY <1>2, <1>3, <1>5, <1>6, <1>7 DEF Accepts, Valid, Startable

\* periods_for_ms, rounded to the nearest, keeps an order and never takes a time away
\* that is half a period long.
LEMMA PeriodsKeepOrder ==
  ASSUME NEW c, c.period \in OpusFrames \cup {MsFrames}, NEW a \in Int, NEW b \in Int,
         0 < a, a < b
  PROVE  /\ PeriodsFor(a, c) \in Nat /\ PeriodsFor(b, c) \in Nat
         /\ PeriodsFor(a, c) <= PeriodsFor(b, c)
         /\ PeriodsFor(a, c) = 0 => 2 * a * MsFrames < c.period
         /\ c.period = MsFrames => PeriodsFor(a, c) # 0
<1>1. \A p \in {48, 120, 240, 480, 960, 1920, 2880} : \A x \in Int : 0 < x =>
        /\ (2 * x * 48 + p) \div (2 * p) \in Nat
        /\ (2 * x * 48 + p) \div (2 * p) = 0 => 2 * x * 48 < p
  BY SMT
<1>2. ASSUME NEW p \in {48, 120, 240, 480, 960, 1920, 2880}
      PROVE  (2 * a * 48 + p) \div (2 * p) <= (2 * b * 48 + p) \div (2 * p)
  BY SMT
<1>3. c.period \in {48, 120, 240, 480, 960, 1920, 2880}
  BY DEF OpusFrames, MsFrames
<1>4. PeriodsFor(a, c) = (2 * a * 48 + c.period) \div (2 * c.period)
      /\ PeriodsFor(b, c) = (2 * b * 48 + c.period) \div (2 * c.period)
  BY DEF PeriodsFor, MsFrames
<1>5. c.period = MsFrames => PeriodsFor(a, c) # 0
  BY <1>1, <1>3, <1>4 DEF MsFrames
<1>6. QED
  BY <1>1, <1>2, <1>3, <1>4, <1>5 DEF MsFrames

\* Eight channels to a block leave none over.
LEMMA BlocksFillTheDevice ==
  ASSUME NEW n \in 8 .. 64, n % BlockChannels = 0
  PROVE  (n \div BlockChannels) * BlockChannels = n
<1>1. \A m \in Int : m % 8 = 0 => (m \div 8) * 8 = m
  BY SMT
<1>2. n \in Int
  BY SMT
<1>3. QED
  BY <1>1, <1>2, Zenon DEF BlockChannels

LEMMA LinkNumbers ==
  ASSUME NEW c, LinkIsLegal(c), c.alarm \in Int
  PROVE  /\ c.linkBlocks = c.channels \div BlockChannels
         /\ c.latency \in Int /\ 0 < c.latency /\ c.latency < c.alarm
<1>1. c.latency \in Latencies /\ c.alarm > c.latency
  BY Zenon DEF LinkIsLegal
<1>2. c.linkBlocks = c.channels \div BlockChannels
  BY Zenon DEF LinkIsLegal
<1>3. ASSUME NEW x \in Latencies, NEW y \in Int, y > x
      PROVE  x \in Int /\ 0 < x /\ x < y
  BY <1>3 DEF Latencies
<1>4. QED
  BY <1>1, <1>2, <1>3, Zenon

\* What is legal is prepared, but for the two cases.
LEMMA LegalIsPrepared ==
  ASSUME NEW c, Startable(c), ~Prepares(c)
  PROVE  CarriesOpus(c) /\ (~HasOpus \/ 2 * c.latency * MsFrames < c.period)
<1>0. LinkIsLegal(c) /\ c.alarm \in Int
  BY Zenon DEF Startable
<1>1. IF CarriesOpus(c) THEN c.period \in OpusFrames ELSE c.period = MsFrames
  BY Zenon DEF Startable, AudioIsLegal
<1>2. Len(c.blocks) * BlockChannels = c.channels
  <2>1. c.channels \in 8 .. 64 /\ c.channels % BlockChannels = 0
    BY Zenon DEF Startable, AudioIsLegal
  <2>2. Len(c.blocks) = c.linkBlocks
    BY Zenon DEF Startable, BlocksPartitionTheDevice
  <2>3. c.linkBlocks = c.channels \div BlockChannels
    BY <1>0, LinkNumbers, Zenon
  <2>4. (c.channels \div BlockChannels) * BlockChannels = c.channels
    BY <2>1, BlocksFillTheDevice, Zenon
  <2>5. QED
    BY <2>2, <2>3, <2>4, Zenon
<1>3. c.period \in OpusFrames \cup {MsFrames}
  BY <1>1, Zenon
<1>4. /\ PeriodsFor(c.latency, c) \in Nat /\ PeriodsFor(c.alarm, c) \in Nat
      /\ PeriodsFor(c.latency, c) <= PeriodsFor(c.alarm, c)
      /\ PeriodsFor(c.latency, c) = 0 => 2 * c.latency * MsFrames < c.period
      /\ c.period = MsFrames => PeriodsFor(c.latency, c) # 0
  <2>1. c.latency \in Int /\ 0 < c.latency /\ c.latency < c.alarm
    BY <1>0, LinkNumbers, Zenon
  <2>2. QED
    BY <1>0, <1>3, <2>1, PeriodsKeepOrder, Zenon
<1>5. 2 * PeriodsFor(c.alarm, c) + 1 > PeriodsFor(c.alarm, c) + PeriodsFor(c.latency, c)
  BY <1>4
<1>6. CASE \E i \in DOMAIN c.blocks : ~CodecOpens(c.blocks[i], c)
  <2>1. PICK i \in DOMAIN c.blocks : c.blocks[i].codec = "opus" /\ ~(HasOpus /\ c.period >= 120)
    BY <1>6 DEF CodecOpens
  <2>2. CarriesOpus(c)
    BY <2>1 DEF CarriesOpus
  <2>3. c.period >= 120
    BY <1>1, <2>2 DEF OpusFrames
  <2>4. QED
    BY <2>1, <2>2, <2>3
<1>7. CASE PeriodsFor(c.latency, c) = 0
  BY <1>1, <1>4, <1>7
<1>8. QED
  BY <1>2, <1>5, <1>6, <1>7 DEF Prepares


----------------------------------------------------------------------------
(* What a save's steps do to the table of saves *)

Unmoved(s) == \A t \in Savers \ {s} : save'[t] = save[t]
SameOrder(s) ==
  /\ save'[s].wanted = save[s].wanted /\ save'[s].live = save[s].live
  /\ save'[s].restart = save[s].restart /\ save'[s].disturbed = save[s].disturbed

LEMMA SaveFields ==
  ASSUME SaveTypeOK, NEW s \in Savers
  PROVE  /\ save[s] \in SaveRecords
         /\ save[s].at \in Places /\ save[s].wanted \in Configs \cup {Empty}
         /\ save[s].live \in BOOLEAN /\ save[s].restart \in SUBSET DOMAIN Sections
         /\ save[s].out \in Inodes \cup {NoFile} /\ save[s].disturbed \in BOOLEAN
<1>1. save[s] \in SaveRecords
  BY DEF SaveTypeOK
<1>2. QED
  BY <1>1 DEF SaveRecords

LEMMA SaveBecomes ==
  ASSUME SaveTypeOK, NEW s \in Savers, NEW r \in SaveRecords, save' = [save EXCEPT ![s] = r]
  PROVE  SaveTypeOK' /\ save'[s] = r /\ Unmoved(s)
BY DEF SaveTypeOK, Unmoved

LEMMA HoldsBecomes ==
  ASSUME SaveTypeOK, NEW s \in Savers, NEW p \in Places, NEW i \in Inodes \cup {NoFile},
         SaveHolds(s, p, i)
  PROVE  SaveTypeOK' /\ save'[s].at = p /\ save'[s].out = i /\ SameOrder(s) /\ Unmoved(s)
<1>1. PICK r : r = [save[s] EXCEPT !.at = p, !.out = i]
  OBVIOUS
<1>2. save[s] \in SaveRecords
  BY SaveFields
<1>3. r \in SaveRecords
  BY <1>1, <1>2 DEF SaveRecords
<1>4. save' = [save EXCEPT ![s] = r]
  BY <1>1 DEF SaveHolds, SaveTypeOK
<1>5. SaveTypeOK' /\ save'[s] = r /\ Unmoved(s)
  BY <1>3, <1>4, SaveBecomes
<1>6. r.at = p /\ r.out = i /\ r.wanted = save[s].wanted /\ r.live = save[s].live
      /\ r.restart = save[s].restart /\ r.disturbed = save[s].disturbed
  BY <1>1, <1>2 DEF SaveRecords
<1>7. QED
  BY <1>5, <1>6, Zenon DEF SameOrder

LEMMA GoesBecomes ==
  ASSUME SaveTypeOK, NEW s \in Savers, NEW p \in Places, SaveGoes(s, p)
  PROVE  /\ SaveTypeOK' /\ save'[s].at = p /\ save'[s].out = save[s].out
         /\ SameOrder(s) /\ Unmoved(s)
<1>1. PICK r : r = [save[s] EXCEPT !.at = p]
  OBVIOUS
<1>2. save[s] \in SaveRecords
  BY SaveFields
<1>3. r \in SaveRecords
  BY <1>1, <1>2 DEF SaveRecords
<1>4. save' = [save EXCEPT ![s] = r]
  BY <1>1 DEF SaveGoes, SaveTypeOK
<1>5. SaveTypeOK' /\ save'[s] = r /\ Unmoved(s)
  BY <1>3, <1>4, SaveBecomes
<1>6. r.at = p /\ r.out = save[s].out /\ r.wanted = save[s].wanted /\ r.live = save[s].live
      /\ r.restart = save[s].restart /\ r.disturbed = save[s].disturbed
  BY <1>1, <1>2 DEF SaveRecords
<1>7. QED
  BY <1>5, <1>6, Zenon DEF SameOrder

LEMMA NoSaveIsOne ==
  NoSave \in SaveRecords /\ NoSave.at = "idle" /\ NoSave.out = NoFile
<1>1. "idle" \in Places /\ FALSE \in BOOLEAN /\ {} \in SUBSET DOMAIN Sections
  BY DEF Places
<1>2. QED
  BY <1>1 DEF NoSave, SaveRecords, NoFile

LEMMA AnsweredBecomes ==
  ASSUME SaveTypeOK, NEW s \in Savers, Answered(s)
  PROVE  SaveTypeOK' /\ save'[s].at = "idle" /\ save'[s].out = NoFile /\ Unmoved(s)
<1>1. SaveTypeOK' /\ save'[s] = NoSave /\ Unmoved(s)
  BY NoSaveIsOne, SaveBecomes DEF Answered
<1>2. QED
  BY <1>1, NoSaveIsOne

LEMMA DisturbedBecomes ==
  ASSUME SaveTypeOK, AllDisturbed
  PROVE  /\ SaveTypeOK'
         /\ \A t \in Savers : /\ save'[t].at = save[t].at /\ save'[t].wanted = save[t].wanted
                              /\ save'[t].out = save[t].out
                              /\ save[t].at # "idle" => save'[t].disturbed
<1>1. ASSUME NEW t \in Savers
      PROVE  /\ save'[t] \in SaveRecords /\ save'[t].at = save[t].at
             /\ save'[t].wanted = save[t].wanted /\ save'[t].out = save[t].out
             /\ save[t].at # "idle" => save'[t].disturbed
  <2>1. PICK r, v : r = save[t] /\ v = (r.at # "idle")
    OBVIOUS
  <2>2. r \in SaveRecords /\ v \in BOOLEAN
    BY <2>1, SaveFields
  <2>3. save'[t] = [r EXCEPT !.disturbed = v]
    BY <2>1 DEF AllDisturbed
  <2>4. QED
    BY <2>1, <2>2, <2>3 DEF SaveRecords
<1>2. save' = [t \in Savers |-> save'[t]]
  BY DEF AllDisturbed
<1>3. SaveTypeOK'
  BY <1>1, <1>2 DEF SaveTypeOK
<1>4. QED
  BY <1>1, <1>3

----------------------------------------------------------------------------
(* Only what was accepted is kept, loaded and started *)

LEMMA InodesAre == Inodes \subseteq Nat /\ 1 \in Inodes /\ NoFile \notin Inodes
<1>1. Cardinality(Savers) \in Nat
  BY SaversAssumption, FS_CardinalityType
<1>2. QED
  BY <1>1 DEF Inodes, NoFile

LEMMA ConfigFields ==
  ASSUME NEW c, IsConfig(c)
  PROVE  DOMAIN c = Keys
BY DEF IsConfig

\* What a start looks at does not name the A/V offset.
LEMMA DelayIsNotStarted ==
  ASSUME NEW c, IsConfig(c), NEW d, NEW e, e = [c EXCEPT !.delay = d]
  PROVE  /\ IsConfig(e) /\ e.delay = d /\ \A k \in Keys \ {"delay"} : e[k] = c[k]
         /\ Startable(c) => Startable(e)
<1>1. DOMAIN c = Keys /\ "delay" \in Keys
  BY KeysAre DEF IsConfig
<1>2. e.delay = d /\ \A k \in Keys \ {"delay"} : e[k] = c[k]
  BY <1>1
<1>3. IsConfig(e)
  BY <1>1 DEF IsConfig
<1>4. /\ e.version = c.version /\ e.backend = c.backend /\ e.device = c.device
      /\ e.rate = c.rate /\ e.channels = c.channels /\ e.format = c.format
      /\ e.period = c.period /\ e.periods = c.periods /\ e.blocks = c.blocks
      /\ e.role = c.role /\ e.mode = c.mode /\ e.peer = c.peer /\ e.port = c.port
      /\ e.latency = c.latency /\ e.alarm = c.alarm /\ e.passphrase = c.passphrase
      /\ e.linkBlocks = c.linkBlocks /\ e.receiveBuffer = c.receiveBuffer
      /\ e.flowWindow = c.flowWindow
  BY <1>2, KeysAre
<1>5. AudioIsLegal(c) => AudioIsLegal(e)
  <2>1. CarriesOpus(c) <=> CarriesOpus(e)
    BY <1>4, Zenon DEF CarriesOpus
  <2>2. QED
    <3>1. SUFFICES ASSUME AudioIsLegal(c) PROVE AudioIsLegal(e)
      OBVIOUS
    <3>2. /\ e.version = 1 /\ e.backend \in {"ravenna", "null", "coreaudio", "hal"}
          /\ e.device # "" /\ e.rate = SampleRate
      BY <1>4, <3>1, Zenon DEF AudioIsLegal
    <3>3. /\ e.channels \in 8 .. 64 /\ e.channels % BlockChannels = 0
          /\ e.format \in {"s24_3le", "s16_le"} /\ e.periods \in 2 .. 64
      BY <1>4, <3>1, Zenon DEF AudioIsLegal
    <3>4. IF CarriesOpus(e) THEN e.period \in OpusFrames ELSE e.period = MsFrames
      BY <1>4, <2>1, <3>1, Zenon DEF AudioIsLegal
    <3>5. QED
      BY <3>2, <3>3, <3>4, Zenon DEF AudioIsLegal
<1>6. LinkIsLegal(c) => LinkIsLegal(e)
  BY <1>4, Zenon DEF LinkIsLegal
<1>7. BlocksPartitionTheDevice(c) => BlocksPartitionTheDevice(e)
  <2> DEFINE Partition(blocks, count, channels) ==
               /\ Len(blocks) = count
               /\ \A i \in DOMAIN blocks : Len(blocks[i].channels) = BlockChannels
               /\ {blocks[i].index : i \in DOMAIN blocks} = 0 .. count - 1
               /\ {blocks[s[1]].channels[s[2]] : s \in (DOMAIN blocks) \X (1 .. BlockChannels)}
                    = 0 .. channels - 1
               /\ \A i \in DOMAIN blocks : BlockIsLegal(blocks[i])
  <2>1. \A x : BlocksPartitionTheDevice(x) <=> Partition(x.blocks, x.linkBlocks, x.channels)
    BY Zenon DEF BlocksPartitionTheDevice
  <2> HIDE DEF Partition
  <2>2. QED
    BY <1>4, <2>1, Zenon
<1>8. QED
  BY <1>2, <1>3, <1>4, <1>5, <1>6, <1>7, Zenon DEF Startable

LEMMA ConfigsAreRead ==
  /\ \A b : IsConfig(ReadConfig(b))
  /\ \A c : IsConfig(c) => IsConfig(Faked(c))
  /\ \A b \in Bodies \cup {FirstFile} : Accepts(b) => ReadConfig(b) \in Configs
<1>1. \A b : IsConfig(ReadConfig(b))
  BY DEF IsConfig, ReadConfig
<1>2. \A c : IsConfig(c) => IsConfig(Faked(c))
  BY DEF IsConfig, Faked
<1>3. QED
  BY <1>1, <1>2 DEF Configs

\* What a file that loads is read as.
LEMMA LoadedIsAConfig ==
  ASSUME KeptInv, LoadsFrom(conf)
  PROVE  ReadConfig(bytes[conf]) \in Configs
<1>1. bytes[conf] \in Contents \ {Empty, Garbled}
  BY DEF KeptInv, KeptIsAccepted, LoadsFrom
<1>2. CASE bytes[conf] = FirstFile
  BY <1>2, DocumentsAssumption, ConfigsAreRead
<1>3. CASE bytes[conf] \in Configs
  BY <1>3, ConfigsReadBack
<1>4. QED
  BY <1>1, <1>2, <1>3 DEF Contents

LEMMA ContentsKept ==
  ASSUME NEW f \in [Inodes -> Contents], NEW i
  PROVE  /\ \A b \in Contents : [f EXCEPT ![i] = b] \in [Inodes -> Contents]
         /\ Freed(i, f) \in [Inodes -> Contents]
<1>1. \A b \in Contents : [f EXCEPT ![i] = b] \in [Inodes -> Contents]
  OBVIOUS
<1>2. Empty \in Contents
  BY DEF Contents
<1>3. QED
  BY <1>1, <1>2 DEF Freed

\* A step of a save, but the assignment of the offset.
LEMMA KeptBySave ==
  ASSUME KeptInv, NEW s \in Savers, save[s].at # "idle" \/ up # "down",
         SaveTypeOK', Unmoved(s), save'[s].at # "idle" => save'[s].wanted \in Configs,
         conf' \in Inodes, temp' \in Inodes \cup {NoFile}, bytes' \in [Inodes -> Contents],
         UNCHANGED <<up, config, startAt, loaded>>
  PROVE  KeptInv'
<1>1. up # "down"
  BY DEF KeptInv, KeptIsAccepted
<1>2. \A t \in Savers : save'[t].at # "idle" => save'[t].wanted \in Configs
  BY DEF Unmoved, KeptInv, KeptIsAccepted
<1>3. QED
  BY <1>1, <1>2 DEF KeptInv, KeptIsAccepted

LEMMA KeptInit ==
  ASSUME ControlInit
  PROVE  KeptInv
<1>1. SaveTypeOK /\ \A s \in Savers : save[s].at = "idle"
  BY NoSaveIsOne DEF ControlInit, SaveTypeOK
<1>2. conf \in Inodes /\ temp \in Inodes \cup {NoFile}
  BY InodesAre DEF ControlInit
<1>3. bytes \in [Inodes -> Contents]
  BY DEF ControlInit, Contents
<1>4. IsConfig(config)
  BY ConfigsAreRead DEF ControlInit
<1>5. startAt = "idle"
  BY DEF ControlInit
<1>6. QED
  BY <1>1, <1>2, <1>3, <1>4, <1>5 DEF KeptInv, KeptIsAccepted

LEMMA KeptBoot ==
  ASSUME KeptInv, NEW f \in BOOLEAN, Boot(f)
  PROVE  KeptInv'
<1>1. IsConfig(config')
  BY ConfigsAreRead DEF Boot
<1>2. UNCHANGED <<conf, temp, bytes, save>> /\ startAt' = "loading" /\ up' = "starting"
  BY DEF Boot, fileVars
<1>3. QED
  BY <1>1, <1>2 DEF KeptInv, KeptIsAccepted, SaveTypeOK

LEMMA KeptProcessEnds ==
  ASSUME KeptInv, ProcessEnds, UNCHANGED fileVars
  PROVE  KeptInv'
<1>1. SaveTypeOK' /\ \A s \in Savers : save'[s].at = "idle"
  BY NoSaveIsOne DEF ProcessEnds, SaveTypeOK
<1>2. IsConfig(config')
  BY ConfigsAreRead DEF ProcessEnds
<1>3. startAt' = "idle"
  BY DEF ProcessEnds
<1>4. UNCHANGED <<conf, temp, bytes>>
  BY DEF fileVars
<1>5. QED
  BY <1>1, <1>2, <1>3, <1>4 DEF KeptInv, KeptIsAccepted

\* A step that disturbs the saves and writes no file.
LEMMA KeptByDisturbance ==
  ASSUME KeptInv, AllDisturbed, UNCHANGED fileVars, IsConfig(config'),
         startAt' = "assigning" => loaded' \in Configs,
         startAt' = "preparing" => Startable(config'),
         up' = "down" => up = "down"
  PROVE  KeptInv'
<1>1. SaveTypeOK' /\ \A t \in Savers : save'[t].at = save[t].at
                                        /\ save'[t].wanted = save[t].wanted
  BY DisturbedBecomes DEF KeptInv
<1>2. UNCHANGED <<conf, temp, bytes>>
  BY DEF fileVars
<1>3. QED
  BY <1>1, <1>2 DEF KeptInv, KeptIsAccepted

LEMMA KeptStart ==
  ASSUME KeptInv, StartLoads \/ StartAssigns \/ StartPrepares
  PROVE  KeptInv'
<1>0. IsConfig(config) /\ startAt = "assigning" => loaded \in Configs
  BY DEF KeptInv, KeptIsAccepted
<1>1. ASSUME StartRefused, UNCHANGED fileVars
      PROVE  KeptInv'
  <2>1. CASE up = "starting" /\ ProcessEnds
    BY <1>1, <2>1, KeptProcessEnds
  <2>2. CASE up = "up" /\ startAt' = "idle" /\ AllDisturbed
             /\ UNCHANGED <<processVars, shownVars, engineVars, loaded>>
    <3>1. UNCHANGED <<up, config>>
      BY <2>2 DEF processVars, shownVars
    <3>2. QED
      BY <1>0, <1>1, <2>2, <3>1, KeptByDisturbance DEF KeptInv, KeptIsAccepted
  <2>3. QED
    BY <1>1, <2>1, <2>2 DEF StartRefused
<1>2. CASE StartLoads
  <2>1. CASE LoadsFrom(conf) /\ loaded' = ReadConfig(bytes[conf]) /\ startAt' = "assigning"
             /\ AllDisturbed /\ UNCHANGED <<processVars, shownVars, engineVars>>
    <3>1. loaded' \in Configs
      BY <2>1, LoadedIsAConfig
    <3>2. UNCHANGED <<up, config>>
      BY <2>1 DEF processVars, shownVars
    <3>3. UNCHANGED fileVars
      BY <1>2 DEF StartLoads
    <3>4. QED
      BY <2>1, <3>1, <3>2, <3>3, KeptByDisturbance DEF KeptInv, KeptIsAccepted
  <2>2. CASE ~LoadsFrom(conf) /\ StartRefused
    BY <1>1, <1>2, <2>2 DEF StartLoads
  <2>3. QED
    BY <1>2, <2>1, <2>2 DEF StartLoads
<1>3. CASE StartAssigns
  <2>1. loaded \in Configs
    BY <1>3 DEF StartAssigns, KeptInv, KeptIsAccepted
  <2>2. config' = loaded /\ startAt' = "preparing" /\ AllDisturbed
        /\ UNCHANGED <<up, fileVars>>
    BY <1>3 DEF StartAssigns, processVars
  <2>3. IsConfig(config') /\ Startable(config')
    BY <2>1, <2>2, ConfigsReadBack
  <2>4. QED
    BY <2>2, <2>3, KeptByDisturbance
<1>4. CASE StartPrepares
  <2>1. CASE Prepares(config) /\ up' = "up" /\ startAt' = "idle" /\ AllDisturbed
             /\ UNCHANGED <<fake, shownVars, loaded>>
    <3>1. UNCHANGED config
      BY <2>1 DEF shownVars
    <3>2. UNCHANGED fileVars
      BY <1>4 DEF StartPrepares
    <3>3. QED
      BY <2>1, <3>1, <3>2, KeptByDisturbance DEF KeptInv, KeptIsAccepted
  <2>2. CASE ~Prepares(config) /\ StartRefused
    BY <1>1, <1>4, <2>2 DEF StartPrepares
  <2>3. QED
    BY <1>4, <2>1, <2>2 DEF StartPrepares
<1>5. QED
  BY <1>2, <1>3, <1>4

LEMMA KeptRestartDial ==
  ASSUME KeptInv, Restart \/ \E d \in Dials : Dial(d)
  PROVE  KeptInv'
<1>1. CASE Restart
  <2>1. UNCHANGED <<up, config, fileVars>> /\ AllDisturbed /\ startAt' = "loading"
    BY <1>1 DEF Restart, processVars, shownVars
  <2>2. QED
    BY <2>1, KeptByDisturbance DEF KeptInv, KeptIsAccepted
<1>2. CASE \E d \in Dials : Dial(d)
  <2>1. UNCHANGED <<up, config, fileVars, startAt, loaded>> /\ AllDisturbed
    BY <1>2 DEF Dial, processVars, shownVars, startVars
  <2>2. QED
    BY <2>1, KeptByDisturbance DEF KeptInv, KeptIsAccepted
<1>3. QED
  BY <1>1, <1>2

\* The order an accepted document gives, from one copy of the Config.
LEMMA AcceptedBecomes ==
  ASSUME KeptInv, NEW s \in Savers, NEW body \in Bodies, SaveAccepted(s, body)
  PROVE  /\ SaveTypeOK' /\ Unmoved(s)
         /\ save'[s].wanted = ReadConfig(body) /\ save'[s].wanted \in Configs
         /\ save'[s].out = NoFile
         /\ save'[s].disturbed <=> startAt # "idle"
         /\ save'[s].at \in {"applying", "opening"}
         /\ save'[s].at = "applying" <=> save'[s].live
         /\ \E running \in Copies :
              /\ save'[s].live => save'[s].wanted.signal = running.signal
              /\ save'[s].restart = Differing(save'[s].wanted, running)
                                      \ (IF save'[s].live THEN {"egress"} ELSE {})
<1>1. PICK running \in Copies :
        LET new == ReadConfig(body)
            moved == Differing(new, running)
            isLive == "egress" \in moved /\ new.signal = running.signal
        IN save' = [save EXCEPT
                     ![s] = [at |-> IF isLive THEN "applying" ELSE "opening",
                             wanted |-> new, live |-> isLive,
                             restart |-> moved \ (IF isLive THEN {"egress"} ELSE {}),
                             out |-> NoFile, disturbed |-> startAt # "idle"]]
  BY DEF SaveAccepted
<1>2. PICK new, moved, l, w :
        /\ new = ReadConfig(body) /\ moved = Differing(new, running)
        /\ l = ("egress" \in moved /\ new.signal = running.signal)
        /\ w = (startAt # "idle")
  OBVIOUS
<1>3. PICK p, q : p = (IF l THEN "applying" ELSE "opening")
                  /\ q = moved \ (IF l THEN {"egress"} ELSE {})
  OBVIOUS
<1>4. PICK r : r = [at |-> p, wanted |-> new, live |-> l, restart |-> q, out |-> NoFile,
                    disturbed |-> w]
  OBVIOUS
<1>5. save' = [save EXCEPT ![s] = r]
  BY <1>1, <1>2, <1>3, <1>4, Zenon
<1>6. new \in Configs
  BY <1>2, ConfigsAreRead DEF SaveAccepted
<1>7. l \in BOOLEAN /\ w \in BOOLEAN
  BY <1>2, Zenon
<1>8. p \in {"applying", "opening"} /\ (p = "applying" <=> l)
  BY <1>3, <1>7
<1>9. q \in SUBSET DOMAIN Sections
  BY <1>2, <1>3 DEF Differing
<1>10. p \in Places
  BY <1>8 DEF Places
<1>11. r \in SaveRecords
  BY <1>4, <1>6, <1>7, <1>9, <1>10 DEF SaveRecords
<1>12. SaveTypeOK' /\ save'[s] = r /\ Unmoved(s)
  BY <1>5, <1>11, SaveBecomes DEF KeptInv
<1>13. /\ r.at = p /\ r.wanted = new /\ r.live = l /\ r.restart = q /\ r.out = NoFile
       /\ r.disturbed = w
  BY <1>4
<1>14. l => new.signal = running.signal
  BY <1>2, Zenon
<1>15. /\ save'[s].live => save'[s].wanted.signal = running.signal
       /\ save'[s].restart = Differing(save'[s].wanted, running)
                               \ (IF save'[s].live THEN {"egress"} ELSE {})
  BY <1>2, <1>3, <1>12, <1>13, <1>14, Zenon
<1>16. save'[s].disturbed <=> startAt # "idle"
  BY <1>2, <1>12, <1>13, Zenon
<1>17. QED
  BY <1>2, <1>6, <1>8, <1>12, <1>13, <1>15, <1>16, Zenon

LEMMA KeptNewSave ==
  ASSUME KeptInv, NEW s \in Savers, NEW b \in Bodies, SaveRefused(s, b) \/ SaveAccepted(s, b)
  PROVE  KeptInv'
<1>0. bytes \in [Inodes -> Contents] /\ conf \in Inodes /\ temp \in Inodes \cup {NoFile}
  BY DEF KeptInv, KeptIsAccepted
<1>1. CASE SaveRefused(s, b)
  <2>1. SaveTypeOK' /\ save'[s].at = "idle" /\ Unmoved(s)
    BY <1>1, AnsweredBecomes DEF SaveRefused, KeptInv
  <2>2. up # "down" /\ UNCHANGED <<conf, temp, bytes, up, config, startAt, loaded>>
    BY <1>1 DEF SaveRefused, fileVars, processVars, shownVars, startVars
  <2>3. QED
    BY <1>0, <2>1, <2>2, KeptBySave
<1>2. CASE SaveAccepted(s, b)
  <2>1. SaveTypeOK' /\ save'[s].wanted \in Configs /\ Unmoved(s)
    BY <1>2, AcceptedBecomes
  <2>2. up # "down" /\ UNCHANGED <<conf, temp, bytes, up, config, startAt, loaded>>
    BY <1>2 DEF SaveAccepted, fileVars, processVars, shownVars, startVars
  <2>3. QED
    BY <1>0, <2>1, <2>2, KeptBySave
<1>3. QED
  BY <1>1, <1>2

LEMMA PlacesAre ==
  {"idle", "applying", "opening", "writing", "renaming", "falling back",
   "writing in place", "publishing"} = Places
BY DEF Places

LEMMA OverlaysAre ==
  ASSUME KeptInv, NEW i, NEW c \in Configs
  PROVE  Overlays(i, c) \subseteq Contents /\ Empty \in Contents /\ Garbled \in Contents
BY DEF Overlays, Written, Contents

LEMMA KeptSaveStep ==
  ASSUME KeptInv, NEW s \in Savers, SaveStep(s)
  PROVE  KeptInv'
<1>0. /\ SaveTypeOK /\ bytes \in [Inodes -> Contents] /\ conf \in Inodes
      /\ temp \in Inodes \cup {NoFile} /\ IsConfig(config)
      /\ save[s].at # "idle" => save[s].wanted \in Configs
  BY DEF KeptInv, KeptIsAccepted
<1>1. CASE SaveApplies(s)
  <2>1. UNCHANGED <<conf, temp, bytes, up, config, startAt, loaded>> /\ save[s].at # "idle"
    BY <1>1 DEF SaveApplies, fileVars, processVars, shownVars, startVars
  <2>2. CASE Answered(s)
    BY <1>0, <2>1, <2>2, AnsweredBecomes, KeptBySave
  <2>3. CASE SaveGoes(s, "opening")
    <3>1. SaveTypeOK' /\ SameOrder(s) /\ Unmoved(s)
      BY <1>0, <2>3, GoesBecomes, PlacesAre
    <3>2. QED
      BY <1>0, <2>1, <3>1, KeptBySave DEF SameOrder
  <2>4. QED
    BY <1>1, <2>2, <2>3 DEF SaveApplies
<1>2. CASE SaveOpens(s)
  <2>1. UNCHANGED <<conf, up, config, startAt, loaded>> /\ save[s].at # "idle"
    BY <1>2 DEF SaveOpens, processVars, shownVars, startVars
  <2>2. CASE SaveGoes(s, "falling back") /\ UNCHANGED <<temp, bytes>>
    <3>1. SaveTypeOK' /\ SameOrder(s) /\ Unmoved(s)
      BY <1>0, <2>2, GoesBecomes, PlacesAre
    <3>2. QED
      BY <1>0, <2>1, <2>2, <3>1, KeptBySave DEF SameOrder
  <2>3. ASSUME NEW i \in Inodes, temp' = i, bytes' = [bytes EXCEPT ![i] = Empty],
               SaveHolds(s, "writing", i)
        PROVE  KeptInv'
    <3>1. SaveTypeOK' /\ SameOrder(s) /\ Unmoved(s)
      BY <1>0, <2>3, HoldsBecomes, PlacesAre
    <3>2. bytes' \in [Inodes -> Contents]
      BY <1>0, <2>3, ContentsKept DEF Contents
    <3>3. QED
      BY <1>0, <2>1, <2>3, <3>1, <3>2, KeptBySave DEF SameOrder
  <2>4. QED
    BY <1>2, <2>2, <2>3 DEF SaveOpens
<1>3. CASE SaveWrites(s)
  <2>1. UNCHANGED <<conf, temp, up, config, startAt, loaded>> /\ save[s].at # "idle"
    BY <1>3 DEF SaveWrites, processVars, shownVars, startVars
  <2>2. PICK b \in Contents, p \in {"renaming", "falling back"} :
          bytes' = [bytes EXCEPT ![save[s].out] = b] /\ SaveCloses(s, p)
    <3>1. Overlays(save[s].out, save[s].wanted) \subseteq Contents /\ Garbled \in Contents
      BY <1>0, <2>1, OverlaysAre
    <3>2. QED
      BY <1>3, <3>1 DEF SaveWrites
  <2>3. SaveTypeOK' /\ SameOrder(s) /\ Unmoved(s)
    BY <1>0, <2>2, HoldsBecomes, PlacesAre DEF SaveCloses
  <2>4. bytes' \in [Inodes -> Contents]
    BY <1>0, <2>2, ContentsKept
  <2>5. QED
    BY <1>0, <2>1, <2>3, <2>4, KeptBySave DEF SameOrder
<1>4. CASE SaveRenames(s)
  <2>1. UNCHANGED <<up, config, startAt, loaded>> /\ save[s].at # "idle"
    BY <1>4 DEF SaveRenames, processVars, shownVars, startVars
  <2>2. PICK p \in {"publishing", "falling back"} : SaveGoes(s, p)
    BY <1>4 DEF SaveRenames
  <2>3. SaveTypeOK' /\ SameOrder(s) /\ Unmoved(s)
    BY <1>0, <2>2, GoesBecomes, PlacesAre
  <2>4. bytes' \in [Inodes -> Contents]
    <3>1. bytes' = bytes \/ bytes' = Freed(conf, bytes)
      BY <1>4 DEF SaveRenames
    <3>2. Freed(conf, bytes) \in [Inodes -> Contents]
      BY <1>0, ContentsKept
    <3>3. QED
      BY <1>0, <3>1, <3>2, Zenon
  <2>5. conf' \in Inodes /\ temp' \in Inodes \cup {NoFile}
    BY <1>0, <1>4 DEF SaveRenames
  <2>6. QED
    BY <1>0, <2>1, <2>3, <2>4, <2>5, KeptBySave DEF SameOrder
<1>5. CASE SaveFallsBack(s)
  <2>1. UNCHANGED <<conf, up, config, startAt, loaded>> /\ save[s].at # "idle"
    BY <1>5 DEF SaveFallsBack, processVars, shownVars, startVars
  <2>2. temp' \in Inodes \cup {NoFile}
    BY <1>5 DEF SaveFallsBack
  <2>3. bytes' \in [Inodes -> Contents]
    <3>1. Freed(temp, bytes) \in [Inodes -> Contents] /\ Empty \in Contents
      BY <1>0, ContentsKept DEF Contents
    <3>2. QED
      BY <1>5, <3>1, ContentsKept DEF SaveFallsBack
  <2>4. CASE Answered(s)
    BY <1>0, <2>1, <2>2, <2>3, <2>4, AnsweredBecomes, KeptBySave
  <2>5. CASE SaveHolds(s, "writing in place", conf)
    <3>1. SaveTypeOK' /\ SameOrder(s) /\ Unmoved(s)
      BY <1>0, <2>5, HoldsBecomes, PlacesAre
    <3>2. QED
      BY <1>0, <2>1, <2>2, <2>3, <3>1, KeptBySave DEF SameOrder
  <2>6. QED
    BY <1>5, <2>4, <2>5 DEF SaveFallsBack
<1>6. CASE SaveWritesInPlace(s)
  <2>1. UNCHANGED <<conf, temp, up, config, startAt, loaded>> /\ save[s].at # "idle"
    BY <1>6 DEF SaveWritesInPlace, processVars, shownVars, startVars
  <2>2. PICK b \in Contents :
          /\ bytes' = [bytes EXCEPT ![save[s].out] = b]
          /\ SaveCloses(s, "publishing") \/ Answered(s)
    <3>1. Overlays(save[s].out, save[s].wanted) \subseteq Contents /\ Garbled \in Contents
      BY <1>0, <2>1, OverlaysAre
    <3>2. QED
      BY <1>6, <3>1 DEF SaveWritesInPlace
  <2>3. bytes' \in [Inodes -> Contents]
    BY <1>0, <2>2, ContentsKept
  <2>4. CASE Answered(s)
    BY <1>0, <2>1, <2>3, <2>4, AnsweredBecomes, KeptBySave
  <2>5. CASE SaveCloses(s, "publishing")
    <3>1. SaveTypeOK' /\ SameOrder(s) /\ Unmoved(s)
      BY <1>0, <2>5, HoldsBecomes, PlacesAre DEF SaveCloses
    <3>2. QED
      BY <1>0, <2>1, <2>3, <3>1, KeptBySave DEF SameOrder
  <2>6. QED
    BY <2>2, <2>4, <2>5
<1>7. CASE SavePublishes(s)
  <2>1. UNCHANGED <<conf, temp, bytes, up, startAt, loaded>> /\ save[s].at # "idle"
    BY <1>7 DEF SavePublishes, fileVars, processVars, startVars
  <2>2. SaveTypeOK' /\ save'[s].at = "idle" /\ Unmoved(s)
    BY <1>0, <1>7, AnsweredBecomes DEF SavePublishes
  <2>3. IsConfig(config') /\ (Startable(config) => Startable(config'))
    <3>1. \/ config' = config
          \/ config' = [config EXCEPT !.delay = save[s].wanted.delay]
      BY <1>7 DEF SavePublishes
    <3>2. CASE config' = config
      BY <1>0, <3>2, Zenon
    <3>3. CASE config' = [config EXCEPT !.delay = save[s].wanted.delay]
      BY <1>0, <3>3, DelayIsNotStarted
    <3>4. QED
      BY <3>1, <3>2, <3>3
  <2>4. \A t \in Savers : save'[t].at # "idle" => save'[t].wanted \in Configs
    BY <2>2 DEF Unmoved, KeptInv, KeptIsAccepted
  <2>5. startAt' = "preparing" => Startable(config')
    BY <2>1, <2>3 DEF KeptInv, KeptIsAccepted
  <2>6. up' # "down" /\ (startAt' = "assigning" => loaded' \in Configs)
    BY <2>1 DEF KeptInv, KeptIsAccepted
  <2>7. QED
    BY <1>0, <2>1, <2>2, <2>3, <2>4, <2>5, <2>6 DEF KeptInv, KeptIsAccepted
<1>8. QED
  BY <1>1, <1>2, <1>3, <1>4, <1>5, <1>6, <1>7 DEF SaveStep

LEMMA KeptNext ==
  ASSUME KeptInv, [ControlNext]_vars
  PROVE  KeptInv'
<1>1. CASE UNCHANGED vars
  BY <1>1 DEF vars, processVars, fileVars, shownVars, engineVars, startVars, KeptInv, SaveTypeOK,
              KeptIsAccepted
<1>2. ASSUME NEW f \in BOOLEAN, Boot(f) PROVE KeptInv'
  BY <1>2, KeptBoot
<1>3. CASE Crash
  BY <1>3, KeptProcessEnds DEF Crash
<1>4. CASE Restart \/ \E d \in Dials : Dial(d)
  BY <1>4, KeptRestartDial
<1>5. CASE StartLoads \/ StartAssigns \/ StartPrepares
  BY <1>5, KeptStart
<1>6. ASSUME NEW s \in Savers, NEW b \in Bodies, SaveRefused(s, b) \/ SaveAccepted(s, b)
      PROVE  KeptInv'
  BY <1>6, KeptNewSave
<1>7. ASSUME NEW s \in Savers, SaveStep(s) PROVE KeptInv'
  BY <1>7, KeptSaveStep
<1>8. QED
  BY <1>1, <1>2, <1>3, <1>4, <1>5, <1>6, <1>7, Zenon DEF ControlNext

(* Whatever is posted and whatever happens to the saves, what a start      *)
(* prepares was accepted by validate (KeptInv): the file holds a document  *)
(* that was accepted, or one that does not load.                           *)
THEOREM OnlyAcceptedIsKept == ControlSpec => []KeptInv
<1>1. ControlInit => KeptInv
  BY KeptInit
<1>2. KeptInv /\ [ControlNext]_vars => KeptInv'
  BY KeptNext
<1>3. QED
  BY <1>1, <1>2, PTL DEF ControlSpec

(* A start whose file was accepted is refused by Engine::prepare only for  *)
(* want of libopus or for a latency below half an Opus period              *)
(* (AcceptedIsPrepared), for every document and any number of threads that *)
(* save it.                                                                *)
THEOREM AcceptedIsAlwaysPrepared == ControlSpec => []AcceptedIsPrepared
<1>1. KeptInv => AcceptedIsPrepared
  BY LegalIsPrepared DEF KeptInv, KeptIsAccepted, AcceptedIsPrepared
<1>2. QED
  BY <1>1, OnlyAcceptedIsKept, PTL

----------------------------------------------------------------------------
(* The file, when one thread saves at a time *)

LEMMA FilesAreOne ==
  ASSUME SoleSaver, NEW s \in Savers, FileStands', FileOf(s)'
  PROVE  FilesAreKnown'
BY Zenon DEF SoleSaver, FilesAreKnown

\* The file is left alone, and no save is under way after the step or none has moved.
LEMMA FilesLeftAlone ==
  ASSUME FilesAreKnown, UNCHANGED fileVars,
         \A s \in Savers :
           \/ save'[s].out = NoFile /\ save'[s].at \in {"idle", "applying", "opening"}
           \/ /\ save'[s].at = save[s].at /\ save'[s].out = save[s].out
              /\ save'[s].wanted = save[s].wanted
  PROVE  FilesAreKnown'
<1>1. UNCHANGED <<conf, temp, bytes, truncated>>
  BY DEF fileVars
<1>2. FileStands'
  BY <1>1, Zenon DEF FilesAreKnown, FileStands
<1>3. ASSUME NEW s \in Savers PROVE FileOf(s)'
  <2>1. FileOf(s)
    BY DEF FilesAreKnown
  <2>2. QED
    BY <1>1, <2>1 DEF FileOf
<1>4. QED
  BY <1>2, <1>3, Zenon DEF FilesAreKnown

LEMMA FilesInit ==
  ASSUME ControlInit
  PROVE  FilesAreKnown
<1>1. temp # conf /\ bytes[conf] = FirstFile
  BY InodesAre DEF ControlInit
<1>2. \A s \in Savers : save[s].at = "idle" /\ save[s].out = NoFile
  BY NoSaveIsOne DEF ControlInit
<1>3. QED
  BY <1>1, <1>2 DEF FilesAreKnown, FileStands, FileOf

LEMMA FilesWithoutSave ==
  ASSUME SoleSaver, KeptInv, FilesAreKnown, [ControlNext]_vars,
         ~\E s \in Savers : SaveStep(s)
  PROVE  FilesAreKnown'
<1>1. CASE UNCHANGED vars
  BY <1>1, FilesLeftAlone DEF vars
<1>2. ASSUME NEW f \in BOOLEAN, Boot(f) PROVE FilesAreKnown'
  BY <1>2, FilesLeftAlone DEF Boot
<1>3. ASSUME ProcessEnds, UNCHANGED fileVars PROVE FilesAreKnown'
  <2>1. \A s \in Savers : save'[s].at = "idle" /\ save'[s].out = NoFile
    BY <1>3, NoSaveIsOne DEF ProcessEnds
  <2>2. QED
    BY <1>3, <2>1, FilesLeftAlone
<1>4. ASSUME AllDisturbed, UNCHANGED fileVars PROVE FilesAreKnown'
  <2>1. \A t \in Savers : save'[t].at = save[t].at /\ save'[t].wanted = save[t].wanted
                          /\ save'[t].out = save[t].out
    BY <1>4, DisturbedBecomes DEF KeptInv
  <2>2. QED
    BY <1>4, <2>1, FilesLeftAlone
<1>5. CASE Crash
  BY <1>3, <1>5 DEF Crash
<1>6. CASE Restart \/ \E d \in Dials : Dial(d)
  BY <1>4, <1>6 DEF Restart, Dial
<1>7. CASE StartLoads \/ StartAssigns \/ StartPrepares
  <2>1. UNCHANGED fileVars /\ (AllDisturbed \/ StartRefused)
    BY <1>7 DEF StartLoads, StartAssigns, StartPrepares
  <2>2. QED
    BY <1>3, <1>4, <2>1 DEF StartRefused
<1>8. ASSUME NEW s \in Savers, NEW b \in Bodies, SaveRefused(s, b) \/ SaveAccepted(s, b)
      PROVE  FilesAreKnown'
  <2>1. UNCHANGED fileVars
    BY <1>8 DEF SaveRefused, SaveAccepted
  <2>2. save'[s].out = NoFile /\ save'[s].at \in {"idle", "applying", "opening"} /\ Unmoved(s)
    BY <1>8, AnsweredBecomes, AcceptedBecomes DEF SaveRefused, KeptInv
  <2>3. QED
    BY <2>1, <2>2, FilesLeftAlone DEF Unmoved
<1>9. QED
  BY <1>1, <1>2, <1>5, <1>6, <1>7, <1>8, Zenon DEF ControlNext

\* An inode nobody has open is emptied; the others keep their bytes.
LEMMA FreedKeeps ==
  ASSUME NEW f \in [Inodes -> Contents], NEW i, NEW j \in Inodes, i # j
  PROVE  Freed(i, f)[j] = f[j]
BY DEF Freed

LEMMA FilesSaveStep ==
  ASSUME SoleSaver, KeptInv, FilesAreKnown, NEW s \in Savers, SaveStep(s)
  PROVE  FilesAreKnown'
<1>0. /\ SaveTypeOK /\ bytes \in [Inodes -> Contents] /\ conf \in Inodes
      /\ temp \in Inodes \cup {NoFile} /\ NoFile \notin Inodes
      /\ save[s].at # "idle" => save[s].wanted \in Configs
  BY InodesAre DEF KeptInv, KeptIsAccepted
<1>f. FileStands /\ FileOf(s)
  BY DEF FilesAreKnown
<1>1. CASE SaveApplies(s)
  <2>1. UNCHANGED fileVars /\ save[s].at = "applying" /\ (Answered(s) \/ SaveGoes(s, "opening"))
    BY <1>1 DEF SaveApplies
  <2>2. save[s].out = NoFile
    BY <1>f, <2>1 DEF FileOf
  <2>3. save'[s].out = NoFile /\ save'[s].at \in {"idle", "opening"} /\ Unmoved(s)
    BY <1>0, <2>1, <2>2, AnsweredBecomes, GoesBecomes, PlacesAre
  <2>4. QED
    BY <2>1, <2>3, FilesLeftAlone DEF Unmoved
<1>2. CASE SaveOpens(s)
  <2>1. UNCHANGED <<conf, truncated>> /\ save[s].at = "opening"
    BY <1>2 DEF SaveOpens
  <2>2. CASE SaveGoes(s, "falling back") /\ UNCHANGED <<temp, bytes>>
    <3>1. save'[s].at = "falling back" /\ save'[s].out = save[s].out
      BY <1>0, <2>2, GoesBecomes, PlacesAre
    <3>2. FileStands' /\ FileOf(s)'
      BY <1>f, <2>1, <2>2, <3>1 DEF FileStands, FileOf
    <3>3. QED
      BY <3>2, FilesAreOne
  <2>3. ASSUME NEW i \in Inodes, temp' = i, bytes' = [bytes EXCEPT ![i] = Empty],
               SaveHolds(s, "writing", i),
               IF temp # NoFile THEN i = temp
               ELSE i # conf /\ \A t \in Savers : save[t].out # i
        PROVE  FilesAreKnown'
    <3>1. save'[s].at = "writing" /\ save'[s].out = i
      BY <1>0, <2>3, HoldsBecomes, PlacesAre
    <3>2. i # conf
      BY <1>f, <2>3 DEF FileStands
    <3>3. bytes'[i] = Empty /\ bytes'[conf] = bytes[conf] /\ i # NoFile
      BY <1>0, <2>3, <3>2
    <3>4. FileStands' /\ FileOf(s)'
      BY <1>f, <2>1, <2>3, <3>1, <3>2, <3>3 DEF FileStands, FileOf
    <3>5. QED
      BY <3>4, FilesAreOne
  <2>4. QED
    BY <1>2, <2>2, <2>3 DEF SaveOpens
<1>3. CASE SaveWrites(s)
  <2>1. UNCHANGED <<conf, temp, truncated>> /\ save[s].at = "writing"
    BY <1>3 DEF SaveWrites
  <2>2. /\ temp # NoFile /\ save[s].out = temp /\ bytes[temp] = Empty /\ temp # conf
        /\ temp \in Inodes
    BY <1>0, <1>f, <2>1 DEF FileOf, FileStands
  <2>3. PICK b : /\ bytes' = [bytes EXCEPT ![temp] = b]
                 /\ \/ b = save[s].wanted /\ SaveCloses(s, "renaming")
                    \/ SaveCloses(s, "falling back")
    BY <1>3, <2>2 DEF SaveWrites, Overlays, Written
  <2>4. bytes'[temp] = b /\ bytes'[conf] = bytes[conf]
    BY <1>0, <2>2, <2>3
  <2>5. FileStands'
    BY <1>f, <2>1, <2>4 DEF FileStands
  <2>6. CASE b = save[s].wanted /\ SaveCloses(s, "renaming")
    <3>1. save'[s].at = "renaming" /\ save'[s].out = NoFile /\ save'[s].wanted = save[s].wanted
      BY <1>0, <2>6, HoldsBecomes, PlacesAre DEF SaveCloses, SameOrder
    <3>2. FileOf(s)'
      BY <2>1, <2>2, <2>4, <2>6, <3>1 DEF FileOf
    <3>3. QED
      BY <2>5, <3>2, FilesAreOne
  <2>7. CASE SaveCloses(s, "falling back")
    <3>1. save'[s].at = "falling back" /\ save'[s].out = NoFile
      BY <1>0, <2>7, HoldsBecomes, PlacesAre DEF SaveCloses
    <3>2. FileOf(s)'
      BY <3>1 DEF FileOf
    <3>3. QED
      BY <2>5, <3>2, FilesAreOne
  <2>8. QED
    BY <2>3, <2>6, <2>7
<1>4. CASE SaveRenames(s)
  <2>1. UNCHANGED truncated /\ save[s].at = "renaming"
    BY <1>4 DEF SaveRenames
  <2>2. /\ temp # NoFile /\ bytes[temp] = save[s].wanted /\ save[s].out = NoFile
        /\ temp \in Inodes /\ conf # temp /\ save[s].wanted \in Configs
    BY <1>0, <1>f, <2>1 DEF FileOf, FileStands
  <2>3. conf' = temp /\ temp' = NoFile /\ bytes' = Freed(conf, bytes) /\ SaveGoes(s, "publishing")
    BY <1>4, <2>2 DEF SaveRenames
  <2>4. bytes'[conf'] = save[s].wanted
    BY <1>0, <2>2, <2>3, FreedKeeps
  <2>5. save'[s].at = "publishing" /\ save'[s].out = NoFile /\ save'[s].wanted = save[s].wanted
    BY <1>0, <2>2, <2>3, GoesBecomes, PlacesAre DEF SameOrder
  <2>6. FileStands' /\ FileOf(s)'
    BY <1>0, <2>2, <2>3, <2>4, <2>5 DEF FileStands, FileOf
  <2>7. QED
    BY <2>6, FilesAreOne
<1>5. CASE SaveFallsBack(s)
  <2>1. UNCHANGED conf /\ save[s].at = "falling back" /\ temp' = NoFile
    BY <1>5 DEF SaveFallsBack
  <2>2. temp # conf /\ conf # NoFile
    BY <1>0, <1>f DEF FileStands
  <2>3. Freed(temp, bytes)[conf] = bytes[conf] /\ Freed(temp, bytes) \in [Inodes -> Contents]
    BY <1>0, <2>2, FreedKeeps, ContentsKept
  <2>4. CASE Answered(s) /\ bytes' = Freed(temp, bytes) /\ UNCHANGED truncated
    <3>1. save'[s].at = "idle" /\ save'[s].out = NoFile
      BY <1>0, <2>4, AnsweredBecomes
    <3>2. FileStands' /\ FileOf(s)'
      BY <1>f, <2>1, <2>2, <2>3, <2>4, <3>1 DEF FileStands, FileOf
    <3>3. QED
      BY <3>2, FilesAreOne
  <2>5. CASE /\ bytes' = [Freed(temp, bytes) EXCEPT ![conf] = Empty] /\ truncated' = TRUE
             /\ SaveHolds(s, "writing in place", conf)
    <3>1. save'[s].at = "writing in place" /\ save'[s].out = conf
      BY <1>0, <2>5, HoldsBecomes, PlacesAre
    <3>2. bytes'[conf] = Empty
      BY <1>0, <2>3, <2>5
    <3>3. FileStands' /\ FileOf(s)'
      BY <2>1, <2>2, <2>5, <3>1, <3>2 DEF FileStands, FileOf
    <3>4. QED
      BY <3>3, FilesAreOne
  <2>6. QED
    BY <1>5, <2>4, <2>5 DEF SaveFallsBack
<1>6. CASE SaveWritesInPlace(s)
  <2>1. UNCHANGED <<conf, temp, truncated>> /\ save[s].at = "writing in place"
    BY <1>6 DEF SaveWritesInPlace
  <2>2. truncated /\ save[s].out = conf /\ bytes[conf] = Empty
    BY <1>f, <2>1 DEF FileOf
  <2>3. FileStands'
    BY <1>f, <2>1, <2>2 DEF FileStands
  <2>4. CASE Answered(s)
    <3>1. save'[s].at = "idle" /\ save'[s].out = NoFile
      BY <1>0, <2>4, AnsweredBecomes
    <3>2. FileOf(s)'
      BY <3>1 DEF FileOf
    <3>3. QED
      BY <2>3, <3>2, FilesAreOne
  <2>5. CASE SaveCloses(s, "publishing") /\ bytes' = [bytes EXCEPT ![conf] = save[s].wanted]
    <3>1. save'[s].at = "publishing" /\ save'[s].out = NoFile /\ save'[s].wanted = save[s].wanted
      BY <1>0, <2>5, HoldsBecomes, PlacesAre DEF SaveCloses, SameOrder
    <3>2. bytes'[conf'] = save[s].wanted
      BY <1>0, <2>1, <2>5
    <3>3. FileOf(s)'
      BY <3>1, <3>2 DEF FileOf
    <3>4. QED
      BY <2>3, <3>3, FilesAreOne
  <2>6. QED
    BY <1>6, <2>2, <2>4, <2>5 DEF SaveWritesInPlace, Overlays, Written
<1>7. CASE SavePublishes(s)
  <2>1. UNCHANGED fileVars /\ save'[s].out = NoFile /\ save'[s].at = "idle" /\ Unmoved(s)
    BY <1>0, <1>7, AnsweredBecomes DEF SavePublishes
  <2>2. QED
    BY <2>1, FilesLeftAlone DEF Unmoved
<1>8. QED
  BY <1>1, <1>2, <1>3, <1>4, <1>5, <1>6, <1>7 DEF SaveStep

(* As long as no save had to write the file in place, a process killed at  *)
(* any step finds a file it loads (FileSurvivesACrash), whatever is posted *)
(* and wherever a save, a write or a rename fails, for one thread that     *)
(* saves at a time.                                                        *)
THEOREM TheFileSurvives ==
  ASSUME SoleSaver
  PROVE  ControlSpec => []FileSurvivesACrash
<1>1. ControlInit => KeptInv /\ FilesAreKnown
  BY KeptInit, FilesInit
<1>2. KeptInv /\ FilesAreKnown /\ [ControlNext]_vars => (KeptInv /\ FilesAreKnown)'
  BY KeptNext, FilesWithoutSave, FilesSaveStep
<1>3. KeptInv /\ FilesAreKnown => FileSurvivesACrash
  <2>1. SUFFICES ASSUME FileStands, ~truncated PROVE LoadsFrom(conf)
    BY DEF FilesAreKnown, FileSurvivesACrash
  <2>2. bytes[conf] \in {FirstFile} \cup Configs
    BY <2>1 DEF FileStands
  <2>3. bytes[conf] \notin {Empty, Garbled} /\ Accepts(bytes[conf])
    BY <2>2, ConfigsReadBack, DocumentsAssumption
  <2>4. QED
    BY <2>3 DEF LoadsFrom
<1>4. QED
  BY <1>1, <1>2, <1>3, PTL DEF ControlSpec

----------------------------------------------------------------------------
(* What a save leaves behind *)

\* Of the sections only egress has the A/V offset.
LEMMA SectionsAre ==
  /\ "egress" \in DOMAIN Sections /\ Sections["egress"] = {"delay", "signal"}
  /\ \A x \in DOMAIN Sections : Sections[x] \subseteq Keys
  /\ \A x \in DOMAIN Sections : x # "egress" => "delay" \notin Sections[x]
<1>1. DOMAIN Sections = {"audio", "link", "aes67_daemon", "egress", "blocks", "http_addr",
                         "http_port"}
  BY DEF Sections
<1>2. /\ Sections["audio"] = {"backend", "device", "channels", "rate", "format", "period",
                              "periods"}
      /\ Sections["link"] = {"role", "mode", "peer", "port", "latency", "alarm", "passphrase",
                             "linkBlocks", "receiveBuffer", "flowWindow"}
      /\ Sections["aes67_daemon"] = {"daemonAddress", "daemonPort", "daemonFake"}
      /\ Sections["egress"] = {"delay", "signal"}
      /\ Sections["blocks"] = {"blocks"}
      /\ Sections["http_addr"] = {"httpAddress"}
      /\ Sections["http_port"] = {"httpPort"}
  BY DEF Sections
<1>3. \A x \in DOMAIN Sections : Sections[x] \subseteq Keys
  BY <1>1, <1>2, KeysAre
<1>4. \A x \in DOMAIN Sections : x # "egress" => "delay" \notin Sections[x]
  BY <1>1, <1>2
<1>5. QED
  BY <1>1, <1>2, <1>3, <1>4

\* An offset that went live leaves the other sections as they differed.
LEMMA DifferingAfterDelay ==
  ASSUME NEW c, IsConfig(c), NEW w, w.signal = c.signal,
         NEW e, e = [c EXCEPT !.delay = w.delay]
  PROVE  Differing(w, e) = Differing(w, c) \ {"egress"}
<1>1. e.delay = w.delay /\ \A k \in Keys \ {"delay"} : e[k] = c[k]
  BY DelayIsNotStarted
<1>2. "signal" \in Keys
  BY KeysAre
<1>3. "egress" \notin Differing(w, e)
  BY <1>1, <1>2, SectionsAre DEF Differing
<1>4. ASSUME NEW x \in DOMAIN Sections, x # "egress"
      PROVE  x \in Differing(w, e) <=> x \in Differing(w, c)
  <2>1. \A k \in Sections[x] : e[k] = c[k]
    BY <1>1, <1>4, SectionsAre
  <2>2. QED
    BY <2>1 DEF Differing
<1>5. Differing(w, e) \subseteq DOMAIN Sections /\ Differing(w, c) \subseteq DOMAIN Sections
  BY DEF Differing
<1>6. QED
  BY <1>3, <1>4, <1>5

\* A save that was answered or disturbed has nothing to know.
LEMMA CurrentWhenDisturbed ==
  ASSUME \A s \in Savers : save'[s].at = "idle" \/ save'[s].disturbed
  PROVE  SavesAreCurrent'
BY DEF SavesAreCurrent

\* A step of a save that has the offset behind it.
LEMMA CurrentBySave ==
  ASSUME SoleSaver, SavesAreCurrent, NEW s \in Savers, save[s].at \notin {"idle", "applying"},
         save'[s].at = "idle" \/ SameOrder(s), UNCHANGED <<config, startAt, offset>>
  PROVE  SavesAreCurrent'
<1>1. SUFFICES ASSUME save'[s].at # "idle", ~save'[s].disturbed, SameOrder(s)
      PROVE  /\ startAt' = "idle"
             /\ save'[s].restart = Differing(save'[s].wanted, config')
                                     \ (IF save'[s].live THEN {"egress"} ELSE {})
             /\ save'[s].live => save'[s].wanted.signal = config'.signal
             /\ save'[s].live => offset' = save'[s].wanted.delay
  BY Zenon DEF SoleSaver, SavesAreCurrent
<1>2. /\ save'[s].wanted = save[s].wanted /\ save'[s].live = save[s].live
      /\ save'[s].restart = save[s].restart /\ ~save[s].disturbed
  BY <1>1 DEF SameOrder
<1>3. /\ startAt = "idle"
      /\ save[s].restart = Differing(save[s].wanted, config)
                             \ (IF save[s].live THEN {"egress"} ELSE {})
      /\ save[s].live => save[s].wanted.signal = config.signal
      /\ save[s].live => offset = save[s].wanted.delay
  BY <1>2, Zenon DEF SavesAreCurrent
<1>4. QED
  BY <1>2, <1>3, Zenon

LEMMA CurrentNewSave ==
  ASSUME SoleSaver, KeptInv, SavesAreCurrent, NEW s \in Savers, NEW b \in Bodies,
         SaveRefused(s, b) \/ SaveAccepted(s, b)
  PROVE  SavesAreCurrent'
<1>1. CASE SaveRefused(s, b)
  <2>1. save'[s].at = "idle"
    BY <1>1, AnsweredBecomes DEF SaveRefused, KeptInv
  <2>2. QED
    BY <2>1, CurrentWhenDisturbed DEF SoleSaver
<1>2. CASE SaveAccepted(s, b)
  <2>1. PICK running \in Copies :
          /\ save'[s].live => save'[s].wanted.signal = running.signal
          /\ save'[s].restart = Differing(save'[s].wanted, running)
                                  \ (IF save'[s].live THEN {"egress"} ELSE {})
    BY <1>2, AcceptedBecomes
  <2>2. /\ save'[s].disturbed <=> startAt # "idle"
        /\ save'[s].at = "applying" <=> save'[s].live
    BY <1>2, AcceptedBecomes
  <2>3. UNCHANGED <<config, startAt>>
    BY <1>2 DEF SaveAccepted, shownVars, startVars
  <2>4. CASE startAt # "idle"
    BY <2>2, <2>4, CurrentWhenDisturbed DEF SoleSaver
  <2>5. CASE startAt = "idle"
    <3>1. running = config
      BY <2>5 DEF Copies
    <3>2. /\ startAt' = "idle"
          /\ save'[s].restart = Differing(save'[s].wanted, config')
                                  \ (IF save'[s].live THEN {"egress"} ELSE {})
          /\ save'[s].live => save'[s].wanted.signal = config'.signal
          /\ save'[s].live => save'[s].at = "applying"
      BY <2>1, <2>2, <2>3, <2>5, <3>1, Zenon
    <3>3. QED
      BY <3>2, Zenon DEF SoleSaver, SavesAreCurrent
  <2>6. QED
    BY <2>4, <2>5
<1>3. QED
  BY <1>1, <1>2

LEMMA CurrentSaveStep ==
  ASSUME SoleSaver, KeptInv, SavesAreCurrent, NEW s \in Savers, SaveStep(s)
  PROVE  SavesAreCurrent'
<1>0. SaveTypeOK
  BY DEF KeptInv
<1>1. ASSUME Answered(s) PROVE SavesAreCurrent'
  <2>1. save'[s].at = "idle"
    BY <1>0, <1>1, AnsweredBecomes
  <2>2. QED
    BY <2>1, CurrentWhenDisturbed DEF SoleSaver
<1>2. CASE SaveApplies(s)
  <2>1. CASE Answered(s)
    BY <1>1, <2>1
  <2>2. CASE SaveGoes(s, "opening") /\ offset' = save[s].wanted.delay
    <3>1. SameOrder(s) /\ UNCHANGED <<config, startAt>> /\ save[s].at # "idle"
      BY <1>0, <1>2, <2>2, GoesBecomes, PlacesAre DEF SaveApplies, shownVars, startVars
    <3>2. /\ save'[s].wanted = save[s].wanted /\ save'[s].live = save[s].live
          /\ save'[s].restart = save[s].restart /\ save'[s].disturbed = save[s].disturbed
      BY <3>1 DEF SameOrder
    <3>3. ~save[s].disturbed =>
            /\ startAt = "idle"
            /\ save[s].restart = Differing(save[s].wanted, config)
                                   \ (IF save[s].live THEN {"egress"} ELSE {})
            /\ save[s].live => save[s].wanted.signal = config.signal
      BY <3>1, Zenon DEF SavesAreCurrent
    <3>4. ~save'[s].disturbed =>
            /\ startAt' = "idle"
            /\ save'[s].restart = Differing(save'[s].wanted, config')
                                    \ (IF save'[s].live THEN {"egress"} ELSE {})
            /\ save'[s].live => save'[s].wanted.signal = config'.signal
            /\ offset' = save'[s].wanted.delay
      BY <2>2, <3>1, <3>2, <3>3, Zenon
    <3>5. QED
      BY <3>4, Zenon DEF SoleSaver, SavesAreCurrent
  <2>3. QED
    BY <1>2, <2>1, <2>2 DEF SaveApplies
<1>3. CASE SaveOpens(s) \/ SaveWrites(s) \/ SaveRenames(s) \/ SaveFallsBack(s)
           \/ SaveWritesInPlace(s)
  <2>1. UNCHANGED <<config, startAt, offset>> /\ save[s].at \notin {"idle", "applying"}
    BY <1>3 DEF SaveOpens, SaveWrites, SaveRenames, SaveFallsBack, SaveWritesInPlace, shownVars,
                startVars, engineVars
  <2>2. \/ Answered(s) \/ \E p \in Places : SaveGoes(s, p)
        \/ \E p \in Places, i \in Inodes \cup {NoFile} : SaveHolds(s, p, i)
    <3>1. conf \in Inodes
      BY DEF KeptInv, KeptIsAccepted
    <3>2. QED
      BY <1>3, <3>1, PlacesAre DEF SaveOpens, SaveWrites, SaveRenames, SaveFallsBack,
                                   SaveWritesInPlace, SaveCloses
  <2>3. CASE Answered(s)
    BY <1>1, <2>3
  <2>4. CASE ~Answered(s)
    <3>1. SameOrder(s)
      BY <1>0, <2>2, <2>4, GoesBecomes, HoldsBecomes
    <3>2. QED
      BY <2>1, <3>1, CurrentBySave
  <2>5. QED
    BY <2>3, <2>4
<1>4. CASE SavePublishes(s)
  BY <1>1, <1>4 DEF SavePublishes
<1>5. QED
  BY <1>2, <1>3, <1>4 DEF SaveStep

LEMMA CurrentNext ==
  ASSUME SoleSaver, KeptInv, SavesAreCurrent, [ControlNext]_vars
  PROVE  SavesAreCurrent'
<1>1. CASE UNCHANGED vars
  BY <1>1, Zenon DEF vars, shownVars, engineVars, startVars, SavesAreCurrent
<1>2. ASSUME NEW f \in BOOLEAN, Boot(f) PROVE SavesAreCurrent'
  <2>1. \A s \in Savers : save'[s].at = "idle"
    BY <1>2 DEF Boot, KeptInv, KeptIsAccepted
  <2>2. QED
    BY <2>1, CurrentWhenDisturbed
<1>3. ASSUME ProcessEnds PROVE SavesAreCurrent'
  BY <1>3, NoSaveIsOne, CurrentWhenDisturbed DEF ProcessEnds
<1>4. ASSUME AllDisturbed PROVE SavesAreCurrent'
  <2>1. \A t \in Savers : save'[t].at = save[t].at /\ (save[t].at # "idle" => save'[t].disturbed)
    BY <1>4, DisturbedBecomes DEF KeptInv
  <2>2. QED
    BY <2>1, CurrentWhenDisturbed
<1>5. CASE Crash
  BY <1>3, <1>5 DEF Crash
<1>6. CASE Restart \/ \E d \in Dials : Dial(d)
  BY <1>4, <1>6 DEF Restart, Dial
<1>7. CASE StartLoads \/ StartAssigns \/ StartPrepares
  BY <1>3, <1>4, <1>7 DEF StartLoads, StartAssigns, StartPrepares, StartRefused
<1>8. ASSUME NEW s \in Savers, NEW b \in Bodies, SaveRefused(s, b) \/ SaveAccepted(s, b)
      PROVE  SavesAreCurrent'
  BY <1>8, CurrentNewSave
<1>9. ASSUME NEW s \in Savers, SaveStep(s) PROVE SavesAreCurrent'
  BY <1>9, CurrentSaveStep
<1>10. QED
  BY <1>1, <1>2, <1>5, <1>6, <1>7, <1>8, <1>9, Zenon DEF ControlNext

\* Only its last step answers a save that has written its file.
LEMMA OnlyPublishingAnswers ==
  ASSUME SoleSaver, KeptInv, [ControlNext]_vars, NEW s \in Savers, save[s].at = "publishing",
         save'[s].at = "idle", up' # "down"
  PROVE  SavePublishes(s)
<1>0. up # "down" /\ SaveTypeOK
  BY DEF KeptInv, KeptIsAccepted
<1>1. ~UNCHANGED save
  OBVIOUS
<1>2. ~AllDisturbed
  BY <1>0, DisturbedBecomes
<1>3. ~ProcessEnds
  BY DEF ProcessEnds
<1>4. ~UNCHANGED vars /\ ~\E f \in BOOLEAN : Boot(f)
  BY <1>0, <1>1 DEF vars, Boot
<1>5. ~Crash /\ ~Restart /\ ~StartAssigns /\ ~StartLoads /\ ~StartPrepares
      /\ ~\E d \in Dials : Dial(d)
  BY <1>2, <1>3 DEF Crash, Restart, StartAssigns, StartLoads, StartPrepares, StartRefused, Dial
<1>6. ~\E b \in Bodies : SaveRefused(s, b) \/ SaveAccepted(s, b)
  BY DEF SaveRefused, SaveAccepted
<1>7. SaveStep(s)
  BY <1>4, <1>5, <1>6, Zenon DEF ControlNext, SoleSaver
<1>8. QED
  BY <1>7 DEF SaveStep, SaveApplies, SaveOpens, SaveWrites, SaveRenames, SaveFallsBack,
              SaveWritesInPlace

LEMMA PublishedAgrees ==
  ASSUME KeptInv, FilesAreKnown, SavesAreCurrent, NEW s \in Savers, SavePublishes(s),
         ~save[s].disturbed
  PROVE  /\ save[s].live => bytes'[conf'].delay = config'.delay /\ config'.delay = offset'
         /\ pending' = Differing(ReadConfig(bytes'[conf']), config')
<1>1. PICK w : w = save[s].wanted
  OBVIOUS
<1>2. save[s].at = "publishing" /\ pending' = save[s].restart
      /\ UNCHANGED <<conf, bytes, offset>>
  BY DEF SavePublishes, fileVars, engineVars
<1>3. w \in Configs /\ IsConfig(config)
  BY <1>1, <1>2 DEF KeptInv, KeptIsAccepted
<1>4. bytes'[conf'] = w /\ ReadConfig(w) = w
  BY <1>1, <1>2, <1>3, ConfigsReadBack DEF FilesAreKnown, FileOf
<1>5. /\ save[s].restart = Differing(w, config) \ (IF save[s].live THEN {"egress"} ELSE {})
      /\ save[s].live => w.signal = config.signal
      /\ save[s].live => offset = w.delay
  BY <1>1, <1>2, Zenon DEF SavesAreCurrent
<1>6. CASE save[s].live
  <2>1. config' = [config EXCEPT !.delay = w.delay]
    BY <1>1, <1>6 DEF SavePublishes
  <2>2. config'.delay = w.delay
    BY <1>3, <2>1, DelayIsNotStarted
  <2>3. Differing(w, config') = Differing(w, config) \ {"egress"}
    BY <1>3, <1>5, <1>6, <2>1, DifferingAfterDelay
  <2>4. QED
    BY <1>2, <1>4, <1>5, <1>6, <2>2, <2>3, Zenon
<1>7. CASE ~save[s].live
  <2>1. config' = config
    BY <1>7 DEF SavePublishes
  <2>2. save[s].restart = Differing(w, config)
    BY <1>5, <1>7
  <2>3. QED
    BY <1>2, <1>4, <1>7, <2>1, <2>2, Zenon
<1>8. QED
  BY <1>6, <1>7

(* A save that no start and no dial disturbed leaves the file, the Config  *)
(* and the engine with one offset, and a list of exactly the sections in   *)
(* which the file and the Config differ (SaveLeavesAgreement), for one     *)
(* thread that saves at a time.                                            *)
THEOREM ASaveLeavesAgreement ==
  ASSUME SoleSaver
  PROVE  ControlSpec => SaveLeavesAgreement
<1>1. ControlInit => SaveInv
  <2>1. SUFFICES ASSUME ControlInit PROVE SaveInv
    OBVIOUS
  <2>2. \A s \in Savers : save[s].at = "idle"
    BY <2>1, NoSaveIsOne DEF ControlInit
  <2>3. QED
    BY <2>1, <2>2, KeptInit, FilesInit DEF SaveInv, SavesAreCurrent
<1>2. SaveInv /\ [ControlNext]_vars => SaveInv'
  BY KeptNext, FilesWithoutSave, FilesSaveStep, CurrentNext DEF SaveInv
<1>3. SaveInv /\ [ControlNext]_vars =>
        [\A s \in Savers :
           (save[s].at = "publishing" /\ save'[s].at = "idle" /\ up' # "down"
             /\ ~save[s].disturbed) =>
             /\ save[s].live => bytes'[conf'].delay = config'.delay /\ config'.delay = offset'
             /\ pending' = Differing(ReadConfig(bytes'[conf']), config')]_vars
  BY OnlyPublishingAnswers, PublishedAgrees DEF SaveInv
<1>4. QED
  BY <1>1, <1>2, <1>3, PTL DEF ControlSpec, SaveLeavesAgreement
=============================================================================
