--------------------------- MODULE Configuration ---------------------------
(***************************************************************************)
(* The configuration document: what parse_config reads from it, what       *)
(* validate refuses (src/src/config.cpp), and what Engine::prepare then    *)
(* makes of a configuration that was accepted (src/src/engine.cpp).        *)
(*                                                                         *)
(* A document is a function from the keys it gives to their values; its    *)
(* sections are flattened into one name space.  A value of the wrong JSON  *)
(* type is WrongType.  Texts are as the code compares them, in lower case; *)
(* a passphrase is its length; a peer either names host:port or does not.  *)
(***************************************************************************)
EXTENDS Integers, Sequences, FiniteSets

CONSTANTS WrongType,   \* a value of a type the key does not take
          HasOpus      \* the build has libopus

BlockChannels == 8
MsFrames == 48           \* frames in a millisecond at the one rate carried
SampleRate == 1000 * MsFrames

BlockDefaults == [gain |-> 0, mute |-> FALSE, codec |-> "pcm_l24", bitrate |-> 128000]

Defaults ==
  [version |-> 1,
   backend |-> "ravenna", device |-> "plughw:RAVENNA", channels |-> 64, rate |-> 48000,
   format |-> "s24_3le", period |-> 48, periods |-> 8,
   role |-> "duplex", mode |-> "rendezvous", peer |-> "", port |-> 9000,
   latency |-> 120, alarm |-> 500, passphrase |-> 0, linkBlocks |-> 8,
   receiveBuffer |-> 0, flowWindow |-> 0,
   daemonAddress |-> "127.0.0.1", daemonPort |-> 8080, daemonFake |-> FALSE,
   delay |-> 0, signal |-> -1, httpAddress |-> "0.0.0.0", httpPort |-> 8082]

Keys == DOMAIN Defaults \cup {"blocks"}

\* The sections whose change a save reports, by the keys they hold.
Sections ==
  [audio |-> {"backend", "device", "channels", "rate", "format", "period", "periods"},
   link |-> {"role", "mode", "peer", "port", "latency", "alarm", "passphrase",
             "linkBlocks", "receiveBuffer", "flowWindow"},
   aes67_daemon |-> {"daemonAddress", "daemonPort", "daemonFake"},
   egress |-> {"delay", "signal"},
   blocks |-> {"blocks"},
   http_addr |-> {"httpAddress"},
   http_port |-> {"httpPort"}]

\* Block i carries device channels 8i..8i+7.
DefaultBlocks(count) ==
  [i \in 1 .. count |->
     [index |-> i - 1, gain |-> BlockDefaults.gain, mute |-> BlockDefaults.mute,
      codec |-> BlockDefaults.codec, bitrate |-> BlockDefaults.bitrate,
      channels |-> [c \in 1 .. BlockChannels |-> (i - 1) * BlockChannels + c - 1]]]

----------------------------------------------------------------------------
(* Reading *)

BlockKeys == {"index", "channels", "gain", "mute", "codec", "bitrate"}

BlockIsReadable(b) ==
  /\ DOMAIN b \subseteq BlockKeys /\ "channels" \in DOMAIN b
  /\ \A k \in DOMAIN b : b[k] # WrongType

\* An entry that names no index takes its position in the list.
BlockRead(b, position) ==
  [k \in BlockKeys |->
     IF k \in DOMAIN b THEN b[k]
     ELSE IF k = "index" THEN position - 1 ELSE BlockDefaults[k]]

\* check_keys and the typed reads: a key nobody knows is refused, not ignored.
Readable(doc) ==
  /\ DOMAIN doc \subseteq Keys
  /\ \A k \in DOMAIN doc : doc[k] # WrongType
  /\ "blocks" \in DOMAIN doc =>
       \A i \in DOMAIN doc.blocks : BlockIsReadable(doc.blocks[i])

Given(doc, k) == IF k \in DOMAIN doc THEN doc[k] ELSE Defaults[k]

\* The configuration a readable document describes, its gaps filled.
ReadConfig(doc) ==
  [k \in Keys |->
     IF k # "blocks" THEN Given(doc, k)
     ELSE IF k \in DOMAIN doc
            THEN [i \in DOMAIN doc.blocks |-> BlockRead(doc.blocks[i], i)]
            ELSE DefaultBlocks(Given(doc, "linkBlocks"))]

----------------------------------------------------------------------------
(* Validation *)

CarriesOpus(c) == \E i \in DOMAIN c.blocks : c.blocks[i].codec = "opus"

OpusFrames == {120, 240, 480, 960, 1920, 2880}

AudioIsLegal(c) ==
  /\ c.version = 1
  /\ c.backend \in {"ravenna", "null", "coreaudio", "hal"}
  /\ c.device # ""
  /\ c.rate = SampleRate
  /\ c.channels \in 8 .. 64 /\ c.channels % BlockChannels = 0
  /\ c.format \in {"s24_3le", "s16_le"}
  /\ IF CarriesOpus(c) THEN c.period \in OpusFrames ELSE c.period = MsFrames
  /\ c.periods \in 2 .. 64

Ports == 1 .. 65535
Latencies == 20 .. 8000
ReceiveBuffers == 1024 .. 268435456
FlowWindows == 32 .. 1000000

\* Mutant: the alarm may be as low as half the latency it alarms about.
LinkIsLegalAnyAlarm(c) ==
  /\ c.role \in {"tx", "rx", "duplex"}
  /\ c.mode \in {"caller", "listener", "rendezvous", "loopback"}
  /\ c.mode \notin {"listener", "loopback"} => c.peer = "host:port"
  /\ c.port \in Ports
  /\ c.latency \in Latencies
  /\ 2 * c.alarm > c.latency
  /\ c.passphrase # 0 => c.passphrase \in 10 .. 79
  /\ c.linkBlocks \in 1 .. 8 /\ c.linkBlocks = c.channels \div BlockChannels
  /\ c.receiveBuffer # 0 => c.receiveBuffer \in ReceiveBuffers
  /\ c.flowWindow # 0 => c.flowWindow \in FlowWindows

LinkIsLegal(c) ==
  /\ c.role \in {"tx", "rx", "duplex"}
  /\ c.mode \in {"caller", "listener", "rendezvous", "loopback"}
  /\ c.mode \notin {"listener", "loopback"} => c.peer = "host:port"
  /\ c.port \in Ports
  /\ c.latency \in Latencies
  /\ c.alarm > c.latency
  /\ c.passphrase # 0 => c.passphrase \in 10 .. 79
  /\ c.linkBlocks \in 1 .. 8 /\ c.linkBlocks = c.channels \div BlockChannels
  /\ c.receiveBuffer # 0 => c.receiveBuffer \in ReceiveBuffers
  /\ c.flowWindow # 0 => c.flowWindow \in FlowWindows

DaemonIsLegal(c) == c.daemonAddress # "" /\ c.daemonPort \in Ports

BlockIsLegal(b) ==
  /\ b.gain \in (-60) .. 24
  /\ b.codec \in {"pcm_l24", "pcm_l16", "opus"}
  /\ b.codec = "opus" => b.bitrate \in 6000 .. 256000

\* Every block index once, and every device channel in exactly one block.
BlocksPartitionTheDevice(c) ==
  LET slots == (DOMAIN c.blocks) \X (1 .. BlockChannels)
      carried(s) == c.blocks[s[1]].channels[s[2]]
  IN /\ Len(c.blocks) = c.linkBlocks
     /\ \A i \in DOMAIN c.blocks : Len(c.blocks[i].channels) = BlockChannels
     /\ {c.blocks[i].index : i \in DOMAIN c.blocks} = 0 .. c.linkBlocks - 1
     /\ {carried(s) : s \in slots} = 0 .. c.channels - 1
     /\ \A i \in DOMAIN c.blocks : BlockIsLegal(c.blocks[i])

EgressIsLegal(c) == c.delay \in 0 .. 5000 /\ c.signal \in (-1) .. c.channels - 1

HttpIsLegal(c) == c.httpAddress # "" /\ c.httpPort \in Ports

Valid(c) ==
  /\ AudioIsLegal(c) /\ LinkIsLegal(c) /\ DaemonIsLegal(c)
  /\ BlocksPartitionTheDevice(c) /\ EgressIsLegal(c) /\ HttpIsLegal(c)

\* parse_config as a whole.
Accepts(doc) == Readable(doc) /\ Valid(ReadConfig(doc))

\* Config::to_json writes every key, so what it writes reads back as itself.
Written(c) == c

----------------------------------------------------------------------------
(* What the engine makes of it *)

\* periods_for_ms: to the nearest period.
PeriodsFor(ms, c) ==
  IF ms <= 0 THEN 0 ELSE (2 * ms * MsFrames + c.period) \div (2 * c.period)

\* codec_for_block, for a block that carries Opus.
CodecOpens(b, c) == b.codec = "opus" => HasOpus /\ c.period >= 120

\* Engine::prepare.
Prepares(c) ==
  LET target == PeriodsFor(c.latency, c)
      alarm == PeriodsFor(c.alarm, c)
  IN /\ Len(c.blocks) * BlockChannels = c.channels
     /\ target # 0 /\ 2 * alarm + 1 > alarm + target
     /\ \A i \in DOMAIN c.blocks : CodecOpens(c.blocks[i], c)

\* -f: the device, the daemon and the link are replaced by simulated ones.
Faked(c) ==
  [c EXCEPT !.backend = "null", !.daemonFake = TRUE, !.mode = "loopback", !.peer = ""]


\* The page's codec control: every block at once, and the period that goes with it.
PageCodec(c, codec) ==
  [c EXCEPT !.blocks = [i \in DOMAIN @ |-> [@[i] EXCEPT !.codec = codec]],
            !.period = IF codec = "opus" THEN 960 ELSE 48]

\* The page's block count: blocks are kept or made, the channels stay as they are.
PageBlocks(c, count) ==
  [c EXCEPT !.linkBlocks = count,
            !.blocks = [i \in 1 .. count |->
                          IF i \in DOMAIN @ THEN @[i] ELSE DefaultBlocks(count)[i]]]

PageNumbers(c, period, ms) == [c EXCEPT !.period = period, !.latency = ms]

\* What the page may post when it has loaded c: Opus at the longest period and
\* the least latency, another block, a latency that meets the alarm.
PageBodies(c) ==
  {PageNumbers(PageCodec(c, "opus"), 2880, 20), PageBlocks(c, Len(c.blocks) + 1),
   PageNumbers(c, c.period, c.alarm)}

\* Which sections of two configurations differ.
Differing(a, b) ==
  {s \in DOMAIN Sections : \E k \in Sections[s] : a[k] # b[k]}

=============================================================================
