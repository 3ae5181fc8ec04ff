--------------------------- MODULE DaemonControl ---------------------------
(***************************************************************************)
(* What the appliance tells the AES67 daemon: commissioning at start       *)
(* (src/src/commissioning.cpp) and the page's requests                     *)
(* (src/src/http/api_server.cpp), over one client whose calls may be       *)
(* refused, or time out with the change made all the same                  *)
(* (src/src/aes67/daemon_client.cpp).  What the daemon holds is modelled   *)
(* from the client that simulates it (fake_daemon_client.cpp); a real one  *)
(* forgets all of it when it is restarted.                                 *)
(*                                                                         *)
(* Streams are numbered by the position of their block, from 1.            *)
(***************************************************************************)
EXTENDS Integers, Sequences, FiniteSets

CONSTANTS Configs,     \* the block lists the file may hold
          Announced,   \* announcements on the network: name to SDP
          Setups,      \* pairs of a client and what --subscribe asks for
          Requests,    \* what the page may ask for
          Main,        \* the thread that commissions
          Handlers,    \* threads of the HTTP server
          Attempts,    \* reads of a sink's status before it is called silent
          MaxStops,    \* times the daemon may stop
          Nothing      \* no document, no SDP, nobody

Threads == Handlers \cup {Main}
Ids == 1 .. 8

ASSUME ThreadsAssumption == Main \notin Handlers /\ Nothing \notin Threads
\* An answer is told from no answer, and an announcement carries an SDP.
ASSUME AnswersAssumption ==
  /\ Nothing \notin {"yes", "no", "late"}
  /\ \A name \in DOMAIN Announced : Announced[name] # Nothing
\* Config::validate: 1 to 8 blocks (config.cpp:460, 504).
ASSUME ConfigsAssumption ==
  \A c \in Configs : Len(c) \in Ids /\ DOMAIN c = 1 .. Len(c)
\* main.cpp's --subscribe: nothing, our own sources, or an announcement.
ASSUME SetupsAssumption ==
  \A s \in Setups : s[2] \in {"none", "self"} \cup DOMAIN Announced
ASSUME RequestsAssumption ==
  \A r \in Requests :
    /\ r.kind \in {"publish", "subscribe", "unsubscribe", "status", "preflight"}
    /\ r.id \in Ids /\ r.from \in {"self"} \cup DOMAIN Announced
    /\ r.kind = "publish" => r.id = 1   \* it goes from the first block on

VARIABLES
  client,           \* "http", or "fake" for the simulated daemon
  subscription,     \* "none", "self", or the announcement to be named
  up, stops,        \* the daemon runs; how often it stopped
  sources, sinks,   \* what it holds, by stream
  config,           \* the blocks of *config_
  mutex,            \* who holds daemon_mutex_
  op,               \* what each thread is doing
  reply             \* what the operation that has just ended came to

daemonVars == <<up, stops, sources, sinks>>
asked == <<client, subscription>>
requestVars == <<asked, daemonVars, config, mutex, op, reply>>

NoStreams == [i \in Ids |-> Nothing]

\* kind: what was asked; at: the step; id: the stream it is at; from: whose SDP;
\* blocks: the snapshot of the configuration; left: status reads left; disturbed:
\* the daemon stopped meanwhile.
Idle == [kind |-> "none", at |-> "idle", id |-> 1, from |-> "self", sdp |-> Nothing,
         blocks |-> <<>>, left |-> 0, disturbed |-> FALSE]
Ended == [Idle EXCEPT !.at = "ended"]

DaemonInit ==
  /\ \E s \in Setups : client = s[1] /\ subscription = s[2]
  /\ up = TRUE /\ stops = 0 /\ reply = Nothing
  /\ sources = NoStreams /\ sinks = NoStreams
  /\ config \in Configs /\ mutex = Nothing
  /\ op = [t \in Threads |-> IF t = Main THEN Ended ELSE Idle]

----------------------------------------------------------------------------
(* The daemon and the client *)

\* make_block_source, from the block's index and channels.
SourceOf(block) == [name |-> block.index, map |-> block.channels]
\* make_block_sink.
SinkOf(block, sdp) == [name |-> block.index, map |-> block.channels, sdp |-> sdp]
\* The daemon describes a stream by its number and name.
SdpOf(id) ==
  IF sources[id] = Nothing THEN Nothing ELSE [stream |-> id, name |-> sources[id].name]

\* How one exchange ends: "late" is a change made whose answer did not arrive.
Outcomes ==
  IF client = "fake" THEN {"yes"} ELSE IF up THEN {"yes", "no", "late"} ELSE {"no"}

PutSource(id, block, outcome) ==
  sources' = IF outcome = "no" THEN sources ELSE [sources EXCEPT ![id] = SourceOf(block)]
PutSink(id, doc, outcome) ==
  sinks' = IF outcome = "no" THEN sinks ELSE [sinks EXCEPT ![id] = doc]

\* The operation goes on.
Proceeds(next) == op' = next /\ reply' = Nothing /\ UNCHANGED mutex
Goes(t, place) == Proceeds([op EXCEPT ![t].at = place])

\* An operation ends: commissioning with the server up, or with the process if it
\* failed and a subscription was asked for; a request with its answer.
Finishes(t, said) ==
  /\ reply' = said
  /\ IF t = Main
       THEN /\ op' = [op EXCEPT ![Main] =
                 [Idle EXCEPT !.at = IF said = "no" /\ subscription # "none"
                                       THEN "ended" ELSE "serving"]]
            /\ UNCHANGED mutex
       ELSE op' = [op EXCEPT ![t] = Idle] /\ mutex' = Nothing

Block(t) == op[t].blocks[op[t].id]
IsLast(t) == op[t].id = Len(op[t].blocks)

----------------------------------------------------------------------------
(* The steps that operations are made of, one exchange each *)

AsksPtp(t) ==
  /\ op[t].at = "ptp"
  /\ \E o \in Outcomes :
       CASE op[t].kind = "preflight" -> Finishes(t, o)
         [] op[t].kind = "status" -> Goes(t, "sources")
         [] op[t].kind = "commission" /\ o = "yes" -> Goes(t, "publish")
         [] OTHER -> Finishes(t, "no")
  /\ UNCHANGED <<asked, daemonVars, config>>

\* After the last source commissioning goes on to the sinks that were asked for.
AfterPublishing(t) ==
  IF op[t].kind = "publish" \/ subscription = "none" THEN Finishes(t, "yes")
  ELSE Proceeds([op EXCEPT ![t].id = 1,
                           ![t].at = IF subscription = "self" THEN "sdp" ELSE "browse"])

\* One source for each block; the first that fails ends the operation.
Publishes(t) ==
  /\ op[t].at = "publish"
  /\ \E o \in Outcomes :
       /\ PutSource(op[t].id, Block(t), o)
       /\ CASE o # "yes" -> Finishes(t, "no")
            [] o = "yes" /\ ~IsLast(t) -> Proceeds([op EXCEPT ![t].id = @ + 1])
            [] OTHER -> AfterPublishing(t)
  /\ UNCHANGED <<asked, up, stops, sinks, config>>

\* get_source_sdp: a source the daemon does not have is an answer, with no SDP.
ReadsSdp(t) ==
  /\ op[t].at = "sdp"
  /\ \E o \in Outcomes :
       IF o = "yes" /\ SdpOf(op[t].id) # Nothing
         THEN Proceeds([op EXCEPT ![t].sdp = SdpOf(op[t].id), ![t].at = "put sink"])
         ELSE Finishes(t, "no")
  /\ UNCHANGED <<asked, daemonVars, config>>

\* The announcement named, when it is on the network just now.
Browses(t) ==
  /\ op[t].at = "browse"
  /\ \E o \in Outcomes, isHeard \in BOOLEAN :
       CASE op[t].kind = "status" -> Finishes(t, "yes")
         [] op[t].kind # "status" /\ o = "yes" /\ isHeard ->
              Proceeds([op EXCEPT ![t].sdp = Announced[op[t].from], ![t].at = "put sink"])
         [] OTHER -> Finishes(t, "no")
  /\ UNCHANGED <<asked, daemonVars, config>>

\* Commissioning then looks whether audio arrives; a request is answered.
PutsSink(t) ==
  /\ op[t].at = "put sink"
  /\ \E o \in Outcomes :
       /\ PutSink(op[t].id, SinkOf(Block(t), op[t].sdp), o)
       /\ IF o = "yes" /\ t = Main
            THEN Proceeds([op EXCEPT ![t].at = "poll", ![t].left = Attempts])
            ELSE Finishes(t, IF o = "yes" THEN "yes" ELSE "no")
  /\ UNCHANGED <<asked, up, stops, sources, config>>

\* The next block's sink, or the end; an announcement feeds the first block only.
NextSink(t) ==
  IF op[t].from = "self" /\ ~IsLast(t)
    THEN Proceeds([op EXCEPT ![t].id = @ + 1, ![t].at = "sdp", ![t].left = 0])
    ELSE Finishes(t, "yes")

\* Mutant: a sink that is silent is waited for.
SilentIsWaitedFor(t) == FALSE
SilentIsGivenUp(t) == op[t].left = 1

\* A sink is read until it receives, or is gone, or the attempts are spent; a
\* silent one is only warned about.
Polls(t) ==
  /\ op[t].at = "poll"
  /\ \E o \in Outcomes, receiving \in BOOLEAN :
       CASE o # "yes" -> Finishes(t, "no")
         [] o = "yes" /\ (receiving \/ sinks[op[t].id] = Nothing \/ SilentIsGivenUp(t)) ->
              NextSink(t)
         [] OTHER -> Proceeds([op EXCEPT ![t].left = IF @ = 1 THEN Attempts ELSE @ - 1])
  /\ UNCHANGED <<asked, daemonVars, config>>

SinksHeld == Cardinality({i \in Ids : sinks[i] # Nothing})

\* The page's tables: each list is asked for whatever became of the one before,
\* and each sink it names is asked for its status.
Lists(t) ==
  /\ op[t].at \in {"sources", "sinks", "statuses"}
  /\ \E o \in Outcomes :
       LET left == CASE op[t].at = "sinks" /\ o = "yes" -> SinksHeld
                     [] op[t].at = "statuses" -> op[t].left - 1
                     [] OTHER -> 0
       IN Proceeds([op EXCEPT ![t].left = left,
                              ![t].at = IF op[t].at = "sources" THEN "sinks"
                                        ELSE IF left > 0 THEN "statuses" ELSE "browse"])
  /\ UNCHANGED <<asked, daemonVars, config>>

Deletes(t) ==
  /\ op[t].at = "delete"
  /\ \E o \in Outcomes :
       /\ Finishes(t, IF o = "yes" THEN "yes" ELSE "no")
       /\ sinks' = IF o = "no" THEN sinks ELSE [sinks EXCEPT ![op[t].id] = Nothing]
  /\ UNCHANGED <<asked, up, stops, sources, config>>

----------------------------------------------------------------------------
(* The operations *)

\* App::run: the client is made and the daemon commissioned before anything else.
Commission ==
  /\ op[Main].at = "ended"
  /\ \E c \in Configs :
       /\ config' = c
       /\ Proceeds([op EXCEPT ![Main] =
            [Idle EXCEPT !.kind = "commission", !.at = "ptp", !.blocks = c,
                         !.from = IF subscription = "none" THEN "self" ELSE subscription]])
  /\ UNCHANGED <<asked, daemonVars>>

\* A request for a block out of range is refused; any other takes its copy of the
\* configuration and then waits for the daemon.
Post(t, request) ==
  /\ op[Main].at = "serving" /\ op[t].at = "idle"
  /\ request.kind = "subscribe" => request.id <= Len(config)
  /\ Proceeds([op EXCEPT ![t] =
       [Idle EXCEPT !.kind = request.kind, !.at = "locking", !.id = request.id,
                    !.from = request.from,
                    !.blocks = IF request.kind \in {"publish", "subscribe"} THEN config
                               ELSE <<>>]])
  /\ UNCHANGED <<asked, daemonVars, config>>

FirstStep(o) ==
  CASE o.kind = "publish" -> "publish"
    [] o.kind = "unsubscribe" -> "delete"
    [] o.kind = "subscribe" -> IF o.from = "self" THEN "sdp" ELSE "browse"
    [] OTHER -> "ptp"

\* Mutant: daemon_mutex_ is not taken.
LocksNothing(t) ==
  /\ op[t].at = "locking" /\ Goes(t, FirstStep(op[t]))
  /\ UNCHANGED <<asked, daemonVars, config>>
Locks(t) ==
  /\ op[t].at = "locking" /\ mutex = Nothing
  /\ mutex' = t /\ op' = [op EXCEPT ![t].at = FirstStep(op[t])] /\ reply' = Nothing
  /\ UNCHANGED <<asked, daemonVars, config>>

ThreadStep(t) ==
  \/ AsksPtp(t) \/ Publishes(t) \/ ReadsSdp(t) \/ Browses(t) \/ PutsSink(t)
  \/ Polls(t) \/ Lists(t) \/ Deletes(t)

\* An engine that is started reads the file again; nothing is published for it.
Reload ==
  /\ op[Main].at = "serving" /\ config' \in Configs
  /\ reply' = Nothing /\ UNCHANGED <<asked, daemonVars, mutex, op>>

\* The process is killed or restarted; what the simulated daemon held goes with it.
ProcessEnds ==
  /\ op[Main].at # "ended"
  /\ op' = [t \in Threads |-> IF t = Main THEN Ended ELSE Idle]
  /\ mutex' = Nothing /\ reply' = Nothing
  /\ IF client = "fake" THEN sources' = NoStreams /\ sinks' = NoStreams
     ELSE UNCHANGED <<sources, sinks>>
  /\ UNCHANGED <<asked, up, stops, config>>

\* By systemctl from the page, which takes no lock, or by itself.
DaemonStops ==
  /\ client = "http" /\ up /\ stops < MaxStops
  /\ up' = FALSE /\ stops' = stops + 1 /\ sources' = NoStreams /\ sinks' = NoStreams
  /\ Proceeds([t \in Threads |-> [op[t] EXCEPT !.disturbed = op[t].kind # "none"]])
  /\ UNCHANGED <<asked, config>>
DaemonStarts ==
  /\ ~up /\ up' = TRUE
  /\ reply' = Nothing /\ UNCHANGED <<asked, stops, sources, sinks, config, mutex, op>>

DaemonNext ==
  \/ Commission \/ Reload \/ ProcessEnds \/ DaemonStops \/ DaemonStarts
  \/ \E t \in Threads : ThreadStep(t)
  \/ \E t \in Handlers : Locks(t) \/ \E r \in Requests : Post(t, r)

DaemonSpec == DaemonInit /\ [][DaemonNext]_requestVars

\* Every exchange ends, by the client's timeouts at the latest; the mutex is
\* granted to every thread that keeps waiting for it.
FairDaemonSpec ==
  /\ DaemonSpec
  /\ \A t \in Threads : WF_requestVars(ThreadStep(t))
  /\ \A t \in Handlers : SF_requestVars(Locks(t))

----------------------------------------------------------------------------
(* Properties *)

\* The sink of operation o's block i has the SDP it was to have.
IsSubscribed(o, i) ==
  /\ sinks[i] = SinkOf(o.blocks[i], IF o.from = "self" THEN SdpOf(i) ELSE Announced[o.from])
  /\ sinks[i].sdp # Nothing

\* What the operations that are answered yes have promised.
Promises(o) ==
  /\ o.kind \in {"publish", "commission"} =>
       \A i \in DOMAIN o.blocks : sources[i] = SourceOf(o.blocks[i])
  /\ o.kind = "subscribe" => IsSubscribed(o, o.id)
  /\ (o.kind = "commission" /\ subscription # "none") =>
       \A i \in 1 .. (IF subscription = "self" THEN Len(o.blocks) ELSE 1) : IsSubscribed(o, i)
  /\ o.kind = "unsubscribe" => sinks[o.id] = Nothing

(* A yes means that it is so: "the failure is reported as it is",          *)
(* publishing stops at the first source that fails                         *)
(* (commissioning.cpp:186, api_server.cpp:940), and what one request read  *)
(* from the daemon still holds when it writes (api_server.cpp:857).  When  *)
(* an operation the daemon survived is answered yes, the sources and sinks *)
(* it was for are those of its blocks, and a sink subscribed to our own    *)
(* source has the SDP which that source has.                               *)
AnsweredMeansDone ==
  [][\A t \in Threads :
       (op[t].kind # "none" /\ op'[t].kind = "none" /\ reply' = "yes" /\ ~op[t].disturbed)
         => \A o \in {op[t]} : Promises(o)']_requestVars

(* "a daemon that has stopped answering must read as not reachable in      *)
(* about a second rather than hanging the UI" (daemon_client.cpp:85), and  *)
(* "Two seconds is the deadline" (commissioning.cpp:49): whatever the      *)
(* daemon does, commissioning ends and every request is answered.          *)
EverythingIsAnswered ==
  \A t \in Threads : op[t].kind # "none" ~> op[t].kind = "none"

=============================================================================
