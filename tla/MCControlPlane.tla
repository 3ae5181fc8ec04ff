--------------------------- MODULE MCControlPlane ---------------------------
(* One thread that saves; a file of two blocks.  Of the bodies posted two    *)
(* are accepted, the file and another offset; a page that loaded the file     *)
(* also posts Opus with a period so long that prepare refuses the latency.    *)
EXTENDS ControlPlane, TLC

Base == [device |-> "plughw:BlackHole", channels |-> 16, linkBlocks |-> 2, peer |-> "host:port"]
OpusBlock(i) == [index |-> i, codec |-> "opus",
                 channels |-> [c \in 1 .. 8 |-> 8 * i + c - 1]]
TwoOpus == <<OpusBlock(1), OpusBlock(0)>>

ValidBodies == {Base, [delay |-> 40] @@ Base}

\* One legal value moved out of its range at a time, an unknown key, a wrong
\* type, a block list that leaves channels out or carries them twice.
InvalidBodies ==
  {f @@ Base : f \in
    {[version |-> 2], [backend |-> "alsa"], [device |-> ""], [rate |-> 44100],
     [channels |-> 12], [channels |-> 72], [channels |-> 8], [format |-> "f32"],
     [period |-> 120], [periods |-> 1], [role |-> "both"], [mode |-> "peer"],
     [peer |-> ""], [port |-> 0], [latency |-> 19], [latency |-> 8001],
     [latency |-> 120, alarm |-> 120], [passphrase |-> 9], [linkBlocks |-> 9],
     [linkBlocks |-> 1], [receiveBuffer |-> 1023], [flowWindow |-> 31],
     [daemonAddress |-> ""], [daemonPort |-> 65536], [delay |-> 5001],
     [signal |-> 16], [httpAddress |-> ""], [httpPort |-> 0],
     [unknown |-> 1], [latency |-> WrongType],
     [blocks |-> <<OpusBlock(0)>>], [blocks |-> TwoOpus],
     [blocks |-> <<OpusBlock(0), OpusBlock(0)>>, period |-> 120],
     [blocks |-> <<[gain |-> 25] @@ OpusBlock(0), OpusBlock(1)>>, period |-> 120],
     [blocks |-> <<[bitrate |-> 5999] @@ OpusBlock(0), OpusBlock(1)>>, period |-> 120],
     [blocks |-> <<[index |-> 0], OpusBlock(1)>>, period |-> 120]}}

MCBodies == ValidBodies \cup PageBodies(ReadConfig(Base)) \cup InvalidBodies \cup {[latency |-> 200, alarm |-> 150] @@ Base}
MCDials == {40}
CONSTANT http
OneSaver == {http}
==============================================================================
