------------------------- MODULE EgressStageProofs --------------------------
(***************************************************************************)
(* The output of the egress stage is continuous and the offset it shows is *)
(* the one it heads for, for every period, fade, longest offset, set of    *)
(* offsets and number of posting threads.                                  *)
(***************************************************************************)
EXTENDS EgressStage, SequenceTheorems, TLAPS

Lines == [applied : Nat, target : Nat, fading : BOOLEAN, from : Nat, to : Nat,
          step : 0 .. Fade]
Samples == [old : Nat, new : Nat, weight : 0 .. Fade, read : SUBSET Int]

StageTypeOK ==
  /\ requested \in Dials /\ line \in Lines /\ fed \in Nat /\ clock \in Nat
  /\ ring \in [0 .. RingFrames - 1 -> Int]
  /\ heard \in Seq(Samples)
  /\ post \in [Posters -> [at : {"idle", "pending", "publish"}, offset : Dials \cup {0}]]
  /\ turn \in {"delay", "load", "publish", "signal", "play"}

\* Nothing was heard before anything was fed.
HeardWasFed == fed = 0 => heard = <<>>

\* Where the last sample has left the line.
LeftAt(x, l) ==
  IF l.fading
    THEN l.step # 0 /\ x.old = l.from /\ x.new = l.to /\ x.weight = l.step - 1
    ELSE l.applied \in Pure(x)

LastIsWhereTheLineIs == heard # <<>> => LeftAt(heard[Len(heard)], line)

\* A thread that posts alone has the newest request; once that was taken, the
\* line heads for it, and what is shown is shown by the last to speak of it.
RequestIsOnItsWay ==
  ~overlapped =>
    /\ \A p, q \in Posters : post[p].at # "idle" /\ post[q].at # "idle" => p = q
    /\ \A p \in Posters : post[p].at # "idle" => post[p].offset = requested
    /\ \A p \in Posters :
         post[p].at = "publish" /\ ~delayPending /\ turn # "load" =>
           line.target = Frames(requested)
    /\ NobodyPosts /\ ~delayPending /\ turn \notin {"load", "publish"} =>
         Frames(published) = line.target

EgressProofInv ==
  /\ StageTypeOK /\ HeardWasFed /\ LastIsWhereTheLineIs /\ OutputIsContinuous
  /\ RequestIsOnItsWay

----------------------------------------------------------------------------
(* Offsets and frames *)

LEMMA Sizes ==
  /\ Period \in Nat /\ Period >= 1 /\ Fade \in Nat /\ Fade >= 1 /\ MaxDelay \in Nat
  /\ RingFrames \in Nat \ {0} /\ Wrap \in Nat \ {0} /\ Fed \in Nat /\ Fed >= 1
  BY EgressAssumption DEF RingFrames, Wrap, Fed

LEMMA FramesAreWhole ==
  /\ \A d \in Dials : d \in Nat /\ Frames(d) \in Nat
  /\ \A f \in Nat : Frames(Halves(f)) = f
  BY EgressAssumption DEF Frames, Halves

LEMMA IndexIsInRing == \A f \in Int : Index(f) \in 0 .. RingFrames - 1
  BY Sizes DEF Index

LEMMA FrameAtIsFrame == clock \in Nat => \A i \in Int : FrameAt(i) \in Nat
  BY Sizes DEF FrameAt

LEMMA FilledIsRing ==
  ASSUME StageTypeOK
  PROVE  Filled \in [0 .. RingFrames - 1 -> Int]
<1>1. DOMAIN ring = 0 .. RingFrames - 1 /\ clock \in Nat
  BY DEF StageTypeOK
<1>2. ASSUME NEW k \in 0 .. RingFrames - 1 PROVE Filled[k] \in Int
  <2>1. CASE \E i \in 0 .. Period - 1 : Index(FrameAt(i)) = k
    <3>1. Filled[k] = FrameAt(CHOOSE i \in 0 .. Period - 1 : Index(FrameAt(i)) = k)
      BY <1>1, <2>1 DEF Filled
    <3>2. (CHOOSE i \in 0 .. Period - 1 : Index(FrameAt(i)) = k) \in 0 .. Period - 1
      BY <2>1
    <3> QED
      BY <1>1, <3>1, <3>2, FrameAtIsFrame, Sizes
  <2>2. CASE ~ \E i \in 0 .. Period - 1 : Index(FrameAt(i)) = k
    <3>1. Filled[k] = ring[k]
      BY <1>1, <2>2 DEF Filled
    <3> QED
      BY <3>1 DEF StageTypeOK
  <2> QED
    BY <2>1, <2>2
<1>3. DOMAIN Filled = 0 .. RingFrames - 1 /\ Filled = [k \in DOMAIN Filled |-> Filled[k]]
  BY <1>1 DEF Filled
<1> QED
  BY <1>2, <1>3

LEMMA ReadIsFrame ==
  ASSUME StageTypeOK, NEW i \in Nat, NEW d \in Nat
  PROVE  Read(i, d) \in Int
<1>1. Index((clock + i - d) % Wrap) \in 0 .. RingFrames - 1
  <2>1. (clock + i - d) % Wrap \in Int
    BY Sizes DEF StageTypeOK
  <2> QED
    BY <2>1, IndexIsInRing
<1> QED
  BY <1>1, FilledIsRing DEF Read, Silence

----------------------------------------------------------------------------
(* The samples of a period *)

\* What a sample is, without what it reads.
LEMMA SampleIs ==
  ASSUME StageTypeOK, NEW l \in Lines, NEW i \in Nat
  PROVE  /\ SampleOf(l, i) \in Samples
         /\ l.fading /\ l.step + i <= Fade =>
              /\ SampleOf(l, i).old = l.from /\ SampleOf(l, i).new = l.to
              /\ SampleOf(l, i).weight = l.step + i
         /\ l.fading /\ l.step + i > Fade =>
              SampleOf(l, i).new = l.to /\ SampleOf(l, i).weight = Fade
         /\ ~l.fading =>
              SampleOf(l, i).new = l.applied /\ SampleOf(l, i).weight = Fade
<1>1. /\ l.from \in Nat /\ l.to \in Nat /\ l.applied \in Nat /\ l.step \in 0 .. Fade
      /\ l.fading \in BOOLEAN
  BY DEF Lines
<1>2. CASE l.fading /\ l.step + i <= Fade
  <2>1. SampleOf(l, i) = [old |-> l.from, new |-> l.to, weight |-> l.step + i,
                          read |-> {Read(i, l.from), Read(i, l.to)}]
    BY <1>2 DEF SampleOf
  <2>2. {Read(i, l.from), Read(i, l.to)} \subseteq Int
    BY <1>1, ReadIsFrame
  <2>3. l.step + i \in 0 .. Fade
    BY <1>1, <1>2, Sizes
  <2> QED
    BY <1>1, <1>2, <2>1, <2>2, <2>3, Sizes DEF Samples
<1>3. CASE ~(l.fading /\ l.step + i <= Fade)
  <2> DEFINE d == IF l.fading THEN l.to ELSE l.applied
  <2>1. SampleOf(l, i) = [old |-> d, new |-> d, weight |-> Fade, read |-> {Read(i, d)}]
    BY <1>3 DEF SampleOf
  <2>2. d \in Nat
    BY <1>1
  <2>3. {Read(i, d)} \subseteq Int /\ Fade \in 0 .. Fade
    BY <2>2, ReadIsFrame, Sizes
  <2>4. SampleOf(l, i) \in Samples
    <3> HIDE DEF d
    <3> QED
      BY <2>1, <2>2, <2>3 DEF Samples
  <2> QED
    BY <1>1, <1>3, <2>1, <2>4, Sizes
<1> QED
  BY <1>2, <1>3

\* Inside a period a sample follows from the one before.
LEMMA PeriodIsContinuous ==
  ASSUME StageTypeOK, NEW l \in Lines, NEW i \in Nat
  PROVE  Follows(SampleOf(l, i), SampleOf(l, i + 1))
<1> DEFINE x == SampleOf(l, i)
           y == SampleOf(l, i + 1)
<1>1. l.step \in Nat /\ l.fading \in BOOLEAN /\ i + 1 \in Nat
  BY Sizes DEF Lines
<1>2. CASE l.fading /\ l.step + i + 1 <= Fade
  <2>1. /\ x.old = l.from /\ x.new = l.to /\ x.weight = l.step + i
        /\ y.old = l.from /\ y.new = l.to /\ y.weight = l.step + i + 1
    BY <1>1, <1>2, SampleIs, Sizes
  <2> HIDE DEF x, y
  <2>2. Follows(x, y)
    BY <1>1, <2>1 DEF Follows
  <2> QED
    BY <2>2 DEF x, y
<1>3. CASE l.fading /\ l.step + i + 1 > Fade
  <2>1. x.new = l.to /\ x.weight = Fade
    BY <1>1, <1>3, SampleIs, Sizes
  <2>2. y.new = l.to /\ y.weight = Fade
    BY <1>1, <1>3, SampleIs, Sizes
  <2> HIDE DEF x, y
  <2>3. Follows(x, y)
    BY <2>1, <2>2 DEF Follows, Pure
  <2> QED
    BY <2>3 DEF x, y
<1>4. CASE ~l.fading
  <2>1. x.new = l.applied /\ x.weight = Fade
    BY <1>4, SampleIs
  <2>2. y.new = l.applied /\ y.weight = Fade
    BY <1>1, <1>4, SampleIs
  <2> HIDE DEF x, y
  <2>3. Follows(x, y)
    BY <2>1, <2>2 DEF Follows, Pure
  <2> QED
    BY <2>3 DEF x, y
<1> QED
  BY <1>1, <1>2, <1>3, <1>4, Sizes

LEMMA FadeBeginsIsLine ==
  ASSUME NEW l \in Lines
  PROVE  FadeBegins(l) \in Lines /\ (FadeBegins(l).fading \/ FadeBegins(l) = l)
<1>1. /\ l.applied \in Nat /\ l.target \in Nat /\ 0 \in 0 .. Fade
  BY Sizes DEF Lines
<1>2. CASE ~l.fading /\ l.target # l.applied
  <2>1. FadeBegins(l) = [applied |-> l.applied, target |-> l.target, fading |-> TRUE,
                         from |-> l.applied, to |-> l.target, step |-> 0]
    BY <1>2 DEF Lines, FadeBegins
  <2> QED
    BY <1>1, <2>1 DEF Lines
<1>3. CASE ~(~l.fading /\ l.target # l.applied)
  BY <1>3 DEF FadeBegins
<1> QED
  BY <1>2, <1>3

\* The first sample of a period follows from the last of the one before.
LEMMA PeriodsJoin ==
  ASSUME StageTypeOK, NEW x, LeftAt(x, line)
  PROVE  Follows(x, SampleOf(FadeBegins(line), 0))
<1> DEFINE l == FadeBegins(line)
           y == SampleOf(l, 0)
<1>1. line \in Lines /\ l \in Lines
  BY FadeBeginsIsLine DEF StageTypeOK
<1>2. CASE line.fading
  <2>1. l = line
    BY <1>2 DEF FadeBegins
  <2>2. line.step + 0 = line.step /\ line.step <= Fade /\ line.step \in Nat
    BY <1>1, Sizes DEF Lines
  <2>3. y.old = line.from /\ y.new = line.to /\ y.weight = line.step
    BY <1>1, <1>2, <2>1, <2>2, SampleIs
  <2>4. x.old = line.from /\ x.new = line.to /\ x.weight = line.step - 1
    BY <1>2 DEF LeftAt
  <2> HIDE DEF y, l
  <2>5. Follows(x, y)
    BY <2>2, <2>3, <2>4 DEF Follows
  <2> QED
    BY <2>5 DEF y, l
<1>3. CASE ~line.fading /\ line.target = line.applied
  <2>1. l = line
    BY <1>3 DEF FadeBegins
  <2>2. y.new = line.applied /\ y.weight = Fade
    BY <1>1, <1>3, <2>1, SampleIs
  <2>3. line.applied \in Pure(x)
    BY <1>3 DEF LeftAt
  <2> HIDE DEF y, l
  <2>4. Follows(x, y)
    BY <2>2, <2>3 DEF Follows, Pure
  <2> QED
    BY <2>4 DEF y, l
<1>4. CASE ~line.fading /\ line.target # line.applied
  <2>1. l.fading /\ l.from = line.applied /\ l.step = 0
    BY <1>1, <1>4 DEF FadeBegins, Lines
  <2>2. y.old = line.applied /\ y.weight = 0
    BY <1>1, <2>1, SampleIs, Sizes
  <2>3. line.applied \in Pure(x)
    BY <1>4 DEF LeftAt
  <2> HIDE DEF y, l
  <2>4. Pure(y) = {line.applied}
    BY <2>2, Sizes DEF Pure
  <2>5. Follows(x, y)
    BY <2>3, <2>4 DEF Follows
  <2> QED
    BY <2>5 DEF y, l
<1> QED
  BY <1>1, <1>2, <1>3, <1>4 DEF Lines

\* The last sample of a period leaves the line where it is then.
LEMMA PeriodEndsWhereTheLineIs ==
  ASSUME StageTypeOK, NEW l \in Lines
  PROVE  FadeGoesOn(l) \in Lines /\ LeftAt(SampleOf(l, Period - 1), FadeGoesOn(l))
<1> DEFINE x == SampleOf(l, Period - 1)
           m == FadeGoesOn(l)
<1>1. /\ l.step \in 0 .. Fade /\ l.fading \in BOOLEAN /\ l.to \in Nat /\ Period - 1 \in Nat
      /\ l.step \in Nat
  BY Sizes DEF Lines
<1>2. CASE ~l.fading
  <2>1. m = l
    BY <1>2 DEF FadeGoesOn
  <2>2. x.new = l.applied /\ x.weight = Fade
    BY <1>1, <1>2, SampleIs
  <2> HIDE DEF x, m
  <2>3. m \in Lines /\ LeftAt(x, m)
    BY <1>2, <2>1, <2>2 DEF LeftAt, Pure
  <2> QED
    BY <2>3 DEF x, m
<1>3. CASE l.fading /\ l.step + Period <= Fade
  <2>1. m = [l EXCEPT !.step = l.step + Period]
    BY <1>3 DEF FadeGoesOn
  <2>2. l.step + Period \in 0 .. Fade /\ l.step + Period # 0
    BY <1>1, <1>3, Sizes
  <2>3. /\ m \in Lines /\ m.fading /\ m.from = l.from /\ m.to = l.to
        /\ m.step = l.step + Period
    BY <1>3, <2>1, <2>2 DEF Lines
  <2>4. l.step + (Period - 1) <= Fade
    BY <1>1, <1>3, Sizes
  <2>5. x.old = l.from /\ x.new = l.to /\ x.weight = l.step + (Period - 1)
    BY <1>1, <1>3, <2>4, SampleIs
  <2>6. l.step + (Period - 1) = m.step - 1
    BY <1>1, <2>3, Sizes
  <2> HIDE DEF x, m
  <2>7. LeftAt(x, m)
    BY <2>2, <2>3, <2>5, <2>6 DEF LeftAt
  <2> QED
    BY <2>3, <2>7 DEF x, m
<1>4. CASE l.fading /\ ~(l.step + Period <= Fade)
  <2>1. m = [l EXCEPT !.fading = FALSE, !.applied = l.to, !.from = 0, !.to = 0, !.step = 0]
    BY <1>4 DEF FadeGoesOn
  <2>2. m \in Lines /\ ~m.fading /\ m.applied = l.to
    <3>1. m = [applied |-> l.to, target |-> l.target, fading |-> FALSE, from |-> 0, to |-> 0,
               step |-> 0]
      BY <2>1 DEF Lines
    <3>2. l.target \in Nat /\ 0 \in 0 .. Fade
      BY Sizes DEF Lines
    <3> HIDE DEF m
    <3> QED
      BY <1>1, <3>1, <3>2 DEF Lines
  <2>3. x.new = l.to /\ x.weight = Fade
    <3>1. l.step + (Period - 1) >= Fade
      BY <1>1, <1>4, Sizes
    <3>2. CASE l.step + (Period - 1) = Fade
      BY <1>1, <1>4, <3>2, SampleIs, Sizes
    <3>3. CASE l.step + (Period - 1) > Fade
      BY <1>1, <1>4, <3>3, SampleIs
    <3> QED
      BY <1>1, <3>1, <3>2, <3>3, Sizes
  <2> HIDE DEF x, m
  <2>4. LeftAt(x, m)
    BY <2>2, <2>3 DEF LeftAt, Pure
  <2> QED
    BY <2>2, <2>4 DEF x, m
<1> QED
  BY <1>1, <1>2, <1>3, <1>4
----------------------------------------------------------------------------
(* A turn of the loop *)

\* A new period of samples, after the last one heard.
LEMMA HeardGoesOn ==
  ASSUME NEW s \in Seq(Samples), NEW t \in Seq(Samples), Len(t) >= 1,
         NEW b, b = (IF s = <<>> THEN <<>> ELSE <<s[Len(s)]>>),
         s # <<>> => Follows(s[Len(s)], t[1]),
         \A i \in 1 .. Len(t) - 1 : Follows(t[i], t[i + 1])
  PROVE  /\ b \o t \in Seq(Samples) /\ b \o t # <<>>
         /\ (b \o t)[Len(b \o t)] = t[Len(t)]
         /\ \A i \in 1 .. Len(b \o t) - 1 : Follows((b \o t)[i], (b \o t)[i + 1])
<1> DEFINE u == b \o t
<1>1. Len(t) \in Nat
  BY LenProperties
<1>2. CASE s = <<>>
  <2>1. u = t
    BY <1>2, ConcatEmptySeq
  <2>2. t # <<>>
    BY EmptySeq, <1>1
  <2> QED
    BY <2>1, <2>2
<1>3. CASE s # <<>>
  <2> DEFINE z == s[Len(s)]
  <2>1. z \in Samples
    <3>1. Len(s) \in Nat \ {0}
      BY <1>3, EmptySeq
    <3>2. Len(s) \in 1 .. Len(s)
      BY <3>1
    <3> QED
      BY <3>2, ElementOfSeq
  <2> HIDE DEF z
  <2>2. b = <<z>> /\ b \in Seq(Samples) /\ Len(b) = 1 /\ b[1] = z
    BY <1>3, <2>1 DEF z
  <2>3. /\ u \in Seq(Samples) /\ Len(u) = 1 + Len(t)
        /\ \A i \in 1 .. 1 + Len(t) : u[i] = IF i <= 1 THEN b[i] ELSE t[i - 1]
    BY <2>2, ConcatProperties
  <2> HIDE DEF u
  <2>4. u # <<>> /\ u[Len(u)] = t[Len(t)] /\ u[1] = z /\ u[2] = t[1]
    <3>1. Len(u) \in 1 .. 1 + Len(t) /\ ~(Len(u) <= 1) /\ Len(u) - 1 = Len(t)
      BY <1>1, <2>3
    <3>2. u[Len(u)] = t[Len(t)]
      BY <2>3, <3>1
    <3>3. u # <<>>
      BY <3>1, EmptySeq
    <3>4. u[1] = z /\ u[2] = t[1]
      BY <1>1, <2>2, <2>3
    <3> QED
      BY <3>2, <3>3, <3>4
  <2>5. ASSUME NEW i \in 1 .. Len(u) - 1 PROVE Follows(u[i], u[i + 1])
    <3>1. CASE i = 1
      BY <1>3, <2>4, <3>1 DEF z
    <3>2. CASE i # 1
      <4> DEFINE k == i - 1
      <4>1. k \in 1 .. Len(t) - 1 /\ k + 1 = i /\ i \in 1 .. 1 + Len(t)
            /\ i + 1 \in 1 .. 1 + Len(t) /\ (i + 1) - 1 = i
        BY <1>1, <2>3, <3>2
      <4>2. u[i] = t[k] /\ u[i + 1] = t[k + 1]
        BY <2>3, <3>2, <4>1
      <4> HIDE DEF k
      <4> QED
        BY <4>1, <4>2
    <3> QED
      BY <3>1, <3>2
  <2> QED
    BY <2>3, <2>4, <2>5 DEF u
<1> QED
  BY <1>2, <1>3

LEMMA PlayKeepsContinuity ==
  ASSUME EgressProofInv, Play
  PROVE  /\ heard' \in Seq(Samples) /\ line' \in Lines /\ line'.target = line.target
         /\ LastIsWhereTheLineIs' /\ OutputIsContinuous'
<1> DEFINE l == FadeBegins(line)
           t == [i \in 1 .. Period |-> SampleOf(l, i - 1)]
<1>1. StageTypeOK /\ line \in Lines /\ heard \in Seq(Samples) /\ l \in Lines
  BY FadeBeginsIsLine DEF EgressProofInv, StageTypeOK
<1>2. heard' = LastHeard \o t /\ line' = FadeGoesOn(l)
  BY DEF Play
<1>3. /\ t \in Seq(Samples) /\ Len(t) = Period
      /\ \A i \in 1 .. Period : t[i] = SampleOf(l, i - 1)
  <2> HIDE DEF l
  <2>1. \A i \in 1 .. Period : i - 1 \in Nat
    BY Sizes
  <2>2. \A i \in 1 .. Period : SampleOf(l, i - 1) \in Samples
    BY <1>1, <2>1, SampleIs
  <2>3. t \in [1 .. Period -> Samples]
    BY <2>2
  <2>4. t \in Seq(Samples)
    BY <2>3, Sizes, SeqDef
  <2>5. Len(t) = Period
    BY <2>3, <2>4, Sizes, LenProperties
  <2> QED
    BY <2>4, <2>5
<1> HIDE DEF t
<1>4. \A i \in 1 .. Len(t) - 1 : Follows(t[i], t[i + 1])
  <2> SUFFICES ASSUME NEW i \in 1 .. Period - 1 PROVE Follows(t[i], t[i + 1])
    BY <1>3
  <2> DEFINE k == i - 1
  <2>1. /\ k \in Nat /\ i \in 1 .. Period /\ i + 1 \in 1 .. Period
        /\ (i + 1) - 1 = k + 1
    BY Sizes
  <2>2. t[i] = SampleOf(l, k) /\ t[i + 1] = SampleOf(l, k + 1)
    BY <1>3, <2>1
  <2> HIDE DEF k, l
  <2>3. Follows(SampleOf(l, k), SampleOf(l, k + 1))
    BY <1>1, <2>1, PeriodIsContinuous
  <2> QED
    BY <2>2, <2>3
<1>5. heard # <<>> => Follows(heard[Len(heard)], t[1])
  <2>1. t[1] = SampleOf(l, 0)
    <3>1. 1 \in 1 .. Period /\ 1 - 1 = 0
      BY Sizes
    <3> QED
      BY <1>3, <3>1
  <2>2. heard # <<>> => Follows(heard[Len(heard)], SampleOf(l, 0))
    BY <1>1, PeriodsJoin DEF EgressProofInv, LastIsWhereTheLineIs
  <2> QED
    BY <2>1, <2>2
<1>6. /\ heard' \in Seq(Samples) /\ heard' # <<>>
      /\ heard'[Len(heard')] = t[Len(t)]
      /\ \A i \in 1 .. Len(heard') - 1 : Follows(heard'[i], heard'[i + 1])
  <2>1. LastHeard = IF heard = <<>> THEN <<>> ELSE <<heard[Len(heard)]>>
    BY DEF LastHeard
  <2>2. Len(t) >= 1
    BY <1>3, Sizes
  <2> HIDE DEF l
  <2> QED
    BY <1>1, <1>2, <1>3, <1>4, <1>5, <2>1, <2>2, HeardGoesOn
<1>7. t[Len(t)] = SampleOf(l, Period - 1)
  <2>1. Period \in 1 .. Period
    BY Sizes
  <2> QED
    BY <1>3, <2>1
<1>8. line' \in Lines /\ LeftAt(t[Len(t)], line')
  <2> HIDE DEF l
  <2> QED
    BY <1>1, <1>2, <1>7, PeriodEndsWhereTheLineIs
<1>9. line'.target = line.target
  <2>1. l.target = line.target
    BY <1>1 DEF FadeBegins, Lines
  <2>2. FadeGoesOn(l).target = l.target
    <3> HIDE DEF l
    <3> QED
      BY <1>1 DEF FadeGoesOn, Lines
  <2> QED
    BY <1>2, <2>1, <2>2
<1>10. LastIsWhereTheLineIs' /\ OutputIsContinuous'
  BY <1>6, <1>8 DEF LastIsWhereTheLineIs, OutputIsContinuous
<1> QED
  BY <1>6, <1>8, <1>9, <1>10
LEMMA InitIsProofInv == EgressInit => EgressProofInv
<1> SUFFICES ASSUME EgressInit PROVE EgressProofInv
  OBVIOUS
<1>1. PICK d \in Dials :
        /\ requested = d /\ published = Halves(Frames(d))
        /\ line = [applied |-> Frames(d), target |-> Frames(d), fading |-> FALSE,
                   from |-> 0, to |-> 0, step |-> 0]
  BY DEF EgressInit
<1>2. /\ post = [p \in Posters |-> Idle] /\ turn = "delay" /\ clock = 0 /\ fed = 0
      /\ heard = <<>> /\ ring = [k \in 0 .. RingFrames - 1 |-> Silence]
  BY DEF EgressInit
<1>3. Frames(d) \in Nat /\ Frames(Halves(Frames(d))) = Frames(d)
  BY FramesAreWhole
<1>4. line \in Lines
  BY <1>1, <1>3, Sizes DEF Lines
<1>5. ring \in [0 .. RingFrames - 1 -> Int] /\ heard \in Seq(Samples)
  BY <1>2, EmptySeq DEF Silence
<1>6. post \in [Posters -> [at : {"idle", "pending", "publish"}, offset : Dials \cup {0}]]
  BY <1>2 DEF Idle
<1>7. StageTypeOK
  BY <1>1, <1>2, <1>4, <1>5, <1>6 DEF StageTypeOK
<1>8. HeardWasFed /\ LastIsWhereTheLineIs /\ OutputIsContinuous
  <2>1. Len(heard) = 0
    BY <1>2, EmptySeq
  <2> QED
    BY <1>2, <2>1 DEF HeardWasFed, LastIsWhereTheLineIs, OutputIsContinuous
<1>9. RequestIsOnItsWay
  <2>1. \A p \in Posters : post[p].at = "idle"
    BY <1>2 DEF Idle
  <2> QED
    BY <1>1, <1>3, <2>1 DEF RequestIsOnItsWay
<1> QED
  BY <1>7, <1>8, <1>9 DEF EgressProofInv

\* A post leaves the audio alone.
LEMMA PostsKeepTypes ==
  ASSUME EgressProofInv, NEW p \in Posters,
         (\E d \in Dials : PostRequests(p, d)) \/ PostPends(p) \/ PostPublishes(p)
  PROVE  StageTypeOK' /\ HeardWasFed' /\ LastIsWhereTheLineIs' /\ OutputIsContinuous'
<1>1. UNCHANGED lineVars /\ UNCHANGED turn
  BY DEF PostRequests, PostPends, PostPublishes
<1>2. requested' \in Dials
  BY DEF PostRequests, PostPends, PostPublishes, EgressProofInv, StageTypeOK
<1>3. post' \in [Posters -> [at : {"idle", "pending", "publish"}, offset : Dials \cup {0}]]
  BY DEF PostRequests, PostPends, PostPublishes, EgressProofInv, StageTypeOK, Idle
<1>4. StageTypeOK'
  BY <1>1, <1>2, <1>3 DEF EgressProofInv, StageTypeOK, lineVars
<1> QED
  BY <1>1, <1>4 DEF EgressProofInv, HeardWasFed, LastIsWhereTheLineIs, OutputIsContinuous,
                    lineVars

LEMMA PostKeepsRequest ==
  ASSUME EgressProofInv, NEW p \in Posters, NEW d \in Dials, PostRequests(p, d)
  PROVE  RequestIsOnItsWay'
<1> SUFFICES ASSUME ~overlapped' PROVE RequestIsOnItsWay'
  BY DEF RequestIsOnItsWay
<1>1. /\ \A q \in Posters : post[q].at = "idle"
      /\ post' = [post EXCEPT ![p] = [at |-> "pending", offset |-> d]]
      /\ requested' = d
  BY DEF PostRequests, NobodyPosts
<1>2. post'[p].at = "pending" /\ post'[p].offset = d
  BY <1>1 DEF EgressProofInv, StageTypeOK
<1>3. \A q \in Posters : q # p => post'[q].at = "idle"
  BY <1>1 DEF EgressProofInv, StageTypeOK
<1>4. ~NobodyPosts'
  BY <1>2 DEF NobodyPosts
<1> QED
  BY <1>1, <1>2, <1>3, <1>4 DEF RequestIsOnItsWay

LEMMA PendingKeepsRequest ==
  ASSUME EgressProofInv, NEW p \in Posters, PostPends(p)
  PROVE  RequestIsOnItsWay'
<1> SUFFICES ASSUME ~overlapped' PROVE RequestIsOnItsWay'
  BY DEF RequestIsOnItsWay
<1>1. /\ post[p].at = "pending" /\ delayPending' /\ ~overlapped
      /\ post' = [post EXCEPT ![p].at = "publish"] /\ requested' = requested
  BY DEF PostPends
<1>2. /\ post'[p].at = "publish" /\ post'[p].offset = post[p].offset
      /\ \A q \in Posters : q # p => post'[q] = post[q]
  BY <1>1 DEF EgressProofInv, StageTypeOK
<1> QED
  BY <1>1, <1>2 DEF EgressProofInv, RequestIsOnItsWay

LEMMA PublishingKeepsRequest ==
  ASSUME EgressProofInv, NEW p \in Posters, PostPublishes(p)
  PROVE  RequestIsOnItsWay'
<1> SUFFICES ASSUME ~overlapped' PROVE RequestIsOnItsWay'
  BY DEF RequestIsOnItsWay
<1>1. /\ post[p].at = "publish" /\ published' = post[p].offset /\ ~overlapped
      /\ post' = [post EXCEPT ![p] = Idle]
      /\ UNCHANGED <<requested, delayPending, turn, line>>
  BY DEF PostPublishes, lineVars
<1>2. /\ post'[p].at = "idle" /\ \A q \in Posters : q # p => post'[q] = post[q]
  BY <1>1 DEF EgressProofInv, StageTypeOK, Idle
<1>3. post[p].offset = requested
  BY <1>1 DEF EgressProofInv, RequestIsOnItsWay
<1>4. ~delayPending /\ turn # "load" => line.target = Frames(requested)
  BY <1>1 DEF EgressProofInv, RequestIsOnItsWay
<1> QED
  BY <1>1, <1>2, <1>3, <1>4 DEF EgressProofInv, RequestIsOnItsWay

\* What the loop does to the request it takes.
LEMMA LoopKeepsRequest ==
  ASSUME EgressProofInv, TakeDelay \/ SetOffset \/ PublishOffset \/ TakeSignal \/ Play
  PROVE  RequestIsOnItsWay'
<1> SUFFICES ASSUME ~overlapped' PROVE RequestIsOnItsWay'
  BY DEF RequestIsOnItsWay
<1>1. ~overlapped /\ UNCHANGED <<post, requested>>
  BY DEF TakeDelay, SetOffset, PublishOffset, TakeSignal, Play, atomics
<1>2. NobodyPosts' = NobodyPosts
  BY <1>1 DEF NobodyPosts
<1>3. requested \in Dials /\ line \in Lines
  BY DEF EgressProofInv, StageTypeOK
<1>4. CASE TakeDelay
  <2>1. line' = line /\ published' = published /\ turn = "delay"
        /\ turn' = IF delayPending THEN "load" ELSE "signal"
    BY <1>4 DEF TakeDelay, lineVars
  <2> QED
    BY <1>1, <1>2, <2>1 DEF EgressProofInv, RequestIsOnItsWay
<1>5. CASE SetOffset
  <2>1. turn' = "publish" /\ delayPending' = delayPending
    BY <1>5 DEF SetOffset, atomics
  <2>2. line'.target = Frames(requested)
    BY <1>3, <1>5 DEF SetOffset, Lines
  <2> QED
    BY <1>1, <1>2, <2>1, <2>2 DEF EgressProofInv, RequestIsOnItsWay
<1>6. CASE PublishOffset
  <2>1. /\ turn = "publish" /\ published' = Halves(line.target) /\ line' = line
        /\ delayPending' = delayPending /\ turn' = "signal"
    BY <1>6 DEF PublishOffset, lineVars
  <2>2. Frames(Halves(line.target)) = line.target
    BY <1>3, FramesAreWhole DEF Lines
  <2> QED
    BY <1>1, <1>2, <2>1, <2>2 DEF EgressProofInv, RequestIsOnItsWay
<1>7. CASE TakeSignal
  <2>1. /\ turn = "signal" /\ turn' = "play"
        /\ UNCHANGED <<delayPending, published, line>>
    BY <1>7 DEF TakeSignal
  <2> QED
    BY <1>1, <1>2, <2>1 DEF EgressProofInv, RequestIsOnItsWay
<1>8. CASE Play
  <2>1. /\ turn = "play" /\ turn' = "delay" /\ UNCHANGED <<delayPending, published>>
    BY <1>8 DEF Play, atomics
  <2>2. line'.target = line.target
    BY <1>8, PlayKeepsContinuity
  <2> QED
    BY <1>1, <1>2, <2>1, <2>2 DEF EgressProofInv, RequestIsOnItsWay
<1> QED
  BY <1>4, <1>5, <1>6, <1>7, <1>8

\* A request moves the line at once only while nothing has been heard.
LEMMA SettingKeepsContinuity ==
  ASSUME EgressProofInv, SetOffset
  PROVE  StageTypeOK' /\ LastIsWhereTheLineIs'
<1> DEFINE frames == Frames(requested)
<1>1. requested \in Dials /\ line \in Lines /\ frames \in Nat
  BY FramesAreWhole DEF EgressProofInv, StageTypeOK
<1>2. /\ line' = [line EXCEPT !.target = frames,
                              !.applied = IF fed = 0 /\ ~line.fading THEN frames ELSE line.applied]
      /\ turn' = "publish" /\ UNCHANGED <<post, requested, ring, clock, fed, heard>>
  BY DEF SetOffset, atomics
<1> HIDE DEF frames
<1>3. line' = [applied |-> IF fed = 0 /\ ~line.fading THEN frames ELSE line.applied,
               target |-> frames, fading |-> line.fading, from |-> line.from,
               to |-> line.to, step |-> line.step]
  BY <1>1, <1>2 DEF Lines
<1>4. line' \in Lines
  BY <1>1, <1>3 DEF Lines
<1>5. StageTypeOK'
  BY <1>2, <1>4 DEF EgressProofInv, StageTypeOK
<1>6. LastIsWhereTheLineIs'
  <2> SUFFICES ASSUME heard # <<>> PROVE LeftAt(heard[Len(heard)], line')
    BY <1>2 DEF LastIsWhereTheLineIs
  <2>1. fed # 0
    BY DEF EgressProofInv, HeardWasFed
  <2>2. /\ line'.applied = line.applied /\ line'.fading = line.fading
        /\ line'.from = line.from /\ line'.to = line.to /\ line'.step = line.step
    BY <1>3, <2>1
  <2>3. LeftAt(heard[Len(heard)], line)
    BY DEF EgressProofInv, LastIsWhereTheLineIs
  <2> QED
    BY <2>2, <2>3 DEF LeftAt
<1> QED
  BY <1>5, <1>6

LEMMA LoopKeepsTypes ==
  ASSUME EgressProofInv, LoopStep
  PROVE  StageTypeOK' /\ HeardWasFed' /\ LastIsWhereTheLineIs' /\ OutputIsContinuous'
<1>1. CASE TakeDelay \/ PublishOffset
  <2>1. UNCHANGED <<post, requested, lineVars>> /\ turn' \in {"load", "signal"}
    BY <1>1 DEF TakeDelay, PublishOffset
  <2> QED
    BY <2>1 DEF EgressProofInv, StageTypeOK, HeardWasFed, LastIsWhereTheLineIs,
                OutputIsContinuous, lineVars
<1>2. CASE TakeSignal
  <2>1. UNCHANGED <<post, requested, line, ring, clock, fed, heard>> /\ turn' = "play"
    BY <1>2 DEF TakeSignal
  <2> QED
    BY <2>1 DEF EgressProofInv, StageTypeOK, HeardWasFed, LastIsWhereTheLineIs,
                OutputIsContinuous
<1>3. CASE SetOffset
  <2>1. UNCHANGED <<fed, heard>>
    BY <1>3 DEF SetOffset
  <2> QED
    BY <1>3, <2>1, SettingKeepsContinuity DEF EgressProofInv, HeardWasFed, OutputIsContinuous
<1>4. CASE Play
  <2>1. /\ turn' = "delay" /\ UNCHANGED <<post, requested>> /\ ring' = Filled
        /\ clock' = (clock + Period) % Wrap
        /\ fed' = IF fed + Period > Fed THEN Fed ELSE fed + Period
    BY <1>4 DEF Play, atomics
  <2>2. ring' \in [0 .. RingFrames - 1 -> Int]
    BY <2>1, FilledIsRing DEF EgressProofInv
  <2>3. clock' \in Nat /\ fed' \in Nat /\ fed' # 0
    BY <2>1, Sizes DEF EgressProofInv, StageTypeOK
  <2>4. /\ heard' \in Seq(Samples) /\ line' \in Lines
        /\ LastIsWhereTheLineIs' /\ OutputIsContinuous'
    BY <1>4, PlayKeepsContinuity
  <2>5. StageTypeOK'
    BY <2>1, <2>2, <2>3, <2>4 DEF EgressProofInv, StageTypeOK
  <2> QED
    BY <2>3, <2>4, <2>5 DEF HeardWasFed
<1> QED
  BY <1>1, <1>2, <1>3, <1>4 DEF LoopStep

LEMMA NextKeepsInv ==
  ASSUME EgressProofInv, [EgressNext]_vars
  PROVE  EgressProofInv'
<1>1. CASE LoopStep
  BY <1>1, LoopKeepsTypes, LoopKeepsRequest DEF LoopStep, EgressProofInv
<1>2. CASE Trigger \/ UNCHANGED vars
  <2>1. UNCHANGED <<post, requested, delayPending, published, turn, lineVars, overlapped>>
    BY <1>2 DEF Trigger, vars, atomics
  <2>2. StageTypeOK' /\ HeardWasFed' /\ LastIsWhereTheLineIs' /\ OutputIsContinuous'
    BY <2>1 DEF EgressProofInv, StageTypeOK, HeardWasFed, LastIsWhereTheLineIs,
                OutputIsContinuous, lineVars
  <2>3. RequestIsOnItsWay'
    BY <2>1 DEF EgressProofInv, RequestIsOnItsWay, NobodyPosts, lineVars
  <2> QED
    BY <2>2, <2>3 DEF EgressProofInv
<1>3. CASE \E p \in Posters :
             (\E d \in Dials : PostRequests(p, d)) \/ PostPends(p) \/ PostPublishes(p)
  BY <1>3, PostsKeepTypes, PostKeepsRequest, PendingKeepsRequest, PublishingKeepsRequest
     DEF EgressProofInv
<1> QED
  BY <1>1, <1>2, <1>3 DEF EgressNext

LEMMA AlwaysProofInv == EgressSpec => []EgressProofInv
  BY InitIsProofInv, NextKeepsInv, PTL DEF EgressSpec

(* "A dial is a jump, and a jump is a click" (delay_line.hpp:21): whatever *)
(* is dialled and when, each sample follows from the one before.           *)
THEOREM OutputIsAlwaysContinuous == EgressSpec => []OutputIsContinuous
<1>1. EgressProofInv => OutputIsContinuous
  BY DEF EgressProofInv
<1> QED
  BY <1>1, AlwaysProofInv, PTL

(* "a newer one simply replaces an older one" (engine.cpp:728): when no    *)
(* request is on its way the offset shown is the one the line heads for,   *)
(* unless the last posts overlapped.                                       *)
THEOREM PublishedIsAlwaysApplied == EgressSpec => []PublishedIsApplied
<1>1. EgressProofInv => PublishedIsApplied
  BY DEF EgressProofInv, RequestIsOnItsWay, PublishedIsApplied
<1> QED
  BY <1>1, AlwaysProofInv, PTL

----------------------------------------------------------------------------
(* What the ring holds *)

LEMMA Spread ==
  ASSUME NEW n \in Nat \ {0}, NEW d \in Int, d >= 1
  PROVE  n * d >= n
  BY SMT

LEMMA Quotient ==
  ASSUME NEW n \in Nat \ {0}, NEW a \in Int
  PROVE  /\ a \div n \in Int /\ a % n \in 0 .. n - 1 /\ a = n * (a \div n) + (a % n)
  BY SMT

\* Two frames less than a round apart are not at the same place in it.
LEMMA LessThanARound ==
  ASSUME NEW n \in Nat \ {0}, NEW a \in Int, NEW b \in Int, a % n = b % n,
         a - b < n, b - a < n
  PROVE  a = b
<1> DEFINE p == a \div n
           q == b \div n
           r == a % n
<1>1. /\ p \in Int /\ q \in Int /\ r \in 0 .. n - 1
      /\ a = n * p + r /\ b = n * q + r
  BY Quotient
<1> HIDE DEF p, q, r
<1>2. n * (p - q) = n * p - n * q /\ n * (q - p) = n * q - n * p
      /\ n * p \in Int /\ n * q \in Int
  BY <1>1, SMT
<1>3. ~(p - q >= 1)
  BY <1>1, <1>2, Spread
<1>4. ~(q - p >= 1)
  BY <1>1, <1>2, Spread
<1>5. p = q
  BY <1>1, <1>3, <1>4
<1> QED
  BY <1>1, <1>5

\* Whole rounds more change nothing.
LEMMA WholeRounds ==
  ASSUME NEW n \in Nat \ {0}, NEW a \in Int, NEW k \in Int
  PROVE  (a + n * k) % n = a % n
<1> DEFINE b == a + n * k
           p == a \div n
           r == a % n
           q == b \div n
           t == b % n
<1>1. n * k \in Int /\ b \in Int
  BY SMT
<1>2. /\ p \in Int /\ r \in 0 .. n - 1 /\ a = n * p + r
      /\ q \in Int /\ t \in 0 .. n - 1 /\ b = n * q + t
  BY <1>1, Quotient
<1>3. b = n * p + r + n * k
  BY <1>2
<1> HIDE DEF b, p, q, r, t
<1>4. n * (p + k - q) = n * p + n * k - n * q /\ n * (q - p - k) = n * q - n * p - n * k
      /\ n * p \in Int /\ n * q \in Int
  BY <1>2, SMT
<1>5. n * (p + k - q) = t - r /\ n * (q - p - k) = r - t
  BY <1>1, <1>2, <1>3, <1>4
<1>6. ~(p + k - q >= 1)
  BY <1>2, <1>5, Spread
<1>7. ~(q - p - k >= 1)
  BY <1>2, <1>5, Spread
<1>8. p + k - q = 0
  BY <1>2, <1>6, <1>7
<1>9. n * 0 = 0
  BY SMT
<1>10. t = r
  BY <1>2, <1>5, <1>8, <1>9
<1> QED
  BY <1>10 DEF t, r, b

\* A frame counted modulo Wrap is still counted right, and lies where it would.
LEMMA FramesWrap ==
  ASSUME NEW x \in Int, NEW y \in Int
  PROVE  /\ ((x % Wrap) + y) % Wrap = (x + y) % Wrap
         /\ Index(((x % Wrap) + y) % Wrap) = (x + y) % RingFrames
         /\ Index((x + y) % Wrap) = (x + y) % RingFrames
         /\ ((x % Wrap) + y) % RingFrames = (x + y) % RingFrames
         /\ x % Wrap \in Nat
<1>1. Wrap \in Nat \ {0} /\ RingFrames \in Nat \ {0} /\ Wrap = 2 * RingFrames
  BY Sizes DEF Wrap
<1>2. ASSUME NEW a \in Int
      PROVE  /\ a % Wrap \in Nat
             /\ \E k \in Int : a % Wrap = a + Wrap * k /\ a % Wrap = a + RingFrames * (2 * k)
  <2>1. PICK q : q = a \div Wrap
    OBVIOUS
  <2>2. q \in Int /\ a % Wrap \in 0 .. Wrap - 1 /\ a = Wrap * q + (a % Wrap)
    BY <1>1, <2>1, Quotient
  <2>3. /\ Wrap * (0 - q) = 0 - Wrap * q /\ Wrap * q \in Int
        /\ RingFrames * (2 * (0 - q)) = Wrap * (0 - q)
    BY <1>1, <2>2, SMT
  <2>4. a % Wrap = a + Wrap * (0 - q) /\ a % Wrap = a + RingFrames * (2 * (0 - q))
    BY <2>2, <2>3
  <2>5. a % Wrap \in Nat /\ 0 - q \in Int
    BY <1>1, <2>2
  <2> QED
    BY <2>4, <2>5, Zenon
<1>3. ASSUME NEW a \in Int, NEW b \in Int
      PROVE  /\ ((a % Wrap) + b) % Wrap = (a + b) % Wrap
             /\ ((a % Wrap) + b) % RingFrames = (a + b) % RingFrames
  <2>1. PICK k \in Int : a % Wrap = a + Wrap * k /\ a % Wrap = a + RingFrames * (2 * k)
    BY <1>2
  <2>2. PICK m, g : m = Wrap * k /\ g = RingFrames * (2 * k)
    OBVIOUS
  <2>3. m \in Int /\ g \in Int /\ 2 * k \in Int
    BY <1>1, <2>2, SMT
  <2>4. (a % Wrap) + b = (a + b) + m /\ (a % Wrap) + b = (a + b) + g
    BY <2>1, <2>2, <2>3
  <2>5. \A c \in Int : (c + m) % Wrap = c % Wrap
    BY <1>1, <2>2, WholeRounds, Zenon
  <2>6. \A c \in Int : (c + g) % RingFrames = c % RingFrames
    BY <1>1, <2>2, <2>3, WholeRounds, Zenon
  <2>7. a + b \in Int
    OBVIOUS
  <2> QED
    BY <2>4, <2>5, <2>6, <2>7, Zenon
<1>4. ASSUME NEW a \in Int
      PROVE  (a % Wrap) % RingFrames = a % RingFrames
  <2>1. ((a % Wrap) + 0) % RingFrames = (a + 0) % RingFrames
    BY <1>3
  <2>2. (a % Wrap) + 0 = a % Wrap /\ a + 0 = a
    BY <1>2
  <2> QED
    BY <2>1, <2>2
<1>5. x + y \in Int
  OBVIOUS
<1> QED
  BY <1>2, <1>3, <1>4, <1>5 DEF Index

Offsets == 0 .. MaxDelay

LineIsBounded ==
  /\ line.applied \in Offsets /\ line.target \in Offsets
  /\ line.from \in Offsets /\ line.to \in Offsets

\* Each frame the line still counts is in its slot.
RingHolds ==
  \A back \in 1 .. fed : ring[(clock - back) % RingFrames] = (clock - back) % Wrap

ReadProofInv == LineIsBounded /\ fed \in 0 .. Fed /\ RingHolds /\ ReadsWhatWasWritten

\* A period leaves in place what an offset can still reach: the ring is larger
\* than a period and the largest offset together.
LEMMA FilledHolds ==
  ASSUME StageTypeOK, RingHolds, fed \in 0 .. Fed, NEW x \in Int,
         clock - fed <= x, clock - MaxDelay <= x, x <= clock + Period - 1
  PROVE  Filled[x % RingFrames] = x % Wrap
<1>1. /\ clock \in Nat /\ fed \in Nat /\ MaxDelay \in Nat /\ Period \in Nat \ {0}
      /\ Period + MaxDelay < RingFrames /\ RingFrames \in Nat \ {0}
      /\ DOMAIN ring = 0 .. RingFrames - 1
  BY EgressAssumption, Sizes DEF StageTypeOK, RingFrames
<1>2. \A i \in Int : Index(FrameAt(i)) = (clock + i) % RingFrames
                     /\ FrameAt(i) = (clock + i) % Wrap
  BY <1>1, FramesWrap DEF FrameAt
<1>3. x % RingFrames \in DOMAIN ring
  BY <1>1, Quotient
<1>4. ASSUME NEW i \in 0 .. Period - 1, Index(FrameAt(i)) = x % RingFrames
      PROVE  clock + i = x
  <2>1. (clock + i) % RingFrames = x % RingFrames /\ clock + i \in Int
    BY <1>1, <1>2, <1>4
  <2>2. (clock + i) - x < RingFrames /\ x - (clock + i) < RingFrames
    BY <1>1
  <2> QED
    BY <1>1, <2>1, <2>2, LessThanARound
<1>5. CASE x >= clock
  <2>1. PICK i \in 0 .. Period - 1 : clock + i = x
    <3>1. x - clock \in 0 .. Period - 1 /\ clock + (x - clock) = x
      BY <1>1, <1>5
    <3> QED
      BY <3>1
  <2>2. i \in Int /\ Index(FrameAt(i)) = x % RingFrames /\ FrameAt(i) = x % Wrap
    <3>1. i \in Int
      BY <1>1
    <3> QED
      BY <1>2, <2>1, <3>1, Zenon
  <2>3. PICK j : j = CHOOSE h \in 0 .. Period - 1 : Index(FrameAt(h)) = x % RingFrames
    OBVIOUS
  <2>4. j \in 0 .. Period - 1 /\ Index(FrameAt(j)) = x % RingFrames
    BY <2>1, <2>2, <2>3, Zenon
  <2>5. j = i
    <3>1. clock + j = x
      BY <1>4, <2>4
    <3> QED
      BY <1>1, <2>1, <2>4, <3>1
  <2>6. Filled[x % RingFrames] = FrameAt(j)
    BY <1>3, <2>1, <2>2, <2>3, Zenon DEF Filled
  <2> QED
    BY <2>2, <2>5, <2>6
<1>6. CASE x < clock
  <2>1. ~ \E i \in 0 .. Period - 1 : Index(FrameAt(i)) = x % RingFrames
    BY <1>1, <1>4, <1>6
  <2>2. Filled[x % RingFrames] = ring[x % RingFrames]
    BY <1>3, <2>1, Zenon DEF Filled
  <2>3. clock - x \in 1 .. fed /\ clock - (clock - x) = x
    BY <1>1, <1>6
  <2>4. ring[(clock - (clock - x)) % RingFrames] = (clock - (clock - x)) % Wrap
    BY <2>3 DEF RingHolds
  <2> QED
    BY <2>2, <2>3, <2>4
<1> QED
  BY <1>1, <1>5, <1>6

\* sample_at finds the frame that lies the offset back.
LEMMA ReadIs ==
  ASSUME StageTypeOK, RingHolds, fed \in 0 .. Fed, NEW i \in 0 .. Period - 1, NEW d \in Offsets
  PROVE  Read(i, d) = IF d > fed + i THEN Silence ELSE (clock + i - d) % Wrap
<1>1. clock \in Nat /\ fed \in Nat /\ i \in Nat /\ d \in Nat /\ d <= MaxDelay
      /\ MaxDelay \in Nat /\ Period \in Nat
  BY EgressAssumption, Sizes DEF StageTypeOK, Offsets
<1>2. CASE d > fed + i
  BY <1>2 DEF Read
<1>3. CASE ~(d > fed + i)
  <2>1. PICK x \in Int : x = clock + i - d
    BY <1>1
  <2>2. /\ clock - fed <= x /\ clock - MaxDelay <= x /\ x <= clock + Period - 1
        /\ x + 0 = x
    BY <1>1, <1>3, <2>1
  <2>3. Filled[x % RingFrames] = x % Wrap
    BY <2>2, FilledHolds
  <2>4. Index((x + 0) % Wrap) = (x + 0) % RingFrames
    BY FramesWrap
  <2>5. Read(i, d) = Filled[Index(x % Wrap)]
    BY <1>3, <2>1 DEF Read
  <2> QED
    BY <1>3, <2>1, <2>2, <2>3, <2>4, <2>5
<1> QED
  BY <1>2, <1>3

\* A sample is made of the offsets it names, and these are legal.
LEMMA SampleReads ==
  ASSUME NEW l \in Lines, NEW i \in Nat,
         l.applied \in Offsets, l.from \in Offsets, l.to \in Offsets
  PROVE  /\ SampleOf(l, i).old \in Offsets /\ SampleOf(l, i).new \in Offsets
         /\ SampleOf(l, i).read = {Read(i, d) : d \in {SampleOf(l, i).old, SampleOf(l, i).new}}
<1>1. CASE l.fading /\ l.step + i <= Fade
  <2>1. SampleOf(l, i) = [old |-> l.from, new |-> l.to, weight |-> l.step + i,
                          read |-> {Read(i, l.from), Read(i, l.to)}]
    BY <1>1 DEF SampleOf
  <2>2. {Read(i, d) : d \in {l.from, l.to}} = {Read(i, l.from), Read(i, l.to)}
    BY Zenon
  <2> QED
    BY <2>1, <2>2
<1>2. CASE ~(l.fading /\ l.step + i <= Fade)
  <2>1. PICK d : d = (IF l.fading THEN l.to ELSE l.applied)
    OBVIOUS
  <2>2. SampleOf(l, i) = [old |-> d, new |-> d, weight |-> Fade, read |-> {Read(i, d)}]
    BY <1>2, <2>1 DEF SampleOf
  <2>3. {Read(i, e) : e \in {d, d}} = {Read(i, d)}
    BY Zenon
  <2>4. d \in Offsets
    BY <2>1
  <2> QED
    BY <2>2, <2>3, <2>4
<1> QED
  BY <1>1, <1>2

\* What is heard of a period is the samples the period was made of.
LEMMA HeardIs ==
  ASSUME StageTypeOK, Play, NEW back \in 1 .. Period
  PROVE  /\ heard'[Len(heard') + 1 - back] = SampleOf(FadeBegins(line), Period - back)
         /\ Period - back \in 0 .. Period - 1
<1> DEFINE l == FadeBegins(line)
           t == [i \in 1 .. Period |-> SampleOf(l, i - 1)]
<1>1. line \in Lines /\ heard \in Seq(Samples) /\ l \in Lines
  BY FadeBeginsIsLine DEF StageTypeOK
<1> HIDE DEF l
<1>2. \A i \in 1 .. Period : i - 1 \in Nat
  BY Sizes
<1>3. t \in [1 .. Period -> Samples]
  BY <1>1, <1>2, SampleIs
<1>4. t \in Seq(Samples)
  BY <1>3, Sizes, SeqDef
<1>5. Len(t) = Period
  BY <1>3, <1>4, Sizes, LenProperties
<1>6. \A i \in 1 .. Period : t[i] = SampleOf(l, i - 1)
  OBVIOUS
<1>7. heard' = LastHeard \o t
  BY DEF Play, l
<1> HIDE DEF t
<1>8. LastHeard \in Seq(Samples) /\ Len(LastHeard) \in Nat
  <2>1. CASE heard = <<>>
    BY <2>1, EmptySeq DEF LastHeard
  <2>2. CASE heard # <<>>
    <3>1. Len(heard) \in Nat \ {0}
      BY <1>1, <2>2, EmptySeq
    <3>2. Len(heard) \in 1 .. Len(heard)
      BY <3>1
    <3>3. heard[Len(heard)] \in Samples
      BY <1>1, <3>2, ElementOfSeq
    <3> QED
      BY <2>2, <3>3 DEF LastHeard
  <2> QED
    BY <2>1, <2>2
<1>9. /\ Len(LastHeard \o t) = Len(LastHeard) + Period
      /\ \A i \in 1 .. Len(LastHeard) + Period :
           (LastHeard \o t)[i] = IF i <= Len(LastHeard) THEN LastHeard[i]
                                 ELSE t[i - Len(LastHeard)]
  BY <1>4, <1>5, <1>8, ConcatProperties
<1>10. PICK n : n = Len(LastHeard)
  OBVIOUS
<1>11. /\ n + Period + 1 - back \in 1 .. n + Period /\ ~(n + Period + 1 - back <= n)
       /\ (n + Period + 1 - back) - n = Period + 1 - back
       /\ Period + 1 - back \in 1 .. Period
       /\ (Period + 1 - back) - 1 = Period - back /\ Period - back \in 0 .. Period - 1
  BY <1>8, <1>10, Sizes
<1>12. heard'[Len(heard') + 1 - back] = t[Period + 1 - back]
  BY <1>7, <1>9, <1>10, <1>11
<1> QED
  BY <1>6, <1>11, <1>12 DEF l

LEMMA PlayKeepsReads ==
  ASSUME EgressProofInv, ReadProofInv, Play
  PROVE  ReadProofInv'
<1> DEFINE l == FadeBegins(line)
<1>0. /\ StageTypeOK /\ line \in Lines /\ l \in Lines /\ fed \in 0 .. Fed /\ RingHolds
      /\ LineIsBounded
  BY FadeBeginsIsLine DEF EgressProofInv, StageTypeOK, ReadProofInv
<1>1. /\ line' = FadeGoesOn(l) /\ ring' = Filled /\ clock' = (clock + Period) % Wrap
      /\ fed' = IF fed + Period > Fed THEN Fed ELSE fed + Period
  BY DEF Play
<1>2. /\ clock \in Nat /\ fed \in Nat /\ MaxDelay \in Nat /\ Period \in Nat \ {0}
      /\ Fed = MaxDelay + Period
  BY <1>0, EgressAssumption, Sizes DEF StageTypeOK, Fed
<1>3. l.applied \in Offsets /\ l.target \in Offsets /\ l.from \in Offsets /\ l.to \in Offsets
  BY <1>0 DEF FadeBegins, LineIsBounded, Lines
<1>4. LineIsBounded'
  <2>1. 0 \in Offsets
    BY <1>2 DEF Offsets
  <2> HIDE DEF l
  <2>2. /\ FadeGoesOn(l).applied \in {l.applied, l.to} /\ FadeGoesOn(l).target = l.target
        /\ FadeGoesOn(l).from \in {l.from, 0} /\ FadeGoesOn(l).to \in {l.to, 0}
    BY <1>0 DEF FadeGoesOn, Lines
  <2> QED
    BY <1>1, <1>3, <2>1, <2>2 DEF LineIsBounded
<1>5. fed' \in 0 .. Fed
  BY <1>1, <1>2
<1>6. ASSUME NEW back \in Nat, NEW d \in Nat
      PROVE  /\ (clock' - back - d) % Wrap = (clock + Period - back - d) % Wrap
             /\ (clock' - back - d) % RingFrames = (clock + Period - back - d) % RingFrames
  <2>1. PICK x, y : x = clock + Period /\ y = 0 - back - d
    OBVIOUS
  <2>5. x \in Int /\ y \in Int
    BY <1>2, <2>1
  <2>2. ((x % Wrap) + y) % Wrap = (x + y) % Wrap
        /\ ((x % Wrap) + y) % RingFrames = (x + y) % RingFrames /\ x % Wrap \in Nat
    BY <2>5, FramesWrap
  <2>3. x + y = clock + Period - back - d /\ (x % Wrap) + y = (x % Wrap) - back - d
    BY <1>2, <2>1, <2>2
  <2>4. clock' = x % Wrap
    BY <1>1, <2>1
  <2> QED
    BY <2>2, <2>3, <2>4
<1>7. RingHolds'
  <2>1. SUFFICES ASSUME NEW back \in 1 .. fed'
                 PROVE  ring'[(clock' - back) % RingFrames] = (clock' - back) % Wrap
    BY DEF RingHolds
  <2>2. PICK x \in Int : x = clock + Period - back
    BY <1>2, <1>5
  <2>3. clock - fed <= x /\ clock - MaxDelay <= x /\ x <= clock + Period - 1
    BY <1>1, <1>2, <2>2
  <2>4. Filled[x % RingFrames] = x % Wrap
    BY <1>0, <2>3, FilledHolds
  <2>5. clock' - back - 0 = clock' - back /\ clock + Period - back - 0 = x
        /\ back \in Nat /\ 0 \in Nat
    <3>1. clock' \in Int
      BY <1>1, <1>2, FramesWrap
    <3> QED
      BY <1>2, <1>5, <2>2, <3>1
  <2> QED
    BY <1>1, <1>6, <2>4, <2>5
<1>8. ReadsWhatWasWritten'
  <2>1. SUFFICES ASSUME NEW back \in 1 .. Period, NEW x, x = heard'[Len(heard') + 1 - back]
                 PROVE  x.read = {IF d > fed' - back THEN Silence
                                  ELSE (clock' - back - d) % Wrap : d \in {x.old, x.new}}
    BY Zenon DEF ReadsWhatWasWritten
  <2>2. PICK i : i = Period - back
    OBVIOUS
  <2>3. x = SampleOf(l, i) /\ i \in 0 .. Period - 1 /\ i \in Nat /\ back \in Nat
    BY <1>0, <1>2, <2>1, <2>2, HeardIs
  <2> HIDE DEF l
  <2>4. x.old \in Offsets /\ x.new \in Offsets
        /\ x.read = {Read(i, d) : d \in {x.old, x.new}}
    BY <1>0, <1>3, <2>3, SampleReads
  <2>5. ASSUME NEW d \in Offsets
        PROVE  Read(i, d) = IF d > fed' - back THEN Silence ELSE (clock' - back - d) % Wrap
    <3>1. Read(i, d) = IF d > fed + i THEN Silence ELSE (clock + i - d) % Wrap
      BY <1>0, <2>3, ReadIs
    <3>2. d \in Nat /\ d <= MaxDelay
      BY <1>2 DEF Offsets
    <3>3. d > fed + i <=> d > fed' - back
      BY <1>1, <1>2, <2>2, <3>2
    <3>4. clock + i - d = clock + Period - back - d
      BY <1>2, <2>2, <3>2
    <3>5. (clock' - back - d) % Wrap = (clock + Period - back - d) % Wrap
      BY <1>6, <2>3, <3>2
    <3> QED
      BY <3>1, <3>3, <3>4, <3>5
  <2> DEFINE Meant(d) == IF d > fed' - back THEN Silence ELSE (clock' - back - d) % Wrap
  <2>6. \A d \in {x.old, x.new} : Read(i, d) = Meant(d)
    BY <2>4, <2>5
  <2> HIDE DEF Meant
  <2>7. x.read = {Meant(d) : d \in {x.old, x.new}}
    BY <2>4, <2>6
  <2> QED
    BY <2>7 DEF Meant
<1> QED
  BY <1>4, <1>5, <1>7, <1>8 DEF ReadProofInv

\* A request is a legal offset when it is rounded to a frame.
LEMMA DialsAreOffsets == \A d \in Dials : Frames(d) \in Offsets
<1>1. \A m \in Nat : \A d \in 0 .. 2 * m : (d + 1) \div 2 \in 0 .. m
  BY SMT
<1> QED
  BY <1>1, EgressAssumption DEF Frames, Offsets

LEMMA ReadsInit ==
  ASSUME EgressInit
  PROVE  ReadProofInv
<1>1. PICK d \in Dials :
        line = [applied |-> Frames(d), target |-> Frames(d), fading |-> FALSE,
                from |-> 0, to |-> 0, step |-> 0]
  BY DEF EgressInit
<1>2. Frames(d) \in Offsets /\ 0 \in Offsets /\ 0 \in 0 .. Fed
  BY DialsAreOffsets, Sizes DEF Offsets
<1>3. LineIsBounded
  BY <1>1, <1>2 DEF LineIsBounded
<1>4. fed = 0 /\ heard = <<>>
  BY DEF EgressInit
<1> QED
  BY <1>2, <1>3, <1>4 DEF ReadProofInv, RingHolds, ReadsWhatWasWritten

LEMMA ReadsNext ==
  ASSUME EgressProofInv, ReadProofInv, [EgressNext]_vars
  PROVE  ReadProofInv'
<1>1. CASE Play
  BY <1>1, PlayKeepsReads
<1>2. CASE SetOffset
  <2>1. requested \in Dials /\ line \in Lines
    BY DEF EgressProofInv, StageTypeOK
  <2>2. Frames(requested) \in Offsets
    BY <2>1, DialsAreOffsets
  <2>3. UNCHANGED <<fed, ring, clock, heard>>
    BY <1>2 DEF SetOffset
  <2>4. /\ line'.applied \in {line.applied, Frames(requested)}
        /\ line'.target = Frames(requested) /\ line'.from = line.from /\ line'.to = line.to
    BY <1>2, <2>1 DEF SetOffset, Lines
  <2>5. LineIsBounded'
    BY <2>2, <2>4 DEF ReadProofInv, LineIsBounded
  <2> QED
    BY <2>3, <2>5 DEF ReadProofInv, RingHolds, ReadsWhatWasWritten
<1>3. CASE UNCHANGED <<line, ring, clock, fed, heard>>
  BY <1>3 DEF ReadProofInv, LineIsBounded, RingHolds, ReadsWhatWasWritten
<1>4. ASSUME ~Play, ~SetOffset PROVE UNCHANGED <<line, ring, clock, fed, heard>>
  BY <1>4 DEF EgressNext, LoopStep, TakeDelay, PublishOffset, TakeSignal, Trigger, PostRequests,
              PostPends, PostPublishes, vars, lineVars
<1> QED
  BY <1>1, <1>2, <1>3, <1>4

(* "the ring is always strictly larger than the span it holds"             *)
(* (delay_line.cpp:78): for every ring of that size, period and offset,    *)
(* and however often the frame counter has gone round, a sample is made of *)
(* exactly the frames that lie its offsets back (ReadsWhatWasWritten).     *)
THEOREM ReadsAreAlwaysRight == EgressSpec => []ReadsWhatWasWritten
<1>1. EgressInit => EgressProofInv /\ ReadProofInv
  BY InitIsProofInv, ReadsInit
<1>2. EgressProofInv /\ ReadProofInv /\ [EgressNext]_vars => (EgressProofInv /\ ReadProofInv)'
  BY NextKeepsInv, ReadsNext
<1>3. ReadProofInv => ReadsWhatWasWritten
  BY DEF ReadProofInv
<1> QED
  BY <1>1, <1>2, <1>3, PTL DEF EgressSpec
=============================================================================
