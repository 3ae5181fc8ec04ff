-------------------------- MODULE HalDeviceProofs --------------------------
(***************************************************************************)
(* The invariants of the shared region and of its ring's counts, for every *)
(* capacity, size of the offers, length of the stream and number of deaths *)
(* and failing calls.                                                      *)
(***************************************************************************)
EXTENDS HalDevice, TLAPS

\* What the ring's counts are to one another while nobody attached too early.
CountsAgree ==
  /\ writeIndex \in Nat /\ readIndex \in 0 .. writeIndex
  /\ writeStart \in Nat /\ writing \in 0 .. Capacity
  /\ readStart \in Nat /\ reading \in Nat
  /\ skipped \in Nat /\ dropped \in Nat
  /\ writing # 0 => writeStart = writeIndex
  /\ reading # 0 =>
       /\ readIndex <= readStart /\ readStart + reading <= writeIndex
       /\ readStart = readIndex \/ readStart + Capacity <= writeIndex
  /\ Lost <= dropped

\* What a step of the ring does to the indices a reader of the counts relies on.
IndicesRise == writeIndex' >= writeIndex /\ readIndex' >= readIndex /\ dropped' >= dropped

\* A ring nobody has used since it was zero.
RingIsUnused ==
  /\ writeIndex = 0 /\ readIndex = 0 /\ skipped = 0 /\ dropped = 0
  /\ writeStart = 0 /\ writing = 0 /\ readStart = 0 /\ reading = 0

\* A creator at work is as far as the region is.
CreatorIsWhereItIs ==
  \A h \in Halves :
    /\ half[h] = "created" => region = "unsized"
    /\ half[h] = "sized" => region = "blank"
    /\ half[h] = "headed" => region = "headed"

\* Only a process that is bound is inside a call on the ring.
IdleUnlessBound ==
  /\ ~Bound("plugin") => writing = 0
  /\ ~Bound("app") => reading = 0

\* Before the reset the ring is unused, or somebody came too early.
UnusedUntilReset ==
  early \/ region = "ready" \/ (RingIsUnused /\ \A h \in Halves : ~Bound(h))

RegionInv == RegionTypeOK /\ OneCreator /\ UsedIsInitialized /\ CreatorIsWhereItIs

HalProofInv ==
  RegionInv /\ IdleUnlessBound /\ UnusedUntilReset /\ (early \/ CountsAgree)

----------------------------------------------------------------------------
(* The ring *)

LEMMA InitCountsAgree == SharedInit => CountsAgree
  BY CapacityAssumption DEF SharedInit, CountsAgree, Lost, Excess

\* An offer is counted by what it is about to overwrite, an index moves forward.
LEMMA ProducerKeepsCounts ==
  ASSUME CountsAgree, ProducerStep
  PROVE  CountsAgree' /\ IndicesRise
<1>1. CASE WriteBegins
  <2>1. PICK n \in 1 .. MaxBatch :
          /\ writing' = Least(n, Capacity)
          /\ dropped' = dropped + Overwritten(Least(n, Capacity))
    BY <1>1 DEF WriteBegins
  <2>2. Least(n, Capacity) \in 1 .. Capacity
    BY CapacityAssumption DEF Least
  <2>3. /\ writing' \in 1 .. Capacity /\ writeStart' = writeIndex
        /\ dropped' = dropped + Excess(writeIndex - readIndex + writing', Capacity)
        /\ UNCHANGED <<writeIndex, readIndex, readStart, reading, skipped>>
    BY <1>1, <2>1, <2>2 DEF WriteBegins, Overwritten, consumerVars
  <2> DEFINE over == Excess(writeIndex - readIndex + writing', Capacity)
  <2>4. over \in Nat
    <3>1. writeIndex \in Nat /\ readIndex \in Nat /\ readIndex <= writeIndex
      BY DEF CountsAgree
    <3>2. writing' \in Nat /\ Capacity \in Nat
      BY <2>3, CapacityAssumption
    <3>3. writeIndex - readIndex + writing' \in Nat
      <4>1. writeIndex - readIndex \in Nat
        BY <3>1
      <4>2. QED
        BY <3>2, <4>1
    <3>4. QED
      BY <3>2, <3>3 DEF Excess
  <2>5. Lost' = skipped + over
    <3>1. Lost' = skipped + Excess(writeIndex + writing' - readIndex, Capacity)
      BY <2>3 DEF Lost
    <3>2. writeIndex + writing' - readIndex = writeIndex - readIndex + writing'
      <4>1. writeIndex \in Int /\ readIndex \in Int /\ writing' \in Int
        BY <2>3, CapacityAssumption DEF CountsAgree
      <4>2. QED
        BY <4>1
    <3>3. QED
      BY <3>1, <3>2
  <2>6. skipped <= dropped
    BY CapacityAssumption DEF CountsAgree, Lost, Excess
  <2>7. dropped' \in Nat /\ dropped' >= dropped /\ Lost' <= dropped'
    <3>1. dropped' = dropped + over
      BY <2>3
    <3>2. skipped \in Nat /\ dropped \in Nat
      BY DEF CountsAgree
    <3> HIDE DEF over
    <3>3. QED
      BY <2>4, <2>5, <2>6, <3>1, <3>2
  <2>8. QED
    BY <2>3, <2>7, CapacityAssumption DEF CountsAgree, IndicesRise
<1>2. CASE CopyIn
  BY <1>2 DEF CopyIn, consumerVars, CountsAgree, IndicesRise, Lost
<1>3. CASE WritePublishes
  <2>1. /\ writeIndex' = writeIndex + writing /\ writing' = 0 /\ writeStart' = 0
        /\ UNCHANGED <<readIndex, readStart, reading, skipped, dropped>>
    BY <1>3 DEF WritePublishes, CountsAgree, consumerVars
  <2>2. Lost' = Lost
    BY <2>1, CapacityAssumption DEF Lost, Excess, CountsAgree
  <2>3. QED
    BY <2>1, <2>2, CapacityAssumption DEF CountsAgree, IndicesRise
<1>4. QED
  BY <1>1, <1>2, <1>3 DEF ProducerStep

\* What a read skips no longer existed when it began, and was counted by then.
LEMMA ConsumerKeepsCounts ==
  ASSUME CountsAgree, ConsumerStep
  PROVE  CountsAgree' /\ IndicesRise
<1>1. CASE ReadBegins
  <2>1. PICK n \in 1 .. MaxBatch : reading' = Least(n, writeIndex - Oldest)
    BY <1>1 DEF ReadBegins
  <2>2. /\ Oldest \in readIndex .. writeIndex
        /\ Oldest = readIndex \/ Oldest + Capacity <= writeIndex
    BY CapacityAssumption DEF Oldest, CountsAgree
  <2>3. reading' \in Nat /\ readStart' = Oldest /\ Oldest + reading' <= writeIndex
    BY <1>1, <2>1, <2>2 DEF ReadBegins, Least, CountsAgree
  <2>4. UNCHANGED <<writeIndex, readIndex, writeStart, writing, skipped, dropped>>
    BY <1>1 DEF ReadBegins, producerVars
  <2>5. Lost' = Lost
    BY <2>4 DEF Lost
  <2>6. Lost' <= dropped'
    BY <2>4, <2>5 DEF CountsAgree
  <2>7. readStart' \in Nat /\ readIndex <= readStart' /\ readStart' + reading' <= writeIndex
        /\ (readStart' = readIndex \/ readStart' + Capacity <= writeIndex)
    <3>1. writeIndex \in Nat /\ readIndex \in Nat
      BY DEF CountsAgree
    <3>2. Oldest \in Nat /\ readIndex <= Oldest
      BY <2>2, <3>1
    <3>3. QED
      BY <2>2, <2>3, <3>2
  <2>8. CountsAgree'
    <3>1. /\ writeIndex' \in Nat /\ readIndex' \in 0 .. writeIndex'
          /\ writeStart' \in Nat /\ writing' \in 0 .. Capacity
          /\ skipped' \in Nat /\ dropped' \in Nat
          /\ writing' # 0 => writeStart' = writeIndex'
      BY <2>4 DEF CountsAgree
    <3>2. /\ readIndex' <= readStart' /\ readStart' + reading' <= writeIndex'
          /\ readStart' = readIndex' \/ readStart' + Capacity <= writeIndex'
      BY <2>4, <2>7
    <3>3. readStart' \in Nat /\ reading' \in Nat
      BY <2>3, <2>7
    <3>4. QED
      BY <2>6, <3>1, <3>2, <3>3 DEF CountsAgree
  <2>9. IndicesRise
    BY <2>4 DEF IndicesRise, CountsAgree
  <2>10. QED
    BY <2>8, <2>9
<1>2. CASE CopyOut
  BY <1>2 DEF CopyOut, producerVars, CountsAgree, IndicesRise, Lost
<1>3. CASE ReadPublishes
  <2>1. /\ readIndex' = readStart + reading /\ skipped' = skipped + (readStart - readIndex)
        /\ reading # 0 /\ reading' = 0
        /\ UNCHANGED <<writeIndex, writeStart, writing, readStart, dropped>>
    BY <1>3 DEF ReadPublishes, producerVars
  <2>2. Lost' <= Lost
    BY <2>1, CapacityAssumption DEF Lost, Excess, CountsAgree
  <2>3. Lost \in Int /\ Lost' \in Int
    BY <2>1, CapacityAssumption DEF Lost, Excess, CountsAgree
  <2>4. QED
    BY <2>1, <2>2, <2>3, CapacityAssumption DEF CountsAgree, IndicesRise
<1>4. QED
  BY <1>1, <1>2, <1>3 DEF ConsumerStep

\* A process that dies takes its own half of the ring's call with it.
LEMMA DeathKeepsCounts ==
  ASSUME CountsAgree, ProducerDies \/ ConsumerDies
  PROVE  CountsAgree' /\ IndicesRise
<1>1. CASE ProducerDies
  <2>1. /\ writing' = 0 /\ writeStart' = 0
        /\ UNCHANGED <<writeIndex, readIndex, readStart, reading, skipped, dropped>>
    BY <1>1 DEF ProducerDies, consumerVars
  <2>2. Lost' <= Lost /\ Lost \in Int /\ Lost' \in Int
    BY <2>1, CapacityAssumption DEF Lost, Excess, CountsAgree
  <2>3. QED
    BY <2>1, <2>2, CapacityAssumption DEF CountsAgree, IndicesRise
<1>2. CASE ConsumerDies
  <2>1. /\ reading' = 0 /\ readStart' = 0
        /\ UNCHANGED <<writeIndex, readIndex, writeStart, writing, skipped, dropped>>
    BY <1>2 DEF ConsumerDies, producerVars
  <2>2. Lost' = Lost
    BY <2>1 DEF Lost
  <2>3. QED
    BY <2>1, <2>2 DEF CountsAgree, IndicesRise
<1>3. QED
  BY <1>1, <1>2

----------------------------------------------------------------------------
(* The region *)

LEMMA InitIsProofInv == HalInit => HalProofInv
<1> SUFFICES ASSUME HalInit PROVE HalProofInv
  OBVIOUS
<1>1. CountsAgree
  BY InitCountsAgree DEF HalInit
<1>2. RegionInv
  <2>1. \A h \in Halves : half[h] = "closed"
    BY DEF HalInit
  <2>2. RegionTypeOK
    <3>1. half \in [Halves -> {"closed", "created", "sized", "headed", "mapped",
                              "orphaned", "unbound", "bound"}]
      BY DEF HalInit
    <3>2. faults \in 0 .. MaxFaults
      BY MaxFaultsAssumption DEF HalInit
    <3>3. QED
      BY <3>1, <3>2 DEF HalInit, RegionTypeOK
  <2>3. OneCreator /\ UsedIsInitialized /\ CreatorIsWhereItIs
    BY <2>1 DEF OneCreator, UsedIsInitialized, CreatorIsWhereItIs, Bound
  <2>4. QED
    BY <2>2, <2>3 DEF RegionInv
<1>3. IdleUnlessBound /\ UnusedUntilReset
  BY DEF HalInit, SharedInit, IdleUnlessBound, UnusedUntilReset, RingIsUnused, Bound, Halves
<1>4. QED
  BY <1>1, <1>2, <1>3 DEF HalProofInv

\* The steps of opening that leave the ring alone.
OpeningStep(h) ==
  \/ Creates(h) \/ Sizes(h) \/ SizeFails(h) \/ MapFails(h) \/ Heads(h)
  \/ Maps(h) \/ Attaches(h) \/ AttachRefused(h)

LeavingStep(h) == Closes(h) \/ Dies(h) \/ AttachFaults(h)

AudioStep ==
  PluginWrites \/ AppReadBegins \/ AppCopies \/ AppReadEnds \/ AppReturns
    \/ AppConverts \/ AppWrites

LEMMA OpeningKeepsRegion ==
  ASSUME RegionInv, NEW h \in Halves, OpeningStep(h)
  PROVE  RegionInv'
<1> USE DEF RegionInv, RegionTypeOK, OneCreator, UsedIsInitialized, CreatorIsWhereItIs,
            Bound, Halves, Goes, appVars
<1>1. CASE Creates(h)
  BY <1>1 DEF Creates
<1>2. CASE Sizes(h)
  BY <1>2 DEF Sizes
<1>3. CASE SizeFails(h)
  <2>1. faults' \in 0 .. MaxFaults
    BY <1>3, MaxFaultsAssumption DEF SizeFails, Spends
  <2>2. QED
    BY <1>3, <2>1 DEF SizeFails
<1>4. CASE MapFails(h)
  <2>1. faults' \in 0 .. MaxFaults
    BY <1>4, MaxFaultsAssumption DEF MapFails, Spends
  <2>2. QED
    BY <1>4, <2>1 DEF MapFails, Refused
<1>5. CASE Heads(h)
  BY <1>5 DEF Heads
<1>6. CASE Maps(h)
  BY <1>6 DEF Maps, Refused
<1>7. CASE Attaches(h)
  BY <1>7 DEF Attaches, VouchedFor
<1>8. CASE AttachRefused(h)
  BY <1>8 DEF AttachRefused, Refused
<1>9. QED
  BY <1>1, <1>2, <1>3, <1>4, <1>5, <1>6, <1>7, <1>8 DEF OpeningStep

\* Nobody is bound by it, except to a region already vouched for.
LEMMA OpeningKeepsRing ==
  ASSUME HalProofInv, NEW h \in Halves, OpeningStep(h)
  PROVE  /\ UNCHANGED sharedVars
         /\ IdleUnlessBound' /\ UnusedUntilReset' /\ (early' \/ CountsAgree')
         /\ early => early'
<1>1. UNCHANGED sharedVars
  BY DEF OpeningStep, Creates, Sizes, SizeFails, MapFails, Heads, Maps, Attaches, AttachRefused
<1>2. early => early'
  BY DEF OpeningStep, Creates, Sizes, SizeFails, MapFails, Heads, Maps, Attaches, AttachRefused
<1>3. CountsAgree => CountsAgree'
  BY <1>1 DEF CountsAgree, Lost, sharedVars, producerVars, consumerVars
<1>4. \A g \in Halves : Bound(g) => Bound(g)'
  BY DEF OpeningStep, Creates, Sizes, SizeFails, MapFails, Heads, Maps, Attaches,
         AttachRefused, Goes, Refused, Bound, Halves, HalProofInv, RegionInv, RegionTypeOK
<1>5. IdleUnlessBound'
  BY <1>1, <1>4 DEF IdleUnlessBound, HalProofInv, Halves, sharedVars, producerVars, consumerVars
<1>6. RingIsUnused => RingIsUnused'
  BY <1>1 DEF RingIsUnused, sharedVars, producerVars, consumerVars
<1>7. UnusedUntilReset'
  <2>1. CASE Attaches(h)
    BY <2>1, <1>2 DEF Attaches, VouchedFor, UnusedUntilReset
  <2>2. CASE ~Attaches(h)
    <3>1. \A g \in Halves : Bound(g)' => Bound(g)
      BY <2>2 DEF OpeningStep, Creates, Sizes, SizeFails, MapFails, Heads, Maps, AttachRefused,
                  Goes, Refused, Bound, Halves, HalProofInv, RegionInv, RegionTypeOK
    <3>2. region = "ready" => region' = "ready"
      BY <2>2 DEF OpeningStep, Creates, Sizes, SizeFails, MapFails, Heads, Maps, AttachRefused,
                  HalProofInv, RegionInv, CreatorIsWhereItIs
    <3>3. QED
      BY <1>2, <1>6, <3>1, <3>2 DEF UnusedUntilReset, HalProofInv
  <2>3. QED
    BY <2>1, <2>2
<1>8. QED
  BY <1>1, <1>2, <1>3, <1>5, <1>7 DEF HalProofInv

\* The reset is of a ring that is unused, or that somebody came to too early.
LEMMA ResetKeepsInv ==
  ASSUME HalProofInv, NEW h \in Halves, Resets(h)
  PROVE  HalProofInv' /\ (early \/ \A g \in Halves : ~Bound(g))
<1>1. region = "headed" /\ half[h] = "headed"
  BY DEF Resets, HalProofInv, RegionInv, CreatorIsWhereItIs
<1>2. early \/ (RingIsUnused /\ \A g \in Halves : ~Bound(g))
  BY <1>1 DEF HalProofInv, UnusedUntilReset
<1>3. RegionInv'
  BY <1>1 DEF Resets, HalProofInv, RegionInv, RegionTypeOK, OneCreator, UsedIsInitialized,
              CreatorIsWhereItIs, Bound, Halves, Goes, appVars
<1>4. IdleUnlessBound'
  <2>1. UNCHANGED <<writing, reading>> /\ \A g \in Halves : Bound(g) => Bound(g)'
    BY <1>1 DEF Resets, Goes, Bound, Halves, HalProofInv, RegionInv, RegionTypeOK
  <2>2. QED
    BY <2>1 DEF IdleUnlessBound, HalProofInv, Halves
<1>5. UnusedUntilReset'
  BY DEF Resets, UnusedUntilReset
<1>6. early' \/ CountsAgree'
  <2>1. CASE early
    BY <2>1 DEF Resets
  <2>2. CASE RingIsUnused
    BY <2>2, CapacityAssumption DEF Resets, RingIsUnused, CountsAgree, Lost, Excess
  <2>3. QED
    BY <1>2, <2>1, <2>2
<1>7. QED
  BY <1>2, <1>3, <1>4, <1>5, <1>6 DEF HalProofInv

\* Who leaves, leaves the region as it is.
LEMMA LeavingKeepsInv ==
  ASSUME HalProofInv, NEW h \in Halves, LeavingStep(h)
  PROVE  HalProofInv' /\ (early \/ IndicesRise)
<1>1. Leaves(h) /\ UNCHANGED <<region, early>>
  BY DEF LeavingStep, Closes, Dies, AttachFaults
<1>2. faults' \in 0 .. MaxFaults
  BY MaxFaultsAssumption
     DEF LeavingStep, Closes, Dies, AttachFaults, Spends, HalProofInv, RegionInv, RegionTypeOK
<1>3. half' = [half EXCEPT ![h] = "closed"]
  BY <1>1 DEF Leaves, Goes
<1>4. ProducerDies \/ ConsumerDies
  BY <1>1 DEF Leaves
<1>5. RegionInv'
  <2>1. RegionTypeOK'
    BY <1>1, <1>2, <1>3 DEF Leaves, HalProofInv, RegionInv, RegionTypeOK, Halves
  <2>2. QED
    BY <1>1, <1>3, <2>1 DEF HalProofInv, RegionInv, RegionTypeOK, OneCreator,
                            UsedIsInitialized, CreatorIsWhereItIs, Bound, Halves
<1>6. IdleUnlessBound'
  BY <1>1, <1>3 DEF Leaves, ProducerDies, ConsumerDies, producerVars, consumerVars,
                    IdleUnlessBound, Bound, Halves, HalProofInv, RegionInv, RegionTypeOK
<1>7. UnusedUntilReset'
  <2>1. RingIsUnused => RingIsUnused'
    BY <1>4 DEF ProducerDies, ConsumerDies, producerVars, consumerVars, RingIsUnused
  <2>2. \A g \in Halves : Bound(g)' => Bound(g)
    BY <1>3 DEF Bound, Halves, HalProofInv, RegionInv, RegionTypeOK
  <2>3. QED
    BY <1>1, <2>1, <2>2 DEF UnusedUntilReset, HalProofInv
<1>8. early \/ (CountsAgree' /\ IndicesRise)
  BY <1>4, DeathKeepsCounts DEF HalProofInv
<1>9. QED
  BY <1>1, <1>5, <1>6, <1>7, <1>8 DEF HalProofInv

\* The ring is only touched by who is bound, and so only after the reset.
LEMMA AudioKeepsInv ==
  ASSUME HalProofInv, AudioStep
  PROVE  HalProofInv' /\ (early \/ IndicesRise)
<1>1. UNCHANGED <<region, half, early, faults>>
  BY DEF AudioStep, PluginWrites, AppReadBegins, AppCopies, AppReadEnds, AppReturns,
         AppConverts, AppWrites, regionVars
<1>2. RegionInv'
  <2>1. scratch' \in {"silence", "captured", "played"}
    BY DEF AudioStep, PluginWrites, AppReadBegins, AppCopies, AppReadEnds, AppReturns,
           AppConverts, AppWrites, HalProofInv, RegionInv, RegionTypeOK
  <2>2. reader' \in {"idle", "filled"} /\ writer' \in {"idle", "pacing"}
    BY DEF AudioStep, PluginWrites, AppReadBegins, AppCopies, AppReadEnds, AppReturns,
           AppConverts, AppWrites, HalProofInv, RegionInv, RegionTypeOK
  <2>3. crossed' \in BOOLEAN
    BY DEF AudioStep, PluginWrites, AppReadBegins, AppCopies, AppReadEnds, AppReturns,
           AppConverts, AppWrites
  <2>4. QED
    BY <1>1, <2>1, <2>2, <2>3 DEF HalProofInv, RegionInv, RegionTypeOK, OneCreator,
                                  UsedIsInitialized, CreatorIsWhereItIs, Bound
<1>3. \/ Bound("plugin") /\ ProducerStep
      \/ Bound("app") /\ ConsumerStep
      \/ UNCHANGED sharedVars
  BY DEF AudioStep, PluginWrites, AppReadBegins, AppCopies, AppReadEnds, AppReturns,
         AppConverts, AppWrites, ConsumerStep, CopyOut, ReadPublishes, HalProofInv,
         IdleUnlessBound
<1>4. IdleUnlessBound'
  <2>1. CASE Bound("plugin") /\ ProducerStep
    BY <1>1, <2>1 DEF ProducerStep, WriteBegins, CopyIn, WritePublishes, consumerVars,
                      IdleUnlessBound, HalProofInv, Bound
  <2>2. CASE Bound("app") /\ ConsumerStep
    BY <1>1, <2>2 DEF ConsumerStep, ReadBegins, CopyOut, ReadPublishes, producerVars,
                      IdleUnlessBound, HalProofInv, Bound
  <2>3. CASE UNCHANGED sharedVars
    BY <1>1, <2>3 DEF IdleUnlessBound, HalProofInv, Bound, sharedVars, producerVars, consumerVars
  <2>4. QED
    BY <1>3, <2>1, <2>2, <2>3
<1>5. UnusedUntilReset'
  <2>1. CASE \A h \in Halves : ~Bound(h)
    <3>1. UNCHANGED sharedVars
      BY <1>3, <2>1 DEF Halves
    <3>2. QED
      BY <1>1, <3>1 DEF UnusedUntilReset, HalProofInv, RingIsUnused, Bound, sharedVars,
                        producerVars, consumerVars
  <2>2. CASE \E h \in Halves : Bound(h)
    BY <1>1, <2>2 DEF UnusedUntilReset, HalProofInv
  <2>3. QED
    BY <2>1, <2>2
<1>6. early \/ (CountsAgree' /\ IndicesRise)
  <2> SUFFICES ASSUME CountsAgree PROVE CountsAgree' /\ IndicesRise
    BY DEF HalProofInv
  <2>1. CASE UNCHANGED sharedVars
    BY <2>1 DEF CountsAgree, IndicesRise, Lost, sharedVars, producerVars, consumerVars
  <2>2. QED
    BY <1>3, <2>1, ProducerKeepsCounts, ConsumerKeepsCounts
<1>7. QED
  BY <1>1, <1>2, <1>4, <1>5, <1>6 DEF HalProofInv

LEMMA NextKeepsInv ==
  ASSUME HalProofInv, [HalNext]_vars
  PROVE  HalProofInv' /\ ((\E h \in Halves : Bound(h)) /\ ~early => IndicesRise)
<1>1. ASSUME NEW h \in Halves, OpeningStep(h)
      PROVE  HalProofInv' /\ (early \/ IndicesRise)
  <2>1. RegionInv' /\ IdleUnlessBound' /\ UnusedUntilReset' /\ (early' \/ CountsAgree')
    BY <1>1, OpeningKeepsRegion, OpeningKeepsRing DEF HalProofInv
  <2>2. early \/ IndicesRise
    BY <1>1, OpeningKeepsRing
       DEF HalProofInv, CountsAgree, IndicesRise, sharedVars, producerVars, consumerVars
  <2>3. QED
    BY <2>1, <2>2 DEF HalProofInv
<1>2. CASE UNCHANGED vars
  <2>1. UNCHANGED sharedVars /\ UNCHANGED regionVars /\ UNCHANGED appVars /\ faults' = faults
    BY <1>2 DEF vars
  <2>2. RegionInv'
    BY <2>1 DEF regionVars, appVars, HalProofInv, RegionInv, RegionTypeOK, OneCreator,
                UsedIsInitialized, CreatorIsWhereItIs, Bound
  <2>3. IdleUnlessBound' /\ UnusedUntilReset'
    BY <2>1 DEF regionVars, sharedVars, producerVars, consumerVars, HalProofInv,
                IdleUnlessBound, UnusedUntilReset, RingIsUnused, Bound
  <2>4. early' = early /\ (CountsAgree => CountsAgree' /\ IndicesRise)
    BY <2>1 DEF regionVars, sharedVars, producerVars, consumerVars, CountsAgree, IndicesRise, Lost
  <2>5. QED
    BY <2>2, <2>3, <2>4 DEF HalProofInv
<1>3. CASE AudioStep
  BY <1>3, AudioKeepsInv
<1>4. ASSUME NEW h \in Halves, LeavingStep(h)
      PROVE  HalProofInv' /\ (early \/ IndicesRise)
  BY <1>4, LeavingKeepsInv
<1>5. ASSUME NEW h \in Halves, Resets(h)
      PROVE  HalProofInv' /\ (early \/ \A g \in Halves : ~Bound(g))
  BY <1>5, ResetKeepsInv
<1>6. \/ AudioStep \/ UNCHANGED vars
      \/ \E h \in Halves : OpeningStep(h) \/ LeavingStep(h) \/ Resets(h)
  BY DEF HalNext, AudioStep, OpeningStep, LeavingStep
<1>7. QED
  BY <1>1, <1>2, <1>3, <1>4, <1>5, <1>6

LEMMA AlwaysProofInv == HalSpec => []HalProofInv
<1>1. HalInit => HalProofInv
  BY InitIsProofInv
<1>2. HalProofInv /\ [HalNext]_vars => HalProofInv'
  BY NextKeepsInv
<1>3. QED
  BY <1>1, <1>2, PTL DEF HalSpec

----------------------------------------------------------------------------
(* What is read: the invariant of the ring's storage                       *)

(* Where the frames in storage end: at the write index, or where the write *)
(* in progress began if the index was reset under it.                      *)
Base == IF writing # 0 THEN writeStart ELSE writeIndex

\* The slots that a write in progress, or one that died, has taken from frames.
Torn == {SlotOf(Base + k) : k \in 0 .. Most(written, torn) - 1}

\* The last frames written are stored, but for those torn.
StoredOrTorn ==
  \A j \in Nat : Base - Capacity <= j /\ j < Base /\ SlotOf(j) \notin Torn
                  => storage[SlotOf(j)] = j

\* What the write in progress copied is there.
CopiedIn == \A k \in 0 .. written - 1 : storage[SlotOf(writeStart + k)] = writeStart + k

\* What the read in progress is about to copy is there, unless it was disturbed.
StillThere ==
  intact => \A j \in readStart .. readStart + reading - 1 : storage[SlotOf(j)] = j

\* The indices of the calls in progress, and what a reset leaves of them.
CallsOK ==
  /\ readStart + reading <= writeIndex
  /\ reading # 0 => readIndex <= readStart /\ Len(destination) <= reading
  /\ writing # 0 => /\ writeStart + writing <= MaxWritten
                    /\ writeStart = writeIndex \/ writeIndex = 0

StorageInv == SharedInv /\ StoredOrTorn /\ CopiedIn /\ StillThere /\ CallsOK

\* An application that is not bound has no read in progress.
ReaderIsBound == ~Bound("app") => readStart = 0 /\ reading = 0

\* Nothing is in the ring before the plug-in can have written.
NothingBeforeThePlugin ==
  region \notin {"headed", "ready"} \/ half["plugin"] \in {"created", "sized", "headed"}
    => writeIndex = 0

ReadProofInv == StorageInv /\ ReaderIsBound /\ NothingBeforeThePlugin

LEMMA Spread ==
  ASSUME NEW n \in Nat \ {0}, NEW d \in Int, d >= 1
  PROVE  n * d >= n
  BY SMT

\* Two indices less than a ring apart never share a slot.
LEMMA SlotsAreDistinct ==
  ASSUME NEW a \in Nat, NEW b \in Nat, SlotOf(a) = SlotOf(b),
         a - b < Capacity, b - a < Capacity
  PROVE  a = b
<1> DEFINE d == (a \div Capacity) - (b \div Capacity)
           e == (b \div Capacity) - (a \div Capacity)
<1>1. SlotOf(a) \in 0 .. Capacity - 1 /\ SlotOf(b) \in 0 .. Capacity - 1
  BY CapacityAssumption DEF SlotOf
<1>2. a = Capacity * (a \div Capacity) + SlotOf(a) /\ a \div Capacity \in Int
  BY CapacityAssumption DEF SlotOf
<1>3. b = Capacity * (b \div Capacity) + SlotOf(b) /\ b \div Capacity \in Int
  BY CapacityAssumption DEF SlotOf
<1>4. a - b = Capacity * d /\ b - a = Capacity * e /\ d \in Int /\ e \in Int /\ e = 0 - d
  BY <1>1, <1>2, <1>3, CapacityAssumption
<1>5. Capacity \in Nat \ {0}
  BY CapacityAssumption
<1> HIDE DEF d, e
<1>6. ~(d >= 1)
  BY <1>4, <1>5, Spread
<1>7. ~(e >= 1)
  BY <1>4, <1>5, Spread
<1>8. d = 0
  BY <1>4, <1>6, <1>7
<1>9. a - b = 0
  BY <1>4, <1>5, <1>8
<1>10. QED
  BY <1>9

LEMMA SlotIsInStorage == ASSUME NEW a \in Nat PROVE SlotOf(a) \in 0 .. Capacity - 1
BY CapacityAssumption DEF SlotOf

LEMMA LeastOf ==
  ASSUME NEW a \in Nat, NEW b \in Nat
  PROVE  Least(a, b) \in Nat /\ Least(a, b) <= a /\ Least(a, b) <= b
         /\ (a # 0 /\ b # 0 => Least(a, b) # 0)
BY DEF Least

LEMMA InitStorageInv == ASSUME SharedInit PROVE StorageInv
<1>1. SharedTypeOK
  <2>1. storage \in [0 .. Capacity - 1 -> 0 .. MaxWritten]
    BY BoundsAssumption DEF SharedInit
  <2>2. 0 \in 0 .. MaxWritten /\ 0 \in 0 .. Capacity /\ 0 \in 0 .. 0
    BY BoundsAssumption, CapacityAssumption
  <2>3. QED
    BY <2>1, <2>2 DEF SharedInit, SharedTypeOK
<1>2. UndisturbedReadIsExact
  BY DEF SharedInit, UndisturbedReadIsExact
<1>3. StoredOrTorn /\ CopiedIn /\ StillThere
  BY CapacityAssumption DEF SharedInit, StoredOrTorn, CopiedIn, StillThere, Base
<1>4. CallsOK
  BY DEF SharedInit, CallsOK
<1>5. QED
  BY <1>1, <1>2, <1>3, <1>4 DEF StorageInv, SharedInv

\* A write begins at the write index, and nothing is copied yet.
LEMMA WriteBeginsKeepsStorage ==
  ASSUME StorageInv, WriteBegins
  PROVE  StorageInv'
<1> USE DEF StorageInv, SharedInv
<1>1. PICK n \in 1 .. MaxBatch :
        /\ writeIndex + Least(n, Capacity) <= MaxWritten
        /\ writing' = Least(n, Capacity)
        /\ dropped' = dropped + Overwritten(Least(n, Capacity))
  BY DEF WriteBegins
<1>2. /\ writing = 0 /\ writeStart' = writeIndex /\ written' = 0
      /\ UNCHANGED <<writeIndex, storage, torn, readIndex, readStart, reading, destination,
                     skipped, intact>>
  BY DEF WriteBegins, consumerVars
<1>3. writing' \in 1 .. Capacity /\ writeIndex + writing' <= MaxWritten
  BY <1>1, CapacityAssumption DEF Least
<1>4. dropped' \in Nat
  <2>1. Overwritten(writing') \in Nat
    <3>1. writeIndex \in Nat /\ readIndex \in Nat /\ readIndex <= writeIndex
      BY DEF SharedTypeOK
    <3>2. writing' \in Nat /\ Capacity \in Nat
      BY <1>3, CapacityAssumption
    <3>3. writeIndex - readIndex \in Nat
      BY <3>1
    <3>4. writeIndex - readIndex + writing' \in Nat
      BY <3>2, <3>3
    <3>5. QED
      BY <3>2, <3>4 DEF Overwritten, Excess
  <2>2. QED
    BY <1>1, <2>1 DEF SharedTypeOK
<1>5. SharedTypeOK'
  BY <1>2, <1>3, <1>4 DEF SharedTypeOK
<1>6. UndisturbedReadIsExact' /\ StillThere' /\ CopiedIn'
  BY <1>2 DEF UndisturbedReadIsExact, StillThere, CopiedIn
<1>7. Base' = Base /\ written = 0
  BY <1>2, <1>3 DEF Base, SharedTypeOK
<1>8. StoredOrTorn'
  BY <1>2, <1>7 DEF StoredOrTorn, Torn
<1>9. CallsOK'
  BY <1>2, <1>3 DEF CallsOK
<1>10. QED
  BY <1>5, <1>6, <1>8, <1>9

\* What is copied in tears the slot it goes to, and no other.
LEMMA CopyInKeepsStorage ==
  ASSUME StorageInv, CopyIn
  PROVE  StorageInv'
<1> USE DEF StorageInv, SharedInv
<1> DEFINE i == writeStart + written
<1>1. /\ written < writing /\ written' = written + 1
      /\ storage' = [storage EXCEPT ![SlotOf(i)] = i]
      /\ intact' = (intact /\ SlotOf(i) \notin BeingRead)
      /\ UNCHANGED <<writeIndex, writeStart, writing, dropped, torn, readIndex, readStart, reading,
                     destination, skipped>>
  BY DEF CopyIn, consumerVars
<1>2. /\ writing \in Nat /\ writing # 0 /\ written \in Nat /\ i \in 0 .. MaxWritten
      /\ writeStart \in Nat /\ torn \in Nat
  BY <1>1, CapacityAssumption, BoundsAssumption DEF SharedTypeOK, CallsOK
<1>3. SlotOf(i) \in 0 .. Capacity - 1
  BY <1>2, SlotIsInStorage
<1> HIDE DEF i
<1>4. SharedTypeOK'
  <2>1. storage' \in [0 .. Capacity - 1 -> 0 .. MaxWritten]
    BY <1>1, <1>2 DEF SharedTypeOK
  <2>2. written' \in 0 .. writing' /\ intact' \in BOOLEAN
    BY <1>1, <1>2 DEF SharedTypeOK
  <2>3. QED
    BY <1>1, <2>1, <2>2 DEF SharedTypeOK
<1>5. UndisturbedReadIsExact'
  BY <1>1 DEF UndisturbedReadIsExact
<1>6. \A a \in Nat : SlotOf(a) # SlotOf(i) => storage'[SlotOf(a)] = storage[SlotOf(a)]
  BY <1>1, SlotIsInStorage DEF SharedTypeOK
<1>7. storage'[SlotOf(i)] = i
  BY <1>1, <1>3 DEF SharedTypeOK
<1>8. StillThere'
  <2>1. SUFFICES ASSUME intact', NEW j \in readStart .. readStart + reading - 1
                 PROVE  storage'[SlotOf(j)] = j
    BY <1>1 DEF StillThere
  <2>2. intact /\ SlotOf(i) # SlotOf(j)
    BY <1>1, <2>1 DEF BeingRead
  <2>3. j \in Nat
    BY DEF SharedTypeOK
  <2>4. QED
    BY <1>6, <2>2, <2>3 DEF StillThere
<1>9. CopiedIn'
  <2>1. SUFFICES ASSUME NEW k \in 0 .. written
                 PROVE  storage'[SlotOf(writeStart + k)] = writeStart + k
    BY <1>1, <1>2 DEF CopiedIn
  <2>2. CASE k = written
    BY <1>7, <2>2 DEF i
  <2>3. CASE k # written
    <3>1. k \in 0 .. written - 1 /\ writeStart + k \in Nat
      BY <1>2, <2>3
    <3>2. SlotOf(writeStart + k) # SlotOf(i)
      <4>1. i \in Nat /\ writeStart + k # i /\ i - (writeStart + k) < Capacity
            /\ (writeStart + k) - i < Capacity
        BY <1>1, <1>2, <3>1, CapacityAssumption DEF i, SharedTypeOK
      <4>2. QED
        BY <3>1, <4>1, SlotsAreDistinct
    <3>3. QED
      BY <1>6, <3>1, <3>2 DEF CopiedIn
  <2>4. QED
    BY <2>2, <2>3
<1>10. StoredOrTorn'
  <2>1. Base' = Base /\ Base = writeStart
    BY <1>1, <1>2 DEF Base
  <2>2. Torn \subseteq Torn' /\ SlotOf(i) \in Torn'
    <3>1. Most(written', torn') \in Int /\ Most(written, torn) <= Most(written', torn')
          /\ written < Most(written', torn') /\ Most(written, torn) \in Int
      BY <1>1, <1>2 DEF Most
    <3>2. \A k \in 0 .. Most(written, torn) - 1 : k \in 0 .. Most(written', torn') - 1
      BY <3>1
    <3>3. written \in 0 .. Most(written', torn') - 1
      BY <1>2, <3>1
    <3>4. QED
      BY <2>1, <3>2, <3>3 DEF Torn, i
  <2>3. SUFFICES ASSUME NEW j \in Nat, Base - Capacity <= j, j < Base, SlotOf(j) \notin Torn'
                 PROVE  storage'[SlotOf(j)] = j
    BY <2>1 DEF StoredOrTorn
  <2>4. QED
    BY <1>6, <2>2, <2>3 DEF StoredOrTorn
<1>11. CallsOK'
  BY <1>1 DEF CallsOK
<1>12. QED
  BY <1>4, <1>5, <1>8, <1>9, <1>10, <1>11

\* What a write published is what it copied in, over the last ring of frames.
LEMMA WritePublishesKeepsStorage ==
  ASSUME StorageInv, WritePublishes
  PROVE  StorageInv'
<1> USE DEF StorageInv, SharedInv
<1>1. /\ writing # 0 /\ written = writing
      /\ writeIndex' = writeStart + writing
      /\ writeStart' = 0 /\ writing' = 0 /\ written' = 0 /\ torn' = Excess(torn, writing)
      /\ UNCHANGED <<storage, dropped, readIndex, readStart, reading, destination, skipped,
                     intact>>
  BY DEF WritePublishes, consumerVars
<1>2. /\ writing \in 1 .. Capacity /\ writeStart \in Nat /\ writeStart + writing <= MaxWritten
      /\ writeStart = writeIndex \/ writeIndex = 0
      /\ torn \in 0 .. Capacity /\ writeIndex \in Nat /\ Capacity \in Nat
  BY <1>1, CapacityAssumption DEF CallsOK, SharedTypeOK
<1>3. writeIndex <= writeIndex' /\ writeIndex' \in 0 .. MaxWritten
  BY <1>1, <1>2, BoundsAssumption
<1>4. SharedTypeOK'
  <2>1. readIndex' \in 0 .. writeIndex' /\ readStart' \in 0 .. writeIndex'
    BY <1>1, <1>2, <1>3 DEF SharedTypeOK
  <2>2. torn' \in 0 .. Capacity
    BY <1>1, <1>2 DEF Excess
  <2>3. writing' \in 0 .. Capacity /\ written' \in 0 .. writing' /\ writeStart' \in 0 .. MaxWritten
    BY <1>1, <1>2, BoundsAssumption
  <2>4. QED
    BY <1>1, <1>3, <2>1, <2>2, <2>3 DEF SharedTypeOK
<1>5. UndisturbedReadIsExact' /\ StillThere' /\ CopiedIn'
  BY <1>1 DEF UndisturbedReadIsExact, StillThere, CopiedIn
<1>6. CallsOK'
  <2>1. readStart \in Nat /\ reading \in Nat /\ readStart + reading <= writeIndex
    BY CapacityAssumption DEF CallsOK, SharedTypeOK
  <2>2. readStart' + reading' <= writeIndex'
    BY <1>1, <1>2, <1>3, <2>1
  <2>3. QED
    BY <1>1, <2>2 DEF CallsOK
<1>7. Base = writeStart /\ Base' = writeStart + writing
  BY <1>1, <1>2 DEF Base
<1>8. StoredOrTorn'
  <2>1. ASSUME NEW j \in Nat, Base' - Capacity <= j, j < Base', SlotOf(j) \notin Torn'
        PROVE  storage[SlotOf(j)] = j
    <3>1. writeStart + writing - Capacity <= j /\ j < writeStart + writing
      BY <1>2, <1>7, <2>1
    <3>2. CASE j >= writeStart
      <4>1. j - writeStart \in 0 .. written - 1 /\ writeStart + (j - writeStart) = j
        BY <1>1, <1>2, <3>1, <3>2
      <4>2. QED
        BY <4>1 DEF CopiedIn
    <3>3. CASE j < writeStart
      <4>1. ASSUME NEW k \in 0 .. Most(written, torn) - 1, SlotOf(j) = SlotOf(writeStart + k)
            PROVE  FALSE
        <5> DEFINE m == writeStart + k
        <5>1. k \in Nat /\ m \in Nat
          BY <1>1, <1>2 DEF Most
        <5>2. CASE k < writing
          <6>1. m - j < Capacity /\ j - m < Capacity /\ m # j
            BY <1>2, <3>1, <3>3, <5>1, <5>2
          <6>2. SlotOf(j) = SlotOf(m)
            BY <4>1
          <6> HIDE DEF m
          <6>3. QED
            BY <2>1, <5>1, <6>1, <6>2, SlotsAreDistinct
        <5>3. CASE k >= writing
          <6>1. k < torn
            BY <1>1, <1>2, <5>1, <5>3 DEF Most
          <6>2. k - writing \in 0 .. Most(written', torn') - 1
            BY <1>1, <1>2, <5>1, <5>3, <6>1 DEF Most, Excess
          <6>3. writeStart + k = Base' + (k - writing)
            BY <1>2, <1>7, <5>1
          <6>4. SlotOf(j) \in Torn'
            BY <4>1, <6>2, <6>3 DEF Torn
          <6>5. QED
            BY <2>1, <6>4
        <5>4. QED
          BY <1>2, <5>1, <5>2, <5>3
      <4>2. SlotOf(j) \notin Torn
        BY <1>7, <4>1 DEF Torn
      <4>3. writeStart - Capacity <= j
        BY <1>2, <3>1
      <4>4. QED
        BY <1>7, <3>3, <4>2, <4>3 DEF StoredOrTorn
    <3>4. QED
      BY <1>2, <2>1, <3>2, <3>3
  <2>2. storage' = storage
    BY <1>1
  <2>3. \A j \in Nat : Base' - Capacity <= j /\ j < Base' /\ SlotOf(j) \notin Torn'
                       => storage'[SlotOf(j)] = j
    BY <2>1, <2>2
  <2>4. QED
    BY <2>3 DEF StoredOrTorn
<1>9. QED
  BY <1>4, <1>5, <1>6, <1>8

LEMMA InRun ==
  ASSUME NEW a \in Nat, NEW n \in Nat, NEW j \in a .. a + n - 1
  PROVE  j \in Nat /\ a <= j /\ j < a + n
  BY SMT

LEMMA BetweenBounds ==
  ASSUME NEW a \in Nat, NEW n \in Nat, NEW j \in Nat, NEW w \in Nat, NEW c \in Nat,
         a <= j, j < a + n, w - c <= a, a + n <= w
  PROVE  j < w /\ w - c <= j
  BY SMT

\* A read that meets no torn slot finds every frame its indices promise.
LEMMA ReadBeginsKeepsStorage ==
  ASSUME StorageInv, ReadBegins
  PROVE  StorageInv'
<1> USE DEF StorageInv, SharedInv
<1>1. PICK n \in 1 .. MaxBatch : reading' = Least(n, writeIndex - Oldest)
  BY DEF ReadBegins
<1>2. /\ reading = 0 /\ readStart' = Oldest /\ destination' = <<>>
      /\ intact' = ({SlotOf(i) : i \in Oldest .. Oldest + reading' - 1} \cap Unpublished = {})
      /\ UNCHANGED <<readIndex, skipped, writeIndex, storage, writeStart, writing, written,
                     dropped, torn>>
  BY DEF ReadBegins, producerVars
<1>3. writeIndex \in Nat /\ readIndex \in 0 .. writeIndex /\ Capacity \in Nat
  BY CapacityAssumption DEF SharedTypeOK
<1>4. Oldest \in readIndex .. writeIndex /\ writeIndex - Capacity <= Oldest /\ Oldest \in Nat
  BY <1>3 DEF Oldest
<1>5. reading' \in 0 .. Capacity /\ Oldest + reading' <= writeIndex
  BY <1>1, <1>3, <1>4 DEF Least
<1>6. SharedTypeOK'
  <2>1. readStart' \in 0 .. writeIndex'
    BY <1>2, <1>3, <1>4
  <2>2. intact' \in BOOLEAN /\ destination' \in Seq(0 .. MaxWritten)
    BY <1>2
  <2>3. QED
    BY <1>2, <1>5, <2>1, <2>2 DEF SharedTypeOK
<1>7. UndisturbedReadIsExact'
  BY <1>2 DEF UndisturbedReadIsExact
<1>8. CallsOK'
  <2>1. readIndex' <= readStart' /\ Len(destination') <= reading'
    BY <1>2, <1>3, <1>4, <1>5
  <2>2. readStart' + reading' <= writeIndex'
    BY <1>2, <1>5
  <2>3. QED
    BY <1>2, <2>1, <2>2 DEF CallsOK
<1>9. StoredOrTorn' /\ CopiedIn'
  BY <1>2 DEF StoredOrTorn, CopiedIn, Torn, Base
<1>10. StillThere'
  <2>1. SUFFICES ASSUME intact', NEW j \in Oldest .. Oldest + reading' - 1
                 PROVE  storage[SlotOf(j)] = j
    BY <1>2 DEF StillThere
  <2>2. j \in Nat /\ j < writeIndex /\ writeIndex - Capacity <= j
    <3>1. reading' \in Nat
      BY <1>3, <1>5
    <3>2. j \in Nat /\ Oldest <= j /\ j < Oldest + reading'
      BY <1>4, <2>1, <3>1, InRun
    <3>3. QED
      BY <1>3, <1>4, <1>5, <3>1, <3>2, BetweenBounds
  <2>3. SlotOf(j) \notin Unpublished
    BY <1>2, <2>1
  <2>4. Base = writeIndex
    BY <1>3, <2>2 DEF Base, CallsOK
  <2>5. Torn \subseteq Unpublished
    <3>1. SUFFICES ASSUME NEW k \in 0 .. Most(written, torn) - 1
                   PROVE  SlotOf(writeIndex + k) \in Unpublished
      BY <2>4 DEF Torn
    <3>2. written \in Nat /\ torn \in Nat /\ writing \in Nat
      BY CapacityAssumption DEF SharedTypeOK
    <3>3. k \in 0 .. torn - 1 \/ k \in 0 .. written - 1
      BY <3>1, <3>2 DEF Most
    <3>4. CASE k \in 0 .. torn - 1
      BY <3>4 DEF Unpublished
    <3>5. CASE k \in 0 .. written - 1
      <4>1. writing # 0
        BY <3>2, <3>5 DEF SharedTypeOK
      <4>2. writeStart = writeIndex
        BY <2>4, <4>1 DEF Base
      <4>3. QED
        BY <3>5, <4>2 DEF Unpublished
    <3>6. QED
      BY <3>3, <3>4, <3>5
  <2>6. QED
    BY <2>2, <2>3, <2>4, <2>5 DEF StoredOrTorn
<1>11. QED
  BY <1>6, <1>7, <1>8, <1>9, <1>10

\* What an undisturbed read copies out is the frame its index promises.
LEMMA CopyOutKeepsStorage ==
  ASSUME StorageInv, CopyOut
  PROVE  StorageInv'
<1> USE DEF StorageInv, SharedInv
<1> DEFINE j == readStart + Len(destination)
           f == storage[SlotOf(j)]
<1>1. /\ Len(destination) < reading /\ destination' = Append(destination, f)
      /\ UNCHANGED <<readIndex, readStart, reading, skipped, writeIndex, storage, writeStart,
                     writing, written, dropped, torn, intact>>
  BY DEF CopyOut, producerVars
<1>2. destination \in Seq(0 .. MaxWritten) /\ Len(destination) \in Nat /\ readStart \in Nat
      /\ reading \in Nat
  BY CapacityAssumption DEF SharedTypeOK
<1>3. j \in Nat /\ j \in readStart .. readStart + reading - 1
  BY <1>1, <1>2
<1>4. f \in 0 .. MaxWritten
  BY <1>3, SlotIsInStorage DEF SharedTypeOK
<1>5. intact => f = j
  BY <1>3 DEF StillThere
<1>6. Len(destination') = Len(destination) + 1 /\ destination' \in Seq(0 .. MaxWritten)
  <2> HIDE DEF f
  <2> QED
    BY <1>1, <1>2, <1>4
<1>7. \A i \in 1 .. Len(destination') :
        destination'[i] = IF i = Len(destination) + 1 THEN f ELSE destination[i]
  <2> HIDE DEF f
  <2> QED
    BY <1>1, <1>2, <1>4
<1>8. SharedTypeOK'
  BY <1>1, <1>6 DEF SharedTypeOK
<1>9. UndisturbedReadIsExact'
  <2>1. SUFFICES ASSUME intact, NEW i \in 1 .. Len(destination')
                 PROVE  destination'[i] = readStart + i - 1
    BY <1>1 DEF UndisturbedReadIsExact
  <2>2. CASE i = Len(destination) + 1
    <3>1. destination'[i] = j
      BY <1>5, <1>7, <2>1, <2>2
    <3>2. j = readStart + i - 1
      BY <1>2, <2>2
    <3>3. QED
      BY <3>1, <3>2
  <2>3. CASE i # Len(destination) + 1
    <3>1. i \in 1 .. Len(destination)
      BY <1>2, <1>6, <2>3
    <3>2. QED
      BY <1>7, <2>1, <2>3, <3>1 DEF UndisturbedReadIsExact
  <2>4. QED
    BY <2>2, <2>3
<1>10. StoredOrTorn' /\ CopiedIn' /\ StillThere'
  BY <1>1 DEF StoredOrTorn, CopiedIn, StillThere, Torn, Base
<1>11. CallsOK'
  <2>1. Len(destination') <= reading'
    BY <1>1, <1>2, <1>6
  <2>2. QED
    BY <1>1, <2>1 DEF CallsOK
<1>12. QED
  BY <1>8, <1>9, <1>10, <1>11

LEMMA ReadPublishesKeepsStorage ==
  ASSUME StorageInv, ReadPublishes
  PROVE  StorageInv'
<1> USE DEF StorageInv, SharedInv
<1>1. /\ reading # 0 /\ Len(destination) = reading
      /\ readIndex' = readStart + reading
      /\ skipped' = skipped + (readStart - readIndex)
      /\ reading' = 0
      /\ UNCHANGED <<readStart, destination, writeIndex, storage, writeStart, writing, written,
                     dropped, torn, intact>>
  BY DEF ReadPublishes, producerVars
<1>2. /\ readIndex \in Nat /\ readStart \in Nat /\ reading \in Nat /\ skipped \in Nat
      /\ readIndex <= readStart /\ readStart + reading <= writeIndex /\ writeIndex \in Nat
  BY <1>1, CapacityAssumption DEF SharedTypeOK, CallsOK
<1>3. readIndex' \in 0 .. writeIndex' /\ skipped' \in Nat /\ readStart <= writeIndex
  BY <1>1, <1>2
<1>4. SharedTypeOK'
  BY <1>1, <1>3, CapacityAssumption DEF SharedTypeOK
<1>5. UndisturbedReadIsExact' /\ StoredOrTorn' /\ CopiedIn'
  BY <1>1 DEF UndisturbedReadIsExact, StoredOrTorn, CopiedIn, Torn, Base
<1>6. StillThere'
  BY <1>1, <1>2 DEF StillThere
<1>7. CallsOK'
  BY <1>1, <1>2, <1>3 DEF CallsOK
<1>8. QED
  BY <1>4, <1>5, <1>6, <1>7

\* A writer that dies leaves what it copied torn, at the index that never moved.
LEMMA ProducerDiesKeepsStorage ==
  ASSUME StorageInv, ProducerDies
  PROVE  StorageInv'
<1> USE DEF StorageInv, SharedInv
<1>1. /\ writeStart' = 0 /\ writing' = 0 /\ written' = 0 /\ torn' = Most(torn, written)
      /\ UNCHANGED <<writeIndex, storage, dropped, readIndex, readStart, reading, destination,
                     skipped, intact>>
  BY DEF ProducerDies, consumerVars
<1>2. torn \in 0 .. Capacity /\ written \in 0 .. Capacity /\ writeIndex \in Nat
      /\ written \in 0 .. writing /\ writing \in Nat
  BY CapacityAssumption DEF SharedTypeOK
<1>3. SharedTypeOK'
  <2>1. torn' \in 0 .. Capacity
    BY <1>1, <1>2 DEF Most
  <2>2. writing' \in 0 .. Capacity /\ written' \in 0 .. writing' /\ writeStart' \in 0 .. MaxWritten
    BY <1>1, CapacityAssumption, BoundsAssumption
  <2>3. QED
    BY <1>1, <2>1, <2>2 DEF SharedTypeOK
<1>4. UndisturbedReadIsExact' /\ StillThere' /\ CopiedIn' /\ CallsOK'
  BY <1>1 DEF UndisturbedReadIsExact, StillThere, CopiedIn, CallsOK
<1>5. StoredOrTorn'
  <2>1. Base' = writeIndex
    BY <1>1 DEF Base
  <2>2. CASE Base = writeIndex
    <3>1. Most(written', torn') = Most(written, torn)
      BY <1>1, <1>2 DEF Most
    <3>2. Torn' = Torn
      BY <2>1, <2>2, <3>1 DEF Torn
    <3>3. QED
      BY <1>1, <2>1, <2>2, <3>2 DEF StoredOrTorn
  <2>3. CASE Base # writeIndex
    <3>1. writeIndex = 0
      BY <2>3 DEF Base, CallsOK
    <3>2. QED
      BY <2>1, <3>1 DEF StoredOrTorn
  <2>4. QED
    BY <2>2, <2>3
<1>6. QED
  BY <1>3, <1>4, <1>5

LEMMA ConsumerDiesKeepsStorage ==
  ASSUME StorageInv, ConsumerDies
  PROVE  StorageInv'
<1> USE DEF StorageInv, SharedInv
<1>1. /\ reading' = 0 /\ readStart' = 0 /\ destination' = <<>>
      /\ UNCHANGED <<readIndex, skipped, writeIndex, storage, writeStart, writing, written,
                     dropped, torn, intact>>
  BY DEF ConsumerDies, producerVars
<1>2. SharedTypeOK'
  <2>1. reading' \in 0 .. Capacity /\ readStart' \in 0 .. writeIndex'
    BY <1>1, CapacityAssumption DEF SharedTypeOK
  <2>2. destination' \in Seq(0 .. MaxWritten)
    BY <1>1
  <2>3. QED
    BY <1>1, <2>1, <2>2 DEF SharedTypeOK
<1>3. UndisturbedReadIsExact' /\ StillThere' /\ CopiedIn' /\ StoredOrTorn'
  BY <1>1 DEF UndisturbedReadIsExact, StillThere, CopiedIn, StoredOrTorn, Torn, Base
<1>4. CallsOK'
  BY <1>1 DEF CallsOK, SharedTypeOK
<1>5. QED
  BY <1>2, <1>3, <1>4

LEMMA UntouchedRingKeepsStorage ==
  ASSUME StorageInv, UNCHANGED sharedVars
  PROVE  StorageInv'
BY DEF StorageInv, SharedInv, SharedTypeOK, UndisturbedReadIsExact, StoredOrTorn, CopiedIn,
       StillThere, CallsOK, Torn, Base, sharedVars, producerVars, consumerVars

\* A reset is of a ring without a read in progress, or of one nothing was written to.
LEMMA ResetKeepsStorage ==
  ASSUME HalProofInv, ReadProofInv, NEW h \in Halves, Resets(h)
  PROVE  StorageInv'
<1> USE DEF ReadProofInv, StorageInv, SharedInv
<1>1. /\ half[h] = "headed" /\ writeIndex' = 0 /\ readIndex' = 0 /\ dropped' = 0
      /\ UNCHANGED <<storage, writeStart, writing, written, torn, readStart, reading,
                     destination, skipped, intact>>
  BY DEF Resets
<1>2. readStart = 0 /\ (h = "app" => reading = 0)
  <2>1. CASE h = "app"
    BY <1>1, <2>1 DEF ReaderIsBound, Bound
  <2>2. CASE h = "plugin"
    <3>1. writeIndex = 0
      BY <1>1, <2>2 DEF NothingBeforeThePlugin
    <3>2. QED
      BY <2>2, <3>1 DEF SharedTypeOK
  <2>3. QED
    BY <2>1, <2>2 DEF Halves
<1>3. reading = 0
  <2>1. CASE h = "plugin"
    <3>1. writeIndex = 0
      BY <1>1, <2>1 DEF NothingBeforeThePlugin
    <3>2. readStart + reading <= 0 /\ reading \in Nat
      BY <3>1, CapacityAssumption DEF CallsOK, SharedTypeOK
    <3>3. QED
      BY <1>2, <3>2
  <2>2. QED
    BY <1>2, <2>1 DEF Halves
<1>4. SharedTypeOK'
  <2>1. writeIndex' \in 0 .. MaxWritten /\ readIndex' \in 0 .. writeIndex'
        /\ readStart' \in 0 .. writeIndex' /\ dropped' \in Nat
    BY <1>1, <1>2, BoundsAssumption
  <2>2. QED
    BY <1>1, <2>1 DEF SharedTypeOK
<1>5. UndisturbedReadIsExact' /\ StillThere' /\ CopiedIn'
  BY <1>1 DEF UndisturbedReadIsExact, StillThere, CopiedIn
<1>6. CallsOK'
  BY <1>1, <1>2, <1>3 DEF CallsOK
<1>7. StoredOrTorn'
  <2>1. CASE writing = 0
    <3>1. Base' = 0
      BY <1>1, <2>1 DEF Base
    <3>2. QED
      BY <3>1 DEF StoredOrTorn
  <2>2. CASE writing # 0
    <3>1. Base' = Base
      BY <1>1, <2>2 DEF Base
    <3>2. QED
      BY <1>1, <3>1 DEF StoredOrTorn, Torn
  <2>3. QED
    BY <2>1, <2>2
<1>8. QED
  BY <1>4, <1>5, <1>6, <1>7

LEMMA InitIsReadInv == HalInit => ReadProofInv
<1> SUFFICES ASSUME HalInit PROVE ReadProofInv
  OBVIOUS
<1>1. StorageInv
  BY InitStorageInv DEF HalInit
<1>2. ReaderIsBound /\ NothingBeforeThePlugin
  BY DEF HalInit, SharedInit, ReaderIsBound, NothingBeforeThePlugin
<1>3. QED
  BY <1>1, <1>2 DEF ReadProofInv

LEMMA OpeningKeepsRead ==
  ASSUME HalProofInv, ReadProofInv, NEW h \in Halves, OpeningStep(h)
  PROVE  ReadProofInv'
<1>1. UNCHANGED sharedVars
  BY OpeningKeepsRing
<1>2. StorageInv'
  BY <1>1, UntouchedRingKeepsStorage DEF ReadProofInv
<1>3. UNCHANGED <<writeIndex, readStart, reading>>
  BY <1>1 DEF sharedVars, producerVars, consumerVars
<1>4. ReaderIsBound'
  <2>1. Bound("app") => Bound("app")'
    BY DEF OpeningStep, Creates, Sizes, SizeFails, MapFails, Heads, Maps, Attaches,
           AttachRefused, Goes, Refused, Bound, Halves, HalProofInv, RegionInv, RegionTypeOK
  <2>2. QED
    BY <1>3, <2>1 DEF ReadProofInv, ReaderIsBound
<1>5. NothingBeforeThePlugin'
  BY <1>3 DEF OpeningStep, Creates, Sizes, SizeFails, MapFails, Heads, Maps, Attaches,
              AttachRefused, Goes, Refused, Halves, HalProofInv, RegionInv, RegionTypeOK,
              CreatorIsWhereItIs, ReadProofInv, NothingBeforeThePlugin
<1>6. QED
  BY <1>2, <1>4, <1>5 DEF ReadProofInv

LEMMA LeavingKeepsRead ==
  ASSUME HalProofInv, ReadProofInv, NEW h \in Halves, LeavingStep(h)
  PROVE  ReadProofInv'
<1>1. Leaves(h) /\ region' = region /\ half' = [half EXCEPT ![h] = "closed"]
  BY DEF LeavingStep, Closes, Dies, AttachFaults, Leaves, Goes
<1>2. IF h = "app" THEN ConsumerDies ELSE ProducerDies
  BY <1>1 DEF Leaves
<1>3. StorageInv'
  BY <1>2, ProducerDiesKeepsStorage, ConsumerDiesKeepsStorage DEF ReadProofInv
<1>4. ReaderIsBound'
  BY <1>1, <1>2 DEF ConsumerDies, ProducerDies, consumerVars, ReadProofInv, ReaderIsBound,
                    Bound, Halves, HalProofInv, RegionInv, RegionTypeOK
<1>5. NothingBeforeThePlugin'
  <2>1. writeIndex' = writeIndex
    BY <1>2 DEF ConsumerDies, ProducerDies, producerVars
  <2>2. half'["plugin"] \in {half["plugin"], "closed"}
    BY <1>1 DEF Halves, HalProofInv, RegionInv, RegionTypeOK
  <2>3. QED
    BY <1>1, <2>1, <2>2 DEF ReadProofInv, NothingBeforeThePlugin
<1>6. QED
  BY <1>3, <1>4, <1>5 DEF ReadProofInv

LEMMA ResetKeepsRead ==
  ASSUME HalProofInv, ReadProofInv, NEW h \in Halves, Resets(h)
  PROVE  ReadProofInv'
<1>1. StorageInv'
  BY ResetKeepsStorage
<1>2. NothingBeforeThePlugin'
  BY DEF Resets, NothingBeforeThePlugin
<1>3. ReaderIsBound'
  BY DEF Resets, Goes, ReadProofInv, ReaderIsBound, Bound, Halves, HalProofInv, RegionInv,
         RegionTypeOK
<1>4. QED
  BY <1>1, <1>2, <1>3 DEF ReadProofInv

LEMMA AudioKeepsRead ==
  ASSUME HalProofInv, ReadProofInv, AudioStep
  PROVE  ReadProofInv'
<1>1. UNCHANGED <<region, half>>
  BY DEF AudioStep, PluginWrites, AppReadBegins, AppCopies, AppReadEnds, AppReturns,
         AppConverts, AppWrites, regionVars
<1>2. \/ Bound("plugin") /\ ProducerStep
      \/ Bound("app") /\ ConsumerStep
      \/ UNCHANGED sharedVars
  BY DEF AudioStep, PluginWrites, AppReadBegins, AppCopies, AppReadEnds, AppReturns,
         AppConverts, AppWrites, ConsumerStep, CopyOut, ReadPublishes, HalProofInv,
         IdleUnlessBound
<1>3. CASE Bound("plugin") /\ ProducerStep
  <2>1. StorageInv'
    BY <1>3, WriteBeginsKeepsStorage, CopyInKeepsStorage, WritePublishesKeepsStorage
       DEF ProducerStep, ReadProofInv
  <2>2. UNCHANGED <<readStart, reading>>
    BY <1>3 DEF ProducerStep, WriteBegins, CopyIn, WritePublishes, consumerVars
  <2>3. region \in {"headed", "ready"} /\ half["plugin"] = "bound"
    BY <1>3 DEF HalProofInv, RegionInv, UsedIsInitialized, Bound, Halves
  <2>4. QED
    BY <1>1, <2>1, <2>2, <2>3 DEF ReadProofInv, ReaderIsBound, NothingBeforeThePlugin, Bound
<1>4. CASE Bound("app") /\ ConsumerStep
  <2>1. StorageInv'
    BY <1>4, ReadBeginsKeepsStorage, CopyOutKeepsStorage, ReadPublishesKeepsStorage
       DEF ConsumerStep, ReadProofInv
  <2>2. writeIndex' = writeIndex
    BY <1>4 DEF ConsumerStep, ReadBegins, CopyOut, ReadPublishes, producerVars
  <2>3. QED
    BY <1>1, <1>4, <2>1, <2>2 DEF ReadProofInv, ReaderIsBound, NothingBeforeThePlugin, Bound
<1>5. CASE UNCHANGED sharedVars
  <2>1. StorageInv'
    BY <1>5, UntouchedRingKeepsStorage DEF ReadProofInv
  <2>2. QED
    BY <1>1, <1>5, <2>1 DEF ReadProofInv, ReaderIsBound, NothingBeforeThePlugin, Bound,
                            sharedVars, producerVars, consumerVars
<1>6. QED
  BY <1>2, <1>3, <1>4, <1>5

LEMMA NextKeepsRead ==
  ASSUME HalProofInv, ReadProofInv, [HalNext]_vars
  PROVE  ReadProofInv'
<1>1. CASE UNCHANGED vars
  <2>1. UNCHANGED sharedVars /\ UNCHANGED <<region, half>>
    BY <1>1 DEF vars, regionVars
  <2>2. StorageInv'
    BY <2>1, UntouchedRingKeepsStorage DEF ReadProofInv
  <2>3. QED
    BY <2>1, <2>2 DEF ReadProofInv, ReaderIsBound, NothingBeforeThePlugin, Bound,
                      sharedVars, producerVars, consumerVars
<1>2. \/ AudioStep \/ UNCHANGED vars
      \/ \E h \in Halves : OpeningStep(h) \/ LeavingStep(h) \/ Resets(h)
  BY DEF HalNext, AudioStep, OpeningStep, LeavingStep
<1>3. QED
  BY <1>1, <1>2, AudioKeepsRead, OpeningKeepsRead, LeavingKeepsRead, ResetKeepsRead

LEMMA AlwaysReadInv == HalSpec => [](HalProofInv /\ ReadProofInv)
<1>1. HalInit => HalProofInv /\ ReadProofInv
  BY InitIsProofInv, InitIsReadInv
<1>2. HalProofInv /\ ReadProofInv /\ [HalNext]_vars => HalProofInv' /\ ReadProofInv'
  BY NextKeepsInv, NextKeepsRead
<1>3. QED
  BY <1>1, <1>2, PTL DEF HalSpec

----------------------------------------------------------------------------
(* The theorems *)

(* One process initialises the region, and nobody uses it before, whoever  *)
(* dies at whatever step of opening it (shared_region.cpp:58,              *)
(* shared_ring.hpp:63); and a read that no write caught up with, not even  *)
(* one that died half-way, returns the frames its indices promise          *)
(* (shared_ring.cpp:103), a reset of the ring or none.                     *)
THEOREM DeviceIsAlwaysSound == HalSpec => []HalInv
<1>1. HalProofInv /\ ReadProofInv => HalInv
  BY DEF HalProofInv, RegionInv, ReadProofInv, StorageInv, HalInv
<1>2. QED
  BY <1>1, AlwaysReadInv, PTL

(* Every frame the application will never get has been counted in          *)
(* frames_dropped, over every restart of either process                    *)
(* (shared_ring.cpp:76).                                                   *)
THEOREM LossIsAlwaysCounted == HalSpec => []RestartsLoseNothingSilently
<1>1. HalProofInv => RestartsLoseNothingSilently
  BY DEF HalProofInv, CountsAgree, RestartsLoseNothingSilently, LossIsNeverSilent
<1>2. QED
  BY <1>1, AlwaysProofInv, PTL

(* No step of any process takes back an index or a count of a ring in use  *)
(* (shared_ring.hpp:23).                                                   *)
THEOREM IndicesAlwaysRise == HalSpec => IndicesNeverGoBack
<1>1. HalProofInv /\ [HalNext]_vars =>
        [(\E h \in Halves : Bound(h)) /\ ~early =>
           writeIndex' >= writeIndex /\ readIndex' >= readIndex /\ dropped' >= dropped]_vars
  BY NextKeepsInv DEF IndicesRise
<1>2. QED
  BY <1>1, AlwaysProofInv, PTL DEF HalSpec, IndicesNeverGoBack

=============================================================================
