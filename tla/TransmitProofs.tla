--------------------------- MODULE TransmitProofs ---------------------------
(***************************************************************************)
(* Proofs about the pool that encodes a period, for any number of workers, *)
(* blocks, runs and restarts; and about the frames it makes of it, for any *)
(* sizes of frames, wrap of the sequence, length of the stream, and number *)
(* of losses, restarts, reconnections and foreign messages.                *)
(***************************************************************************)
EXTENDS ParallelFor, FrameStream, FiniteSetTheorems, SequenceTheorems, TLAPS

(* The engine calls every run with the number of its blocks                *)
(* (engine.cpp:338), which no run of an engine changes.                    *)
ConstantCount == \A m, n \in Counts : m = n

----------------------------------------------------------------------------
(* The invariant of the pool *)

\* A thread that has an index and has not counted it yet.
Holding == {"comparing", "running", "counting"}

Holds(t, i) == at[t] \in Holding /\ index[t] = i

Jobs == 0 .. count - 1

\* The jobs nobody has fetched, or somebody fetched and has not counted.
Outstanding == {i \in Jobs : i >= next \/ \E t \in Threads : Holds(t, i)}

\* The workers between entering a generation and leaving it.
Inside == {w \in Workers : at[w] \in Pulling \cup {"leaving"}}

\* The caller is inside run().
CallerRuns == at[Caller] \in Pulling \cup {"notifying", "testing", "asleep"}

PlacesOK ==
  /\ at \in [Threads -> Pulling \cup {"idle", "testing", "asleep", "leaving", "gone",
                                      "notifying", "notifying stop", "joining",
                                      "stopped"}]
  /\ \A w \in Workers : at[w] \in Pulling \cup {"testing", "asleep", "leaving", "gone"}
  /\ at[Caller] \notin {"leaving", "gone"}
  /\ at[Caller] = "stopped" => \A w \in Workers : at[w] = "gone"

TypesOK ==
  /\ index \in [Threads -> Nat] /\ seen \in [Workers -> Nat]
  /\ generation \in Nat /\ next \in Nat
  /\ stopping \in BOOLEAN /\ hasJob \in BOOLEAN /\ starts \in Nat
  /\ ran \in [JobIndices -> Nat]

\* Before the first run there is no job and nobody to fetch one.
CountOK ==
  /\ IF generation = 0 THEN count = 0 ELSE count \in Counts
  /\ generation = 0 =>
       /\ \A w \in Workers : seen[w] = 0 /\ at[w] \notin Pulling
       /\ ~CallerRuns

\* A job in the range of the run is fetched before it is held, and held once.
HeldOnce ==
  \A t \in Threads :
    /\ at[t] \in {"running", "counting"} => index[t] \in Jobs
    /\ at[t] \in Holding /\ index[t] \in Jobs =>
         /\ index[t] < next
         /\ \A u \in Threads : Holds(u, index[t]) => u = t

\* A job has run once when it was fetched and is not still to be run.
RanOnce ==
  \A i \in JobIndices :
    ran[i] = IF i \in Jobs /\ i < next
                  /\ ~\E t \in Threads : index[t] = i /\ at[t] \in {"comparing", "running"}
               THEN 1 ELSE 0

CountersOK ==
  /\ remaining = Cardinality(Outstanding)
  /\ active = Cardinality(Inside)

\* The caller is back only when nothing is outstanding.
CallerOK ==
  IF CallerRuns THEN hasJob ELSE remaining = 0

PoolProofInv ==
  PlacesOK /\ TypesOK /\ CountOK /\ HeldOnce /\ RanOnce /\ CountersOK /\ CallerOK

----------------------------------------------------------------------------
(* Lemmas *)

\* The counts are one number, so the jobs of every run are the indices.
LEMMA JobsAreIndices ==
  ASSUME ConstantCount, count \in Counts
  PROVE  Jobs = JobIndices
<1>1. \A n \in Counts : n = count
  BY DEF ConstantCount
<1>2. count \in Nat
  BY CountsAssumption
<1>3. \A m \in Counts : m <= count
  BY <1>1, <1>2
<1>4. (CHOOSE n \in Counts : \A m \in Counts : m <= n) = count
  BY <1>1, <1>3
<1>5. QED
  BY <1>4 DEF Jobs, JobIndices

LEMMA CountIsNat == ASSUME CountOK PROVE count \in Nat
<1>1. IF generation = 0 THEN count = 0 ELSE count \in Counts
  BY DEF CountOK
<1>2. CASE count \in Counts
  BY <1>2, CountsAssumption
<1>3. QED
  BY <1>1, <1>2

LEMMA OutstandingIsFinite == ASSUME CountOK PROVE IsFiniteSet(Outstanding)
<1>1. IsFiniteSet(Jobs)
  BY CountIsNat, FS_Interval DEF Jobs
<1>2. Outstanding \subseteq Jobs
  BY DEF Outstanding
<1>3. QED
  BY <1>1, <1>2, FS_Subset

LEMMA InsideIsFinite == IsFiniteSet(Inside)
<1>1. Inside \subseteq Workers
  BY DEF Inside
<1>2. QED
  BY <1>1, WorkersAssumption, FS_Subset

LEMMA CountersAreNat ==
  ASSUME CountOK, CountersOK
  PROVE  remaining \in Nat /\ active \in Nat
BY OutstandingIsFinite, InsideIsFinite, FS_CardinalityType DEF CountersOK

\* With nothing outstanding, what threads hold is out of the run's range.
LEMMA NothingIsHeld ==
  ASSUME CountOK, CountersOK, remaining = 0
  PROVE  Outstanding = {} /\ \A t \in Threads : at[t] \in Holding => index[t] \notin Jobs
<1>1. Outstanding = {}
  BY OutstandingIsFinite, FS_EmptySet DEF CountersOK
<1>2. QED
  BY <1>1 DEF Outstanding, Holds

\* A step in which nobody takes or gives back an index leaves the jobs alone.
LEMMA QuietStepKeepsJobs ==
  ASSUME HeldOnce, RanOnce,
         UNCHANGED <<index, next, count, ran>>,
         \A t \in Threads : at'[t] = at[t] \/ (at[t] \notin Holding /\ at'[t] \notin Holding)
  PROVE  HeldOnce' /\ RanOnce' /\ Outstanding' = Outstanding
<1>1. \A t \in Threads : /\ at'[t] \in Holding <=> at[t] \in Holding
                         /\ at[t] \in Holding => at'[t] = at[t]
  OBVIOUS
<1>2. Jobs' = Jobs
  BY DEF Jobs
<1>3. \A t \in Threads : \A i : Holds(t, i)' <=> Holds(t, i)
  BY <1>1 DEF Holds
<1>4. HeldOnce'
  BY <1>1, <1>2, <1>3 DEF HeldOnce, Holding
<1>5. Outstanding' = Outstanding
  BY <1>2, <1>3 DEF Outstanding
<1>6. \A t \in Threads : at'[t] \in {"comparing", "running"} <=> at[t] \in {"comparing", "running"}
  BY <1>1 DEF Holding
<1>7. RanOnce'
  BY <1>2, <1>6 DEF RanOnce
<1>8. QED
  BY <1>4, <1>5, <1>7

\* A step in which no worker enters or leaves a generation.
LEMMA InsideIsKept ==
  ASSUME \A w \in Workers : at'[w] \in Pulling \cup {"leaving"}
                             <=> at[w] \in Pulling \cup {"leaving"}
  PROVE  Inside' = Inside
BY DEF Inside

\* Where threads are once one of them moved and the caller may have been woken.
LEMMA WakesOnlyTheCaller ==
  ASSUME NEW t \in Threads, NEW place, NEW over, PlacesOK, GoesNotifyingDone(t, place, over)
  PROVE  /\ at' \in [Threads -> {place, "testing"} \cup {at[u] : u \in Threads}]
         /\ at'[t] = place
         /\ \A u \in Threads : u # t =>
              at'[u] = at[u] \/ (u = Caller /\ at[u] = "asleep" /\ at'[u] = "testing")
BY DEF GoesNotifyingDone, PlacesOK

----------------------------------------------------------------------------
(* The steps *)

LEMMA InitIsPoolInv == ASSUME PoolInit PROVE PoolProofInv
<1>1. Outstanding = {} /\ Inside = {}
  BY CallerAssumption DEF PoolInit, Outstanding, Jobs, Inside, Pulling, Threads
<1>2. CountersOK
  BY <1>1, FS_EmptySet DEF PoolInit, CountersOK
<1>3. PlacesOK /\ TypesOK /\ CountOK /\ CallerOK
  BY CallerAssumption DEF PoolInit, PlacesOK, TypesOK, CountOK, CallerOK, CallerRuns, Pulling,
     Threads
<1>4. HeldOnce /\ RanOnce
  BY DEF PoolInit, HeldOnce, RanOnce, Jobs, Holding, Holds
<1>5. QED
  BY <1>2, <1>3, <1>4 DEF PoolProofInv

\* What is fetched is outstanding before and after, and nobody else holds it.
LEMMA FetchKeepsInv ==
  ASSUME PoolProofInv, NEW t \in Threads, FetchIndex(t)
  PROVE  PoolProofInv'
<1> USE DEF PoolProofInv
<1>1. /\ at[t] = "pulling" /\ at' = [at EXCEPT ![t] = "comparing"]
      /\ index' = [index EXCEPT ![t] = next] /\ next' = next + 1
      /\ UNCHANGED <<seen, generation, count, remaining, active, stopping, hasJob, ran, starts>>
  BY DEF FetchIndex, Goes
<1>2. /\ at'[t] = "comparing" /\ index'[t] = next /\ next \in Nat
      /\ \A u \in Threads : u # t => at'[u] = at[u] /\ index'[u] = index[u]
  BY <1>1 DEF PlacesOK, TypesOK
<1>3. PlacesOK'
  BY <1>1, <1>2 DEF PlacesOK, Pulling, Threads
<1>4. TypesOK'
  BY <1>1, <1>2 DEF TypesOK
<1>5. CallerRuns' <=> CallerRuns
  BY <1>1, <1>2 DEF CallerRuns, Pulling, Threads
<1>6. CountOK' /\ CallerOK'
  BY <1>1, <1>2, <1>5 DEF CountOK, CallerOK, Pulling, Threads
<1>7. Jobs' = Jobs /\ Jobs \subseteq Int
  BY <1>1 DEF Jobs
<1>8. \A u \in Threads, i \in Jobs :
        Holds(u, i)' <=> Holds(u, i) \/ (u = t /\ i = next)
  BY <1>1, <1>2 DEF Holds, Holding
<1>9. \A u \in Threads : index[u] \in Jobs /\ at[u] \in Holding => index[u] < next
  BY DEF HeldOnce
<1>10. HeldOnce'
  <2>1. SUFFICES ASSUME NEW u \in Threads
                 PROVE  /\ at'[u] \in {"running", "counting"} => index'[u] \in Jobs
                        /\ at'[u] \in Holding /\ index'[u] \in Jobs =>
                             /\ index'[u] < next'
                             /\ \A v \in Threads :
                                  at'[v] \in Holding /\ index'[v] = index'[u] => v = u
    BY <1>7 DEF HeldOnce, Holds
  <2>2. CASE u = t
    BY <1>1, <1>2, <1>7, <1>9, <2>2 DEF Holding
  <2>3. CASE u # t
    <3>1. at'[u] = at[u] /\ index'[u] = index[u]
      BY <1>2, <2>3
    <3>2. index[u] \in Jobs /\ at[u] \in Holding => index[u] < next /\ next < next'
      BY <1>1, <1>2, <1>9
    <3>3. ASSUME at[u] \in Holding, index[u] \in Jobs
          PROVE  /\ index[u] < next'
                 /\ \A v \in Threads : at'[v] \in Holding /\ index'[v] = index[u] => v = u
      <4>1. index[u] < next /\ next < next'
        BY <3>2, <3>3
      <4>2. \A v \in Threads : at[v] \in Holding /\ index[v] = index[u] => v = u
        BY <3>3 DEF HeldOnce, Holds
      <4> index[u] \in Int
        BY <1>7, <3>3
      <4>3. index[u] < next' /\ index'[t] # index[u]
        <5>1. next \in Int /\ next' \in Int /\ index'[t] = next
          BY <1>1, <1>2
        <5>2. QED
          BY <4>1, <5>1
      <4>4. \A v \in Threads : at'[v] \in Holding /\ index'[v] = index[u] => v = u
        BY <1>2, <4>2, <4>3
      <4>5. QED
        BY <4>3, <4>4
    <3>4. QED
      BY <3>1, <3>3 DEF HeldOnce
  <2>4. QED
    BY <2>2, <2>3
<1>11. RanOnce'
  <2>1. SUFFICES ASSUME NEW i \in JobIndices
                 PROVE  ran[i] = IF i \in Jobs /\ i < next'
                                      /\ ~\E u \in Threads :
                                           index'[u] = i /\ at'[u] \in {"comparing", "running"}
                                   THEN 1 ELSE 0
    BY <1>1, <1>7 DEF RanOnce
  <2>2. CASE i \in Jobs /\ i = next
    BY <1>1, <1>2, <1>7, <2>2 DEF RanOnce
  <2>3. CASE i \in Jobs /\ i # next
    <3>1. i < next' <=> i < next
      BY <1>1, <1>2, <1>7, <2>3
    <3>2. (\E u \in Threads : index'[u] = i /\ at'[u] \in {"comparing", "running"})
          <=> (\E u \in Threads : index[u] = i /\ at[u] \in {"comparing", "running"})
      BY <1>1, <1>2, <2>3
    <3>3. QED
      BY <3>1, <3>2, <2>3 DEF RanOnce
  <2>4. CASE i \notin Jobs
    BY <2>4 DEF RanOnce
  <2>5. QED
    BY <2>2, <2>3, <2>4
<1>12. Outstanding' = Outstanding
  <2>1. \A i \in Jobs : i >= next <=> i >= next' \/ i = next
    BY <1>1, <1>2, <1>7
  <2>2. \A i \in Jobs : (i >= next' \/ \E u \in Threads : Holds(u, i)')
                       <=> (i >= next \/ \E u \in Threads : Holds(u, i))
    BY <1>8, <2>1
  <2>3. QED
    BY <1>7, <2>2 DEF Outstanding
<1>13. Inside' = Inside
  BY <1>1, <1>2, InsideIsKept DEF Pulling, Threads
<1>14. QED
  BY <1>1, <1>3, <1>4, <1>6, <1>10, <1>11, <1>12, <1>13 DEF CountersOK

\* An index past the count belongs to no job.
LEMMA CompareKeepsInv ==
  ASSUME PoolProofInv, NEW t \in Threads, CompareIndex(t)
  PROVE  PoolProofInv'
<1> USE DEF PoolProofInv
<1>1. PICK place \in {"running", "leaving", "testing"} :
        /\ at' = [at EXCEPT ![t] = place]
        /\ place = "running" => index[t] < count
        /\ place # "running" => ~(index[t] < count)
        /\ place = "leaving" => t # Caller
        /\ place = "testing" => t = Caller
  BY DEF CompareIndex, Goes, InRange
<1>2. /\ at[t] = "comparing"
      /\ UNCHANGED <<index, seen, generation, next, count, remaining, active, stopping, hasJob,
                     ran, starts>>
  BY DEF CompareIndex
<1>3. at'[t] = place /\ \A u \in Threads : u # t => at'[u] = at[u]
  BY <1>1 DEF PlacesOK
<1>4. Jobs' = Jobs /\ (index[t] \in Jobs <=> place = "running")
  BY <1>1, <1>2, CountIsNat DEF Jobs, TypesOK
<1>5. PlacesOK'
  BY <1>1, <1>2, <1>3, CallerAssumption DEF PlacesOK, Pulling, Threads
<1>6. TypesOK'
  BY <1>2 DEF TypesOK
<1>7. CallerRuns' <=> CallerRuns
  BY <1>1, <1>2, <1>3 DEF CallerRuns, Pulling, Threads
<1>8. CountOK' /\ CallerOK'
  BY <1>1, <1>2, <1>3, <1>7 DEF CountOK, CallerOK, Pulling, Threads
<1>9. \A u \in Threads, i \in Jobs : Holds(u, i)' <=> Holds(u, i)
  BY <1>2, <1>3, <1>4 DEF Holds, Holding
<1>10. HeldOnce'
  BY <1>2, <1>3, <1>4, <1>9 DEF HeldOnce, Holding
<1>11. RanOnce'
  <2>1. \A i \in Jobs :
          (\E u \in Threads : index'[u] = i /\ at'[u] \in {"comparing", "running"})
          <=> (\E u \in Threads : index[u] = i /\ at[u] \in {"comparing", "running"})
    BY <1>2, <1>3, <1>4
  <2>2. QED
    BY <1>2, <1>4, <2>1 DEF RanOnce
<1>12. Outstanding' = Outstanding
  BY <1>2, <1>4, <1>9 DEF Outstanding
<1>13. Inside' = Inside
  BY <1>1, <1>2, <1>3, CallerAssumption, InsideIsKept DEF Pulling, Threads
<1>14. QED
  BY <1>2, <1>5, <1>6, <1>8, <1>10, <1>11, <1>12, <1>13 DEF CountersOK

\* The job that is run was held, by nobody else, and had not run.
LEMMA RunJobKeepsInv ==
  ASSUME PoolProofInv, NEW t \in Threads, RunJob(t)
  PROVE  PoolProofInv'
<1> USE DEF PoolProofInv
<1>1. /\ at[t] = "running" /\ at' = [at EXCEPT ![t] = "counting"]
      /\ ran' = [i \in DOMAIN ran |-> IF i = index[t] THEN ran[i] + 1 ELSE ran[i]]
      /\ UNCHANGED <<index, seen, generation, next, count, remaining, active, stopping, hasJob,
                     starts>>
  BY DEF RunJob, Goes
<1>2. at'[t] = "counting" /\ \A u \in Threads : u # t => at'[u] = at[u]
  BY <1>1 DEF PlacesOK
<1>3. PlacesOK'
  BY <1>1, <1>2, CallerAssumption DEF PlacesOK, Pulling, Threads
<1>4. TypesOK'
  BY <1>1 DEF TypesOK
<1>5. CallerRuns' <=> CallerRuns
  BY <1>1, <1>2 DEF CallerRuns, Pulling, Threads
<1>6. CountOK' /\ CallerOK'
  BY <1>1, <1>2, <1>5 DEF CountOK, CallerOK, Pulling, Threads
<1>7. Jobs' = Jobs /\ index[t] \in Jobs /\ index[t] < next
  BY <1>1 DEF Jobs, HeldOnce, Holding
<1>8. \A u \in Threads : at'[u] \in Holding <=> at[u] \in Holding
  BY <1>1, <1>2 DEF Holding
<1>9. \A u \in Threads, i \in Jobs : Holds(u, i)' <=> Holds(u, i)
  BY <1>1, <1>8 DEF Holds
<1>10. HeldOnce'
  BY <1>1, <1>2, <1>7, <1>8, <1>9 DEF HeldOnce
<1>11. \A u \in Threads : u # t /\ at[u] \in Holding => index[u] # index[t]
  BY <1>1, <1>7 DEF HeldOnce, Holds, Holding
<1>12. RanOnce'
  <2>1. SUFFICES ASSUME NEW i \in JobIndices
                 PROVE  ran'[i] = IF i \in Jobs /\ i < next
                                       /\ ~\E u \in Threads :
                                            index[u] = i /\ at'[u] \in {"comparing", "running"}
                                    THEN 1 ELSE 0
    BY <1>1, <1>7 DEF RanOnce
  <2>2. ran[i] \in Nat /\ ran'[i] = IF i = index[t] THEN ran[i] + 1 ELSE ran[i]
    BY <1>1 DEF TypesOK
  <2>3. CASE i = index[t]
    <3>1. ran[i] = 0
      BY <1>1, <2>3 DEF RanOnce
    <3>2. ~\E u \in Threads : index[u] = i /\ at'[u] \in {"comparing", "running"}
      BY <1>2, <1>11, <2>3 DEF Holding
    <3>3. QED
      BY <1>7, <2>2, <2>3, <3>1, <3>2
  <2>4. CASE i # index[t]
    <3>1. (\E u \in Threads : index[u] = i /\ at'[u] \in {"comparing", "running"})
          <=> (\E u \in Threads : index[u] = i /\ at[u] \in {"comparing", "running"})
      BY <1>2, <2>4
    <3>2. QED
      BY <2>2, <2>4, <3>1 DEF RanOnce
  <2>5. QED
    BY <2>3, <2>4
<1>13. Outstanding' = Outstanding
  BY <1>1, <1>7, <1>9 DEF Outstanding
<1>14. Inside' = Inside
  BY <1>1, <1>2, InsideIsKept DEF Pulling, Threads
<1>15. QED
  BY <1>1, <1>3, <1>4, <1>6, <1>10, <1>12, <1>13, <1>14 DEF CountersOK

\* What is counted leaves the outstanding jobs, and it alone.
LEMMA CountJobKeepsInv ==
  ASSUME PoolProofInv, NEW t \in Threads, CountJob(t)
  PROVE  PoolProofInv'
<1> USE DEF PoolProofInv
<1>1. /\ at[t] = "counting" /\ remaining' = remaining - 1
      /\ GoesNotifyingDone(t, "pulling", remaining' = 0)
      /\ UNCHANGED <<index, seen, generation, next, count, active, stopping, hasJob, ran, starts>>
  BY DEF CountJob
<1>2. /\ at' \in [Threads -> {"pulling", "testing"} \cup {at[u] : u \in Threads}]
      /\ at'[t] = "pulling"
      /\ \A u \in Threads : u # t =>
           at'[u] = at[u] \/ (u = Caller /\ at[u] = "asleep" /\ at'[u] = "testing")
  BY <1>1, WakesOnlyTheCaller
<1>3. PlacesOK'
  BY <1>1, <1>2, CallerAssumption DEF PlacesOK, Pulling, Threads
<1>4. TypesOK'
  BY <1>1 DEF TypesOK
<1>5. CallerRuns' <=> CallerRuns
  BY <1>1, <1>2 DEF CallerRuns, Pulling, Threads
<1>6. CountOK'
  BY <1>1, <1>2, <1>5 DEF CountOK, Pulling, Threads
<1>7. Jobs' = Jobs /\ Jobs \subseteq Int /\ index[t] \in Jobs /\ index[t] < next /\ next \in Nat
  BY <1>1 DEF Jobs, HeldOnce, Holding, TypesOK
<1>8. \A u \in Threads : u # t => (at'[u] \in Holding <=> at[u] \in Holding)
                                 /\ (at[u] \in Holding => at'[u] = at[u])
  BY <1>2 DEF Holding
<1>9. \A u \in Threads, i \in Jobs : Holds(u, i)' <=> Holds(u, i) /\ u # t
  BY <1>1, <1>2, <1>8 DEF Holds, Holding
<1>10. HeldOnce'
  BY <1>1, <1>2, <1>7, <1>8, <1>9 DEF HeldOnce, Holding
<1>11. RanOnce'
  <2>1. \A u \in Threads : at'[u] \in {"comparing", "running"} <=> at[u] \in {"comparing", "running"}
    BY <1>1, <1>2
  <2>2. QED
    BY <1>1, <1>7, <2>1 DEF RanOnce
<1>12. index[t] \in Outstanding /\ Outstanding' = Outstanding \ {index[t]}
  <2>1. Holds(t, index[t]) /\ \A u \in Threads : Holds(u, index[t]) => u = t
    BY <1>1, <1>7 DEF HeldOnce, Holds, Holding
  <2>2. ~(index[t] >= next)
    <3>1. index[t] \in Int
      BY <1>7
    <3>2. QED
      BY <1>7, <3>1
  <2>3. \A i \in Jobs : (\E u \in Threads : Holds(u, i)')
                       <=> (\E u \in Threads : Holds(u, i)) /\ i # index[t]
    BY <1>9, <2>1 DEF Holds
  <2>4. QED
    BY <1>1, <1>7, <2>1, <2>2, <2>3 DEF Outstanding
<1>13. remaining' = Cardinality(Outstanding') /\ remaining # 0
  <2>1. Cardinality(Outstanding') = Cardinality(Outstanding) - 1
    BY <1>12, OutstandingIsFinite, FS_RemoveElement
  <2>2. Outstanding # {}
    BY <1>12
  <2>3. QED
    BY <1>1, <2>1, <2>2, OutstandingIsFinite, FS_EmptySet DEF CountersOK
<1>14. Inside' = Inside
  BY <1>1, <1>2, InsideIsKept, CallerAssumption DEF Pulling, Threads
<1>15. CallerOK' /\ CountersOK'
  BY <1>1, <1>5, <1>13, <1>14 DEF CallerOK, CountersOK
<1>16. QED
  BY <1>3, <1>4, <1>6, <1>10, <1>11, <1>15

\* One worker more is inside.
LEMMA EnterKeepsInv ==
  ASSUME PoolProofInv, NEW w \in Workers, EnterGeneration(w)
  PROVE  PoolProofInv'
<1> USE DEF PoolProofInv
<1>1. /\ at[w] = "testing" /\ generation # seen[w] /\ at' = [at EXCEPT ![w] = "pulling"]
      /\ seen' = [seen EXCEPT ![w] = generation] /\ active' = active + 1
      /\ UNCHANGED <<index, generation, next, count, remaining, stopping, hasJob, ran, starts>>
  BY DEF EnterGeneration, Goes
<1>2. /\ w \in Threads /\ w # Caller /\ at'[w] = "pulling"
      /\ \A u \in Threads : u # w => at'[u] = at[u]
  BY <1>1, CallerAssumption DEF PlacesOK, Threads
<1>3. PlacesOK'
  BY <1>1, <1>2 DEF PlacesOK, Pulling, Threads
<1>4. TypesOK'
  BY <1>1 DEF TypesOK
<1>5. (CallerRuns' <=> CallerRuns) /\ generation # 0
  BY <1>1, <1>2 DEF CallerRuns, CountOK, Threads
<1>6. CountOK' /\ CallerOK'
  BY <1>1, <1>5 DEF CountOK, CallerOK
<1>7. HeldOnce' /\ RanOnce' /\ Outstanding' = Outstanding
  BY <1>1, <1>2, QuietStepKeepsJobs DEF Holding
<1>8. active' = Cardinality(Inside')
  <2>1. Inside' = Inside \cup {w} /\ w \notin Inside
    BY <1>1, <1>2 DEF Inside, Pulling, Threads
  <2>2. Cardinality(Inside') = Cardinality(Inside) + 1
    BY <2>1, InsideIsFinite, FS_AddElement
  <2>3. QED
    BY <1>1, <2>2 DEF CountersOK
<1>9. QED
  BY <1>1, <1>3, <1>4, <1>6, <1>7, <1>8 DEF CountersOK

\* One worker less is inside.
LEMMA LeaveKeepsInv ==
  ASSUME PoolProofInv, NEW w \in Workers, LeaveGeneration(w)
  PROVE  PoolProofInv'
<1> USE DEF PoolProofInv
<1>1. /\ at[w] = "leaving" /\ active' = active - 1
      /\ GoesNotifyingDone(w, "testing", active' = 0)
      /\ UNCHANGED <<index, seen, generation, next, count, remaining, stopping, hasJob, ran, starts>>
  BY DEF LeaveGeneration
<1>2. /\ w \in Threads /\ w # Caller
      /\ at' \in [Threads -> {"testing"} \cup {at[u] : u \in Threads}]
      /\ at'[w] = "testing"
      /\ \A u \in Threads : u # w =>
           at'[u] = at[u] \/ (u = Caller /\ at[u] = "asleep" /\ at'[u] = "testing")
  BY <1>1, WakesOnlyTheCaller, CallerAssumption DEF Threads
<1>3. PlacesOK'
  BY <1>1, <1>2 DEF PlacesOK, Pulling, Threads
<1>4. TypesOK'
  BY <1>1 DEF TypesOK
<1>5. CallerRuns' <=> CallerRuns
  BY <1>1, <1>2 DEF CallerRuns, Pulling, Threads
<1>6. CountOK' /\ CallerOK'
  BY <1>1, <1>2, <1>5 DEF CountOK, CallerOK, Pulling, Threads
<1>7. HeldOnce' /\ RanOnce' /\ Outstanding' = Outstanding
  BY <1>1, <1>2, QuietStepKeepsJobs DEF Holding
<1>8. active' = Cardinality(Inside')
  <2>1. Inside' = Inside \ {w} /\ w \in Inside
    BY <1>1, <1>2, CallerAssumption DEF Inside, Pulling, Threads
  <2>2. Cardinality(Inside') = Cardinality(Inside) - 1
    BY <2>1, InsideIsFinite, FS_RemoveElement
  <2>3. QED
    BY <1>1, <2>2 DEF CountersOK
<1>9. QED
  BY <1>1, <1>3, <1>4, <1>6, <1>7, <1>8 DEF CountersOK

(* A run begins when nothing is outstanding: what late workers still hold   *)
(* is past the count, which is the count of the new run too.               *)
LEMMA StartRunKeepsInv ==
  ASSUME ConstantCount, PoolProofInv, StartRun
  PROVE  PoolProofInv'
<1> USE DEF PoolProofInv
<1>1. PICK n \in Counts : count' = n /\ remaining' = n
  BY DEF StartRun
<1>2. /\ at[Caller] = "idle" /\ at' = [at EXCEPT ![Caller] = "notifying"]
      /\ next' = 0 /\ generation' = generation + 1 /\ hasJob' = TRUE
      /\ ran' = [i \in DOMAIN ran |-> 0]
      /\ UNCHANGED <<index, seen, active, stopping, starts>>
  BY DEF StartRun, Goes
<1>3. /\ Caller \in Threads /\ at'[Caller] = "notifying" /\ n \in Nat
      /\ \A u \in Threads : u # Caller => at'[u] = at[u]
  BY <1>2, CountsAssumption DEF PlacesOK, Threads
<1>4. PlacesOK'
  BY <1>2, <1>3, CallerAssumption DEF PlacesOK, Threads
<1>5. TypesOK'
  BY <1>2 DEF TypesOK
<1>6. CountOK' /\ CallerOK'
  BY <1>1, <1>2, <1>3 DEF CountOK, CallerOK, CallerRuns, TypesOK
<1>7. ~CallerRuns
  BY <1>2 DEF CallerRuns, Pulling
<1>8. \A t \in Threads : at[t] \in Holding => index[t] \notin Jobs
  BY <1>7, NothingIsHeld DEF CallerOK
<1>9. \A t \in Threads : at'[t] \in Holding => at[t] \in Holding /\ index[t] \notin Jobs'
  <2>1. CASE generation = 0
    BY <1>3, <2>1 DEF CountOK, Holding, Pulling, Threads
  <2>2. CASE generation # 0
    <3>1. count' = count
      BY <1>1, <2>2 DEF CountOK, ConstantCount
    <3>2. QED
      BY <1>3, <1>8, <3>1 DEF Jobs, Holding
  <2>3. QED
    BY <2>1, <2>2
<1>10. \A t \in Threads : at[t] \notin {"running", "counting"}
  BY <1>8 DEF HeldOnce, Holding
<1>11. HeldOnce'
  BY <1>2, <1>3, <1>9, <1>10 DEF HeldOnce
<1>12. RanOnce'
  BY <1>1, <1>2, <1>3 DEF RanOnce, Jobs, TypesOK
<1>13. Cardinality(Outstanding') = n
  <2>1. Outstanding' = 0 .. n - 1
    BY <1>1, <1>2, <1>3 DEF Outstanding, Jobs
  <2>2. QED
    BY <1>3, <2>1, FS_Interval
<1>14. Inside' = Inside
  BY <1>2, <1>3, CallerAssumption, InsideIsKept DEF Threads
<1>15. QED
  BY <1>1, <1>2, <1>4, <1>5, <1>6, <1>11, <1>12, <1>13, <1>14 DEF CountersOK

\* The steps of the threads that hold no index.
LEMMA QuietStepKeepsInv ==
  ASSUME PoolProofInv, PlacesOK', TypesOK', CountOK', CallerOK',
         UNCHANGED <<index, next, count, remaining, active, ran>>,
         \A t \in Threads : at'[t] = at[t] \/ (at[t] \notin Holding /\ at'[t] \notin Holding),
         \A w \in Workers : at'[w] = at[w] \/ {at[w], at'[w]} \cap (Pulling \cup {"leaving"}) = {}
  PROVE  PoolProofInv'
<1>1. HeldOnce' /\ RanOnce' /\ Outstanding' = Outstanding
  BY QuietStepKeepsJobs DEF PoolProofInv
<1>2. Inside' = Inside
  BY InsideIsKept
<1>3. QED
  BY <1>1, <1>2 DEF PoolProofInv, CountersOK

\* A worker falls asleep, wakes for no reason, or returns.
LEMMA IdleWorkerKeepsInv ==
  ASSUME PoolProofInv, NEW w \in Workers,
         WaitForWork(w) \/ WorkerReturns(w) \/ SpuriousWakeup(w)
  PROVE  PoolProofInv'
<1>1. PICK place \in {"asleep", "gone", "testing"} : at' = [at EXCEPT ![w] = place]
  BY DEF WaitForWork, WorkerReturns, SpuriousWakeup, Goes
<1>2. /\ at[w] \in {"testing", "asleep"}
      /\ UNCHANGED <<index, seen, generation, next, count, remaining, active, stopping, hasJob,
                     ran, starts>>
  BY DEF WaitForWork, WorkerReturns, SpuriousWakeup
<1>3. /\ w \in Threads /\ w # Caller /\ at'[w] = place
      /\ \A u \in Threads : u # w => at'[u] = at[u]
  BY <1>1, CallerAssumption DEF PoolProofInv, PlacesOK, Threads
<1>4. PlacesOK' /\ TypesOK'
  BY <1>1, <1>2, <1>3 DEF PoolProofInv, PlacesOK, TypesOK, Threads
<1>5. CallerRuns' <=> CallerRuns
  BY <1>3 DEF CallerRuns, Threads
<1>6. CountOK' /\ CallerOK'
  BY <1>2, <1>3, <1>5 DEF PoolProofInv, CountOK, CallerOK, Pulling, Threads
<1>7. \A t \in Threads : at'[t] = at[t] \/ (at[t] \notin Holding /\ at'[t] \notin Holding)
  BY <1>2, <1>3 DEF Holding
<1>8. \A u \in Workers : at'[u] = at[u] \/ {at[u], at'[u]} \cap (Pulling \cup {"leaving"}) = {}
  BY <1>2, <1>3 DEF Pulling, Threads
<1>9. QED
  BY <1>2, <1>4, <1>6, <1>7, <1>8, QuietStepKeepsInv

\* The caller notifies, waits, returns, stops and joins.
LEMMA CallerKeepsInv ==
  ASSUME PoolProofInv,
         NotifyRun \/ AwaitDone \/ StartStop \/ NotifyStop \/ Joined \/ SpuriousWakeup(Caller)
  PROVE  PoolProofInv'
<1>1. PICK place :
        /\ Goes(Caller, place) \/ NotifiesWork(place)
        /\ <<at[Caller], place>> \in
             {<<"notifying", "pulling">>, <<"testing", "idle">>, <<"testing", "asleep">>,
              <<"idle", "notifying stop">>, <<"notifying stop", "joining">>,
              <<"joining", "stopped">>, <<"asleep", "testing">>}
        /\ place = "stopped" => Goes(Caller, place) /\ \A w \in Workers : at[w] = "gone"
        /\ place = "idle" => remaining = 0
        /\ hasJob' = hasJob \/ (hasJob' = FALSE /\ place = "idle")
  BY DEF NotifyRun, AwaitDone, StartStop, NotifyStop, Joined, SpuriousWakeup, AllDone
<1>2. /\ at' \in [Threads -> {place, "testing"} \cup {at[u] : u \in Threads}]
      /\ at'[Caller] = place
      /\ \A w \in Workers : at'[w] = at[w] \/ (at[w] = "asleep" /\ at'[w] = "testing")
      /\ at'[Caller] = "stopped" => \A w \in Workers : at'[w] = "gone"
  <2>1. PlacesOK /\ Caller \in Threads /\ \A w \in Workers : w \in Threads /\ w # Caller
    BY CallerAssumption DEF PoolProofInv, Threads
  <2>2. CASE Goes(Caller, place)
    BY <1>1, <2>1, <2>2 DEF Goes, PlacesOK
  <2>3. CASE NotifiesWork(place)
    <3>1. place # "stopped" \/ Goes(Caller, place)
      BY <1>1
    <3>2. at' = [t \in Threads |-> IF t = Caller THEN place
                                  ELSE IF at[t] = "asleep" THEN "testing" ELSE at[t]]
      BY <2>3 DEF NotifiesWork
    <3>3. QED
      BY <2>1, <2>2, <3>1, <3>2
  <2>4. QED
    BY <1>1, <2>2, <2>3
<1>3. /\ UNCHANGED <<index, seen, generation, next, count, remaining, active, ran, starts>>
      /\ stopping' \in {stopping, TRUE, FALSE}
  BY DEF NotifyRun, AwaitDone, StartStop, NotifyStop, Joined, SpuriousWakeup
<1>4. PlacesOK'
  BY <1>1, <1>2, CallerAssumption DEF PoolProofInv, PlacesOK, Pulling, Threads
<1>5. TypesOK'
  BY <1>1, <1>3 DEF PoolProofInv, TypesOK
<1>6. /\ CallerRuns' => CallerRuns
      /\ ~CallerRuns' => ~CallerRuns \/ remaining = 0
      /\ CallerRuns' => hasJob' = hasJob
  BY <1>1, <1>2 DEF CallerRuns, Pulling
<1>7. CallerOK'
  BY <1>3, <1>6 DEF PoolProofInv, CallerOK
<1>8. CountOK'
  BY <1>2, <1>3, <1>6 DEF PoolProofInv, CountOK, Pulling
<1>9. \A t \in Threads : at'[t] = at[t] \/ (at[t] \notin Holding /\ at'[t] \notin Holding)
  BY <1>1, <1>2 DEF Holding, Threads
<1>10. \A w \in Workers : at'[w] = at[w] \/ {at[w], at'[w]} \cap (Pulling \cup {"leaving"}) = {}
  BY <1>2 DEF Pulling
<1>11. QED
  BY <1>3, <1>4, <1>5, <1>7, <1>8, <1>9, <1>10, QuietStepKeepsInv

\* New threads, and nothing else of the pool that was stopped.
LEMMA RestartKeepsInv ==
  ASSUME PoolProofInv, Restart
  PROVE  PoolProofInv'
<1>1. /\ at[Caller] = "stopped" /\ starts' = starts + 1
      /\ at' = [t \in Threads |-> IF t = Caller THEN "idle" ELSE "testing"]
      /\ seen' = [w \in Workers |-> 0]
      /\ UNCHANGED <<index, generation, next, count, remaining, active, stopping, hasJob, ran>>
  BY DEF Restart
<1>2. /\ at'[Caller] = "idle"
      /\ \A w \in Workers : at[w] = "gone" /\ at'[w] = "testing"
  BY <1>1, CallerAssumption DEF PoolProofInv, PlacesOK, Threads
<1>3. PlacesOK'
  BY <1>1, <1>2 DEF PlacesOK
<1>4. TypesOK'
  BY <1>1 DEF PoolProofInv, TypesOK
<1>5. ~CallerRuns /\ ~CallerRuns'
  BY <1>1, <1>2 DEF CallerRuns, Pulling
<1>6. CountOK' /\ CallerOK'
  BY <1>1, <1>2, <1>5 DEF PoolProofInv, CountOK, CallerOK, Pulling
<1>7. \A t \in Threads : at'[t] = at[t] \/ (at[t] \notin Holding /\ at'[t] \notin Holding)
  BY <1>1, <1>2 DEF Holding, Threads
<1>8. \A w \in Workers : at'[w] = at[w] \/ {at[w], at'[w]} \cap (Pulling \cup {"leaving"}) = {}
  BY <1>2 DEF Pulling
<1>9. QED
  BY <1>1, <1>3, <1>4, <1>6, <1>7, <1>8, QuietStepKeepsInv

LEMMA PoolNextKeepsInv ==
  ASSUME ConstantCount, PoolProofInv, [PoolNext]_poolVars
  PROVE  PoolProofInv'
<1>1. ASSUME NEW t \in Threads, Pulls(t) PROVE PoolProofInv'
  BY <1>1, FetchKeepsInv, CompareKeepsInv, RunJobKeepsInv, CountJobKeepsInv DEF Pulls
<1>2. ASSUME NEW w \in Workers, WorkerStep(w) PROVE PoolProofInv'
  BY <1>1, <1>2, EnterKeepsInv, LeaveKeepsInv, IdleWorkerKeepsInv DEF WorkerStep, Threads
<1>3. CASE CallerStep \/ StartStop
  BY <1>1, <1>3, CallerKeepsInv DEF CallerStep, Threads
<1>4. ASSUME NEW t \in Threads, SpuriousWakeup(t) PROVE PoolProofInv'
  BY <1>4, IdleWorkerKeepsInv, CallerKeepsInv DEF Threads
<1>5. CASE UNCHANGED poolVars
  <2>1. UNCHANGED <<at, index, seen, generation, next, count, remaining, active, stopping,
                    hasJob, ran, starts>>
    BY <1>5 DEF poolVars
  <2>2. PlacesOK' /\ TypesOK' /\ CountOK' /\ CallerOK'
    BY <2>1 DEF PoolProofInv, PlacesOK, TypesOK, CountOK, CallerOK, CallerRuns
  <2>3. QED
    BY <2>1, <2>2, QuietStepKeepsInv
<1>6. QED
  BY <1>2, <1>3, <1>4, <1>5, StartRunKeepsInv, RestartKeepsInv DEF PoolNext

LEMMA PoolAlwaysProofInv == ASSUME ConstantCount PROVE PoolSpec => []PoolProofInv
<1>1. PoolInit => PoolProofInv
  BY InitIsPoolInv
<1>2. PoolProofInv /\ [PoolNext]_poolVars => PoolProofInv'
  BY PoolNextKeepsInv
<1>3. QED
  BY <1>1, <1>2, PTL DEF PoolSpec

----------------------------------------------------------------------------
(* The theorems *)

(* Every block of a period is encoded once, by one thread, and run returns *)
(* only when all have been (parallel_for.hpp:43): for any number of        *)
(* workers, late or early, over stops and restarts of the pool.            *)
THEOREM PoolAlwaysInv == ASSUME ConstantCount PROVE PoolSpec => []PoolInv
<1>1. ASSUME PoolProofInv PROVE PoolInv
  <2>1. PoolTypeOK
    BY <1>1, CountIsNat, CountersAreNat DEF PoolProofInv, PlacesOK, TypesOK, PoolTypeOK
  <2>2. EachJobOnce
    BY <1>1 DEF PoolProofInv, RanOnce, EachJobOnce
  <2>3. ReturnsWhenAllHaveRun
    <3>1. SUFFICES ASSUME at[Caller] \in {"idle", "stopped"}, generation > 0, NEW i \in Jobs
                   PROVE  ran[i] = 1
      BY DEF ReturnsWhenAllHaveRun, Jobs
    <3>2. Jobs = JobIndices
      BY <1>1, <3>1, JobsAreIndices DEF PoolProofInv, CountOK
    <3>3. remaining = 0
      BY <1>1, <3>1 DEF PoolProofInv, CallerOK, CallerRuns, Pulling
    <3>4. Outstanding = {}
      BY <1>1, <3>3, NothingIsHeld DEF PoolProofInv
    <3>5. ~(i >= next) /\ \A t \in Threads : ~Holds(t, i)
      BY <3>4 DEF Outstanding
    <3>6. i < next
      BY <1>1, <3>5 DEF PoolProofInv, TypesOK, Jobs
    <3>7. QED
      BY <1>1, <3>2, <3>5, <3>6 DEF PoolProofInv, RanOnce, Holds, Holding
  <2>4. QED
    BY <2>1, <2>2, <2>3 DEF PoolInv
<1>2. QED
  BY <1>1, PoolAlwaysProofInv, PTL

(* A job captures the caller's frame by reference (engine.cpp:338): no     *)
(* thread is inside one, nor about to call one, once run has returned.     *)
THEOREM NoJobEverOutlivesItsRun ==
  ASSUME ConstantCount PROVE PoolSpec => []NoJobOutlivesItsRun
<1>1. ASSUME PoolProofInv PROVE NoJobOutlivesItsRun
  <2>1. SUFFICES ASSUME NEW t \in Threads, at[t] = "running"
                 PROVE  hasJob /\ index[t] < count /\ CallerRuns
    BY DEF NoJobOutlivesItsRun, CallerRuns
  <2>2. index[t] \in Jobs /\ index[t] < count
    BY <1>1, <2>1, CountIsNat DEF PoolProofInv, HeldOnce, Jobs
  <2>3. CallerRuns
    BY <1>1, <2>1, <2>2, NothingIsHeld DEF PoolProofInv, CallerOK, Holding
  <2>4. QED
    BY <1>1, <2>2, <2>3 DEF PoolProofInv, CallerOK
<1>2. QED
  BY <1>1, PoolAlwaysProofInv, PTL

----------------------------------------------------------------------------
(* The invariant of the stream *)

Precedes(m, n) == m.frame < n.frame \/ (m.frame = n.frame /\ m.index < n.index)

Ours(m) == m.frame # NoFrame

\* The frame was sent whole: its last fragment was accepted.
IsSentWhole(f) == \E k \in 1 .. Len(sentWhole) : sentWhole[k] = f

\* A message the sending engine has sent.
WasSent(m) ==
  /\ m.frame \in 1 .. Len(frames)
  /\ m.index \in 0 .. frames[m.frame].count - 1
  /\ m.frame = Len(frames) /\ fragment # Idle => m.index < fragment
  /\ m.index = frames[m.frame].count - 1 => IsSentWhole(m.frame)

SenderTypeOK ==
  /\ frames \in Seq(Attempts)
  /\ Len(frames) <= MaxFrames /\ sentWhole \in Seq(1 .. Len(frames))
  /\ sequence \in Nat /\ position \in Nat /\ run \in Nat
  /\ fragment \in {Idle} \cup 0 .. 254

\* The frame being sent is the last one, of this run, at the present position.
SendingIsLast ==
  fragment # Idle =>
    /\ Len(frames) # 0
    /\ fragment < frames[Len(frames)].count
    /\ frames[Len(frames)].run = run /\ frames[Len(frames)].position = position
    /\ \A k \in 1 .. Len(sentWhole) : sentWhole[k] # Len(frames)

SentInOrder == \A i, j \in 1 .. Len(sentWhole) : i < j => sentWhole[i] < sentWhole[j]

SenderInv == SenderTypeOK /\ SendingIsLast /\ SentInOrder

LinkTypeOK ==
  /\ peer \in {Nobody, Sender, Stranger}
  /\ connections \in 0 .. MaxConnections /\ foreign \in 0 .. MaxForeign
  /\ wire \in Seq(Messages)
  /\ arrived \subseteq [frame : 1 .. Len(frames), index : 0 .. 254,
                         connection : 0 .. MaxConnections]

(* What is on the wire was sent, is in order, and comes after what arrived. *)
WireInOrder ==
  \A i \in 1 .. Len(wire) : \A n \in Messages : n = wire[i] /\ Ours(n) =>
    /\ WasSent(n)
    /\ \A j \in 1 .. Len(wire) : i < j /\ Ours(wire[j]) => Precedes(n, wire[j])
    /\ \A m \in arrived : Precedes(m, n)

ArrivedWasSent == \A m \in arrived : WasSent(m) /\ m.connection <= connections

\* A connection carries the messages of one peer.
OnePeerPerConnection ==
  \/ peer # Stranger /\ \A i \in 1 .. Len(wire) : Ours(wire[i])
  \/ /\ peer # Sender /\ \A i \in 1 .. Len(wire) : ~Ours(wire[i])
     /\ \A m \in arrived : m.connection # connections

LinkInv == LinkTypeOK /\ WireInOrder /\ ArrivedWasSent /\ OnePeerPerConnection

ReceiverTypeOK ==
  /\ assembling \in BOOLEAN /\ rxSequence \in 0 .. SequenceModulus - 1
  /\ rxCount \in {0} \cup FragmentCounts
  /\ buffer \in Seq(1 .. Len(frames))
  /\ assembling <=> buffer # <<>>
  /\ assembling => Len(buffer) < rxCount
  /\ dropped \in Nat /\ refused \in Nat
  /\ delivered \in Seq(1 .. Len(frames))

(* The buffer holds fragments that arrived at their place; of the frame it *)
(* began with, all that arrived.                                           *)
BufferHolds ==
  assembling =>
    /\ rxCount = frames[buffer[1]].count
    /\ rxSequence = frames[buffer[1]].sequence % SequenceModulus
    /\ \A i \in 1 .. Len(buffer) : Has(buffer[i], i - 1) /\ buffer[1] <= buffer[i]
    /\ \A m \in arrived : m.frame = buffer[1] =>
         m.index < Len(buffer) /\ buffer[m.index + 1] = buffer[1]

\* Fragments 0 .. k - 1 of f came on this connection, and nothing since.
JustCame(f, k) ==
  /\ \A i \in 0 .. k - 1 : [frame |-> f, index |-> i, connection |-> connections] \in arrived
  /\ \A m \in arrived : m.frame < f \/ (m.frame = f /\ m.index < k)

\* Then they are what the buffer holds.
WholeSoFarIsHeld ==
  \A f \in 1 .. Len(frames) : \A k \in 1 .. frames[f].count - 1 : JustCame(f, k) =>
    /\ assembling /\ rxSequence = frames[f].sequence % SequenceModulus
    /\ rxCount = frames[f].count /\ Len(buffer) = k
    /\ \A i \in 1 .. k : buffer[i] = f

DeliveredInOrder ==
  /\ \A i, j \in 1 .. Len(delivered) : i < j => delivered[i] < delivered[j]
  /\ assembling => \A i \in 1 .. Len(delivered) : delivered[i] < buffer[1]

\* A fragment of the frame did not come, and a later message did.
Missed(f) ==
  \E i \in 0 .. frames[f].count - 1 :
    /\ ~Has(f, i)
    /\ \E m \in arrived : f < m.frame \/ (f = m.frame /\ i < m.index)

\* The frames that can be counted as dropped: the one being assembled cannot yet.
Droppable ==
  {f \in 1 .. Len(frames) :
     (\E m \in arrived : m.frame = f) /\ Missed(f) /\ (assembling => f < buffer[1])}

ReceiverInv ==
  /\ ReceiverTypeOK /\ BufferHolds /\ WholeSoFarIsHeld
  /\ DeliveredWhole /\ DeliveredInOrder /\ OnlyItsOwnFrameIsLost
  /\ dropped <= Cardinality(Droppable)

StreamProofInv == SenderInv /\ LinkInv /\ ReceiverInv

----------------------------------------------------------------------------
(* The sending engine *)

LEMMA FrameHasParts ==
  ASSUME SenderTypeOK, NEW f \in 1 .. Len(frames)
  PROVE  /\ frames[f].count \in FragmentCounts /\ frames[f].count \in 1 .. 255
         /\ frames[f].count \in Nat \ {0}
         /\ frames[f].sequence \in Nat /\ frames[f].run \in Nat /\ frames[f].position \in Nat
<1>1. frames[f] \in Attempts
  BY ElementOfSeq DEF SenderTypeOK
<1>2. /\ frames[f].count \in FragmentCounts /\ frames[f].count \in 1 .. 255
      /\ frames[f].sequence \in Nat /\ frames[f].run \in Nat /\ frames[f].position \in Nat
  BY <1>1, FragmentCountsAssumption DEF Attempts
<1>3. \A n \in 1 .. 255 : n \in Nat \ {0}
  BY SMT
<1>4. QED
  BY <1>2, <1>3, Zenon

LEMMA ArrivedHasParts ==
  ASSUME LinkTypeOK, NEW m \in arrived
  PROVE  /\ m.frame \in 1 .. Len(frames) /\ m.index \in 0 .. 254 /\ m.index \in Nat
         /\ m.connection \in 0 .. MaxConnections
<1>1. m \in [frame : 1 .. Len(frames), index : 0 .. 254, connection : 0 .. MaxConnections]
  BY DEF LinkTypeOK
<1>2. /\ m.frame \in 1 .. Len(frames) /\ m.index \in 0 .. 254
      /\ m.connection \in 0 .. MaxConnections
  BY <1>1, Zenon
<1>3. \A n \in 0 .. 254 : n \in Nat
  BY SMT
<1>4. QED
  BY <1>2, <1>3, Zenon

LEMMA WireHasParts ==
  ASSUME LinkTypeOK, NEW i \in 1 .. Len(wire)
  PROVE  /\ wire[i] \in Messages
         /\ wire[i].frame \in Nat /\ wire[i].index \in 0 .. 254 /\ wire[i].index \in Nat
<1>1. wire[i] \in Messages
  BY ElementOfSeq DEF LinkTypeOK
<1>2. wire[i].frame \in 0 .. MaxFrames /\ wire[i].index \in 0 .. 254
  BY <1>1, Zenon DEF Messages
<1>3. (\A n \in 0 .. 254 : n \in Nat) /\ (\A n \in 0 .. MaxFrames : n \in Nat)
  BY StreamBoundsAssumption
<1>4. QED
  BY <1>1, <1>2, <1>3, Zenon

LEMMA InitIsStreamInv == FrameInit => StreamProofInv
<1> SUFFICES ASSUME FrameInit PROVE StreamProofInv
  OBVIOUS
<1> USE DEF FrameInit
<1>1. SenderInv
  <2>1. SenderTypeOK
    BY StreamBoundsAssumption DEF SenderTypeOK
  <2>2. QED
    BY <2>1 DEF SenderInv, SendingIsLast, SentInOrder
<1>2. LinkInv
  <2>1. LinkTypeOK
    BY StreamBoundsAssumption DEF LinkTypeOK
  <2>2. QED
    BY <2>1 DEF LinkInv, WireInOrder, ArrivedWasSent, OnePeerPerConnection, Nobody, Stranger
<1>3. ReceiverInv
  <2>1. ReceiverTypeOK
    <3>1. 0 \in 0 .. SequenceModulus - 1
      BY SequenceModulusAssumption
    <3>2. buffer \in Seq(1 .. Len(frames)) /\ delivered \in Seq(1 .. Len(frames))
      BY EmptySeq
    <3>3. QED
      BY <3>1, <3>2 DEF ReceiverTypeOK
  <2>2. BufferHolds /\ WholeSoFarIsHeld /\ DeliveredWhole /\ DeliveredInOrder
        /\ OnlyItsOwnFrameIsLost
    BY DEF BufferHolds, WholeSoFarIsHeld, DeliveredWhole, DeliveredInOrder,
           OnlyItsOwnFrameIsLost
  <2>3. Droppable = {}
    BY DEF Droppable
  <2>4. QED
    BY <2>1, <2>2, <2>3, FS_EmptySet DEF ReceiverInv
<1>4. QED
  BY <1>1, <1>2, <1>3 DEF StreamProofInv

\* A longer list of frames changes nothing about those that arrived.
LEMMA MoreFramesKeepReceiver ==
  ASSUME SenderTypeOK, LinkTypeOK, ReceiverInv, UNCHANGED <<rxVars, connections>>,
         Len(frames') \in Nat, Len(frames) <= Len(frames'),
         \A f \in 1 .. Len(frames) : frames'[f] = frames[f],
         \A f \in 1 .. Len(frames') : frames'[f].count \in Nat \ {0}
  PROVE  ReceiverInv'
<1>1. /\ Len(frames) \in Nat
      /\ \A m \in arrived : m.frame \in 1 .. Len(frames) /\ m.index \in Nat
      /\ \A f \in 1 .. Len(frames) : f \in 1 .. Len(frames') /\ frames'[f] = frames[f]
  <2>1. Len(frames) \in Nat
    BY DEF SenderTypeOK
  <2>2. \A m \in arrived : m.frame \in 1 .. Len(frames) /\ m.index \in Nat
    BY ArrivedHasParts
  <2>3. QED
    BY <2>1, <2>2
<1>2. /\ UNCHANGED <<assembling, rxSequence, rxCount, buffer, dropped, refused, delivered,
                      arrived, connections>>
  BY DEF rxVars
<1>3. ReceiverTypeOK'
  <2>1. \A t \in Seq(1 .. Len(frames)) : t \in Seq(1 .. Len(frames'))
    <3>1. 1 .. Len(frames) \subseteq 1 .. Len(frames')
      BY <1>1
    <3>2. QED
      BY <3>1, SeqMonotonic
  <2>2. QED
    BY <1>2, <2>1 DEF ReceiverInv, ReceiverTypeOK
<1>4. assembling => buffer[1] \in 1 .. Len(frames)
  BY DEF ReceiverInv, ReceiverTypeOK
<1>5. BufferHolds'
  BY <1>1, <1>2, <1>4 DEF ReceiverInv, BufferHolds, Has
<1>6. WholeSoFarIsHeld'
  <2>1. ASSUME NEW f \in 1 .. Len(frames'), NEW k \in 1 .. frames'[f].count - 1, JustCame(f, k)'
        PROVE  f \in 1 .. Len(frames) /\ k \in 1 .. frames[f].count - 1 /\ JustCame(f, k)
    <3>1. JustCame(f, k)
      BY <1>2, <2>1 DEF JustCame
    <3>2. 0 \in 0 .. k - 1
      BY <2>1
    <3>3. f \in 1 .. Len(frames)
      BY <1>1, <3>1, <3>2 DEF JustCame
    <3>4. QED
      BY <1>1, <2>1, <3>1, <3>3
  <2>2. QED
    BY <1>1, <1>2, <2>1 DEF ReceiverInv, WholeSoFarIsHeld
<1>7. \A f \in 1 .. Len(frames) : Whole(f)' = Whole(f) /\ Missed(f)' = Missed(f)
  BY <1>1, <1>2 DEF Whole, Missed, Has
<1>8. DeliveredWhole' /\ DeliveredInOrder'
  <2>1. \A i \in 1 .. Len(delivered) : delivered[i] \in 1 .. Len(frames)
    BY DEF ReceiverInv, ReceiverTypeOK
  <2>2. QED
    BY <1>2, <1>7, <2>1 DEF ReceiverInv, DeliveredWhole, DeliveredInOrder
<1>9. OnlyItsOwnFrameIsLost'
  <2>1. ASSUME NEW f \in 1 .. Len(frames'), NEW c \in 1 .. connections, WholeOn(f, c)'
        PROVE  f \in 1 .. Len(frames) /\ WholeOn(f, c)
    <3>1. 0 \in 0 .. frames'[f].count - 1
      BY <2>1
    <3>2. f \in 1 .. Len(frames)
      BY <1>1, <1>2, <2>1, <3>1 DEF WholeOn
    <3>3. QED
      BY <1>1, <1>2, <2>1, <3>2 DEF WholeOn
  <2>2. QED
    BY <1>2, <2>1 DEF ReceiverInv, OnlyItsOwnFrameIsLost
<1>10. Droppable' = Droppable
  BY <1>1, <1>2, <1>7 DEF Droppable
<1>11. QED
  BY <1>2, <1>3, <1>5, <1>6, <1>8, <1>9, <1>10 DEF ReceiverInv

LEMMA EncodeKeepsInv ==
  ASSUME StreamProofInv, EncodePeriod
  PROVE  StreamProofInv'
<1> USE DEF StreamProofInv, SenderInv, LinkInv
<1>1. PICK n \in FragmentCounts :
        frames' = Append(frames, [run |-> run, position |-> position,
                                  sequence |-> sequence, count |-> n])
  BY DEF EncodePeriod
<1> DEFINE new == [run |-> run, position |-> position, sequence |-> sequence, count |-> n]
<1>2. /\ fragment = Idle /\ fragment' = 0 /\ Len(frames) < MaxFrames
      /\ UNCHANGED <<sequence, position, run, sentWhole, peer, connections, foreign, wire,
                     assembling, rxSequence, rxCount, buffer, dropped, refused, delivered,
                     arrived>>
  BY DEF EncodePeriod, linkVars, rxVars
<1>3. /\ Len(frames) \in Nat /\ Len(frames') = Len(frames) + 1
      /\ frames' \in Seq(Attempts)
      /\ \A f \in 1 .. Len(frames) : frames'[f] = frames[f]
      /\ frames'[Len(frames) + 1] = new
  <2>1. new \in Attempts /\ frames' = Append(frames, new)
    BY <1>1 DEF SenderTypeOK, Attempts
  <2> HIDE DEF new
  <2>2. frames \in Seq(Attempts) /\ Len(frames) \in Nat
    BY LenProperties DEF SenderTypeOK
  <2>3. QED
    BY <2>1, <2>2, AppendProperties
<1> HIDE DEF new
<1>4. n \in 1 .. 255
  BY FragmentCountsAssumption
<1>5. SenderTypeOK'
  <2>1. \A t \in Seq(1 .. Len(frames)) : t \in Seq(1 .. Len(frames'))
    <3>1. 1 .. Len(frames) \subseteq 1 .. Len(frames')
      BY <1>3
    <3>2. QED
      BY <3>1, SeqMonotonic
  <2>2. QED
    BY <1>2, <1>3, <2>1, StreamBoundsAssumption DEF SenderTypeOK
<1>6. SendingIsLast'
  <2>1. \A k \in 1 .. Len(sentWhole) : sentWhole[k] \in 1 .. Len(frames)
    BY ElementOfSeq DEF SenderTypeOK
  <2>2. \A k \in 1 .. Len(sentWhole) : sentWhole[k] # Len(frames')
    BY <1>3, <2>1
  <2>3. frames'[Len(frames')] = new /\ Len(frames') # 0
    BY <1>3
  <2>4. new.count = n /\ new.run = run /\ new.position = position
    BY DEF new
  <2>5. QED
    BY <1>2, <1>4, <2>2, <2>3, <2>4 DEF SendingIsLast
<1>7. SentInOrder'
  BY <1>2 DEF SentInOrder
<1>8. \A m : WasSent(m) => WasSent(m)'
  <2>1. ASSUME NEW m, WasSent(m) PROVE WasSent(m)'
    <3>1. m.frame \in 1 .. Len(frames') /\ m.frame # Len(frames') /\ frames'[m.frame] = frames[m.frame]
      BY <1>3, <2>1 DEF WasSent
    <3>2. QED
      BY <1>2, <2>1, <3>1 DEF WasSent, IsSentWhole
  <2>2. QED
    BY <2>1
<1>9. LinkInv'
  <2>1. LinkTypeOK'
    <3>1. 1 .. Len(frames) \subseteq 1 .. Len(frames')
      BY <1>3
    <3>2. arrived' \subseteq [frame : 1 .. Len(frames'), index : 0 .. 254,
                              connection : 0 .. MaxConnections]
      BY <1>2, <3>1 DEF LinkTypeOK
    <3>3. QED
      BY <1>2, <3>2 DEF LinkTypeOK
  <2>2. WireInOrder' /\ ArrivedWasSent'
    BY <1>2, <1>8 DEF WireInOrder, ArrivedWasSent, Ours, Precedes
  <2>3. OnePeerPerConnection'
    BY <1>2 DEF OnePeerPerConnection, Ours
  <2>4. QED
    BY <2>1, <2>2, <2>3
<1>10. ReceiverInv'
  <2>1. \A f \in 1 .. Len(frames') : frames'[f].count \in Nat \ {0}
    <3>1. \A f \in 1 .. Len(frames) : frames[f].count \in Nat \ {0}
      BY FrameHasParts
    <3>2. new.count \in Nat \ {0}
      BY <1>4 DEF new
    <3>3. \A f \in 1 .. Len(frames') : f \in 1 .. Len(frames) \/ f = Len(frames) + 1
      BY <1>3
    <3>4. \A f \in 1 .. Len(frames) : frames'[f].count \in Nat \ {0}
      BY <1>3, <3>1
    <3>5. QED
      BY <1>3, <3>2, <3>3, <3>4
  <2>2. QED
    BY <1>2, <1>3, <2>1, MoreFramesKeepReceiver DEF rxVars
<1>11. QED
  BY <1>5, <1>6, <1>7, <1>9, <1>10

\* A message sent stays one, whatever the sender does next.
LEMMA SentStaysSent ==
  ASSUME NEW m, WasSent(m), UNCHANGED frames,
         \A k \in 1 .. Len(sentWhole) :
           k \in 1 .. Len(sentWhole') /\ sentWhole'[k] = sentWhole[k],
         fragment # Idle => fragment' = Idle \/ fragment' = fragment + 1,
         fragment = Idle => fragment' = Idle,
         fragment \in {Idle} \cup Nat
  PROVE  WasSent(m)'
<1>1. IsSentWhole(m.frame) => IsSentWhole(m.frame)'
  BY DEF IsSentWhole
<1>2. ASSUME m.frame = Len(frames), fragment' # Idle
      PROVE  m.index < fragment'
  <2>1. fragment # Idle /\ fragment' = fragment + 1 /\ fragment \in Nat
    BY <1>2
  <2>2. m.index < fragment /\ m.index \in Int
    BY <1>2, <2>1 DEF WasSent
  <2>3. QED
    BY <2>1, <2>2
<1>3. QED
  BY <1>1, <1>2 DEF WasSent

LEMMA SendKeepsInv ==
  ASSUME StreamProofInv, SendFragment
  PROVE  StreamProofInv'
<1> USE DEF StreamProofInv, SenderInv, LinkInv
<1>a. PICK f : f = Len(frames)
  OBVIOUS
<1>b. PICK x : x = [frame |-> f, index |-> fragment]
  OBVIOUS
<1>1. /\ fragment # Idle /\ peer = Sender /\ wire' = Append(wire, x)
      /\ UNCHANGED <<frames, run, peer, connections, foreign, assembling, rxSequence, rxCount,
                     buffer, dropped, refused, delivered, arrived>>
  BY <1>a, <1>b DEF SendFragment, linkVars, rxVars
<1>2. \/ /\ fragment + 1 = frames[f].count /\ fragment' = Idle
         /\ sequence' = sequence + 1 /\ position' = position + 1
         /\ sentWhole' = Append(sentWhole, f)
      \/ /\ fragment + 1 # frames[f].count /\ fragment' = fragment + 1
         /\ UNCHANGED <<sequence, position, sentWhole>>
  BY <1>a DEF SendFragment, IsLastFragment
<1>3. f \in 1 .. Len(frames) /\ f \in Nat /\ f <= MaxFrames
  BY <1>1, <1>a DEF SendingIsLast, SenderTypeOK
<1>4. /\ fragment \in Nat /\ fragment < frames[f].count /\ frames[f].count \in 1 .. 255
      /\ fragment \in 0 .. 254
  <2>1. fragment \in 0 .. 254 /\ fragment < frames[f].count
    BY <1>1, <1>a DEF SendingIsLast, SenderTypeOK
  <2>2. frames[f].count \in 1 .. 255
    BY <1>3, FrameHasParts
  <2>3. QED
    BY <2>1, <2>2
<1>5. x \in Messages /\ x.frame = f /\ x.index = fragment
  BY <1>3, <1>4, <1>b DEF Messages
<1>6. /\ Len(sentWhole) \in Nat
      /\ \A k \in 1 .. Len(sentWhole) :
           k \in 1 .. Len(sentWhole') /\ sentWhole'[k] = sentWhole[k] /\ sentWhole[k] \in 1 .. f
      /\ \A k \in 1 .. Len(sentWhole') :
           k \in 1 .. Len(sentWhole) \/ (k = Len(sentWhole) + 1 /\ sentWhole'[k] = f)
      /\ sentWhole' \in Seq(1 .. f)
  <2>1. sentWhole \in Seq(1 .. f) /\ Len(sentWhole) \in Nat /\ f \in 1 .. f
    BY <1>3, LenProperties, <1>a DEF SenderTypeOK
  <2>2. \A k \in 1 .. Len(sentWhole) : sentWhole[k] \in 1 .. f
    BY <2>1, ElementOfSeq
  <2>3. CASE sentWhole' = Append(sentWhole, f)
    BY <2>1, <2>2, <2>3, AppendProperties
  <2>4. CASE UNCHANGED sentWhole
    BY <2>1, <2>2, <2>4
  <2>5. QED
    BY <1>2, <2>3, <2>4
<1>7. SenderTypeOK'
  <2>1. sequence' \in Nat /\ position' \in Nat /\ run' \in Nat
    BY <1>1, <1>2 DEF SenderTypeOK
  <2>2. fragment' \in {Idle} \cup 0 .. 254
    <3>1. fragment + 1 # frames[f].count => fragment + 1 \in 0 .. 254
      BY <1>4
    <3>2. QED
      BY <1>2, <3>1
  <2>3. QED
    BY <1>1, <1>6, <2>1, <2>2, <1>a DEF SenderTypeOK
<1>8. SendingIsLast'
  <2>1. SUFFICES ASSUME fragment' # Idle PROVE SendingIsLast'
    BY DEF SendingIsLast
  <2>2. fragment + 1 # frames[f].count /\ fragment' = fragment + 1
        /\ UNCHANGED <<sequence, position, sentWhole>>
    BY <1>2, <2>1
  <2>3. fragment' < frames[f].count
    BY <1>4, <2>2
  <2>4. QED
    BY <1>1, <2>2, <2>3, <1>a DEF SendingIsLast
<1>9. SentInOrder'
  <2>1. ASSUME NEW i \in 1 .. Len(sentWhole'), NEW j \in 1 .. Len(sentWhole'), i < j
        PROVE  sentWhole'[i] < sentWhole'[j]
    <3>1. CASE j \in 1 .. Len(sentWhole)
      <4>1. i \in 1 .. Len(sentWhole)
        BY <1>6, <2>1, <3>1
      <4>2. QED
        BY <1>6, <2>1, <3>1, <4>1 DEF SentInOrder
    <3>2. CASE j \notin 1 .. Len(sentWhole)
      <4>1. i \in 1 .. Len(sentWhole) /\ sentWhole'[j] = f
        BY <1>6, <2>1, <3>2
      <4>2. sentWhole[i] \in 1 .. f /\ sentWhole[i] # f
        BY <1>1, <1>6, <4>1, <1>a DEF SendingIsLast
      <4>3. QED
        BY <1>3, <1>6, <4>1, <4>2
    <3>3. QED
      BY <3>1, <3>2
  <2>2. QED
    BY <2>1 DEF SentInOrder
<1>10. \A m : WasSent(m) => WasSent(m)'
  BY <1>1, <1>2, <1>4, <1>6, SentStaysSent
<1>11. WasSent(x)'
  <2>1. fragment + 1 = frames[f].count => IsSentWhole(f)'
    <3>1. ASSUME fragment + 1 = frames[f].count PROVE IsSentWhole(f)'
      <4>1. sentWhole' = Append(sentWhole, f)
        BY <1>2, <3>1
      <4>2. sentWhole \in Seq(1 .. f) /\ f \in 1 .. f
        BY <1>3, <1>a DEF SenderTypeOK
      <4>3. Len(sentWhole') = Len(sentWhole) + 1 /\ sentWhole'[Len(sentWhole) + 1] = f
        BY <4>1, <4>2, AppendProperties
      <4>4. Len(sentWhole) + 1 \in 1 .. Len(sentWhole')
        BY <1>6, <4>3
      <4>5. QED
        BY <4>3, <4>4 DEF IsSentWhole
    <3>2. QED
      BY <3>1
  <2>2. fragment' # Idle => fragment < fragment'
    BY <1>2, <1>4
  <2>3. fragment \in 0 .. frames[f].count - 1
    BY <1>4
  <2>4. fragment = frames[f].count - 1 => fragment + 1 = frames[f].count
    BY <1>4
  <2>5. QED
    BY <1>1, <1>3, <1>5, <2>1, <2>2, <2>3, <2>4, <1>a DEF WasSent
<1>12. \A m : WasSent(m) => Precedes(m, x)
  <2>1. ASSUME NEW m, WasSent(m) PROVE Precedes(m, x)
    <3>1. m.frame \in 1 .. f /\ (m.frame = f => m.index < fragment)
      BY <1>1, <2>1, <1>a DEF WasSent
    <3>2. QED
      BY <1>3, <1>5, <3>1 DEF Precedes
  <2>2. QED
    BY <2>1
<1>13. /\ wire' \in Seq(Messages) /\ Len(wire') = Len(wire) + 1 /\ Len(wire) \in Nat
       /\ \A i \in 1 .. Len(wire) : wire'[i] = wire[i]
       /\ wire'[Len(wire) + 1] = x
  BY <1>1, <1>5, AppendProperties, LenProperties DEF LinkTypeOK
<1>14. LinkTypeOK'
  BY <1>1, <1>13 DEF LinkTypeOK
<1>15. WireInOrder'
  <2>1. SUFFICES ASSUME NEW i \in 1 .. Len(wire'), NEW n \in Messages, n = wire'[i], Ours(n)
                 PROVE  /\ WasSent(n)'
                        /\ \A j \in 1 .. Len(wire') :
                             i < j /\ Ours(wire'[j]) => Precedes(n, wire'[j])
                        /\ \A m \in arrived' : Precedes(m, n)
    BY DEF WireInOrder, Ours, Precedes
  <2>2. CASE i = Len(wire) + 1
    <3>1. \A j \in 1 .. Len(wire') : ~(i < j)
      BY <1>13, <2>2
    <3>2. QED
      BY <1>1, <1>11, <1>12, <1>13, <2>1, <2>2, <3>1 DEF ArrivedWasSent
  <2>3. CASE i \in 1 .. Len(wire)
    <3>1. n = wire[i]
      BY <1>13, <2>1, <2>3
    <3>2. /\ WasSent(n)
          /\ \A j \in 1 .. Len(wire) : i < j /\ Ours(wire[j]) => Precedes(n, wire[j])
          /\ \A m \in arrived : Precedes(m, n)
      BY <2>1, <2>3, <3>1 DEF WireInOrder
    <3>3. \A j \in 1 .. Len(wire') : (j \in 1 .. Len(wire) /\ wire'[j] = wire[j]) \/ wire'[j] = x
      BY <1>13
    <3>4. Precedes(n, x) /\ WasSent(n)'
      BY <1>10, <1>12, <3>2
    <3>5. QED
      BY <1>1, <3>2, <3>3, <3>4
  <2>4. QED
    BY <1>13, <2>2, <2>3
<1>16. ArrivedWasSent'
  BY <1>1, <1>10 DEF ArrivedWasSent
<1>17. OnePeerPerConnection'
  <2>1. \A i \in 1 .. Len(wire') : i \in 1 .. Len(wire) \/ wire'[i] = x
    BY <1>13
  <2>2. Ours(x)
    BY <1>3, <1>5 DEF Ours, NoFrame
  <2>3. \A i \in 1 .. Len(wire') : Ours(wire'[i])
    BY <1>1, <1>13, <2>1, <2>2 DEF OnePeerPerConnection
  <2>4. QED
    BY <1>1, <2>3 DEF OnePeerPerConnection, Sender, Stranger, Ours
<1>18. ReceiverInv'
  <2>1. \A g \in 1 .. Len(frames') : frames'[g].count \in Nat \ {0}
    BY <1>1, FrameHasParts
  <2>2. Len(frames) \in Nat
    BY <1>3, <1>a
  <2>3. QED
    BY <1>1, <2>1, <2>2, MoreFramesKeepReceiver DEF rxVars
<1>19. QED
  BY <1>7, <1>8, <1>9, <1>14, <1>15, <1>16, <1>17, <1>18

\* A turn given up, or a restart: the rest of the frame is never sent.
LEMMA GivingUpKeepsInv ==
  ASSUME StreamProofInv, SendFails \/ SenderRestarts
  PROVE  StreamProofInv'
<1> USE DEF StreamProofInv, SenderInv, LinkInv
<1>1. /\ fragment' = Idle /\ peer' \in {peer, Nobody}
      /\ UNCHANGED <<frames, sentWhole, connections, foreign, wire, assembling, rxSequence,
                     rxCount, buffer, dropped, refused, delivered, arrived>>
  BY DEF SendFails, SenderRestarts, rxVars
<1>2. sequence' \in Nat /\ position' \in Nat /\ run' \in Nat
  BY DEF SendFails, SenderRestarts, SenderTypeOK
<1>3. SenderTypeOK' /\ SendingIsLast' /\ SentInOrder'
  BY <1>1, <1>2 DEF SenderTypeOK, SendingIsLast, SentInOrder
<1>4. \A m : WasSent(m) => WasSent(m)'
  BY <1>1 DEF WasSent, IsSentWhole
<1>5. LinkTypeOK' /\ WireInOrder' /\ ArrivedWasSent'
  BY <1>1, <1>4 DEF LinkTypeOK, WireInOrder, ArrivedWasSent, Ours, Precedes
<1>6. OnePeerPerConnection'
  BY <1>1 DEF OnePeerPerConnection, Ours, Nobody, Sender, Stranger
<1>7. ReceiverInv'
  <2>1. \A g \in 1 .. Len(frames') : frames'[g].count \in Nat \ {0}
    BY <1>1, FrameHasParts
  <2>2. Len(frames) \in Nat
    BY DEF SenderTypeOK
  <2>3. QED
    BY <1>1, <2>1, <2>2, MoreFramesKeepReceiver DEF rxVars
<1>8. QED
  BY <1>3, <1>5, <1>6, <1>7

----------------------------------------------------------------------------
(* The connection *)

LEMMA OtherSideKeepsSender ==
  ASSUME SenderInv, UNCHANGED txVars
  PROVE  SenderInv' /\ \A m : WasSent(m) => WasSent(m)'
BY DEF txVars, SenderInv, SenderTypeOK, SendingIsLast, SentInOrder, WasSent, IsSentWhole

LEMMA RemovedFromSequence ==
  ASSUME NEW S, NEW s \in Seq(S), NEW k \in 1 .. Len(s)
  PROVE  /\ RemoveAt(s, k) \in Seq(S) /\ Len(RemoveAt(s, k)) = Len(s) - 1
         /\ \A i \in 1 .. Len(s) - 1 : RemoveAt(s, k)[i] = s[IF i < k THEN i ELSE i + 1]
<1> DEFINE a == SubSeq(s, 1, k - 1)
           b == SubSeq(s, k + 1, Len(s))
<1>1. Len(s) \in Nat /\ \A i \in 1 .. Len(s) : s[i] \in S
  BY ElementOfSeq, LenProperties
<1>2. /\ a \in Seq(S) /\ Len(a) = k - 1
      /\ \A i \in 1 .. k - 1 : a[i] = s[i]
  <2>1. \A i \in 1 .. k - 1 : s[i] \in S /\ 1 + i - 1 = i
    BY <1>1
  <2>2. 1 \in Int /\ k - 1 \in Int /\ (k - 1) - 1 + 1 = k - 1
    BY <1>1
  <2>3. a \in Seq(S) /\ \A i \in 1 .. (k - 1) - 1 + 1 : a[i] = s[1 + i - 1]
    BY <2>1, <2>2, SubSeqProperties
  <2>4. Len(a) = IF 1 <= k - 1 THEN (k - 1) - 1 + 1 ELSE 0
    BY <2>1, <2>2, SubSeqProperties
  <2> HIDE DEF a
  <2>5. QED
    BY <1>1, <2>1, <2>2, <2>3, <2>4
<1>3. /\ b \in Seq(S) /\ Len(b) = Len(s) - k
      /\ \A i \in 1 .. Len(s) - k : b[i] = s[k + i]
  <2>1. \A i \in k + 1 .. Len(s) : s[i] \in S
    BY <1>1
  <2>2. k + 1 \in Int /\ Len(s) \in Int /\ Len(s) - (k + 1) + 1 = Len(s) - k
    BY <1>1
  <2>3. b \in Seq(S) /\ \A i \in 1 .. Len(s) - (k + 1) + 1 : b[i] = s[k + 1 + i - 1]
    BY <2>1, <2>2, SubSeqProperties
  <2>4. Len(b) = IF k + 1 <= Len(s) THEN Len(s) - (k + 1) + 1 ELSE 0
    BY <2>1, <2>2, SubSeqProperties
  <2>5. \A i \in 1 .. Len(s) - k : k + 1 + i - 1 = k + i
    BY <1>1
  <2>6. Len(b) = Len(s) - k
    BY <1>1, <2>4
  <2>7. \A i \in 1 .. Len(s) - k : b[i] = s[k + i]
    <3> TAKE i \in 1 .. Len(s) - k
    <3>1. b[i] = s[k + 1 + i - 1]
      BY <2>2, <2>3
    <3>2. QED
      BY <2>5, <3>1
  <2> HIDE DEF b
  <2>8. QED
    BY <2>3, <2>6, <2>7
<1>4. RemoveAt(s, k) = a \o b
  BY DEF RemoveAt
<1> HIDE DEF a, b
<1>5. /\ a \o b \in Seq(S) /\ Len(a \o b) = Len(a) + Len(b)
      /\ \A i \in 1 .. Len(a) + Len(b) :
           (a \o b)[i] = IF i <= Len(a) THEN a[i] ELSE b[i - Len(a)]
  BY <1>2, <1>3, ConcatProperties
<1>6. ASSUME NEW i \in 1 .. Len(s) - 1
      PROVE  (a \o b)[i] = s[IF i < k THEN i ELSE i + 1]
  <2>1. CASE i < k
    BY <1>1, <1>2, <1>3, <1>5, <2>1
  <2>2. CASE ~(i < k)
    <3>1. PICK q \in 1 .. Len(s) - k : q = i - (k - 1)
      BY <1>1, <2>2
    <3>2. ~(i <= Len(a)) /\ k + q = i + 1 /\ i - Len(a) = q /\ i \in 1 .. Len(a) + Len(b)
      BY <1>1, <1>2, <1>3, <2>2, <3>1
    <3>3. (a \o b)[i] = b[q]
      BY <1>5, <3>2
    <3>4. b[q] = s[i + 1]
      BY <1>3, <3>1, <3>2
    <3>5. QED
      BY <2>2, <3>3, <3>4
  <2>3. QED
    BY <2>1, <2>2
<1>7. Len(a) + Len(b) = Len(s) - 1
  BY <1>1, <1>2, <1>3
<1>8. QED
  BY <1>4, <1>5, <1>6, <1>7

\* Messages taken off the wire leave the others in their order.
LEMMA ThinnerWireKeepsOrder ==
  ASSUME LinkInv, NEW place, wire' \in Seq(Messages),
         \A i \in 1 .. Len(wire') : place[i] \in 1 .. Len(wire) /\ wire'[i] = wire[place[i]],
         \A i, j \in 1 .. Len(wire') : i < j => place[i] < place[j],
         \A m : WasSent(m) => WasSent(m)', UNCHANGED <<arrived, connections>>,
         peer' \in {peer, Nobody}
  PROVE  WireInOrder' /\ ArrivedWasSent' /\ OnePeerPerConnection'
<1> USE DEF LinkInv
<1>1. WireInOrder'
  <2>1. SUFFICES ASSUME NEW i \in 1 .. Len(wire'), NEW n \in Messages, n = wire'[i], Ours(n)
                 PROVE  /\ WasSent(n)'
                        /\ \A j \in 1 .. Len(wire') :
                             i < j /\ Ours(wire'[j]) => Precedes(n, wire'[j])
                        /\ \A m \in arrived' : Precedes(m, n)
    BY DEF WireInOrder, Ours, Precedes
  <2>2. place[i] \in 1 .. Len(wire) /\ n = wire[place[i]]
    BY <2>1
  <2>3. /\ WasSent(n)
        /\ \A j \in 1 .. Len(wire) : place[i] < j /\ Ours(wire[j]) => Precedes(n, wire[j])
        /\ \A m \in arrived : Precedes(m, n)
    BY <2>1, <2>2 DEF WireInOrder
  <2>4. QED
    BY <2>3
<1>2. ArrivedWasSent'
  BY DEF ArrivedWasSent
<1>3. OnePeerPerConnection'
  BY DEF OnePeerPerConnection, Ours, Nobody, Sender, Stranger
<1>4. QED
  BY <1>1, <1>2, <1>3

LEMMA BreakKeepsInv ==
  ASSUME StreamProofInv, Breaks
  PROVE  StreamProofInv'
<1> USE DEF StreamProofInv
<1>1. /\ peer' = Nobody
      /\ UNCHANGED <<connections, foreign, wire, txVars, rxVars, frames, arrived>>
  BY DEF Breaks, txVars, rxVars
<1>2. SenderInv' /\ \A m : WasSent(m) => WasSent(m)'
  BY <1>1, OtherSideKeepsSender
<1>3. LinkTypeOK'
  BY <1>1 DEF LinkInv, LinkTypeOK
<1>4. WireInOrder' /\ ArrivedWasSent' /\ OnePeerPerConnection'
  BY <1>1, <1>2 DEF LinkInv, WireInOrder, ArrivedWasSent, OnePeerPerConnection, Ours, Precedes,
                    Nobody, Sender, Stranger
<1>5. ReceiverInv'
  <2>1. \A g \in 1 .. Len(frames') : frames'[g].count \in Nat \ {0}
    BY <1>1, FrameHasParts DEF SenderInv
  <2>2. Len(frames) \in Nat
    BY DEF SenderInv, SenderTypeOK
  <2>3. QED
    BY <1>1, <2>1, <2>2, MoreFramesKeepReceiver DEF LinkInv, SenderInv
<1>6. QED
  BY <1>2, <1>3, <1>4, <1>5 DEF LinkInv

LEMMA LossKeepsInv ==
  ASSUME StreamProofInv, LosesMessage
  PROVE  StreamProofInv'
<1> USE DEF StreamProofInv
<1>1. /\ UNCHANGED <<txVars, rxVars, peer, connections, foreign, frames, arrived>>
  BY DEF LosesMessage, txVars, rxVars, linkVars
<1>2. PICK k \in 1 .. Len(wire) : wire' = RemoveAt(wire, k)
  BY DEF LosesMessage
<1> DEFINE place == [i \in 1 .. Len(wire') |-> IF i < k THEN i ELSE i + 1]
<1>3. wire \in Seq(Messages) /\ Len(wire) \in Nat
  BY LenProperties DEF LinkInv, LinkTypeOK
<1>4. /\ wire' \in Seq(Messages) /\ Len(wire') = Len(wire) - 1
      /\ \A i \in 1 .. Len(wire') : wire'[i] = wire[IF i < k THEN i ELSE i + 1]
  BY <1>2, <1>3, RemovedFromSequence
<1>5. \A i \in 1 .. Len(wire') : place[i] \in 1 .. Len(wire) /\ wire'[i] = wire[place[i]]
  BY <1>3, <1>4
<1>6. \A i, j \in 1 .. Len(wire') : i < j => place[i] < place[j]
  BY <1>3, <1>4
<1> HIDE DEF place
<1>7. SenderInv' /\ \A m : WasSent(m) => WasSent(m)'
  BY <1>1, OtherSideKeepsSender
<1>8. LinkTypeOK'
  BY <1>1, <1>4 DEF LinkInv, LinkTypeOK
<1>9. WireInOrder' /\ ArrivedWasSent' /\ OnePeerPerConnection'
  BY <1>1, <1>4, <1>5, <1>6, <1>7, ThinnerWireKeepsOrder
<1>10. ReceiverInv'
  <2>1. \A g \in 1 .. Len(frames') : frames'[g].count \in Nat \ {0}
    BY <1>1, FrameHasParts DEF SenderInv
  <2>2. Len(frames) \in Nat
    BY DEF SenderInv, SenderTypeOK
  <2>3. QED
    BY <1>1, <2>1, <2>2, MoreFramesKeepReceiver DEF LinkInv, SenderInv
<1>11. QED
  BY <1>7, <1>8, <1>9, <1>10 DEF LinkInv

LEMMA ConnectKeepsInv ==
  ASSUME StreamProofInv, Connects
  PROVE  StreamProofInv'
<1> USE DEF StreamProofInv
<1>1. /\ peer = Nobody /\ peer' \in {Sender, Stranger} /\ connections < MaxConnections
      /\ connections' = connections + 1 /\ wire' = <<>>
      /\ UNCHANGED <<foreign, txVars, rxVars, frames, assembling, rxSequence, rxCount, buffer,
                     dropped, refused, delivered, arrived>>
  BY DEF Connects, txVars, rxVars
<1>2. connections \in 0 .. MaxConnections /\ MaxConnections \in Nat
  BY StreamBoundsAssumption DEF LinkInv, LinkTypeOK
<1>3. SenderInv' /\ \A m : WasSent(m) => WasSent(m)'
  BY <1>1, OtherSideKeepsSender
<1>4. LinkTypeOK'
  <2>1. connections' \in 0 .. MaxConnections
    BY <1>1, <1>2
  <2>2. wire' \in Seq(Messages)
    BY <1>1, EmptySeq
  <2>3. QED
    BY <1>1, <2>1, <2>2 DEF LinkInv, LinkTypeOK
<1>5. \A m \in arrived : m.connection # connections' /\ m.connection <= connections'
  <2>1. \A m \in arrived : m.connection \in 0 .. MaxConnections /\ m.connection <= connections
    BY ArrivedHasParts DEF LinkInv, ArrivedWasSent
  <2>2. QED
    BY <1>1, <1>2, <2>1
<1>6. WireInOrder' /\ OnePeerPerConnection'
  BY <1>1, <1>5 DEF WireInOrder, OnePeerPerConnection, Ours, Nobody, Sender, Stranger
<1>7. ArrivedWasSent'
  BY <1>1, <1>3, <1>5 DEF LinkInv, ArrivedWasSent
<1>8. ReceiverInv'
  <2>1. ReceiverTypeOK' /\ BufferHolds' /\ DeliveredWhole' /\ DeliveredInOrder'
        /\ Droppable' = Droppable
    BY <1>1 DEF ReceiverInv, ReceiverTypeOK, BufferHolds, DeliveredWhole, DeliveredInOrder,
                Droppable, Missed, Whole, Has
  <2>2. WholeSoFarIsHeld'
    <3>1. ASSUME NEW f, NEW k \in 1 .. frames'[f].count - 1, JustCame(f, k)'
          PROVE  FALSE
      <4>1. 0 \in 0 .. k - 1
        OBVIOUS
      <4>2. [frame |-> f, index |-> 0, connection |-> connections'] \in arrived
        BY <1>1, <3>1, <4>1 DEF JustCame
      <4>3. QED
        BY <1>5, <4>2
    <3>2. QED
      BY <3>1 DEF WholeSoFarIsHeld
  <2>3. OnlyItsOwnFrameIsLost'
    <3>1. ASSUME NEW f \in 1 .. Len(frames), NEW c \in 1 .. connections', WholeOn(f, c)'
          PROVE  \E i \in 1 .. Len(delivered) : delivered[i] = f
      <4>1. 0 \in 0 .. frames[f].count - 1
        <5>1. frames[f].count \in Nat \ {0}
          BY FrameHasParts DEF SenderInv
        <5>2. QED
          BY <5>1
      <4>2. [frame |-> f, index |-> 0, connection |-> c] \in arrived
        BY <1>1, <3>1, <4>1 DEF WholeOn
      <4>3. c # connections'
        BY <1>5, <4>2
      <4>4. c \in 1 .. connections
        BY <1>1, <1>2, <4>3
      <4>5. WholeOn(f, c)
        BY <1>1, <3>1 DEF WholeOn
      <4>6. QED
        BY <4>4, <4>5 DEF ReceiverInv, OnlyItsOwnFrameIsLost
    <3>2. QED
      BY <1>1, <3>1 DEF OnlyItsOwnFrameIsLost
  <2>4. QED
    BY <1>1, <2>1, <2>2, <2>3 DEF ReceiverInv
<1>9. QED
  BY <1>3, <1>4, <1>6, <1>7, <1>8 DEF LinkInv

LEMMA StrangerKeepsInv ==
  ASSUME StreamProofInv, StrangerSends
  PROVE  StreamProofInv'
<1> USE DEF StreamProofInv
<1>a. PICK x : x = [frame |-> NoFrame, index |-> 0]
  OBVIOUS
<1>1. /\ peer = Stranger /\ foreign < MaxForeign /\ foreign' = foreign + 1
      /\ wire' = Append(wire, x)
      /\ UNCHANGED <<peer, connections, txVars, rxVars, frames, arrived>>
  BY <1>a DEF StrangerSends, txVars, rxVars
<1>2. x \in Messages /\ ~Ours(x)
  BY <1>a, StreamBoundsAssumption DEF Messages, Ours, NoFrame
<1>3. SenderInv' /\ \A m : WasSent(m) => WasSent(m)'
  BY <1>1, OtherSideKeepsSender
<1>4. /\ wire' \in Seq(Messages) /\ Len(wire') = Len(wire) + 1 /\ Len(wire) \in Nat
      /\ \A i \in 1 .. Len(wire') : (i \in 1 .. Len(wire) /\ wire'[i] = wire[i]) \/ wire'[i] = x
  <2>1. wire \in Seq(Messages) /\ Len(wire) \in Nat
    BY LenProperties DEF LinkInv, LinkTypeOK
  <2>2. /\ wire' \in Seq(Messages) /\ Len(wire') = Len(wire) + 1
        /\ \A i \in 1 .. Len(wire) : wire'[i] = wire[i]
        /\ wire'[Len(wire) + 1] = x
    BY <1>1, <1>2, <2>1, AppendProperties
  <2>3. \A i \in 1 .. Len(wire) + 1 : i \in 1 .. Len(wire) \/ i = Len(wire) + 1
    BY <2>1
  <2>4. QED
    BY <2>1, <2>2, <2>3
<1>5. LinkTypeOK'
  <2>1. foreign' \in 0 .. MaxForeign
    BY <1>1, StreamBoundsAssumption DEF LinkInv, LinkTypeOK
  <2>2. QED
    BY <1>1, <1>4, <2>1 DEF LinkInv, LinkTypeOK
<1>6. \A i \in 1 .. Len(wire') : ~Ours(wire'[i])
  BY <1>1, <1>2, <1>4 DEF LinkInv, OnePeerPerConnection
<1>7. WireInOrder' /\ OnePeerPerConnection'
  BY <1>1, <1>6 DEF LinkInv, WireInOrder, OnePeerPerConnection, Ours, Sender, Stranger
<1>8. ArrivedWasSent'
  BY <1>1, <1>3 DEF LinkInv, ArrivedWasSent
<1>9. ReceiverInv'
  <2>1. \A g \in 1 .. Len(frames') : frames'[g].count \in Nat \ {0}
    BY <1>1, FrameHasParts DEF SenderInv
  <2>2. Len(frames) \in Nat
    BY DEF SenderInv, SenderTypeOK
  <2>3. QED
    BY <1>1, <2>1, <2>2, MoreFramesKeepReceiver DEF LinkInv, SenderInv
<1>10. QED
  BY <1>3, <1>5, <1>7, <1>8, <1>9 DEF LinkInv

----------------------------------------------------------------------------
(* The receiving engine *)

LEMMA DroppableIsFinite ==
  ASSUME Len(frames) \in Nat
  PROVE  IsFiniteSet(Droppable) /\ Cardinality(Droppable) \in Nat
<1>1. IsFiniteSet(1 .. Len(frames))
  BY FS_Interval
<1>2. Droppable \subseteq 1 .. Len(frames)
  BY DEF Droppable
<1>3. IsFiniteSet(Droppable)
  BY <1>1, <1>2, FS_Subset
<1>4. QED
  BY <1>3, FS_CardinalityType

\* The head of the wire is taken off.
LEMMA TailOfWire ==
  ASSUME LinkTypeOK, wire # <<>>, wire' = Tail(wire)
  PROVE  /\ Len(wire) \in Nat /\ 1 \in 1 .. Len(wire) /\ Head(wire) = wire[1]
         /\ wire' \in Seq(Messages) /\ Len(wire') = Len(wire) - 1
         /\ \A i \in 1 .. Len(wire') : i + 1 \in 1 .. Len(wire) /\ wire'[i] = wire[i + 1]
<1>1. wire \in Seq(Messages) /\ Len(wire) \in Nat
  BY LenProperties DEF LinkTypeOK
<1>2. /\ wire' \in Seq(Messages) /\ Len(wire') = Len(wire) - 1
      /\ \A i \in 1 .. Len(wire') : wire'[i] = wire[i + 1]
  BY <1>1, HeadTailProperties
<1>3. Len(wire) # 0
  BY <1>1, EmptySeq
<1>4. Head(wire) = wire[1]
  BY <1>1
<1>5. QED
  BY <1>1, <1>2, <1>3, <1>4

LEMMA ForeignKeepsInv ==
  ASSUME StreamProofInv, ReceiveForeign
  PROVE  StreamProofInv'
<1> USE DEF StreamProofInv
<1>1. /\ wire # <<>> /\ Head(wire).frame = NoFrame /\ wire' = Tail(wire)
      /\ assembling' = FALSE /\ rxCount' = 0 /\ buffer' = <<>> /\ refused' = refused + 1
      /\ UNCHANGED <<txVars, frames, peer, connections, foreign, rxSequence, dropped, delivered,
                     arrived>>
  BY DEF ReceiveForeign, Abandon, txVars, linkVars
<1>2. SenderInv' /\ \A m : WasSent(m) => WasSent(m)'
  BY <1>1, OtherSideKeepsSender
<1>3. /\ Len(wire) \in Nat /\ 1 \in 1 .. Len(wire) /\ Head(wire) = wire[1]
      /\ wire' \in Seq(Messages) /\ Len(wire') = Len(wire) - 1
      /\ \A i \in 1 .. Len(wire') : i + 1 \in 1 .. Len(wire) /\ wire'[i] = wire[i + 1]
  BY <1>1, TailOfWire DEF LinkInv
<1> DEFINE place == [i \in 1 .. Len(wire') |-> i + 1]
<1>4. /\ \A i \in 1 .. Len(wire') : place[i] \in 1 .. Len(wire) /\ wire'[i] = wire[place[i]]
      /\ \A i, j \in 1 .. Len(wire') : i < j => place[i] < place[j]
  BY <1>3
<1> HIDE DEF place
<1>5. WireInOrder' /\ ArrivedWasSent' /\ OnePeerPerConnection'
  BY <1>1, <1>2, <1>3, <1>4, ThinnerWireKeepsOrder
<1>6. LinkTypeOK'
  BY <1>1, <1>3 DEF LinkInv, LinkTypeOK
<1>7. \A m \in arrived : m.connection # connections
  BY <1>1, <1>3 DEF LinkInv, OnePeerPerConnection, Ours
<1>8. ReceiverInv'
  <2>1. ReceiverTypeOK'
    <3>1. buffer' \in Seq(1 .. Len(frames'))
      BY <1>1, EmptySeq
    <3>2. /\ rxSequence' \in 0 .. SequenceModulus - 1 /\ dropped' \in Nat /\ refused' \in Nat
          /\ delivered' \in Seq(1 .. Len(frames'))
      BY <1>1 DEF ReceiverInv, ReceiverTypeOK
    <3>3. QED
      BY <1>1, <3>1, <3>2 DEF ReceiverTypeOK
  <2>2. BufferHolds' /\ DeliveredWhole' /\ DeliveredInOrder'
    BY <1>1 DEF ReceiverInv, BufferHolds, DeliveredWhole, DeliveredInOrder, Whole, Has
  <2>3. WholeSoFarIsHeld'
    <3>1. ASSUME NEW f, NEW k \in 1 .. frames'[f].count - 1, JustCame(f, k)'
          PROVE  FALSE
      <4>1. 0 \in 0 .. k - 1
        OBVIOUS
      <4>2. [frame |-> f, index |-> 0, connection |-> connections] \in arrived
        BY <1>1, <3>1, <4>1 DEF JustCame
      <4>3. QED
        BY <1>7, <4>2
    <3>2. QED
      BY <3>1 DEF WholeSoFarIsHeld
  <2>4. OnlyItsOwnFrameIsLost'
    BY <1>1 DEF ReceiverInv, OnlyItsOwnFrameIsLost, WholeOn
  <2>5. dropped' <= Cardinality(Droppable')
    <3>1. Len(frames) \in Nat
      BY DEF SenderInv, SenderTypeOK
    <3>2. Droppable \subseteq Droppable'
      BY <1>1 DEF Droppable, Missed, Has
    <3>3. IsFiniteSet(Droppable') /\ Cardinality(Droppable') \in Nat
      <4>1. Droppable' \subseteq 1 .. Len(frames)
        BY <1>1 DEF Droppable
      <4>2. IsFiniteSet(1 .. Len(frames))
        BY <3>1, FS_Interval
      <4>3. IsFiniteSet(Droppable')
        BY <4>1, <4>2, FS_Subset
      <4>4. QED
        BY <4>3, FS_CardinalityType
    <3>4. Cardinality(Droppable) <= Cardinality(Droppable') /\ Cardinality(Droppable) \in Nat
      BY <3>1, <3>2, <3>3, FS_Subset, DroppableIsFinite
    <3>5. QED
      BY <1>1, <3>3, <3>4 DEF ReceiverInv, ReceiverTypeOK
  <2>6. QED
    BY <2>1, <2>2, <2>3, <2>4, <2>5 DEF ReceiverInv
<1>9. QED
  BY <1>2, <1>5, <1>6, <1>8 DEF LinkInv

\* Fragment j of frame f is the message received, and all that arrived was sent before.
Comes(f, j) ==
  /\ f \in 1 .. Len(frames) /\ j \in 0 .. frames[f].count - 1
  /\ arrived' = arrived \cup {[frame |-> f, index |-> j, connection |-> connections]}
  /\ \A m \in arrived : m.frame < f \/ (m.frame = f /\ m.index < j)
  /\ UNCHANGED <<frames, connections>>

\* It is the one the open frame expects, as far as its header tells.
Continues(f, j) ==
  assembling /\ rxSequence = frames[f].sequence % SequenceModulus /\ j = Len(buffer)

\* It joins the buffer, or starts one.
Joins(f, j) == IF Continues(f, j) THEN frames[f].count = rxCount ELSE j = 0

Gathered(f, j) == IF Continues(f, j) THEN Append(buffer, f) ELSE <<f>>

GivesUp == Abandon /\ UNCHANGED <<rxSequence, delivered>> /\ refused' \in {refused, refused + 1}

Keeps(f, s) ==
  /\ Len(s) # frames[f].count
  /\ assembling' = TRUE /\ rxCount' = frames[f].count /\ buffer' = s
  /\ UNCHANGED <<delivered, refused>>

Completes(f, s) == Len(s) = frames[f].count /\ TakeFrame(s)

\* What becomes of it.
Outcome(f, j, s) ==
  /\ dropped' = dropped + (IF assembling /\ ~Continues(f, j) THEN 1 ELSE 0)
  /\ \/ ~Joins(f, j) /\ GivesUp
     \/ /\ Joins(f, j) /\ rxSequence' = frames[f].sequence % SequenceModulus
        /\ Keeps(f, s) \/ Completes(f, s)

LEMMA ReceiptHasAnOutcome ==
  ASSUME StreamProofInv, ReceiveFragment, NEW f, NEW j,
         f = Head(wire).frame, j = Head(wire).index
  PROVE  Outcome(f, j, Gathered(f, j))
<1> DEFINE m == Head(wire)
           h == [sequence |-> frames[f].sequence % SequenceModulus, index |-> j,
                 count |-> frames[f].count]
<1>1. Header(m) = h
  BY DEF Header
<1>2. /\ h.sequence = frames[f].sequence % SequenceModulus /\ h.index = j
      /\ h.count = frames[f].count
  OBVIOUS
<1> HIDE DEF h
<1>3. /\ dropped' = dropped + CountBroken(h)
      /\ IF assembling /\ ~BreaksOpenFrame(h)
           THEN ContinuesFrame(h, m) \/ CountChanges(h)
           ELSE JoinsPartWay(h) \/ StartsFrame(h, m)
  BY <1>1 DEF ReceiveFragment
<1>4. BreaksOpenFrame(h) <=> assembling /\ ~Continues(f, j)
  BY <1>2 DEF BreaksOpenFrame, Continues
<1>5. dropped' = dropped + (IF assembling /\ ~Continues(f, j) THEN 1 ELSE 0)
  BY <1>3, <1>4 DEF CountBroken
<1>6. CASE Continues(f, j)
  <2>1. ContinuesFrame(h, m) \/ CountChanges(h)
    BY <1>3, <1>4, <1>6 DEF Continues
  <2>2. Gathered(f, j) = Append(buffer, f)
    BY <1>6 DEF Gathered
  <2>3. CASE CountChanges(h)
    BY <1>2, <1>5, <1>6, <2>3 DEF CountChanges, Outcome, Joins, GivesUp
  <2>4. CASE ContinuesFrame(h, m)
    <3>1. /\ frames[f].count = rxCount /\ rxSequence' = rxSequence
          /\ Accumulate(Gathered(f, j), rxCount)
      BY <1>2, <2>2, <2>4 DEF ContinuesFrame
    <3>2. Joins(f, j) /\ rxSequence' = frames[f].sequence % SequenceModulus
      BY <1>6, <3>1 DEF Joins, Continues
    <3>3. Keeps(f, Gathered(f, j)) \/ Completes(f, Gathered(f, j))
      BY <3>1 DEF Accumulate, Keeps, Completes
    <3>4. QED
      BY <1>5, <3>2, <3>3 DEF Outcome
  <2>5. QED
    BY <2>1, <2>3, <2>4
<1>7. CASE ~Continues(f, j)
  <2>1. JoinsPartWay(h) \/ StartsFrame(h, m)
    BY <1>3, <1>4, <1>7
  <2>2. Gathered(f, j) = <<f>>
    BY <1>7 DEF Gathered
  <2>3. CASE JoinsPartWay(h)
    BY <1>2, <1>5, <1>7, <2>3 DEF JoinsPartWay, Outcome, Joins, GivesUp
  <2>4. CASE StartsFrame(h, m)
    <3>1. /\ j = 0 /\ rxSequence' = frames[f].sequence % SequenceModulus
          /\ Accumulate(Gathered(f, j), frames[f].count)
      BY <1>2, <2>2, <2>4 DEF StartsFrame
    <3>2. Joins(f, j)
      BY <1>7, <3>1 DEF Joins
    <3>3. Keeps(f, Gathered(f, j)) \/ Completes(f, Gathered(f, j))
      BY <3>1 DEF Accumulate, Keeps, Completes
    <3>4. QED
      BY <1>5, <3>1, <3>2, <3>3 DEF Outcome
  <2>5. QED
    BY <2>1, <2>3, <2>4
<1>8. QED
  BY <1>6, <1>7

LEMMA ReceiptComesInOrder ==
  ASSUME StreamProofInv, ReceiveFragment, NEW f, NEW j,
         f = Head(wire).frame, j = Head(wire).index
  PROVE  Comes(f, j) /\ SenderInv' /\ LinkInv'
<1> USE DEF StreamProofInv
<1>a. PICK r : r = [frame |-> f, index |-> j, connection |-> connections]
  OBVIOUS
<1>1. /\ wire # <<>> /\ f # NoFrame /\ wire' = Tail(wire) /\ arrived' = arrived \cup {r}
      /\ UNCHANGED <<txVars, frames, fragment, sentWhole, peer, connections, foreign>>
  BY <1>a DEF ReceiveFragment, txVars, linkVars
<1>2. SenderInv' /\ \A m : WasSent(m) => WasSent(m)'
  BY <1>1, OtherSideKeepsSender
<1>3. /\ Len(wire) \in Nat /\ 1 \in 1 .. Len(wire) /\ Head(wire) = wire[1]
      /\ wire' \in Seq(Messages) /\ Len(wire') = Len(wire) - 1
      /\ \A i \in 1 .. Len(wire') : i + 1 \in 1 .. Len(wire) /\ wire'[i] = wire[i + 1]
  BY <1>1, TailOfWire DEF LinkInv
<1>4. PICK n \in Messages : n = wire[1] /\ n.frame = f /\ n.index = j /\ Ours(n)
  BY <1>1, <1>3, WireHasParts DEF LinkInv, Ours
<1>5. /\ WasSent(n) /\ \A m \in arrived : Precedes(m, n)
      /\ \A i \in 1 .. Len(wire) : 1 < i /\ Ours(wire[i]) => Precedes(n, wire[i])
  BY <1>3, <1>4 DEF LinkInv, WireInOrder
<1>6. Comes(f, j)
  BY <1>1, <1>4, <1>5, <1>a DEF Comes, WasSent, Precedes
<1>7. /\ r.frame = f /\ r.index = j /\ r.connection = connections
      /\ connections \in 0 .. MaxConnections /\ connections <= connections
      /\ j \in 0 .. 254 /\ f \in 1 .. Len(frames)
  <2>1. f \in 1 .. Len(frames) /\ j \in 0 .. 254
    BY <1>3, <1>4, <1>6, WireHasParts DEF LinkInv, Comes
  <2>2. connections \in 0 .. MaxConnections /\ connections <= connections
    BY StreamBoundsAssumption DEF LinkInv, LinkTypeOK
  <2>3. QED
    BY <1>a, <2>1, <2>2
<1>8. LinkTypeOK'
  <2>1. r \in [frame : 1 .. Len(frames), index : 0 .. 254, connection : 0 .. MaxConnections]
    BY <1>a, <1>7
  <2>2. arrived' \subseteq [frame : 1 .. Len(frames'), index : 0 .. 254,
                            connection : 0 .. MaxConnections]
    BY <1>1, <2>1 DEF LinkInv, LinkTypeOK
  <2>3. QED
    BY <1>1, <1>3, <2>2 DEF LinkInv, LinkTypeOK
<1>9. WasSent(r)
  BY <1>4, <1>5, <1>7 DEF WasSent
<1>10. WireInOrder'
  <2>1. SUFFICES ASSUME NEW i \in 1 .. Len(wire'), NEW k \in Messages, k = wire'[i], Ours(k)
                 PROVE  /\ WasSent(k)'
                        /\ \A l \in 1 .. Len(wire') :
                             i < l /\ Ours(wire'[l]) => Precedes(k, wire'[l])
                        /\ \A m \in arrived' : Precedes(m, k)
    BY DEF WireInOrder, Ours, Precedes
  <2>2. i + 1 \in 1 .. Len(wire) /\ k = wire[i + 1] /\ 1 < i + 1
    BY <1>3, <2>1
  <2>3. /\ WasSent(k) /\ \A m \in arrived : Precedes(m, k)
        /\ \A l \in 1 .. Len(wire) : i + 1 < l /\ Ours(wire[l]) => Precedes(k, wire[l])
    BY <2>1, <2>2 DEF LinkInv, WireInOrder
  <2>4. Precedes(r, k)
    <3>1. Precedes(n, k)
      BY <1>5, <2>1, <2>2
    <3>2. QED
      BY <1>4, <1>7, <3>1 DEF Precedes
  <2>5. \A l \in 1 .. Len(wire') :
          i < l => l + 1 \in 1 .. Len(wire) /\ i + 1 < l + 1 /\ wire'[l] = wire[l + 1]
    BY <1>3
  <2>6. QED
    BY <1>1, <1>2, <2>3, <2>4, <2>5
<1>11. ArrivedWasSent'
  BY <1>1, <1>2, <1>7, <1>9 DEF LinkInv, ArrivedWasSent
<1>12. OnePeerPerConnection'
  <2>1. peer # Stranger /\ \A i \in 1 .. Len(wire) : Ours(wire[i])
    BY <1>3, <1>4 DEF LinkInv, OnePeerPerConnection
  <2>2. \A i \in 1 .. Len(wire') : Ours(wire'[i])
    BY <1>3, <2>1
  <2>3. QED
    BY <1>1, <2>1, <2>2 DEF OnePeerPerConnection, Ours
<1>13. QED
  BY <1>2, <1>6, <1>8, <1>10, <1>11, <1>12 DEF LinkInv

\* What a fragment that joins makes of the buffer.
LEMMA GatheredHolds ==
  ASSUME StreamProofInv, NEW f, NEW j, Comes(f, j), Joins(f, j), NEW s, s = Gathered(f, j)
  PROVE  /\ s \in Seq(1 .. Len(frames)) /\ Len(s) = j + 1 /\ s[j + 1] = f
         /\ s[1] \in 1 .. Len(frames) /\ frames[s[1]].count = frames[f].count
         /\ frames[s[1]].sequence % SequenceModulus = frames[f].sequence % SequenceModulus
         /\ \A i \in 1 .. j + 1 :
              s[i] \in 1 .. Len(frames) /\ s[1] <= s[i] /\ Has(s[i], i - 1)'
         /\ \A m \in arrived' : m.frame = s[1] => m.index < j + 1 /\ s[m.index + 1] = s[1]
         /\ \A i \in 1 .. Len(delivered) : delivered[i] < s[1]
<1>a. PICK r : r = [frame |-> f, index |-> j, connection |-> connections]
  OBVIOUS
<1>1. /\ f \in 1 .. Len(frames) /\ j \in 0 .. frames[f].count - 1 /\ arrived' = arrived \cup {r}
      /\ r.frame = f /\ r.index = j
      /\ \A m \in arrived : m.frame < f \/ (m.frame = f /\ m.index < j)
  BY <1>a DEF Comes
<1>2. /\ Len(frames) \in Nat /\ frames[f].count \in Nat \ {0} /\ j \in Nat
      /\ \A m \in arrived : m.frame \in 1 .. Len(frames) /\ m.index \in Nat
  <2>1. Len(frames) \in Nat
    BY DEF StreamProofInv, SenderInv, SenderTypeOK
  <2>2. frames[f].count \in Nat \ {0}
    BY <1>1, FrameHasParts DEF StreamProofInv, SenderInv
  <2>3. \A m \in arrived : m.frame \in 1 .. Len(frames) /\ m.index \in Nat
    BY ArrivedHasParts DEF StreamProofInv, LinkInv
  <2>4. QED
    BY <1>1, <2>1, <2>2, <2>3
<1>3. Has(f, j)' /\ \A g, i : Has(g, i) => Has(g, i)'
  BY <1>1 DEF Has
<1>4. CASE Continues(f, j)
  <2>1. assembling /\ j = Len(buffer) /\ frames[f].count = rxCount /\ s = Append(buffer, f)
    BY <1>4 DEF Continues, Joins, Gathered
  <2>2. /\ buffer \in Seq(1 .. Len(frames)) /\ buffer # <<>> /\ Len(buffer) \in Nat \ {0}
        /\ \A i \in 1 .. j : buffer[i] \in 1 .. Len(frames)
    <3>1. buffer \in Seq(1 .. Len(frames)) /\ buffer # <<>>
      BY <2>1 DEF StreamProofInv, ReceiverInv, ReceiverTypeOK
    <3>2. QED
      BY <2>1, <3>1, EmptySeq, LenProperties, ElementOfSeq
  <2>3. /\ s \in Seq(1 .. Len(frames)) /\ Len(s) = j + 1 /\ s[j + 1] = f
        /\ \A i \in 1 .. j : s[i] = buffer[i]
    BY <1>1, <2>1, <2>2, AppendProperties
  <2>4. s[1] = buffer[1] /\ 1 \in 1 .. j
    <3>1. 1 \in 1 .. j
      BY <2>1, <2>2
    <3>2. QED
      BY <2>3, <3>1
  <2>5. /\ rxCount = frames[buffer[1]].count
        /\ rxSequence = frames[buffer[1]].sequence % SequenceModulus
        /\ \A i \in 1 .. j : Has(buffer[i], i - 1) /\ buffer[1] <= buffer[i]
        /\ \A m \in arrived : m.frame = buffer[1] =>
             m.index < j /\ buffer[m.index + 1] = buffer[1]
        /\ \A i \in 1 .. Len(delivered) : delivered[i] < buffer[1]
    BY <2>1 DEF StreamProofInv, ReceiverInv, BufferHolds, DeliveredInOrder
  <2>6. /\ frames[s[1]].count = frames[f].count
        /\ frames[s[1]].sequence % SequenceModulus = frames[f].sequence % SequenceModulus
    BY <1>4, <2>1, <2>4, <2>5 DEF Continues
  <2>7. s[1] <= f
    <3>1. PICK m \in arrived : m.frame = s[1]
      BY <2>4, <2>5 DEF Has
    <3>2. QED
      BY <1>1, <1>2, <3>1
  <2>8. \A i \in 1 .. j + 1 :
          s[i] \in 1 .. Len(frames) /\ s[1] <= s[i] /\ Has(s[i], i - 1)'
    <3>1. ASSUME NEW i \in 1 .. j
          PROVE  s[i] \in 1 .. Len(frames) /\ s[1] <= s[i] /\ Has(s[i], i - 1)'
      BY <1>3, <2>2, <2>3, <2>4, <2>5
    <3>2. (j + 1) - 1 = j
      BY <1>2
    <3>3. s[j + 1] \in 1 .. Len(frames) /\ s[1] <= s[j + 1] /\ Has(s[j + 1], (j + 1) - 1)'
      BY <1>1, <1>3, <2>3, <2>7, <3>2
    <3>4. \A i \in 1 .. j + 1 : i \in 1 .. j \/ i = j + 1
      BY <1>2
    <3>5. QED
      BY <3>1, <3>3, <3>4
  <2>9. \A m \in arrived' : m.frame = s[1] => m.index < j + 1 /\ s[m.index + 1] = s[1]
    <3>1. ASSUME NEW m \in arrived, m.frame = s[1]
          PROVE  m.index < j + 1 /\ s[m.index + 1] = s[1]
      <4>1. m.index < j /\ buffer[m.index + 1] = buffer[1]
        BY <2>4, <2>5, <3>1
      <4>2. m.index + 1 \in 1 .. j /\ m.index < j + 1
        BY <1>2, <4>1
      <4>3. QED
        BY <2>3, <2>4, <4>1, <4>2
    <3>2. r.frame = s[1] => r.index < j + 1 /\ s[r.index + 1] = s[1]
      BY <1>1, <1>2, <2>3
    <3>3. QED
      BY <1>1, <3>1, <3>2
  <2>10. s[1] \in 1 .. Len(frames)
    BY <2>2, <2>4
  <2>11. QED
    BY <2>3, <2>4, <2>5, <2>6, <2>8, <2>9, <2>10
<1>5. CASE ~Continues(f, j)
  <2>1. j = 0 /\ s = <<f>>
    BY <1>5 DEF Joins, Gathered
  <2>2. s \in Seq(1 .. Len(frames)) /\ Len(s) = j + 1 /\ s[j + 1] = f /\ s[1] = f
    <3>1. Len(s) = 1 /\ s[1] = f /\ \A S : f \in S => s \in Seq(S)
      BY <2>1
    <3>2. j + 1 = 1
      BY <2>1
    <3>3. QED
      BY <1>1, <3>1, <3>2
  <2>3. \A i \in 1 .. j + 1 : s[i] = f /\ i - 1 = j
    BY <2>1
  <2>4. \A i \in 1 .. j + 1 : s[i] \in 1 .. Len(frames) /\ s[1] <= s[i] /\ Has(s[i], i - 1)'
    BY <1>1, <1>3, <2>2, <2>3
  <2>5. \A m \in arrived' : m.frame = s[1] => m.index < j + 1 /\ s[m.index + 1] = s[1]
    BY <1>1, <1>2, <2>1, <2>2
  <2>6. ASSUME NEW i \in 1 .. Len(delivered)
        PROVE  delivered[i] < s[1]
    <3>1. delivered[i] \in 1 .. Len(frames) /\ Whole(delivered[i])
      BY ElementOfSeq DEF StreamProofInv, ReceiverInv, ReceiverTypeOK, DeliveredWhole
    <3>2. frames[delivered[i]].count \in Nat \ {0}
      BY <3>1, FrameHasParts DEF StreamProofInv, SenderInv
    <3>3. Has(delivered[i], 0)
      BY <3>1, <3>2 DEF Whole
    <3>4. PICK m \in arrived : m.frame = delivered[i] /\ m.index = 0
      BY <3>3 DEF Has
    <3>5. m.frame < f
      BY <1>1, <2>1, <3>4
    <3>6. QED
      BY <2>2, <3>4, <3>5
  <2>7. QED
    BY <1>1, <2>2, <2>4, <2>5, <2>6
<1>6. QED
  BY <1>4, <1>5

\* A fragment that completes the first j + 1 of its frame finds all of them held.
LEMMA HeldWhole ==
  ASSUME StreamProofInv, NEW f, NEW j, Comes(f, j),
         \A i \in 0 .. j - 1 : [frame |-> f, index |-> i, connection |-> connections] \in arrived
  PROVE  Joins(f, j) /\ \A i \in 1 .. j + 1 : Gathered(f, j)[i] = f
<1>1. /\ f \in 1 .. Len(frames) /\ j \in 0 .. frames[f].count - 1
      /\ \A m \in arrived : m.frame < f \/ (m.frame = f /\ m.index < j)
  BY DEF Comes
<1>2. frames[f].count \in Nat \ {0} /\ j \in Nat
  <2>1. frames[f].count \in Nat \ {0}
    BY <1>1, FrameHasParts DEF StreamProofInv, SenderInv
  <2>2. QED
    BY <1>1, <2>1
<1>3. assembling => buffer # <<>> /\ buffer \in Seq(1 .. Len(frames))
  BY DEF StreamProofInv, ReceiverInv, ReceiverTypeOK
<1>4. CASE j = 0
  <2>1. ~Continues(f, j)
    BY <1>3, <1>4, EmptySeq DEF Continues
  <2>2. Joins(f, j) /\ Gathered(f, j) = <<f>>
    BY <1>4, <2>1 DEF Joins, Gathered
  <2>3. \A i \in 1 .. j + 1 : <<f>>[i] = f
    BY <1>4
  <2>4. QED
    BY <2>2, <2>3
<1>5. CASE j # 0
  <2>1. j \in 1 .. frames[f].count - 1 /\ JustCame(f, j)
    BY <1>1, <1>2, <1>5 DEF JustCame
  <2>2. /\ assembling /\ rxSequence = frames[f].sequence % SequenceModulus
        /\ rxCount = frames[f].count /\ Len(buffer) = j
        /\ \A i \in 1 .. j : buffer[i] = f
    BY <1>1, <2>1 DEF StreamProofInv, ReceiverInv, WholeSoFarIsHeld
  <2>3. Joins(f, j) /\ Gathered(f, j) = Append(buffer, f)
    BY <2>2 DEF Continues, Joins, Gathered
  <2>4. /\ \A i \in 1 .. j : Append(buffer, f)[i] = buffer[i]
        /\ Append(buffer, f)[j + 1] = f
    BY <1>1, <1>3, <2>2, AppendProperties
  <2>5. \A i \in 1 .. j + 1 : i \in 1 .. j \/ i = j + 1
    BY <1>2
  <2>6. QED
    BY <2>2, <2>3, <2>4, <2>5
<1>6. QED
  BY <1>4, <1>5

LEMMA ReceiptKeepsTypes ==
  ASSUME StreamProofInv, NEW f, NEW j, Comes(f, j), NEW s, s = Gathered(f, j), Outcome(f, j, s)
  PROVE  ReceiverTypeOK'
<1>1. /\ rxSequence \in 0 .. SequenceModulus - 1 /\ dropped \in Nat /\ refused \in Nat
      /\ delivered \in Seq(1 .. Len(frames)) /\ Len(frames) \in Nat
  BY DEF StreamProofInv, SenderInv, SenderTypeOK, ReceiverInv, ReceiverTypeOK
<1>2. UNCHANGED frames /\ f \in 1 .. Len(frames) /\ j \in 0 .. frames[f].count - 1
  BY DEF Comes
<1>3. /\ frames[f].count \in FragmentCounts /\ frames[f].count \in Nat \ {0}
      /\ frames[f].sequence % SequenceModulus \in 0 .. SequenceModulus - 1
  <2>1. /\ frames[f].count \in FragmentCounts /\ frames[f].count \in Nat \ {0}
        /\ frames[f].sequence \in Nat
    BY <1>2, FrameHasParts DEF StreamProofInv, SenderInv
  <2>2. QED
    BY <2>1, SequenceModulusAssumption
<1>4. dropped' \in Nat
  BY <1>1 DEF Outcome
<1>5. CASE ~Joins(f, j) /\ GivesUp
  <2>1. /\ assembling' = FALSE /\ rxCount' = 0 /\ buffer' = <<>> /\ refused' \in Nat
        /\ rxSequence' = rxSequence /\ delivered' = delivered
    BY <1>1, <1>5 DEF GivesUp, Abandon
  <2>2. buffer' \in Seq(1 .. Len(frames))
    BY <2>1, EmptySeq
  <2>3. QED
    BY <1>1, <1>2, <1>4, <2>1, <2>2 DEF ReceiverTypeOK
<1>6. CASE Joins(f, j) /\ rxSequence' = frames[f].sequence % SequenceModulus
           /\ (Keeps(f, s) \/ Completes(f, s))
  <2>1. s \in Seq(1 .. Len(frames)) /\ Len(s) = j + 1 /\ s[1] \in 1 .. Len(frames)
    BY <1>6, GatheredHolds
  <2>2. s # <<>> /\ Len(s) <= frames[f].count /\ Head(s) = s[1]
    BY <1>2, <1>3, <2>1, EmptySeq
  <2>3. CASE Keeps(f, s)
    <3>1. /\ assembling' = TRUE /\ rxCount' = frames[f].count /\ buffer' = s
          /\ Len(s) # frames[f].count /\ delivered' = delivered /\ refused' = refused
      BY <2>3 DEF Keeps
    <3>2. Len(s) < frames[f].count
      BY <1>2, <1>3, <2>1, <2>2, <3>1
    <3>3. QED
      BY <1>1, <1>2, <1>3, <1>4, <1>6, <2>1, <2>2, <3>1, <3>2 DEF ReceiverTypeOK
  <2>4. CASE Completes(f, s)
    <3>1. /\ assembling' = FALSE /\ rxCount' = 0 /\ buffer' = <<>> /\ refused' \in Nat
          /\ delivered' \in {delivered, Append(delivered, s[1])}
      BY <1>1, <2>2, <2>4 DEF Completes, TakeFrame, Abandon
    <3>2. buffer' \in Seq(1 .. Len(frames)) /\ delivered' \in Seq(1 .. Len(frames))
      <4>1. Append(delivered, s[1]) \in Seq(1 .. Len(frames))
        BY <1>1, <2>1, AppendProperties
      <4>2. QED
        BY <1>1, <3>1, <4>1, EmptySeq
    <3>3. QED
      BY <1>2, <1>3, <1>4, <1>6, <3>1, <3>2 DEF ReceiverTypeOK
  <2>5. QED
    BY <1>6, <2>3, <2>4
<1>7. QED
  BY <1>5, <1>6 DEF Outcome

LEMMA ReceiptKeepsBuffer ==
  ASSUME StreamProofInv, NEW f, NEW j, Comes(f, j), NEW s, s = Gathered(f, j), Outcome(f, j, s)
  PROVE  BufferHolds' /\ WholeSoFarIsHeld'
<1>a. PICK r : r = [frame |-> f, index |-> j, connection |-> connections]
  OBVIOUS
<1>1. /\ f \in 1 .. Len(frames) /\ j \in 0 .. frames[f].count - 1 /\ arrived' = arrived \cup {r}
      /\ r.frame = f /\ r.index = j /\ r.connection = connections
      /\ frames' = frames /\ connections' = connections
      /\ \A m \in arrived : m.frame < f \/ (m.frame = f /\ m.index < j)
  BY <1>a DEF Comes
<1>2. /\ frames[f].count \in Nat \ {0} /\ j \in Nat /\ Len(frames) \in Nat
      /\ \A m \in arrived : m.frame \in 1 .. Len(frames) /\ m.index \in Nat
  <2>1. frames[f].count \in Nat \ {0}
    BY <1>1, FrameHasParts DEF StreamProofInv, SenderInv
  <2>2. \A m \in arrived : m.frame \in 1 .. Len(frames) /\ m.index \in Nat
    BY ArrivedHasParts DEF StreamProofInv, LinkInv
  <2>3. Len(frames) \in Nat
    BY DEF StreamProofInv, SenderInv, SenderTypeOK
  <2>4. QED
    BY <1>1, <2>1, <2>2, <2>3
<1>3. assembling' => Joins(f, j) /\ rxSequence' = frames[f].sequence % SequenceModulus
                     /\ Keeps(f, s)
  BY DEF Outcome, GivesUp, Completes, TakeFrame, Abandon
<1>4. BufferHolds'
  <2>1. SUFFICES ASSUME assembling'
                 PROVE  /\ rxCount' = frames'[buffer'[1]].count
                        /\ rxSequence' = frames'[buffer'[1]].sequence % SequenceModulus
                        /\ \A i \in 1 .. Len(buffer') :
                             /\ \E m \in arrived' : m.frame = buffer'[i] /\ m.index = i - 1
                             /\ buffer'[1] <= buffer'[i]
                        /\ \A m \in arrived' : m.frame = buffer'[1] =>
                             m.index < Len(buffer') /\ buffer'[m.index + 1] = buffer'[1]
    BY DEF BufferHolds, Has
  <2>2. rxCount' = frames[f].count /\ buffer' = s
    BY <1>3, <2>1 DEF Keeps
  <2>3. /\ Len(s) = j + 1 /\ frames[s[1]].count = frames[f].count
        /\ frames[s[1]].sequence % SequenceModulus = frames[f].sequence % SequenceModulus
        /\ \A i \in 1 .. j + 1 : s[1] <= s[i] /\ Has(s[i], i - 1)'
        /\ \A m \in arrived' : m.frame = s[1] => m.index < j + 1 /\ s[m.index + 1] = s[1]
    BY <1>3, <2>1, GatheredHolds
  <2>4. \A i \in 1 .. Len(buffer') :
          \E m \in arrived' : m.frame = buffer'[i] /\ m.index = i - 1
    BY <2>2, <2>3 DEF Has
  <2>5. QED
    BY <1>1, <1>3, <2>1, <2>2, <2>3, <2>4
<1>5. WholeSoFarIsHeld'
  <2>1. SUFFICES ASSUME NEW g \in 1 .. Len(frames), NEW k \in 1 .. frames[g].count - 1,
                        \A i \in 0 .. k - 1 :
                          [frame |-> g, index |-> i, connection |-> connections] \in arrived',
                        \A m \in arrived' : m.frame < g \/ (m.frame = g /\ m.index < k)
                 PROVE  /\ assembling' /\ rxSequence' = frames[g].sequence % SequenceModulus
                        /\ rxCount' = frames[g].count /\ Len(buffer') = k
                        /\ \A i \in 1 .. k : buffer'[i] = g
    BY <1>1 DEF WholeSoFarIsHeld, JustCame
  <2>2. k - 1 \in 0 .. k - 1 /\ k \in Nat \ {0}
    BY <2>1
  <2>3. PICK l : l = [frame |-> g, index |-> k - 1, connection |-> connections]
    OBVIOUS
  <2>4. l \in arrived' /\ l.frame = g /\ l.index = k - 1
    BY <2>1, <2>2, <2>3
  <2>5. f < g \/ (f = g /\ j < k)
    BY <1>1, <2>1
  <2>6. g = f /\ k = j + 1
    <3>1. l \in arrived \/ l = r
      BY <1>1, <2>4
    <3>2. g < f \/ (g = f /\ (k - 1 < j \/ k - 1 = j))
      BY <1>1, <2>4, <3>1
    <3>3. QED
      BY <1>1, <1>2, <2>2, <2>5, <3>2
  <2>7. \A i \in 0 .. j - 1 : [frame |-> f, index |-> i, connection |-> connections] \in arrived
    <3>1. ASSUME NEW i \in 0 .. j - 1
          PROVE  [frame |-> f, index |-> i, connection |-> connections] \in arrived
      <4>1. i \in 0 .. k - 1 /\ i # j
        BY <1>2, <2>6
      <4>2. [frame |-> f, index |-> i, connection |-> connections] # r
        BY <1>a, <4>1
      <4>3. QED
        BY <1>1, <2>1, <2>6, <4>1, <4>2
    <3>2. QED
      BY <3>1
  <2>8. Joins(f, j) /\ \A i \in 1 .. j + 1 : s[i] = f
    BY <2>7, HeldWhole
  <2>9. Len(s) = j + 1
    BY <2>8, GatheredHolds
  <2>10. Len(s) # frames[f].count
    BY <1>2, <2>1, <2>6, <2>9
  <2>11. rxSequence' = frames[f].sequence % SequenceModulus /\ Keeps(f, s)
    BY <2>8, <2>10 DEF Outcome, Completes
  <2>12. QED
    BY <2>6, <2>8, <2>9, <2>11 DEF Keeps
<1>6. QED
  BY <1>4, <1>5

\* What arrived stays arrived, and what was missed stays missed.
LEMMA MissedStaysMissed ==
  ASSUME StreamProofInv, NEW f, NEW j, Comes(f, j)
  PROVE  /\ \A g, i : Has(g, i) => Has(g, i)'
         /\ \A g : Whole(g) => Whole(g)'
         /\ \A g \in 1 .. Len(frames) : Missed(g) => Missed(g)'
<1>a. PICK r : r = [frame |-> f, index |-> j, connection |-> connections]
  OBVIOUS
<1>1. /\ f \in 1 .. Len(frames) /\ j \in 0 .. frames[f].count - 1 /\ arrived' = arrived \cup {r}
      /\ r.frame = f /\ r.index = j /\ frames' = frames
      /\ \A m \in arrived : m.frame < f \/ (m.frame = f /\ m.index < j)
  BY <1>a DEF Comes
<1>2. /\ f \in Nat /\ j \in Nat /\ \A m \in arrived : m.frame \in Nat /\ m.index \in Nat
  <2>1. \A m \in arrived : m.frame \in 1 .. Len(frames) /\ m.index \in Nat
    BY ArrivedHasParts DEF StreamProofInv, LinkInv
  <2>2. frames[f].count \in Nat \ {0} /\ Len(frames) \in Nat
    BY <1>1, FrameHasParts DEF StreamProofInv, SenderInv, SenderTypeOK
  <2>3. QED
    BY <1>1, <2>1, <2>2
<1>3. \A g, i : Has(g, i) => Has(g, i)'
  BY <1>1 DEF Has
<1>4. \A g : Whole(g) => Whole(g)'
  BY <1>1, <1>3 DEF Whole, Has
<1>5. ASSUME NEW g \in 1 .. Len(frames), Missed(g)
      PROVE  Missed(g)'
  <2>1. PICK i \in 0 .. frames[g].count - 1 :
          ~Has(g, i) /\ \E m \in arrived : g < m.frame \/ (g = m.frame /\ i < m.index)
    BY <1>5 DEF Missed
  <2>2. PICK m \in arrived : g < m.frame \/ (g = m.frame /\ i < m.index)
    BY <2>1
  <2>3. frames[g].count \in Nat \ {0}
    BY FrameHasParts DEF StreamProofInv, SenderInv
  <2>4. ~(g = f /\ i = j)
    BY <1>1, <1>2, <2>2, <2>3
  <2>5. ~Has(g, i)'
    BY <1>1, <2>1, <2>4 DEF Has
  <2>6. QED
    BY <1>1, <2>1, <2>2, <2>5 DEF Missed
<1>6. QED
  BY <1>3, <1>4, <1>5

LEMMA ReceiptKeepsDelivered ==
  ASSUME StreamProofInv, NEW f, NEW j, Comes(f, j), NEW s, s = Gathered(f, j), Outcome(f, j, s)
  PROVE  DeliveredWhole' /\ DeliveredInOrder' /\ OnlyItsOwnFrameIsLost'
<1>1. /\ f \in 1 .. Len(frames) /\ j \in 0 .. frames[f].count - 1
      /\ arrived' = arrived \cup {[frame |-> f, index |-> j, connection |-> connections]}
      /\ frames' = frames /\ connections' = connections
      /\ \A m \in arrived : m.frame < f \/ (m.frame = f /\ m.index < j)
  BY DEF Comes
<1>2. frames[f].count \in Nat \ {0} /\ j \in Nat /\ Len(frames) \in Nat
  <2>1. frames[f].count \in Nat \ {0}
    BY <1>1, FrameHasParts DEF StreamProofInv, SenderInv
  <2>2. Len(frames) \in Nat
    BY DEF StreamProofInv, SenderInv, SenderTypeOK
  <2>3. QED
    BY <1>1, <2>1, <2>2
<1>3. /\ delivered \in Seq(1 .. Len(frames)) /\ Len(delivered) \in Nat
      /\ \A i \in 1 .. Len(delivered) : \A g : g = delivered[i] => Whole(g)'
      /\ \A i, k \in 1 .. Len(delivered) : i < k => delivered[i] < delivered[k]
  <2>1. delivered \in Seq(1 .. Len(frames)) /\ Len(delivered) \in Nat
    BY LenProperties DEF StreamProofInv, ReceiverInv, ReceiverTypeOK
  <2>2. \A g : Whole(g) => Whole(g)'
    BY MissedStaysMissed
  <2>3. \A i \in 1 .. Len(delivered) : \A g : g = delivered[i] => Whole(g)
    BY DEF StreamProofInv, ReceiverInv, DeliveredWhole
  <2>4. QED
    BY <2>1, <2>2, <2>3 DEF StreamProofInv, ReceiverInv, DeliveredInOrder
<1>4. Joins(f, j) =>
        /\ Len(s) = j + 1 /\ s[1] \in 1 .. Len(frames) /\ s # <<>> /\ Head(s) = s[1]
        /\ frames[s[1]].count = frames[f].count
        /\ \A i \in 1 .. j + 1 : Has(s[i], i - 1)'
        /\ \A i \in 1 .. Len(delivered) : delivered[i] < s[1]
  <2>1. SUFFICES ASSUME Joins(f, j)
                 PROVE  /\ Len(s) = j + 1 /\ s[1] \in 1 .. Len(frames) /\ s # <<>>
                        /\ Head(s) = s[1] /\ frames[s[1]].count = frames[f].count
                        /\ \A i \in 1 .. j + 1 : Has(s[i], i - 1)'
                        /\ \A i \in 1 .. Len(delivered) : delivered[i] < s[1]
    OBVIOUS
  <2>2. /\ s \in Seq(1 .. Len(frames)) /\ Len(s) = j + 1 /\ s[1] \in 1 .. Len(frames)
        /\ frames[s[1]].count = frames[f].count
        /\ \A i \in 1 .. j + 1 : Has(s[i], i - 1)'
        /\ \A i \in 1 .. Len(delivered) : delivered[i] < s[1]
    BY <2>1, GatheredHolds
  <2>3. s # <<>> /\ Head(s) = s[1]
    BY <1>2, <2>2, EmptySeq
  <2>4. QED
    BY <2>2, <2>3
<1>5. \/ delivered' = delivered
      \/ /\ Joins(f, j) /\ Len(s) = frames[f].count /\ Intact(s)
         /\ delivered' = Append(delivered, s[1])
  BY <1>4 DEF Outcome, GivesUp, Keeps, Completes, TakeFrame
<1>6. assembling' => Joins(f, j) /\ buffer' = s /\ delivered' = delivered
  BY DEF Outcome, GivesUp, Keeps, Completes, TakeFrame, Abandon
<1>7. DeliveredWhole' /\ DeliveredInOrder'
  <2>1. CASE delivered' = delivered
    <3>1. DeliveredWhole'
      BY <1>3, <2>1 DEF DeliveredWhole, Whole, Has
    <3>2. DeliveredInOrder'
      BY <1>3, <1>4, <1>6, <2>1 DEF DeliveredInOrder
    <3>3. QED
      BY <3>1, <3>2
  <2>2. CASE /\ Joins(f, j) /\ Len(s) = frames[f].count /\ Intact(s)
             /\ delivered' = Append(delivered, s[1])
    <3>1. /\ Len(delivered') = Len(delivered) + 1 /\ delivered'[Len(delivered) + 1] = s[1]
          /\ \A i \in 1 .. Len(delivered) : delivered'[i] = delivered[i]
      BY <1>3, <1>4, <2>2, AppendProperties
    <3>2. \A i \in 1 .. Len(delivered') : i \in 1 .. Len(delivered) \/ i = Len(delivered) + 1
      BY <1>3, <3>1
    <3>3. Whole(s[1])'
      <4>1. \A i \in 1 .. j + 1 : s[i] = s[1]
        BY <1>4, <2>2 DEF Intact
      <4>2. \A i \in 0 .. frames'[s[1]].count - 1 : i + 1 \in 1 .. j + 1 /\ (i + 1) - 1 = i
        BY <1>1, <1>2, <1>4, <2>2
      <4>3. \A i \in 0 .. frames'[s[1]].count - 1 : Has(s[1], i)'
        BY <1>4, <2>2, <4>1, <4>2
      <4>4. QED
        BY <4>3 DEF Whole
    <3>4. \A i \in 1 .. Len(delivered') : \A g : g = delivered'[i] => Whole(g)'
      BY <1>3, <3>1, <3>2, <3>3
    <3>5. DeliveredWhole'
      BY <3>4 DEF DeliveredWhole, Whole, Has
    <3>6. \A i, k \in 1 .. Len(delivered') : i < k => delivered'[i] < delivered'[k]
      <4>1. SUFFICES ASSUME NEW i \in 1 .. Len(delivered'), NEW k \in 1 .. Len(delivered'), i < k
                     PROVE  delivered'[i] < delivered'[k]
        OBVIOUS
      <4>2. i \in 1 .. Len(delivered)
        BY <1>3, <3>1, <4>1
      <4>3. CASE k \in 1 .. Len(delivered)
        BY <1>3, <3>1, <4>1, <4>2, <4>3
      <4>4. CASE k = Len(delivered) + 1
        BY <1>4, <2>2, <3>1, <4>2, <4>4
      <4>5. QED
        BY <3>2, <4>3, <4>4
    <3>7. ~assembling'
      <4>1. Len(delivered') # Len(delivered)
        BY <1>3, <3>1
      <4>2. QED
        BY <1>6, <4>1
    <3>8. QED
      BY <3>5, <3>6, <3>7 DEF DeliveredInOrder
  <2>3. QED
    BY <1>5, <2>1, <2>2
<1>8. \A i \in 1 .. Len(delivered) : \E l \in 1 .. Len(delivered') : delivered'[l] = delivered[i]
  <2>1. CASE delivered' = delivered
    BY <2>1
  <2>2. CASE delivered' = Append(delivered, s[1]) /\ s[1] \in 1 .. Len(frames)
    <3>1. /\ Len(delivered') = Len(delivered) + 1
          /\ \A i \in 1 .. Len(delivered) : delivered'[i] = delivered[i]
      BY <1>3, <2>2, AppendProperties
    <3>2. \A i \in 1 .. Len(delivered) : i \in 1 .. Len(delivered')
      BY <1>3, <3>1
    <3>3. QED
      BY <3>1, <3>2
  <2>3. QED
    BY <1>4, <1>5, <2>1, <2>2
<1>9. ASSUME NEW g \in 1 .. Len(frames), NEW c \in 1 .. connections, WholeOn(g, c)',
             ~WholeOn(g, c)
      PROVE  \E l \in 1 .. Len(delivered') : delivered'[l] = g
  <2>1. PICK i \in 0 .. frames[g].count - 1 :
          [frame |-> g, index |-> i, connection |-> c] \notin arrived
    BY <1>9 DEF WholeOn
  <2>2. [frame |-> g, index |-> i, connection |-> c]
          = [frame |-> f, index |-> j, connection |-> connections]
    BY <1>1, <1>9, <2>1 DEF WholeOn
  <2>3. g = f /\ i = j /\ c = connections
    BY <2>2
  <2>4. \A k \in 0 .. frames[f].count - 1 :
          \/ k = j
          \/ [frame |-> f, index |-> k, connection |-> connections] \in arrived
    <3>1. ASSUME NEW k \in 0 .. frames[f].count - 1, k # j
          PROVE  [frame |-> f, index |-> k, connection |-> connections] \in arrived
      <4>1. PICK x : x = [frame |-> f, index |-> k, connection |-> connections]
        OBVIOUS
      <4>2. x \in arrived' /\ x.index = k
        BY <1>1, <1>9, <2>3, <4>1 DEF WholeOn
      <4>3. x # [frame |-> f, index |-> j, connection |-> connections]
        BY <3>1, <4>2
      <4>4. QED
        BY <1>1, <4>1, <4>2, <4>3
    <3>2. QED
      BY <3>1
  <2>5. j = frames[f].count - 1
    <3>1. SUFFICES ASSUME j # frames[f].count - 1 PROVE FALSE
      OBVIOUS
    <3>2. PICK x : x = [frame |-> f, index |-> frames[f].count - 1, connection |-> connections]
      OBVIOUS
    <3>3. x \in arrived /\ x.frame = f /\ x.index = frames[f].count - 1
      BY <1>2, <2>4, <3>1, <3>2
    <3>4. QED
      BY <1>1, <1>2, <3>3
  <2>6. \A k \in 0 .. j - 1 : [frame |-> f, index |-> k, connection |-> connections] \in arrived
    <3>1. \A k \in 0 .. j - 1 : k \in 0 .. frames[f].count - 1 /\ k # j
      BY <1>2, <2>5
    <3>2. QED
      BY <2>4, <3>1
  <2>7. Joins(f, j) /\ \A k \in 1 .. j + 1 : s[k] = f
    BY <2>6, HeldWhole
  <2>8. Len(s) = frames[f].count /\ s[1] = f /\ Intact(s)
    <3>1. Len(s) = j + 1 /\ j + 1 = frames[f].count
      BY <1>2, <1>4, <2>5, <2>7
    <3>2. 1 \in 1 .. j + 1
      BY <1>2
    <3>3. s[1] = f
      BY <2>7, <3>2
    <3>4. QED
      BY <2>7, <3>1, <3>3 DEF Intact
  <2>9. delivered' = Append(delivered, f)
    BY <1>4, <2>7, <2>8 DEF Outcome, Keeps, Completes, TakeFrame
  <2>10. Len(delivered') = Len(delivered) + 1 /\ delivered'[Len(delivered) + 1] = f
    BY <1>1, <1>3, <2>9, AppendProperties
  <2>11. Len(delivered) + 1 \in 1 .. Len(delivered')
    BY <1>3, <2>10
  <2>12. QED
    BY <2>3, <2>10, <2>11
<1>10. OnlyItsOwnFrameIsLost'
  <2>1. ASSUME NEW g \in 1 .. Len(frames), NEW c \in 1 .. connections, WholeOn(g, c)'
        PROVE  \E l \in 1 .. Len(delivered') : delivered'[l] = g
    <3>1. CASE WholeOn(g, c)
      BY <1>8, <3>1 DEF StreamProofInv, ReceiverInv, OnlyItsOwnFrameIsLost
    <3>2. CASE ~WholeOn(g, c)
      BY <1>9, <2>1, <3>2
    <3>3. QED
      BY <3>1, <3>2
  <2>2. QED
    BY <1>1, <2>1 DEF OnlyItsOwnFrameIsLost
<1>11. QED
  BY <1>7, <1>10

\* A frame is counted as dropped when a later message proves that it was missed.
LEMMA ReceiptKeepsDropped ==
  ASSUME StreamProofInv, NEW f, NEW j, Comes(f, j), NEW s, s = Gathered(f, j), Outcome(f, j, s)
  PROVE  dropped' <= Cardinality(Droppable')
<1>a. PICK r : r = [frame |-> f, index |-> j, connection |-> connections]
  OBVIOUS
<1>1. /\ f \in 1 .. Len(frames) /\ j \in 0 .. frames[f].count - 1 /\ arrived' = arrived \cup {r}
      /\ r.frame = f /\ r.index = j /\ frames' = frames
      /\ \A m \in arrived : m.frame < f \/ (m.frame = f /\ m.index < j)
  BY <1>a DEF Comes
<1>2. /\ Len(frames) \in Nat /\ j \in Nat
      /\ \A m \in arrived : m.frame \in 1 .. Len(frames) /\ m.index \in Nat
  <2>1. \A m \in arrived : m.frame \in 1 .. Len(frames) /\ m.index \in Nat
    BY ArrivedHasParts DEF StreamProofInv, LinkInv
  <2>2. frames[f].count \in Nat \ {0} /\ Len(frames) \in Nat
    BY <1>1, FrameHasParts DEF StreamProofInv, SenderInv, SenderTypeOK
  <2>3. QED
    BY <1>1, <2>1, <2>2
<1>3. assembling' => /\ buffer' = s /\ Joins(f, j)
                     /\ \/ assembling /\ s[1] = buffer[1]
                        \/ ~Continues(f, j) /\ j = 0 /\ s[1] = f
  <2>1. assembling' => Joins(f, j) /\ buffer' = s
    BY DEF Outcome, GivesUp, Keeps, Completes, TakeFrame, Abandon
  <2>2. CASE Continues(f, j)
    <3>1. assembling /\ s = Append(buffer, f) /\ buffer \in Seq(1 .. Len(frames)) /\ buffer # <<>>
      BY <2>2 DEF Continues, Gathered, StreamProofInv, ReceiverInv, ReceiverTypeOK
    <3>2. Len(buffer) \in Nat \ {0}
      BY <3>1, EmptySeq, LenProperties
    <3>3. 1 \in 1 .. Len(buffer)
      BY <3>2
    <3>4. s[1] = buffer[1]
      BY <1>1, <3>1, <3>3, AppendProperties
    <3>5. QED
      BY <2>1, <3>1, <3>4
  <2>3. CASE ~Continues(f, j)
    BY <2>1, <2>3 DEF Joins, Gathered
  <2>4. QED
    BY <2>2, <2>3
<1>4. Droppable \subseteq Droppable'
  <2>1. SUFFICES ASSUME NEW d \in Droppable PROVE d \in Droppable'
    OBVIOUS
  <2>2. /\ d \in 1 .. Len(frames) /\ Missed(d) /\ (\E m \in arrived : m.frame = d)
        /\ assembling => d < buffer[1]
    BY <2>1 DEF Droppable
  <2>3. Missed(d)'
    BY <2>2, MissedStaysMissed
  <2>4. j = 0 => d < f
    <3>1. PICK i \in 0 .. frames[d].count - 1 :
            \E m \in arrived : d < m.frame \/ (d = m.frame /\ i < m.index)
      BY <2>2 DEF Missed
    <3>2. PICK m \in arrived : d <= m.frame
      BY <1>2, <2>2, <3>1
    <3>3. QED
      BY <1>1, <1>2, <2>2, <3>2
  <2>5. assembling' => d < buffer'[1]
    BY <1>3, <2>2, <2>4
  <2>6. QED
    BY <1>1, <2>2, <2>3, <2>5 DEF Droppable
<1>5. /\ IsFiniteSet(Droppable) /\ Cardinality(Droppable) \in Nat
      /\ IsFiniteSet(Droppable') /\ Cardinality(Droppable') \in Nat
  <2>1. Droppable' \subseteq 1 .. Len(frames)
    BY <1>1 DEF Droppable
  <2>2. IsFiniteSet(Droppable')
    <3>1. IsFiniteSet(1 .. Len(frames))
      BY <1>2, FS_Interval
    <3>2. QED
      BY <2>1, <3>1, FS_Subset
  <2>3. QED
    BY <1>2, <2>2, FS_CardinalityType, DroppableIsFinite
<1>6. dropped \in Nat /\ dropped <= Cardinality(Droppable)
  BY DEF StreamProofInv, ReceiverInv, ReceiverTypeOK
<1>7. CASE ~(assembling /\ ~Continues(f, j))
  <2>1. dropped' = dropped
    BY <1>6, <1>7 DEF Outcome
  <2>2. Cardinality(Droppable) <= Cardinality(Droppable')
    BY <1>4, <1>5, FS_Subset
  <2>3. QED
    BY <1>5, <1>6, <2>1, <2>2
<1>8. CASE assembling /\ ~Continues(f, j)
  <2>1. PICK b : b = buffer[1]
    OBVIOUS
  <2>2. PICK l : l = Len(buffer)
    OBVIOUS
  <2>3. /\ buffer \in Seq(1 .. Len(frames)) /\ l \in Nat \ {0} /\ b \in 1 .. Len(frames)
        /\ 1 \in 1 .. l /\ l \in 1 .. l /\ buffer[l] \in 1 .. Len(frames)
    <3>1. buffer \in Seq(1 .. Len(frames)) /\ buffer # <<>>
      BY <1>8 DEF StreamProofInv, ReceiverInv, ReceiverTypeOK
    <3>2. l \in Nat \ {0}
      BY <2>2, <3>1, EmptySeq, LenProperties
    <3>3. 1 \in 1 .. l /\ l \in 1 .. l
      BY <3>2
    <3>4. QED
      BY <2>1, <2>2, <3>1, <3>2, <3>3, ElementOfSeq
  <2>4. /\ l < frames[b].count /\ rxSequence = frames[b].sequence % SequenceModulus
        /\ Has(b, 0) /\ Has(buffer[l], l - 1) /\ b <= buffer[l]
        /\ \A m \in arrived : m.frame = b => m.index < l
    <3>1. /\ Len(buffer) < rxCount /\ rxCount = frames[buffer[1]].count
          /\ rxSequence = frames[buffer[1]].sequence % SequenceModulus
          /\ \A i \in 1 .. Len(buffer) : Has(buffer[i], i - 1) /\ buffer[1] <= buffer[i]
          /\ \A m \in arrived : m.frame = buffer[1] => m.index < Len(buffer)
      BY <1>8 DEF StreamProofInv, ReceiverInv, ReceiverTypeOK, BufferHolds
    <3>2. Has(buffer[1], 1 - 1) /\ Has(buffer[l], l - 1) /\ buffer[1] <= buffer[l]
      BY <2>2, <2>3, <3>1
    <3>3. QED
      BY <2>1, <2>2, <3>1, <3>2
  <2>5. b < f \/ (b = f /\ l < j)
    <3>1. PICK m \in arrived : m.frame = buffer[l] /\ m.index = l - 1
      BY <2>4 DEF Has
    <3>2. buffer[l] < f \/ (buffer[l] = f /\ l - 1 < j)
      BY <1>1, <3>1
    <3>3. ~(b = f /\ j = l)
      BY <1>8, <2>2, <2>4 DEF Continues
    <3>4. f \in Nat
      BY <1>1, <1>2
    <3>5. QED
      BY <1>2, <2>3, <2>4, <3>2, <3>3, <3>4
  <2>6. Missed(b)'
    <3>1. ~\E m \in arrived : m.frame = b /\ m.index = l
      BY <2>3, <2>4
    <3>2. ~(r.frame = b /\ r.index = l)
      BY <1>1, <1>2, <2>5
    <3>3. ~Has(b, l)'
      BY <1>1, <3>1, <3>2 DEF Has
    <3>4. frames[b].count \in Nat \ {0}
      BY <2>3, FrameHasParts DEF StreamProofInv, SenderInv
    <3>5. l \in 0 .. frames[b].count - 1
      BY <2>3, <2>4, <3>4
    <3>6. QED
      BY <1>1, <2>5, <3>3, <3>5 DEF Missed
  <2>7. assembling' => b < buffer'[1]
    <3>1. j = 0 => b < f
      BY <1>2, <2>3, <2>5
    <3>2. assembling' => ~Continues(f, j) /\ j = 0 /\ buffer'[1] = f
      <4>1. Joins(f, j) /\ ~Continues(f, j) => j = 0 /\ s = <<f>>
        BY DEF Joins, Gathered
      <4>2. QED
        BY <1>3, <1>8, <4>1
    <3>3. QED
      BY <3>1, <3>2
  <2>8. b \in Droppable'
    <3>1. \E m \in arrived' : m.frame = b
      BY <1>1, <2>4 DEF Has
    <3>2. QED
      BY <1>1, <2>3, <2>6, <2>7, <3>1 DEF Droppable
  <2>9. b \notin Droppable
    <3>1. b \in Nat
      BY <1>2, <2>3
    <3>2. QED
      BY <1>8, <2>1, <3>1 DEF Droppable
  <2>10. Cardinality(Droppable \cup {b}) = Cardinality(Droppable) + 1
    BY <1>5, <2>9, FS_AddElement
  <2>11. Cardinality(Droppable \cup {b}) <= Cardinality(Droppable')
    <3>1. Droppable \cup {b} \subseteq Droppable'
      BY <1>4, <2>8
    <3>2. QED
      BY <1>5, <3>1, FS_Subset
  <2>12. dropped' = dropped + 1
    BY <1>8 DEF Outcome
  <2>13. QED
    BY <1>5, <1>6, <2>10, <2>11, <2>12
<1>9. QED
  BY <1>7, <1>8

LEMMA ReceiptKeepsInv ==
  ASSUME StreamProofInv, ReceiveFragment
  PROVE  StreamProofInv'
<1>1. PICK f, j : f = Head(wire).frame /\ j = Head(wire).index
  OBVIOUS
<1>2. PICK s : s = Gathered(f, j)
  OBVIOUS
<1>3. Comes(f, j) /\ SenderInv' /\ LinkInv'
  BY <1>1, ReceiptComesInOrder
<1>4. Outcome(f, j, s)
  BY <1>1, <1>2, ReceiptHasAnOutcome
<1>5. ReceiverTypeOK' /\ BufferHolds' /\ WholeSoFarIsHeld'
  BY <1>2, <1>3, <1>4, ReceiptKeepsTypes, ReceiptKeepsBuffer
<1>6. DeliveredWhole' /\ DeliveredInOrder' /\ OnlyItsOwnFrameIsLost'
  BY <1>2, <1>3, <1>4, ReceiptKeepsDelivered
<1>7. dropped' <= Cardinality(Droppable)'
  BY <1>2, <1>3, <1>4, ReceiptKeepsDropped
<1>8. QED
  BY <1>3, <1>5, <1>6, <1>7 DEF StreamProofInv, ReceiverInv

LEMMA NextKeepsStreamInv == StreamProofInv /\ [FrameNext]_streamVars => StreamProofInv'
<1> SUFFICES ASSUME StreamProofInv, [FrameNext]_streamVars
             PROVE  StreamProofInv'
  OBVIOUS
<1>1. CASE EncodePeriod
  BY <1>1, EncodeKeepsInv
<1>2. CASE SendFragment
  BY <1>2, SendKeepsInv
<1>3. CASE SendFails \/ SenderRestarts
  BY <1>3, GivingUpKeepsInv
<1>4. CASE Connects
  BY <1>4, ConnectKeepsInv
<1>5. CASE Breaks
  BY <1>5, BreakKeepsInv
<1>6. CASE LosesMessage
  BY <1>6, LossKeepsInv
<1>7. CASE StrangerSends
  BY <1>7, StrangerKeepsInv
<1>8. CASE ReceiveFragment
  BY <1>8, ReceiptKeepsInv
<1>9. CASE ReceiveForeign
  BY <1>9, ForeignKeepsInv
<1>10. CASE ReceiveTimesOut \/ UNCHANGED streamVars
  <2>1. UNCHANGED <<frames, sequence, position, run, fragment, sentWhole, peer, connections,
                    foreign, wire, assembling, rxSequence, rxCount, buffer, dropped, refused,
                    delivered, arrived>>
    BY <1>10 DEF ReceiveTimesOut, streamVars, txVars, linkVars, rxVars
  <2>2. SenderInv'
    BY <2>1 DEF StreamProofInv, SenderInv, SenderTypeOK, SendingIsLast, SentInOrder
  <2>3. LinkInv'
    BY <2>1 DEF StreamProofInv, LinkInv, LinkTypeOK, WireInOrder, ArrivedWasSent,
                OnePeerPerConnection, WasSent, IsSentWhole, Ours, Precedes
  <2>4. ReceiverInv'
    <3>1. \A g \in 1 .. Len(frames') : frames'[g].count \in Nat \ {0}
      BY <2>1, FrameHasParts DEF StreamProofInv, SenderInv
    <3>2. Len(frames) \in Nat
      BY DEF StreamProofInv, SenderInv, SenderTypeOK
    <3>3. QED
      BY <2>1, <3>1, <3>2, MoreFramesKeepReceiver DEF StreamProofInv, SenderInv, LinkInv, rxVars
  <2>5. QED
    BY <2>2, <2>3, <2>4 DEF StreamProofInv
<1>11. QED
  BY <1>1, <1>2, <1>3, <1>4, <1>5, <1>6, <1>7, <1>8, <1>9, <1>10 DEF FrameNext

LEMMA AlwaysStreamInv == FrameSpec => []StreamProofInv
<1>1. FrameInit => StreamProofInv
  BY InitIsStreamInv
<1>2. StreamProofInv /\ [FrameNext]_streamVars => StreamProofInv'
  BY NextKeepsStreamInv
<1>3. QED
  BY <1>1, <1>2, PTL DEF FrameSpec

(* The types of both engines hold, nothing is delivered that did not       *)
(* arrive whole, and the reassembler counts no more frames as dropped than *)
(* came in part.                                                           *)
THEOREM StreamIsAlwaysSound == FrameSpec => []FrameInv
<1>1. StreamProofInv => FrameInv
  <2> SUFFICES ASSUME StreamProofInv PROVE FrameInv
    OBVIOUS
  <2>1. FrameTypeOK /\ DeliveredWhole
    BY DEF StreamProofInv, SenderInv, LinkInv, ReceiverInv, SenderTypeOK, LinkTypeOK,
           ReceiverTypeOK, FrameTypeOK
  <2> DEFINE partial == {f \in 1 .. Len(frames) : ArrivedOf(f) # {} /\ ~Whole(f)}
  <2>2. Droppable \subseteq partial
    BY DEF Droppable, ArrivedOf, Missed, Whole
  <2>3. Len(frames) \in Nat
    BY DEF StreamProofInv, SenderInv, SenderTypeOK
  <2>4. partial \subseteq 1 .. Len(frames)
    OBVIOUS
  <2> HIDE DEF partial
  <2>5. IsFiniteSet(partial)
    <3>1. IsFiniteSet(1 .. Len(frames))
      BY <2>3, FS_Interval
    <3>2. QED
      BY <2>4, <3>1, FS_Subset
  <2>6. Cardinality(Droppable) <= Cardinality(partial)
    BY <2>2, <2>5, FS_Subset
  <2>7. Cardinality(Droppable) \in Nat /\ Cardinality(partial) \in Nat
    BY <2>3, <2>5, DroppableIsFinite, FS_CardinalityType
  <2>8. dropped \in Nat /\ dropped <= Cardinality(Droppable)
    BY DEF StreamProofInv, ReceiverInv, ReceiverTypeOK
  <2>9. dropped <= Cardinality(partial)
    BY <2>6, <2>7, <2>8
  <2>10. QED
    BY <2>1, <2>9 DEF FrameInv, DroppedIsNotInflated, partial
<1>2. QED
  BY <1>1, AlwaysStreamInv, PTL

(* A frame all of whose fragments arrive on one connection is delivered,   *)
(* whatever was lost, retried or half assembled before it.                 *)
THEOREM OnlyThatFrameIsLost == FrameSpec => []OnlyItsOwnFrameIsLost
<1>1. StreamProofInv => OnlyItsOwnFrameIsLost
  BY DEF StreamProofInv, ReceiverInv
<1>2. QED
  BY <1>1, AlwaysStreamInv, PTL

----------------------------------------------------------------------------
(* The refinement of PeriodStream *)

LEMMA PlaceIsUnique ==
  ASSUME NEW t \in Seq(Nat), \A i, k \in 1 .. Len(t) : i < k => t[i] < t[k],
         NEW f, NEW k \in 1 .. Len(t), t[k] = f
  PROVE  PlaceIn(t, f) = k
<1>1. Len(t) \in Nat /\ \A i \in 1 .. Len(t) : t[i] \in Nat
  BY LenProperties, ElementOfSeq
<1>2. PlaceIn(t, f) \in 1 .. Len(t) /\ t[PlaceIn(t, f)] = f
  BY DEF PlaceIn
<1>3. \A i \in 1 .. Len(t) : t[i] = f => i = k
  <2>1. SUFFICES ASSUME NEW i \in 1 .. Len(t), t[i] = f, i # k PROVE FALSE
    OBVIOUS
  <2>2. i < k \/ k < i
    BY <1>1, <2>1
  <2>3. t[i] < t[k] \/ t[k] < t[i]
    BY <2>2
  <2>4. QED
    BY <1>1, <2>1, <2>3
<1>4. QED
  BY <1>2, <1>3

\* What is delivered was sent whole, and has its place among what was.
LEMMA DeliveredWasSent ==
  ASSUME StreamProofInv, NEW f \in 1 .. Len(frames), Whole(f)
  PROVE  IsSentWhole(f)
<1>1. frames[f].count \in Nat \ {0}
  BY FrameHasParts DEF StreamProofInv, SenderInv
<1>2. Has(f, frames[f].count - 1)
  BY <1>1 DEF Whole
<1>3. PICK m \in arrived : m.frame = f /\ m.index = frames[f].count - 1
  BY <1>2 DEF Has
<1>4. WasSent(m)
  BY <1>3 DEF StreamProofInv, LinkInv, ArrivedWasSent
<1>5. QED
  BY <1>3, <1>4 DEF WasSent

\* Sending more moves no place.
LEMMA PlaceStays ==
  ASSUME SenderInv, SenderInv', NEW f, IsSentWhole(f),
         \A k \in 1 .. Len(sentWhole) : k \in 1 .. Len(sentWhole') /\ sentWhole'[k] = sentWhole[k]
  PROVE  /\ PlaceIn(sentWhole', f) = PlaceIn(sentWhole, f)
         /\ PlaceIn(sentWhole, f) \in 1 .. Len(sentWhole)
         /\ sentWhole[PlaceIn(sentWhole, f)] = f
<1>1. PICK k \in 1 .. Len(sentWhole) : sentWhole[k] = f
  BY DEF IsSentWhole
<1>2. sentWhole \in Seq(Nat) /\ sentWhole' \in Seq(Nat)
  <2>1. Len(frames) \in Nat /\ Len(frames') \in Nat
    BY DEF SenderInv, SenderTypeOK
  <2>2. 1 .. Len(frames) \subseteq Nat /\ 1 .. Len(frames') \subseteq Nat
    BY <2>1
  <2>3. QED
    BY <2>2, SeqMonotonic DEF SenderInv, SenderTypeOK
<1>3. PlaceIn(sentWhole, f) = k
  BY <1>1, <1>2, PlaceIsUnique DEF SenderInv, SentInOrder
<1>4. PlaceIn(sentWhole', f) = k
  BY <1>1, <1>2, PlaceIsUnique DEF SenderInv, SentInOrder
<1>5. QED
  BY <1>1, <1>3, <1>4

LEMMA DeliveredPeriodsStay ==
  ASSUME StreamProofInv, SenderInv', UNCHANGED delivered,
         \A k \in 1 .. Len(sentWhole) : k \in 1 .. Len(sentWhole') /\ sentWhole'[k] = sentWhole[k]
  PROVE  DeliveredPeriods' = DeliveredPeriods
<1>1. ASSUME NEW i \in 1 .. Len(delivered)
      PROVE  PlaceIn(sentWhole', delivered[i]) = PlaceIn(sentWhole, delivered[i])
  <2>1. PICK f : f = delivered[i]
    OBVIOUS
  <2>2. f \in 1 .. Len(frames) /\ Whole(f)
    BY <2>1, ElementOfSeq DEF StreamProofInv, ReceiverInv, ReceiverTypeOK, DeliveredWhole
  <2>3. IsSentWhole(f)
    BY <2>2, DeliveredWasSent
  <2>4. QED
    BY <2>1, <2>3, PlaceStays DEF StreamProofInv
<1>2. QED
  BY <1>1 DEF DeliveredPeriods

LEMMA SentPeriodsStay ==
  ASSUME SenderTypeOK, UNCHANGED sentWhole, \A f \in 1 .. Len(frames) : frames'[f] = frames[f]
  PROVE  SentPeriods' = SentPeriods
<1>1. \A k \in 1 .. Len(sentWhole) : sentWhole[k] \in 1 .. Len(frames)
  BY ElementOfSeq DEF SenderTypeOK
<1>2. QED
  BY <1>1 DEF SentPeriods

LEMMA SendRefines ==
  ASSUME StreamProofInv, StreamProofInv', SendFragment
  PROVE  Stream!SendPeriod \/ UNCHANGED Stream!streamVars
<1> USE DEF StreamProofInv
<1>1. PICK f : f = Len(frames)
  OBVIOUS
<1>2. fragment # Idle /\ UNCHANGED <<frames, run, delivered>>
  BY DEF SendFragment, rxVars
<1>3. CASE sentWhole' = sentWhole /\ position' = position
  <2>1. DeliveredPeriods' = DeliveredPeriods
    BY <1>2, <1>3, DeliveredPeriodsStay
  <2>2. SentPeriods' = SentPeriods
    BY <1>2, <1>3, SentPeriodsStay DEF SenderInv
  <2>3. QED
    BY <1>2, <1>3, <2>1, <2>2 DEF Stream!streamVars
<1>4. CASE sentWhole' = Append(sentWhole, f) /\ position' = position + 1
  <2>1. f \in 1 .. Len(frames) /\ frames[f].run = run /\ frames[f].position = position
    BY <1>1, <1>2 DEF SenderInv, SenderTypeOK, SendingIsLast
  <2>2. /\ Len(sentWhole) \in Nat /\ Len(sentWhole') = Len(sentWhole) + 1
        /\ sentWhole'[Len(sentWhole) + 1] = f
        /\ \A k \in 1 .. Len(sentWhole) : sentWhole'[k] = sentWhole[k]
    <3>1. sentWhole \in Seq(1 .. Len(frames))
      BY DEF SenderInv, SenderTypeOK
    <3>2. QED
      BY <1>4, <2>1, <3>1, LenProperties, AppendProperties
  <2>3. \A k \in 1 .. Len(sentWhole) : k \in 1 .. Len(sentWhole')
    BY <2>2
  <2>4. DeliveredPeriods' = DeliveredPeriods
    BY <1>2, <2>2, <2>3, DeliveredPeriodsStay
  <2>5. SentPeriods' = Append(SentPeriods, [run |-> run, position |-> position])
    <3>1. \A k \in 1 .. Len(sentWhole) + 1 : k \in 1 .. Len(sentWhole) \/ k = Len(sentWhole) + 1
      BY <2>2
    <3>2. SentPeriods' = [k \in 1 .. Len(sentWhole) + 1 |->
                            IF k \in 1 .. Len(sentWhole)
                              THEN SentPeriods[k] ELSE [run |-> run, position |-> position]]
      BY <1>2, <2>1, <2>2, <3>1 DEF SentPeriods
    <3>3. SentPeriods = [k \in 1 .. Len(sentWhole) |-> SentPeriods[k]]
      BY DEF SentPeriods
    <3>4. Len(SentPeriods) = Len(sentWhole)
      BY <2>2, <3>3
    <3>5. QED
      BY <2>2, <3>2, <3>3, <3>4
  <2>6. QED
    BY <1>2, <1>4, <2>4, <2>5 DEF Stream!SendPeriod
<1>5. QED
  BY <1>1, <1>3, <1>4 DEF SendFragment

\* A receipt hands over nothing, or a frame sent whole after all that it handed over.
LEMMA ReceiptRefines ==
  ASSUME StreamProofInv, StreamProofInv', ReceiveFragment
  PROVE  Stream!Deliver \/ UNCHANGED Stream!streamVars
<1> USE DEF StreamProofInv
<1>1. UNCHANGED <<frames, sentWhole, run, position>>
  BY DEF ReceiveFragment, txVars
<1>2. SentPeriods' = SentPeriods
  BY <1>1, SentPeriodsStay DEF SenderInv
<1>3. delivered' = delivered \/ \E f : delivered' = Append(delivered, f)
  BY DEF ReceiveFragment, ContinuesFrame, CountChanges, JoinsPartWay, StartsFrame, Accumulate,
         TakeFrame
<1>4. CASE delivered' = delivered
  <2>1. DeliveredPeriods' = DeliveredPeriods
    BY <1>1, <1>4, DeliveredPeriodsStay
  <2>2. QED
    BY <1>1, <1>2, <2>1 DEF Stream!streamVars
<1>5. ASSUME NEW f, delivered' = Append(delivered, f)
      PROVE  Stream!Deliver
  <2>1. /\ delivered \in Seq(1 .. Len(frames)) /\ delivered' \in Seq(1 .. Len(frames))
        /\ Len(delivered) \in Nat /\ Len(frames) \in Nat
    BY <1>1, LenProperties DEF ReceiverInv, ReceiverTypeOK, SenderInv, SenderTypeOK
  <2>2. PICK n : n = Len(delivered)
    OBVIOUS
  <2>3. Len(delivered') = n + 1 /\ delivered'[n + 1] = f
        /\ \A i \in 1 .. n : delivered'[i] = delivered[i]
    BY <1>5, <2>1, <2>2
  <2>4. n + 1 \in 1 .. Len(delivered') /\ \A i \in 1 .. n : i \in 1 .. Len(delivered') /\ i < n + 1
    BY <2>1, <2>2, <2>3
  <2>5. f \in 1 .. Len(frames)
    BY <2>1, <2>3, <2>4, ElementOfSeq
  <2>6. \A i \in 1 .. n : delivered[i] < f
    BY <2>3, <2>4 DEF ReceiverInv, DeliveredInOrder
  <2>7. IsSentWhole(f)
    <3>1. Whole(f)'
      BY <2>3, <2>4 DEF ReceiverInv, DeliveredWhole, Whole, Has
    <3>2. frames'[f].count \in Nat \ {0}
      BY <1>1, <2>5, FrameHasParts DEF SenderInv
    <3>3. PICK m \in arrived' : m.frame = f /\ m.index = frames'[f].count - 1
      BY <3>1, <3>2 DEF Whole, Has
    <3>4. WasSent(m)'
      BY <3>3 DEF LinkInv, ArrivedWasSent
    <3>5. QED
      BY <1>1, <3>3, <3>4 DEF WasSent, IsSentWhole
  <2>8. PICK k : k = PlaceIn(sentWhole, f)
    OBVIOUS
  <2>9. k \in 1 .. Len(sentWhole) /\ sentWhole[k] = f
    BY <1>1, <2>7, <2>8, PlaceStays
  <2>10. ASSUME NEW i \in 1 .. n
         PROVE  /\ PlaceIn(sentWhole, delivered[i]) \in 1 .. Len(sentWhole)
                /\ PlaceIn(sentWhole, delivered[i]) < k
    <3>1. PICK d : d = delivered[i]
      OBVIOUS
    <3>2. d \in 1 .. Len(frames) /\ Whole(d) /\ d < f
      BY <2>1, <2>2, <2>6, <3>1, ElementOfSeq DEF ReceiverInv, DeliveredWhole
    <3>3. IsSentWhole(d)
      BY <3>2, DeliveredWasSent
    <3>4. PICK a : a = PlaceIn(sentWhole, d)
      OBVIOUS
    <3>5. a \in 1 .. Len(sentWhole) /\ sentWhole[a] = d
      BY <1>1, <3>3, <3>4, PlaceStays
    <3>6. ~(k < a) /\ k # a
      <4>1. k < a => f < d
        BY <2>9, <3>5 DEF SenderInv, SentInOrder
      <4>2. QED
        BY <2>1, <2>5, <2>9, <3>2, <3>5, <4>1
    <3>7. a < k
      BY <2>9, <3>5, <3>6
    <3>8. QED
      BY <3>1, <3>4, <3>5, <3>7
  <2>11. /\ DeliveredPeriods = [i \in 1 .. n |-> PlaceIn(sentWhole, delivered[i])]
         /\ Len(DeliveredPeriods) = n /\ (n = 0 <=> DeliveredPeriods = <<>>)
    <3>1. DeliveredPeriods = [i \in 1 .. n |-> PlaceIn(sentWhole, delivered[i])]
      BY <2>2 DEF DeliveredPeriods
    <3>2. Len(DeliveredPeriods) = n
      BY <2>1, <2>2, <3>1
    <3>3. n = 0 => DeliveredPeriods = <<>>
      BY <3>1
    <3>4. Len(<<>>) = 0
      OBVIOUS
    <3>5. QED
      BY <3>1, <3>2, <3>3, <3>4
  <2>12. DeliveredPeriods' = Append(DeliveredPeriods, k)
    <3>1. \A i \in 1 .. n + 1 : i \in 1 .. n \/ i = n + 1
      BY <2>1, <2>2
    <3>2. DeliveredPeriods' = [i \in 1 .. n + 1 |-> PlaceIn(sentWhole, delivered'[i])]
      BY <1>1, <2>3 DEF DeliveredPeriods
    <3>3. DeliveredPeriods' = [i \in 1 .. n + 1 |->
                                 IF i \in 1 .. n THEN DeliveredPeriods[i] ELSE k]
      BY <2>3, <2>8, <2>11, <3>1, <3>2
    <3>4. DeliveredPeriods = [i \in 1 .. n |-> DeliveredPeriods[i]]
      BY <2>11
    <3>5. QED
      BY <2>1, <2>2, <2>11, <3>3, <3>4
  <2>13. Len(SentPeriods) = Len(sentWhole) /\ Len(sentWhole) \in Nat
    BY LenProperties DEF SentPeriods, SenderInv, SenderTypeOK
  <2>14. Stream!LastDelivered \in Nat /\ Stream!LastDelivered < k
    <3>1. CASE n = 0
      BY <2>9, <2>11, <2>13, <3>1 DEF Stream!LastDelivered
    <3>2. CASE n # 0
      <4>1. n \in 1 .. n
        BY <2>1, <2>2, <3>2
      <4>2. Stream!LastDelivered = PlaceIn(sentWhole, delivered[n])
        BY <2>11, <3>2, <4>1 DEF Stream!LastDelivered
      <4>3. QED
        BY <2>10, <2>13, <4>1, <4>2
    <3>3. QED
      BY <3>1, <3>2
  <2>15. k \in Stream!LastDelivered + 1 .. Len(SentPeriods)
    BY <2>9, <2>13, <2>14
  <2>16. QED
    BY <1>1, <1>2, <2>12, <2>15 DEF Stream!Deliver
<1>6. QED
  BY <1>3, <1>4, <1>5

LEMMA StepRefines ==
  ASSUME StreamProofInv, StreamProofInv', [FrameNext]_streamVars
  PROVE  [Stream!StreamNext]_Stream!streamVars
<1> USE DEF StreamProofInv
<1>1. CASE SendFragment
  BY <1>1, SendRefines DEF Stream!StreamNext
<1>2. CASE ReceiveFragment
  BY <1>2, ReceiptRefines DEF Stream!StreamNext
<1>3. CASE UNCHANGED <<sentWhole, delivered>> /\ (UNCHANGED frames \/ EncodePeriod)
  <2>1. \A f \in 1 .. Len(frames) : frames'[f] = frames[f]
    <3>1. CASE UNCHANGED frames
      BY <3>1
    <3>2. CASE EncodePeriod
      <4>1. PICK x : x \in Attempts /\ frames' = Append(frames, x)
        BY <3>2 DEF EncodePeriod, SenderInv, SenderTypeOK, Attempts
      <4>2. frames \in Seq(Attempts)
        BY DEF SenderInv, SenderTypeOK
      <4>3. QED
        BY <4>1, <4>2, AppendProperties
    <3>3. QED
      BY <1>3, <3>1, <3>2
  <2>2. SentPeriods' = SentPeriods /\ DeliveredPeriods' = DeliveredPeriods
    BY <1>3, <2>1, SentPeriodsStay, DeliveredPeriodsStay DEF SenderInv
  <2>3. CASE UNCHANGED <<run, position>>
    BY <2>2, <2>3 DEF Stream!streamVars
  <2>4. CASE SenderRestarts
    BY <2>2, <2>4 DEF SenderRestarts, Stream!NewRun, Stream!StreamNext
  <2>5. CASE ~SenderRestarts /\ ~SendFragment
    <3>1. UNCHANGED <<run, position>>
      BY <2>5 DEF FrameNext, EncodePeriod, SendFails, Connects, Breaks, LosesMessage,
                  StrangerSends, ReceiveFragment, ReceiveForeign, ReceiveTimesOut, streamVars,
                  txVars
    <3>2. QED
      BY <2>3, <3>1
  <2>6. QED
    BY <1>1, <2>4, <2>5
<1>4. CASE ~SendFragment /\ ~ReceiveFragment
  <2>1. UNCHANGED <<sentWhole, delivered>> /\ (UNCHANGED frames \/ EncodePeriod)
    BY <1>4 DEF FrameNext, EncodePeriod, SendFails, SenderRestarts, Connects, Breaks,
                LosesMessage, StrangerSends, ReceiveForeign, ReceiveTimesOut, streamVars,
                txVars, rxVars
  <2>2. QED
    BY <1>3, <2>1
<1>5. QED
  BY <1>1, <1>2, <1>4

(* The frames implement the periods: what reaches the playout buffer was   *)
(* sent whole, each position of a run at most once, in order.              *)
THEOREM FramesImplementPeriods == FrameSpec => ImplementsPeriodStream
<1>1. FrameInit => Stream!StreamInit
  <2> SUFFICES ASSUME FrameInit PROVE Stream!StreamInit
    OBVIOUS
  <2>1. SentPeriods = <<>> /\ DeliveredPeriods = <<>>
    BY DEF FrameInit, SentPeriods, DeliveredPeriods
  <2>2. QED
    BY <2>1 DEF FrameInit, Stream!StreamInit
<1>2. StreamProofInv /\ StreamProofInv' /\ [FrameNext]_streamVars
        => [Stream!StreamNext]_Stream!streamVars
  BY StepRefines
<1>3. QED
  BY <1>1, <1>2, AlwaysStreamInv, PTL DEF FrameSpec, ImplementsPeriodStream, Stream!StreamSpec

=============================================================================
