--------------------------- MODULE AsyncLoopProofs ---------------------------
(***************************************************************************)
(* Proofs about AsyncLoop for every value of its constants: its types, and *)
(* the hard off-policy bound of docs/windowed_fifo.md, proved of the loop  *)
(* itself: AgeInv is inductive and implies PolicyAgeBound.  On top of it   *)
(* the weight handoff inside the loop and the run as a whole: no torn      *)
(* read, truthful version labels, slots handed back only after every pull, *)
(* every slot accounted for, no task that raises by itself, a run that     *)
(* returns trained, and the refinement of FreshTraining.                   *)
(***************************************************************************)
EXTENDS AsyncLoop, AsyncLoopRefinement, SequenceTheorems, FiniteSetTheorems, TLAPS

(* The constants are naturals and the buffer has room for one batch.       *)
LEMMA ConstantTypes ==
  /\ MaxActive \in Nat
  /\ WindowSize \in Nat
  /\ WindowSize >= 1
  /\ StartStep \in Nat
  /\ NumPromptsPerTrainStep \in Nat
  /\ NumPromptsPerTrainStep >= 1
  /\ GroupIds \subseteq Nat
BY BufferAssumption, WeightSyncAssumption, LoopAssumption

-------------------------------------------------------------------------------
(* Type correctness.                                                       *)

(* add_work and release_active_groups keep the gauges within the budget.   *)
LEMMA AddWorkTypes ==
  ASSUME active \in 0..MaxActive, peak \in active..MaxActive, NEW g, AddWork(g)
  PROVE  active' \in 0..MaxActive /\ peak' \in active'..MaxActive
BY ConstantTypes DEF AddWork, HasActiveSlot

(* Releasing slots keeps their number a number, when it is allowed.        *)
LEMMA ReleaseTypes ==
  ASSUME active \in 0..MaxActive, peak \in active..MaxActive, NEW n \in Nat,
         ReleaseActiveGroups(n)
  PROVE  active' \in 0..MaxActive /\ peak' \in active'..MaxActive
BY ConstantTypes DEF ReleaseActiveGroups, CanRelease

(* The steps of the data-input task keep every variable in its type.       *)
LEMMA TypeDataInput == TypeOK /\ DataInputLoop => TypeOK'
<1> SUFFICES ASSUME TypeOK, DataInputLoop PROVE TypeOK'
  OBVIOUS
<1> USE ConstantTypes DEF TypeOK, SyncTypeOK, syncVars, rolloutVars,
      batcherVars, trainerVars, bufferVars, DataPcs, Stopped
<1>1. CASE DataInputWaits
  BY <1>1 DEF DataInputWaits, WaitForSlot
<1>2. CASE DataInputAdds
  <2>1. CASE HasActiveSlot
    <3> HIDE DEF TypeOK, SyncTypeOK
    <3>1. AddWork(nextGroup) /\ nextGroup \in GroupIds
      BY <1>2, <2>1 DEF DataInputAdds
    <3>2. active' \in 0..MaxActive /\ peak' \in active'..MaxActive
      BY <3>1, AddWorkTypes DEF TypeOK
    <3>3. waiting' = waiting \union {nextGroup}
          /\ UNCHANGED <<inflight, finalized, closed>>
      BY <3>1 DEF AddWork
    <3>4. nextGroup' = nextGroup + 1 /\ dataPc' = "wait_for_slot"
          /\ UNCHANGED <<syncVars, rolloutVars, batcherVars, queue,
                         trainerVars, runPc>>
      BY <1>2, <2>1 DEF DataInputAdds
    <3>5. QED
      BY <3>1, <3>2, <3>3, <3>4 DEF TypeOK, SyncTypeOK
  <2>2. CASE ~HasActiveSlot
    BY <1>2, <2>2 DEF DataInputAdds
  <2>3. QED
    BY <2>1, <2>2
<1>3. CASE DataInputFails
  BY <1>3 DEF DataInputFails
<1>4. QED
  BY <1>1, <1>2, <1>3 DEF DataInputLoop

(* So do the rollout workers' steps.                                       *)
LEMMA TypeRollout == TypeOK /\ RolloutLoop => TypeOK'
<1> SUFFICES ASSUME TypeOK, NEW g \in GroupIds,
                    \/ RolloutClaims(g)
                    \/ \E gen \in Generators : RolloutSamples(g, gen)
                    \/ RolloutFinishes(g)
                    \/ RolloutFails(g)
             PROVE  TypeOK'
  BY DEF RolloutLoop
<1> USE ConstantTypes DEF TypeOK, SyncTypeOK, syncVars, dataVars,
      batcherVars, trainerVars, bufferVars
<1>1. CASE RolloutClaims(g)
  BY <1>1 DEF RolloutClaims, ClaimNext, IsOldest
<1>2. CASE \E gen \in Generators : RolloutSamples(g, gen)
  BY <1>2 DEF RolloutSamples
<1>3. CASE RolloutFinishes(g)
  BY <1>3 DEF RolloutFinishes, FinalizeWork
<1>4. CASE RolloutFails(g)
  BY <1>4 DEF RolloutFails, FinalizeWork, NoVersion
<1>5. QED
  BY <1>1, <1>2, <1>3, <1>4

(* The batcher.                                                            *)
LEMMA TypeBatcher == TypeOK /\ BatcherLoop => TypeOK'
<1> SUFFICES ASSUME TypeOK, BatcherLoop PROVE TypeOK'
  OBVIOUS
<1> USE ConstantTypes DEF TypeOK, SyncTypeOK, syncVars, dataVars, rolloutVars,
      trainerVars, bufferVars, BatcherPcs, Stopped
<1>1. ASSUME NEW g \in GroupIds, BatcherTakes(g) PROVE TypeOK'
  BY <1>1 DEF BatcherTakes, TakeFinalized, IsOldest
<1>2. ASSUME NEW g \in GroupIds, BatcherPacksTrainable(g) PROVE TypeOK'
  BY <1>2 DEF BatcherPacksTrainable
<1>3. ASSUME NEW g \in GroupIds, BatcherDropsUntrainable(g) PROVE TypeOK'
  <2> HIDE DEF TypeOK, SyncTypeOK
  <2>1. CASE CanRelease(1)
    <3>1. ReleaseActiveGroups(1)
      BY <1>3, <2>1 DEF BatcherDropsUntrainable
    <3>2. active' \in 0..MaxActive /\ peak' \in active'..MaxActive
      BY <3>1, ReleaseTypes DEF TypeOK
    <3>3. QED
      BY <1>3, <2>1, <3>1, <3>2
      DEF BatcherDropsUntrainable, ReleaseActiveGroups, TypeOK, SyncTypeOK
  <2>2. CASE ~CanRelease(1)
    BY <1>3, <2>2 DEF BatcherDropsUntrainable, TypeOK, SyncTypeOK
  <2>3. QED
    BY <2>1, <2>2
<1>4. CASE BatcherSeesClose
  BY <1>4 DEF BatcherSeesClose
<1>5. CASE BatcherFails
  BY <1>5 DEF BatcherFails
<1>6. CASE BatcherPuts
  <2>1. queue' \in Seq(SUBSET GroupIds) /\ Len(queue') <= 1
    BY <1>6 DEF BatcherPuts
  <2>2. QED
    BY <1>6, <2>1 DEF BatcherPuts, NoBatch
<1>7. CASE BatcherPutsNone
  BY <1>7 DEF BatcherPutsNone, NoBatch
<1>8. QED
  BY <1>1, <1>2, <1>3, <1>4, <1>5, <1>6, <1>7 DEF BatcherLoop

(* The trainer.                                                            *)
LEMMA TypeTrainer == TypeOK /\ TrainerLoop => TypeOK'
<1> SUFFICES ASSUME TypeOK, TrainerLoop PROVE TypeOK'
  OBVIOUS
<1> USE ConstantTypes DEF TypeOK, SyncTypeOK, syncVars, dataVars, rolloutVars,
      batcherVars, bufferVars, TrainerPcs, Stopped
<1>1. CASE TrainerGetsBatch
  BY <1>1 DEF TrainerGetsBatch
<1>2. CASE TrainerForwardBackward
  BY <1>2 DEF TrainerForwardBackward
<1>3. CASE TrainerDiverges
  BY <1>3 DEF TrainerDiverges
<1>4. CASE TrainerFails
  BY <1>4 DEF TrainerFails
<1>5. CASE TrainerOptimStep
  BY <1>5 DEF TrainerOptimStep, StepOptimizer, taskVars, genVars, NoBatch
<1>6. CASE TrainerStartsSync
  BY <1>6 DEF TrainerStartsSync, StartAsyncPushPull, FlushMetrics, genVars,
     PushStates, PullStates
<1>7. CASE TrainerSavesCheckpoint
  BY <1>7 DEF TrainerSavesCheckpoint
<1>8. CASE TrainerExits
  BY <1>8 DEF TrainerExits
<1>9. CASE TrainerMeetsSyncFailure
  BY <1>9 DEF TrainerMeetsSyncFailure
<1>10. QED
  BY <1>1, <1>2, <1>3, <1>4, <1>5, <1>6, <1>7, <1>8, <1>9 DEF TrainerLoop

(* The weight-sync tasks.                                                  *)
LEMMA TypeSync == TypeOK /\ WeightSyncTasks => TypeOK'
<1> SUFFICES ASSUME TypeOK, WeightSyncTasks PROVE TypeOK'
  OBVIOUS
<1> USE ConstantTypes DEF TypeOK, SyncTypeOK, loopVars, dataVars, rolloutVars,
      batcherVars, trainerVars, bufferVars, storeVars, taskVars, genVars,
      PushStates, PullStates, GenPullStates
<1>1. CASE SyncStep
  <2>1. CASE PushCompletes
    BY <1>1, <2>1 DEF SyncStep, PushCompletes
  <2>2. CASE PushFails
    BY <1>1, <2>2 DEF SyncStep, PushFails
  <2>3. CASE PullStarts
    BY <1>1, <2>3 DEF SyncStep, PullStarts
  <2>4. CASE PullAborts
    BY <1>1, <2>4 DEF SyncStep, PullAborts
  <2>5. ASSUME NEW gen \in Generators, GeneratorPulls(gen) PROVE TypeOK'
    BY <1>1, <2>5 DEF SyncStep, GeneratorPulls
  <2>6. ASSUME NEW gen \in Generators, GeneratorPullFails(gen) PROVE TypeOK'
    BY <1>1, <2>6 DEF SyncStep, GeneratorPullFails
  <2>7. QED
    BY <1>1, <2>1, <2>2, <2>3, <2>4, <2>5, <2>6 DEF SyncStep
<1>2. CASE PullReleasesSlots
  <2> HIDE DEF TypeOK, SyncTypeOK
  <2>1. CASE CanRelease(NumPromptsPerTrainStep)
    <3>1. ReleaseActiveGroups(NumPromptsPerTrainStep)
      BY <1>2, <2>1 DEF PullReleasesSlots
    <3>2. active' \in 0..MaxActive /\ peak' \in active'..MaxActive
      BY <3>1, ReleaseTypes DEF TypeOK
    <3>3. QED
      BY <1>2, <2>1, <3>1, <3>2
      DEF PullReleasesSlots, PullEnds, ReleaseActiveGroups, TypeOK, SyncTypeOK
  <2>2. CASE ~CanRelease(NumPromptsPerTrainStep)
    BY <1>2, <2>2 DEF PullReleasesSlots, PullEnds, TypeOK, SyncTypeOK
  <2>3. QED
    BY <2>1, <2>2
<1>3. QED
  BY <1>1, <1>2 DEF WeightSyncTasks

(* run().                                                                  *)
LEMMA TypeRun == TypeOK /\ Run => TypeOK'
<1> SUFFICES ASSUME TypeOK, Run PROVE TypeOK'
  OBVIOUS
<1> USE ConstantTypes DEF TypeOK, SyncTypeOK, syncVars, dataVars, rolloutVars,
      batcherVars, trainerVars, bufferVars, RunPcs
<1>1. CASE RunCloses
  BY <1>1 DEF RunCloses, Close
<1>2. CASE RunCancels
  BY <1>2 DEF RunCancels, AfterCancel, DataPcs, BatcherPcs, TrainerPcs, Stopped
<1>3. QED
  BY <1>1, <1>2 DEF Run

(* Every step preserves the types.                                         *)
LEMMA TypeStep == TypeOK /\ [Next]_vars => TypeOK'
<1>1. ASSUME TypeOK, UNCHANGED vars PROVE TypeOK'
  BY <1>1 DEF TypeOK, SyncTypeOK, vars, bufferVars, syncVars, dataVars,
     rolloutVars, batcherVars, trainerVars
<1>2. QED
  BY <1>1, TypeDataInput, TypeRollout, TypeBatcher, TypeTrainer, TypeSync,
     TypeRun DEF Next, Terminated

(* The initial state is well typed.                                        *)
LEMMA TypeInit == Init => TypeOK
<1> SUFFICES ASSUME Init PROVE TypeOK
  OBVIOUS
<1>1. SyncTypeOK
  BY ConstantTypes DEF Init, SyncInit, SyncTypeOK, PushStates, PullStates,
     GenPullStates
<1>2. active \in 0..MaxActive /\ peak \in active..MaxActive
  BY ConstantTypes DEF Init, BufferInit
<1>3. version \in [GroupIds -> Nat \union {NoVersion}]
  BY DEF Init
<1>4. queue \in Seq(SUBSET GroupIds) /\ Len(queue) <= 1
  BY DEF Init
<1>5. /\ waiting = {} /\ inflight = {} /\ finalized = {} /\ running = {}
      /\ held = {} /\ accum = {} /\ batch = {} /\ dropped = {}
      /\ training = {} /\ nextGroup = 0 /\ step = StartStep + 1
  BY DEF Init, BufferInit, NoBatch
<1>6. /\ closed \in BOOLEAN
      /\ dataPc \in DataPcs
      /\ batcherPc \in BatcherPcs
      /\ trainerPc \in TrainerPcs
      /\ runPc \in RunPcs
  BY DEF Init, BufferInit, DataPcs, BatcherPcs, TrainerPcs, RunPcs
<1>7. QED
  BY <1>1, <1>2, <1>3, <1>4, <1>5, <1>6, ConstantTypes DEF TypeOK

(* Type correctness of the loop: among others the active slots never       *)
(* exceed the budget and the batch queue never holds two batches.          *)
THEOREM TypeCorrect == Spec => []TypeOK
BY TypeInit, TypeStep, PTL DEF Spec

-------------------------------------------------------------------------------
(* What each task leaves alone.                                            *)

(* The data input adds one fresh WAITING entry, or touches no entry.       *)
LEMMA DataInputFrame ==
  ASSUME DataInputLoop
  PROVE  /\ UNCHANGED <<syncVars, rolloutVars, batcherVars, queue, trainerVars>>
         /\ UNCHANGED <<inflight, finalized, closed>>
         /\ \/ UNCHANGED <<active, waiting, nextGroup>>
            \/ /\ active < MaxActive
               /\ active' = active + 1
               /\ nextGroup \in GroupIds
               /\ nextGroup' = nextGroup + 1
               /\ waiting' = waiting \union {nextGroup}
<1>1. CASE DataInputWaits
  BY <1>1 DEF DataInputWaits, WaitForSlot, bufferVars
<1>2. CASE DataInputAdds
  <2>1. CASE HasActiveSlot
    BY <1>2, <2>1 DEF DataInputAdds, AddWork, HasActiveSlot
  <2>2. CASE ~HasActiveSlot
    BY <1>2, <2>2 DEF DataInputAdds, bufferVars
  <2>3. QED
    BY <2>1, <2>2
<1>3. CASE DataInputFails
  BY <1>3 DEF DataInputFails, bufferVars
<1>4. QED
  BY <1>1, <1>2, <1>3 DEF DataInputLoop

(* A rollout worker claims, samples or finalizes one group.                *)
LEMMA RolloutFrame ==
  ASSUME RolloutLoop
  PROVE  /\ UNCHANGED <<active, closed, syncVars, dataVars, batcherVars, queue,
                        trainerVars>>
         /\ \E g \in GroupIds :
              \/ /\ g \in waiting
                 /\ waiting' = waiting \ {g}
                 /\ inflight' = inflight \union {g}
                 /\ running' = running \union {g}
                 /\ UNCHANGED <<finalized, version>>
              \/ /\ g \in running
                 /\ \E gen \in Generators :
                      version' = [version EXCEPT ![g] = genVersion[gen]]
                 /\ UNCHANGED <<waiting, inflight, finalized, running>>
              \/ /\ g \in running
                 /\ running' = running \ {g}
                 /\ \/ UNCHANGED version
                    \/ version' = [version EXCEPT ![g] = NoVersion]
                 /\ \/ /\ g \in Buffered
                       /\ waiting' = waiting \ {g}
                       /\ inflight' = inflight \ {g}
                       /\ finalized' = finalized \union {g}
                    \/ g \notin Buffered /\ UNCHANGED entries
<1> SUFFICES ASSUME NEW g \in GroupIds,
                    \/ RolloutClaims(g)
                    \/ \E gen \in Generators : RolloutSamples(g, gen)
                    \/ RolloutFinishes(g)
                    \/ RolloutFails(g)
             PROVE  /\ UNCHANGED <<active, closed, syncVars, dataVars,
                                   batcherVars, queue, trainerVars>>
                    /\ \/ /\ g \in waiting
                          /\ waiting' = waiting \ {g}
                          /\ inflight' = inflight \union {g}
                          /\ running' = running \union {g}
                          /\ UNCHANGED <<finalized, version>>
                       \/ /\ g \in running
                          /\ \E gen \in Generators :
                               version' = [version EXCEPT ![g] = genVersion[gen]]
                          /\ UNCHANGED <<waiting, inflight, finalized, running>>
                       \/ /\ g \in running
                          /\ running' = running \ {g}
                          /\ \/ UNCHANGED version
                             \/ version' = [version EXCEPT ![g] = NoVersion]
                          /\ \/ /\ g \in Buffered
                                /\ waiting' = waiting \ {g}
                                /\ inflight' = inflight \ {g}
                                /\ finalized' = finalized \union {g}
                             \/ g \notin Buffered /\ UNCHANGED entries
  BY DEF RolloutLoop
<1>1. CASE RolloutClaims(g)
  BY <1>1 DEF RolloutClaims, ClaimNext, IsOldest
<1>2. CASE \E gen \in Generators : RolloutSamples(g, gen)
  BY <1>2 DEF RolloutSamples, bufferVars
<1>3. CASE RolloutFinishes(g)
  <2>1. CASE g \in Buffered
    BY <1>3, <2>1 DEF RolloutFinishes, FinalizeWork
  <2>2. CASE g \notin Buffered
    BY <1>3, <2>2 DEF RolloutFinishes, FinalizeWork, bufferVars, entries
  <2>3. QED
    BY <2>1, <2>2
<1>4. CASE RolloutFails(g)
  <2>1. CASE g \in Buffered
    BY <1>4, <2>1 DEF RolloutFails, FinalizeWork
  <2>2. CASE g \notin Buffered
    BY <1>4, <2>2 DEF RolloutFails, FinalizeWork, bufferVars, entries
  <2>3. QED
    BY <2>1, <2>2
<1>5. QED
  BY <1>1, <1>2, <1>3, <1>4

(* The batcher leaves the trainer and the rollout workers alone.           *)
LEMMA BatcherFrame ==
  ASSUME BatcherLoop
  PROVE  UNCHANGED <<closed, waiting, inflight, syncVars, dataVars, rolloutVars,
                     trainerVars>>
<1>1. ASSUME NEW g \in GroupIds,
             BatcherTakes(g) \/ BatcherPacksTrainable(g)
      PROVE  UNCHANGED <<closed, waiting, inflight, syncVars, dataVars,
                         rolloutVars, trainerVars>>
  BY <1>1 DEF BatcherTakes, TakeFinalized, BatcherPacksTrainable, bufferVars
<1>2. ASSUME NEW g \in GroupIds, BatcherDropsUntrainable(g)
      PROVE  UNCHANGED <<closed, waiting, inflight, syncVars, dataVars,
                         rolloutVars, trainerVars>>
  BY <1>2 DEF BatcherDropsUntrainable, ReleaseActiveGroups, bufferVars
<1>3. CASE BatcherSeesClose \/ BatcherFails \/ BatcherPuts \/ BatcherPutsNone
  BY <1>3 DEF BatcherSeesClose, BatcherFails, BatcherPuts, BatcherPutsNone,
     bufferVars
<1>4. QED
  BY <1>1, <1>2, <1>3 DEF BatcherLoop

(* The trainer touches no group that is not queued.                        *)
LEMMA TrainerFrame ==
  ASSUME TrainerLoop
  PROVE  UNCHANGED <<active, closed, entries, dataVars, rolloutVars, batcherVars>>
BY DEF TrainerLoop, TrainerGetsBatch, TrainerForwardBackward, TrainerDiverges,
  TrainerFails, TrainerOptimStep, TrainerStartsSync, TrainerSavesCheckpoint,
  TrainerExits, TrainerMeetsSyncFailure, FlushMetrics, bufferVars, entries

(* The weight-sync tasks move no group.                                    *)
LEMMA SyncFrame ==
  ASSUME WeightSyncTasks
  PROVE  /\ UNCHANGED <<closed, entries, dataVars, rolloutVars, batcherVars,
                        queue, trainerVars, policyVersion, syncVersion>>
<1>1. CASE SyncStep
  BY <1>1 DEF SyncStep, PushCompletes, PushFails, PullStarts, PullAborts,
     GeneratorPulls, GeneratorPullFails, loopVars, storeVars, bufferVars,
     entries
<1>2. CASE PullReleasesSlots
  BY <1>2 DEF PullReleasesSlots, PullEnds, ReleaseActiveGroups, loopVars,
     storeVars, bufferVars, entries
<1>3. QED
  BY <1>1, <1>2 DEF WeightSyncTasks

(* run() only closes the buffer, then stops the tasks.                     *)
LEMMA RunFrame ==
  ASSUME Run
  PROVE  /\ UNCHANGED <<active, syncVars, nextGroup, version, held, accum,
                        batch, dropped, queue, training>>
         /\ \/ /\ closed' = TRUE
               /\ waiting' = {} /\ inflight' = {} /\ finalized' = {}
               /\ UNCHANGED <<running, batcherPc, trainerPc>>
            \/ /\ running' = {}
               /\ UNCHANGED <<entries, closed>>
               /\ batcherPc' \in {"exited", "crashed", "cancelled"}
               /\ trainerPc' \in {"exited", "crashed", "cancelled"}
               /\ batcherPc = "crashed" => batcherPc' = "crashed"
BY DEF Run, RunCloses, RunCancels, Close, AfterCancel, dataVars, rolloutVars,
  batcherVars, trainerVars, bufferVars, entries

-------------------------------------------------------------------------------
(* Program counters.                                                       *)

(* The program counters tell which of held, batch and training are empty.  *)
LEMMA PcStep ==
  ASSUME AgeInv, [Next]_vars
  PROVE  PcInv'
<1> USE DEF PcInv, NoBatch
<1>0. PcInv /\ TypeOK
  BY DEF AgeInv
<1>1. CASE DataInputLoop
  BY <1>0, <1>1, DataInputFrame DEF batcherVars, trainerVars
<1>2. CASE RolloutLoop
  BY <1>0, <1>2, RolloutFrame DEF batcherVars, trainerVars
<1>3. CASE BatcherLoop
  <2>1. ASSUME NEW g \in GroupIds, BatcherTakes(g) PROVE PcInv'
    BY <1>0, <2>1 DEF BatcherTakes, trainerVars
  <2>2. ASSUME NEW g \in GroupIds, BatcherPacksTrainable(g) PROVE PcInv'
    BY <1>0, <2>2 DEF BatcherPacksTrainable, trainerVars
  <2>3. ASSUME NEW g \in GroupIds, BatcherDropsUntrainable(g) PROVE PcInv'
    BY <1>0, <2>3 DEF BatcherDropsUntrainable, trainerVars
  <2>4. CASE BatcherSeesClose
    BY <1>0, <2>4 DEF BatcherSeesClose, trainerVars
  <2>5. CASE BatcherFails
    BY <1>0, <2>5 DEF BatcherFails, trainerVars
  <2>6. CASE BatcherPuts
    BY <1>0, <2>6 DEF BatcherPuts, trainerVars
  <2>7. CASE BatcherPutsNone
    BY <1>0, <2>7 DEF BatcherPutsNone, trainerVars
  <2>8. QED
    BY <1>3, <2>1, <2>2, <2>3, <2>4, <2>5, <2>6, <2>7 DEF BatcherLoop
<1>4. CASE TrainerLoop
  BY <1>0, <1>4 DEF TrainerLoop, TrainerGetsBatch, TrainerForwardBackward,
     TrainerDiverges, TrainerFails, TrainerOptimStep, TrainerStartsSync,
     TrainerSavesCheckpoint, TrainerExits, TrainerMeetsSyncFailure, batcherVars
<1>5. CASE WeightSyncTasks
  BY <1>0, <1>5, SyncFrame DEF batcherVars, trainerVars
<1>6. CASE Run
  BY <1>0, <1>6, RunFrame
<1>7. CASE UNCHANGED vars
  BY <1>0, <1>7 DEF vars, batcherVars, trainerVars
<1>8. QED
  BY <1>1, <1>2, <1>3, <1>4, <1>5, <1>6, <1>7 DEF Next, Terminated

(* The trainer runs at most one version ahead of the last started sync.    *)
LEMMA SyncedVersionStep ==
  ASSUME AgeInv, [Next]_vars
  PROVE  SyncedVersionInv'
<1> USE ConstantTypes DEF SyncedVersionInv
<1>0. SyncedVersionInv /\ policyVersion \in Nat /\ syncVersion \in Nat
  BY DEF AgeInv, TypeOK, SyncTypeOK
<1>1. CASE DataInputLoop
  BY <1>0, <1>1, DataInputFrame DEF syncVars, trainerVars
<1>2. CASE RolloutLoop
  BY <1>0, <1>2, RolloutFrame DEF syncVars, trainerVars
<1>3. CASE BatcherLoop
  BY <1>0, <1>3, BatcherFrame DEF syncVars, trainerVars
<1>4. CASE TrainerLoop
  <2>1. CASE TrainerOptimStep
    BY <1>0, <2>1 DEF TrainerOptimStep, StepOptimizer
  <2>2. CASE TrainerStartsSync
    BY <1>0, <2>2 DEF TrainerStartsSync, StartAsyncPushPull
  <2>3. CASE TrainerGetsBatch
    BY <1>0, <2>3 DEF TrainerGetsBatch, syncVars
  <2>4. CASE TrainerSavesCheckpoint
    BY <1>0, <2>4 DEF TrainerSavesCheckpoint, syncVars
  <2>5. CASE \/ TrainerForwardBackward \/ TrainerDiverges \/ TrainerFails
             \/ TrainerExits \/ TrainerMeetsSyncFailure
    BY <1>0, <2>5 DEF TrainerForwardBackward, TrainerDiverges, TrainerFails,
       TrainerExits, TrainerMeetsSyncFailure, syncVars
  <2>6. QED
    BY <1>4, <2>1, <2>2, <2>3, <2>4, <2>5 DEF TrainerLoop
<1>5. CASE WeightSyncTasks
  BY <1>0, <1>5, SyncFrame DEF trainerVars
<1>6. CASE Run
  BY <1>0, <1>6, RunFrame DEF syncVars
<1>7. CASE UNCHANGED vars
  BY <1>0, <1>7 DEF vars, syncVars, trainerVars
<1>8. QED
  BY <1>1, <1>2, <1>3, <1>4, <1>5, <1>6, <1>7 DEF Next, Terminated

(* The number of steps whose slots came back is a natural number, and only *)
(* the end of a pull adds one.                                             *)
LEMMA ReleasedTypes ==
  ASSUME AgeInv
  PROVE  Released \in Int
BY ConstantTypes DEF AgeInv, TypeOK, SyncTypeOK, Released

(* The integers of the loop's state.                                       *)
LEMMA LoopTypes ==
  ASSUME AgeInv
  PROVE  /\ active \in Int /\ nextGroup \in Nat /\ policyVersion \in Nat
         /\ version \in [GroupIds -> Nat \union {NoVersion}]
         /\ genVersion \in [Generators -> Nat]
<1>1. active \in 0..MaxActive
  BY DEF AgeInv, TypeOK
<1>2. QED
  BY <1>1 DEF AgeInv, TypeOK, SyncTypeOK

(* Starting a sync releases nothing.                                       *)
LEMMA StartKeepsReleased ==
  ASSUME AgeInv, TrainerStartsSync
  PROVE  Released' = Released
<1>1. /\ policyVersion = syncVersion + 1
      /\ pull = "done"
      /\ syncVersion' = policyVersion
      /\ pull' = "awaiting_push"
  BY DEF AgeInv, SyncedVersionInv, TrainerStartsSync, StartAsyncPushPull,
     PrevPullDone
<1>2. QED
  BY <1>1, ConstantTypes DEF Released, AgeInv, TypeOK, SyncTypeOK

(* No step of the trainer releases anything.                               *)
LEMMA TrainerKeepsReleased ==
  ASSUME AgeInv, TrainerLoop
  PROVE  Released' = Released
<1>1. CASE TrainerStartsSync
  BY <1>1, StartKeepsReleased
<1>2. CASE TrainerOptimStep
  BY <1>2 DEF TrainerOptimStep, StepOptimizer, taskVars, Released
<1>3. CASE ~TrainerOptimStep /\ ~TrainerStartsSync
  <2>1. UNCHANGED syncVars
    BY <1>3 DEF TrainerLoop, TrainerGetsBatch, TrainerForwardBackward,
       TrainerDiverges, TrainerFails, TrainerSavesCheckpoint, TrainerExits,
       TrainerMeetsSyncFailure
  <2>2. QED
    BY <2>1 DEF syncVars, Released
<1>4. QED
  BY <1>1, <1>2, <1>3

(* A pull task's end with every generator done releases one step.          *)
LEMMA PullReleasesEffect ==
  ASSUME AgeInv, PullReleasesSlots
  PROVE  /\ pull = "running"
         /\ \A gen \in Generators : genPull[gen] = "idle"
         /\ UNCHANGED <<loopVars, storeVars, genVars, entries, closed>>
         /\ \/ /\ Released' = Released + 1
               /\ active' = active - NumPromptsPerTrainStep
            \/ Released' = Released /\ pull' = "failed" /\ active' = active
<1>1. CASE CanRelease(NumPromptsPerTrainStep)
  <2>1. pull = "running" /\ pull' = "done" /\ syncVersion' = syncVersion
    BY <1>1 DEF PullReleasesSlots, PullEnds, AllGeneratorsPulled, storeVars
  <2>2. Released' = Released + 1
    BY <2>1, ConstantTypes DEF Released, AgeInv, TypeOK, SyncTypeOK
  <2>3. QED
    BY <1>1, <2>1, <2>2 DEF PullReleasesSlots, PullEnds, AllGeneratorsPulled,
       ReleaseActiveGroups, entries
<1>2. CASE ~CanRelease(NumPromptsPerTrainStep)
  <2>1. pull = "running" /\ pull' = "failed" /\ syncVersion' = syncVersion
    BY <1>2 DEF PullReleasesSlots, PullEnds, AllGeneratorsPulled, storeVars
  <2>2. Released' = Released
    BY <2>1 DEF Released
  <2>3. QED
    BY <1>2, <2>1, <2>2 DEF PullReleasesSlots, PullEnds, AllGeneratorsPulled,
       bufferVars, entries
<1>3. QED
  BY <1>1, <1>2

(* The other weight-sync steps release nothing.                            *)
LEMMA SyncStepEffect ==
  ASSUME AgeInv, SyncStep
  PROVE  Released' = Released /\ active' = active
<1>1. UNCHANGED <<syncVersion, bufferVars>> /\ (pull' = "done" <=> pull = "done")
  <2>1. CASE PushCompletes \/ PushFails
    BY <2>1 DEF SyncStep, PushCompletes, PushFails, storeVars
  <2>2. CASE PullStarts \/ PullAborts
    BY <2>2 DEF SyncStep, PullStarts, PullAborts, storeVars
  <2>3. ASSUME NEW gen \in Generators, GeneratorPulls(gen)
        PROVE  UNCHANGED syncVersion /\ UNCHANGED pull
    BY <2>3 DEF GeneratorPulls, storeVars, taskVars
  <2>4. ASSUME NEW gen \in Generators, GeneratorPullFails(gen)
        PROVE  UNCHANGED syncVersion /\ pull' = "failed" /\ pull # "done"
    BY <2>4 DEF GeneratorPullFails, storeVars, AgeInv, BornFreshInv
  <2>5. QED
    BY <2>1, <2>2, <2>3, <2>4 DEF SyncStep
<1>2. QED
  BY <1>1 DEF Released, bufferVars

(* Generators are never behind the steps whose slots came back.            *)
LEMMA BornFreshStep ==
  ASSUME AgeInv, [Next]_vars
  PROVE  BornFreshInv'
<1>0. /\ BornFreshInv /\ SyncedVersionInv
      /\ syncVersion \in Nat /\ Released \in Int
      /\ genVersion \in [Generators -> Nat]
      /\ genPull \in [Generators -> GenPullStates]
  BY ReleasedTypes DEF AgeInv, TypeOK, SyncTypeOK
<1>1. ASSUME UNCHANGED syncVars PROVE BornFreshInv'
  BY <1>0, <1>1 DEF BornFreshInv, Released, syncVars
<1>2. CASE DataInputLoop
  BY <1>1, <1>2, DataInputFrame
<1>3. CASE RolloutLoop
  BY <1>1, <1>3, RolloutFrame
<1>4. CASE BatcherLoop
  BY <1>1, <1>4, BatcherFrame
<1>5. CASE TrainerLoop
  <2>1. CASE TrainerOptimStep
    BY <1>0, <2>1 DEF TrainerOptimStep, StepOptimizer, taskVars, genVars,
       BornFreshInv, Released
  <2>2. CASE TrainerStartsSync
    <3>1. /\ Released' = Released
          /\ pull = "done" /\ pull' = "awaiting_push"
          /\ UNCHANGED genVars
      BY <2>2, StartKeepsReleased DEF TrainerStartsSync, StartAsyncPushPull,
         PrevPullDone
    <3>2. QED
      BY <1>0, <3>1 DEF BornFreshInv, genVars
  <2>3. CASE ~TrainerOptimStep /\ ~TrainerStartsSync
    <3>1. UNCHANGED syncVars
      BY <1>5, <2>3 DEF TrainerLoop, TrainerGetsBatch, TrainerForwardBackward,
         TrainerDiverges, TrainerFails, TrainerSavesCheckpoint, TrainerExits,
         TrainerMeetsSyncFailure
    <3>2. QED
      BY <1>1, <3>1
  <2>4. QED
    BY <2>1, <2>2, <2>3
<1>6. CASE SyncStep
  <2> USE SyncStepEffect, <1>0, <1>6 DEF BornFreshInv
  <2>1. CASE PushCompletes \/ PushFails
    BY <2>1 DEF PushCompletes, PushFails, genVars, storeVars
  <2>2. CASE PullStarts
    BY <2>2 DEF PullStarts, storeVars
  <2>3. CASE PullAborts
    BY <2>3 DEF PullAborts, storeVars, genVars
  <2>4. ASSUME NEW gen \in Generators, GeneratorPulls(gen) PROVE BornFreshInv'
    <3>1. syncVersion >= StartStep + Released
      BY ConstantTypes DEF Released
    <3>2. QED
      BY <2>4, <3>1 DEF GeneratorPulls, storeVars, taskVars
  <2>5. ASSUME NEW gen \in Generators, GeneratorPullFails(gen)
        PROVE  BornFreshInv'
    BY <2>5 DEF GeneratorPullFails, storeVars
  <2>6. QED
    BY <2>1, <2>2, <2>3, <2>4, <2>5 DEF SyncStep
<1>7. CASE PullReleasesSlots
  <2>1. /\ pull = "running"
        /\ \A gen \in Generators : genPull[gen] = "idle"
        /\ UNCHANGED <<syncVersion, genPull, genVersion>>
        /\ Released' <= Released + 1
    BY <1>0, <1>7, PullReleasesEffect DEF storeVars, genVars
  <2>2. Released = syncVersion - StartStep - 1
    BY <2>1 DEF Released
  <2>3. \A gen \in Generators : genVersion[gen] >= syncVersion
    BY <1>0, <2>1 DEF BornFreshInv
  <2>4. Released' \in Int
    BY <1>0, <1>7, PullReleasesEffect
  <2>5. QED
    BY <1>0, <2>1, <2>2, <2>3, <2>4, ConstantTypes DEF BornFreshInv
<1>8. CASE Run
  BY <1>1, <1>8, RunFrame
<1>9. CASE UNCHANGED vars
  BY <1>1, <1>9 DEF vars
<1>10. QED
  BY <1>2, <1>3, <1>4, <1>5, <1>6, <1>7, <1>8, <1>9
  DEF Next, Terminated, WeightSyncTasks

-------------------------------------------------------------------------------
(* Arithmetic.                                                             *)

(* Multiplication by a natural number is monotonic.                        *)
LEMMA MulMono ==
  ASSUME NEW p \in Nat, NEW a \in Int, NEW b \in Int, a <= b
  PROVE  p * a <= p * b
OBVIOUS

(* One more batch is P more groups.                                        *)
LEMMA MulSucc ==
  ASSUME NEW p \in Nat, NEW a \in Int
  PROVE  p * (a + 1) = p * a + p
OBVIOUS

(* Multiplication distributes over a difference of versions.               *)
LEMMA MulSub ==
  ASSUME NEW p \in Nat, NEW a \in Int, NEW b \in Int
  PROVE  p * (a - b) = p * a - p * b
OBVIOUS

(* Floor division: how max_offpolicy_steps follows from a bound on groups. *)
LEMMA DivBound ==
  ASSUME NEW p \in Nat, p >= 1, NEW x \in Int, NEW m \in Int, p * x <= m
  PROVE  x <= m \div p
<1>1. m \div p \in Int /\ m % p \in 0..(p-1) /\ m = p * (m \div p) + (m % p)
  OBVIOUS
<1>2. m < p * ((m \div p) + 1)
  BY <1>1
<1>3. SUFFICES ASSUME x >= (m \div p) + 1 PROVE FALSE
  BY <1>1
<1>4. p * ((m \div p) + 1) <= p * x
  BY <1>1, <1>3, MulMono
<1>5. p * x \in Int /\ p * ((m \div p) + 1) \in Int
  BY <1>1
<1>6. QED
  BY <1>2, <1>4, <1>5

-------------------------------------------------------------------------------
(* Finite sets of admitted groups.                                         *)

(* Whatever is admitted is finite.                                         *)
LEMMA AdmittedFinite ==
  ASSUME nextGroup \in Nat
  PROVE  \A S : S \subseteq Admitted => IsFiniteSet(S) /\ Cardinality(S) \in Nat
<1>1. IsFiniteSet(Admitted)
  BY FS_Interval DEF Admitted
<1>2. QED
  BY <1>1, FS_Subset, FS_CardinalityType

(* The sets the counting invariants count are finite.                      *)
LEMMA FiniteParts ==
  ASSUME AgeInv
  PROVE  /\ nextGroup \in Nat
         /\ IsFiniteSet(dropped) /\ Cardinality(dropped) \in Nat
         /\ IsFiniteSet(accum) /\ Cardinality(accum) \in Nat
         /\ IsFiniteSet(Removed) /\ Cardinality(Removed) \in Nat
         /\ \A g : /\ IsFiniteSet({d \in dropped : d < g})
                   /\ DroppedBefore(g) \in Nat
                   /\ DroppedBefore(g) <= Cardinality(dropped)
<1>1. nextGroup \in Nat
  BY DEF AgeInv, TypeOK
<1>2. dropped \subseteq Admitted /\ accum \subseteq Admitted /\ Removed \subseteq Admitted
  BY DEF AgeInv, IdInv, Pending, Removed
<1>3. IsFiniteSet(dropped) /\ Cardinality(dropped) \in Nat
  BY <1>1, <1>2, AdmittedFinite
<1>4. ASSUME NEW g
      PROVE  /\ IsFiniteSet({d \in dropped : d < g})
             /\ DroppedBefore(g) \in Nat
             /\ DroppedBefore(g) <= Cardinality(dropped)
  <2>1. {d \in dropped : d < g} \in SUBSET dropped
    OBVIOUS
  <2>2. QED
    BY <1>3, <2>1, FS_Subset, FS_CardinalityType DEF DroppedBefore
<1>5. QED
  BY <1>1, <1>2, <1>3, <1>4, AdmittedFinite

(* Formed is a number.                                                     *)
LEMMA FormedType ==
  ASSUME AgeInv
  PROVE  Formed \in Int
BY LoopTypes, ConstantTypes DEF Formed

(* The number of groups in the batcher's hands.                            *)
LEMMA HeldCount ==
  ASSUME AgeInv
  PROVE  Cardinality(held) \in Nat
<1>1. held \subseteq Admitted /\ nextGroup \in Nat
  BY LoopTypes DEF AgeInv, IdInv, Pending
<1>2. QED
  BY <1>1, AdmittedFinite

(* What is accounted for is a number.                                      *)
LEMMA AccountedType ==
  ASSUME AgeInv
  PROVE  Accounted \in Int
<1>1. NumPromptsPerTrainStep * Formed \in Int
  <2>1. \A p \in Nat, f \in Int : p * f \in Int
    OBVIOUS
  <2>2. QED
    BY <2>1, FormedType, ConstantTypes
<1>2. QED
  BY <1>1, HeldCount, FiniteParts DEF Accounted

(* The slots of what left the buffer and was neither trained nor dropped   *)
(* are charged: all that is accounted for, less what came back.            *)
LEMMA SlotsCharged ==
  ASSUME AgeInv
  PROVE  /\ IsFiniteSet(Buffered) /\ Cardinality(Buffered) \in Nat
         /\ nextGroup = Cardinality(Buffered) + Cardinality(Removed)
         /\ NumPromptsPerTrainStep * (Formed - Released)
              = NumPromptsPerTrainStep * Formed - NumPromptsPerTrainStep * Released
         /\ Cardinality(Buffered) + NumPromptsPerTrainStep * (Formed - Released)
              + Cardinality(accum) + Cardinality(held) <= active
         /\ ~closed =>
              active = Cardinality(Buffered) + NumPromptsPerTrainStep * (Formed - Released)
                       + Cardinality(accum) + Cardinality(held)
<1> DEFINE P == NumPromptsPerTrainStep
<1>1. /\ nextGroup \in Nat /\ Buffered \subseteq Admitted /\ IsFiniteSet(Admitted)
      /\ Cardinality(Admitted) = nextGroup
  <2>1. nextGroup \in Nat
    BY LoopTypes
  <2>2. IsFiniteSet(0..(nextGroup - 1)) /\ Cardinality(0..(nextGroup - 1)) = nextGroup
    <3>1. CASE nextGroup = 0
      BY <3>1, FS_Interval
    <3>2. CASE nextGroup > 0
      <4>1. 0 \in Int /\ nextGroup - 1 \in Int /\ ~(0 > nextGroup - 1)
        BY <2>1, <3>2
      <4>2. Cardinality(0..(nextGroup - 1)) = (nextGroup - 1) - 0 + 1
        BY <4>1, FS_Interval
      <4>3. QED
        BY <2>1, <4>1, <4>2, FS_Interval
    <3>3. QED
      BY <2>1, <3>1, <3>2
  <2>3. QED
    BY <2>1, <2>2 DEF AgeInv, IdInv, Admitted
<1>2. IsFiniteSet(Buffered) /\ Cardinality(Buffered) \in Nat
  BY <1>1, FS_Subset, FS_CardinalityType
<1>3. nextGroup = Cardinality(Buffered) + Cardinality(Removed)
  <2>1. Cardinality(Admitted \ Buffered) = Cardinality(Admitted) - Cardinality(Admitted \intersect Buffered)
    BY <1>1, <1>2, FS_Difference
  <2>2. Admitted \intersect Buffered = Buffered
    BY <1>1
  <2>3. QED
    BY <1>1, <1>2, <2>1, <2>2 DEF Removed
<1>4. /\ P \in Nat /\ Formed \in Int /\ Released \in Int /\ active \in Int
      /\ Cardinality(dropped) \in Nat /\ Cardinality(accum) \in Nat
      /\ Cardinality(Removed) \in Nat
  BY ConstantTypes, FormedType, ReleasedTypes, LoopTypes, FiniteParts
<1>5. P * (Formed - Released) = P * Formed - P * Released
  BY <1>4, MulSub
<1>6. P * Formed \in Int /\ P * Released \in Int
  BY <1>4
<1>7. active = nextGroup - P * Released - Cardinality(dropped)
  BY DEF AgeInv, SlotInv
<1>8. /\ P * Formed + Cardinality(accum) + Cardinality(dropped) + Cardinality(held)
           <= Cardinality(Removed)
      /\ ~closed => P * Formed + Cardinality(accum) + Cardinality(dropped) + Cardinality(held)
                       = Cardinality(Removed)
  BY DEF AgeInv, CountInv, Accounted
<1>9. Cardinality(held) \in Int
  BY HeldCount
<1>10. QED
  BY <1>2, <1>3, <1>4, <1>5, <1>6, <1>7, <1>8, <1>9

(* More batches were formed than came back.                                *)
LEMMA FormedReleased ==
  ASSUME AgeInv
  PROVE  /\ Formed >= policyVersion - StartStep /\ Formed >= Released
         /\ NumPromptsPerTrainStep * (Formed - Released) \in Nat
         /\ pull # "done" => NumPromptsPerTrainStep * (Formed - Released)
                               >= NumPromptsPerTrainStep
<1> DEFINE P == NumPromptsPerTrainStep
           ahead == Formed - Released
<1>1. /\ P \in Nat /\ Formed \in Int /\ Released \in Int /\ StartStep \in Nat
      /\ policyVersion \in Nat /\ syncVersion \in Nat
  BY ConstantTypes, FormedType, ReleasedTypes DEF AgeInv, TypeOK, SyncTypeOK
<1>2. Formed >= policyVersion - StartStep
  BY <1>1 DEF Formed
<1>3. policyVersion >= syncVersion
  BY <1>1 DEF AgeInv, SyncedVersionInv
<1>4. ahead \in Nat /\ (pull # "done" => ahead >= 1)
  BY <1>1, <1>2, <1>3 DEF Released
<1> HIDE DEF ahead
<1>5. P * ahead \in Nat /\ (pull # "done" => P * 1 <= P * ahead)
  BY <1>1, <1>4, MulMono
<1>6. QED
  BY <1>1, <1>2, <1>4, <1>5 DEF ahead

(* A drop adds one group to the dropped ones and finds its slot charged.   *)
LEMMA DropEffect ==
  ASSUME AgeInv, NEW g \in GroupIds, BatcherDropsUntrainable(g)
  PROVE  /\ held = {g} /\ held' = {}
         /\ UNCHANGED <<accum, batch, queue, entries>>
         /\ active' = active - 1
         /\ dropped' = dropped \union {g}
         /\ Cardinality(dropped') = Cardinality(dropped) + 1
         /\ batcherPc' = "take"
<1>1. held = {g} /\ g \notin dropped
  BY DEF AgeInv, PcInv, IdInv, BatcherDropsUntrainable
<1>2. Cardinality(dropped \union {g}) = Cardinality(dropped) + 1
  BY <1>1, FiniteParts, FS_AddElement
<1>3. CanRelease(1)
  <2>1. Cardinality(held) = 1
    BY <1>1, FS_Singleton
  <2>2. 1 <= active
    BY <2>1, SlotsCharged, FormedReleased, FiniteParts, LoopTypes
  <2>3. QED
    BY <2>2 DEF CanRelease
<1>4. QED
  BY <1>1, <1>2, <1>3 DEF BatcherDropsUntrainable, ReleaseActiveGroups, entries

(* A pull that every generator finished finds the slots of its step.       *)
LEMMA SlotsToRelease ==
  ASSUME AgeInv, pull # "done"
  PROVE  CanRelease(NumPromptsPerTrainStep)
<1>1. NumPromptsPerTrainStep <= active
  <2> DEFINE ahead == NumPromptsPerTrainStep * (Formed - Released)
  <2>1. /\ ahead \in Nat /\ ahead >= NumPromptsPerTrainStep
        /\ Cardinality(Buffered) + ahead + Cardinality(accum) + Cardinality(held) <= active
    BY SlotsCharged, FormedReleased
  <2>2. /\ Cardinality(Buffered) \in Nat /\ Cardinality(accum) \in Nat
        /\ Cardinality(held) \in Nat
    BY SlotsCharged, FiniteParts, HeldCount
  <2> HIDE DEF ahead
  <2>3. QED
    BY <2>1, <2>2, LoopTypes, ConstantTypes
<1>2. QED
  BY <1>1 DEF CanRelease

(* The other batcher steps charge, free and drop nothing.                  *)
LEMMA BatcherKeepsSlots ==
  ASSUME BatcherLoop, \A g \in GroupIds : ~BatcherDropsUntrainable(g)
  PROVE  UNCHANGED <<active, dropped>>
<1>1. ASSUME NEW g \in GroupIds,
             BatcherTakes(g) \/ BatcherPacksTrainable(g)
      PROVE  UNCHANGED <<active, dropped>>
  BY <1>1 DEF BatcherTakes, TakeFinalized, BatcherPacksTrainable, bufferVars
<1>2. CASE BatcherSeesClose \/ BatcherFails \/ BatcherPuts \/ BatcherPutsNone
  BY <1>2 DEF BatcherSeesClose, BatcherFails, BatcherPuts, BatcherPutsNone,
     bufferVars
<1>3. QED
  BY <1>1, <1>2 DEF BatcherLoop

(* The charged slots are the admitted groups not yet paid back.            *)
LEMMA SlotStep ==
  ASSUME AgeInv, [Next]_vars
  PROVE  SlotInv'
<1> USE DEF SlotInv
<1>0. /\ SlotInv
      /\ active \in Int /\ nextGroup \in Int /\ Released \in Int
      /\ Cardinality(dropped) \in Nat /\ NumPromptsPerTrainStep \in Nat
  <2>1. SlotInv
    BY DEF AgeInv
  <2>2. QED
    BY <2>1, ReleasedTypes, FiniteParts, LoopTypes, ConstantTypes
<1>1. ASSUME UNCHANGED <<active, nextGroup, dropped>>, Released' = Released
      PROVE  SlotInv'
  BY <1>0, <1>1
<1>2. ASSUME UNCHANGED syncVars PROVE Released' = Released
  BY <1>2 DEF syncVars, Released
<1>3. CASE DataInputLoop
  BY <1>0, <1>2, <1>3, DataInputFrame DEF batcherVars
<1>4. CASE RolloutLoop
  BY <1>1, <1>2, <1>4, RolloutFrame DEF dataVars, batcherVars
<1>5. CASE BatcherLoop
  <2>1. Released' = Released /\ nextGroup' = nextGroup
    BY <1>2, <1>5, BatcherFrame DEF dataVars
  <2>2. ASSUME NEW g \in GroupIds, BatcherDropsUntrainable(g) PROVE SlotInv'
    BY <1>0, <2>1, <2>2, DropEffect
  <2>3. CASE \A g \in GroupIds : ~BatcherDropsUntrainable(g)
    BY <1>1, <1>5, <2>1, <2>3, BatcherKeepsSlots
  <2>4. QED
    BY <2>2, <2>3
<1>6. CASE TrainerLoop
  <2>1. UNCHANGED <<active, nextGroup, dropped>>
    BY <1>6, TrainerFrame DEF dataVars, batcherVars
  <2>2. QED
    BY <1>1, <1>6, <2>1, TrainerKeepsReleased
<1>7. CASE WeightSyncTasks
  <2>1. nextGroup' = nextGroup /\ dropped' = dropped
    BY <1>7, SyncFrame DEF dataVars, batcherVars
  <2>2. CASE SyncStep
    BY <1>1, <2>1, <2>2, SyncStepEffect
  <2>3. CASE PullReleasesSlots
    BY <1>0, <1>1, <2>1, <2>3, PullReleasesEffect, MulSucc
  <2>4. QED
    BY <1>7, <2>2, <2>3 DEF WeightSyncTasks
<1>8. CASE Run
  BY <1>1, <1>2, <1>8, RunFrame
<1>9. CASE UNCHANGED vars
  BY <1>1, <1>2, <1>9 DEF vars, bufferVars, dataVars, batcherVars
<1>10. QED
  BY <1>3, <1>4, <1>5, <1>6, <1>7, <1>8, <1>9 DEF Next, Terminated

-------------------------------------------------------------------------------
(* What a step of the batcher or of the trainer does to the groups.        *)

(* take_finalized moves one FINALIZED group to the batcher.                *)
LEMMA TakeEffect ==
  ASSUME AgeInv, NEW g \in GroupIds, BatcherTakes(g)
  PROVE  /\ ~closed /\ batcherPc # "crashed"
         /\ g \in finalized /\ g \notin waiting \union inflight
         /\ InWindow(g)
         /\ finalized' = finalized \ {g}
         /\ held = {} /\ held' = {g} /\ batch = {}
         /\ UNCHANGED <<accum, batch, dropped, queue>>
BY DEF BatcherTakes, TakeFinalized, IsOldest, AgeInv, PcInv, IdInv

(* Packing moves the held group to the forming batch, or completes it.     *)
LEMMA PackEffect ==
  ASSUME AgeInv, NEW g \in GroupIds, BatcherPacksTrainable(g)
  PROVE  /\ held = {g} /\ held' = {} /\ batch = {} /\ batcherPc # "crashed"
         /\ version[g] # NoVersion
         /\ UNCHANGED <<dropped, queue, entries>>
         /\ \/ /\ Cardinality(accum \union {g}) < NumPromptsPerTrainStep
               /\ accum' = accum \union {g}
               /\ batch' = {}
            \/ /\ ~(Cardinality(accum \union {g}) < NumPromptsPerTrainStep)
               /\ accum' = {}
               /\ batch' = accum \union {g}
<1>1. /\ held = {g} /\ batch = {} /\ held' = {} /\ batcherPc # "crashed"
      /\ version[g] # NoVersion
      /\ UNCHANGED <<dropped, queue, entries>>
  BY DEF BatcherPacksTrainable, AgeInv, PcInv, bufferVars, entries
<1>2. CASE Cardinality(accum \union {g}) < NumPromptsPerTrainStep
  BY <1>1, <1>2 DEF BatcherPacksTrainable
<1>3. CASE ~(Cardinality(accum \union {g}) < NumPromptsPerTrainStep)
  BY <1>1, <1>3 DEF BatcherPacksTrainable
<1>4. QED
  BY <1>2, <1>3

(* The training-batch queue holds one batch at most.                       *)
LEMMA QueueShape ==
  ASSUME AgeInv
  PROVE  /\ queue \in Seq(SUBSET GroupIds) /\ Len(queue) <= 1
         /\ queue # <<>> => Len(queue) = 1
         /\ Len(queue) < 1 => queue = <<>> /\ Queued = {}
<1>1. queue \in Seq(SUBSET GroupIds) /\ Len(queue) <= 1
  BY DEF AgeInv, TypeOK
<1>2. Len(queue) \in Nat
  BY <1>1, LenProperties
<1>3. queue # <<>> => Len(queue) # 0
  BY <1>1, EmptySeq
<1>4. \A n \in Nat : n <= 1 => n = 0 \/ n = 1
  OBVIOUS
<1>5. Len(queue) = 0 \/ Len(queue) = 1
  BY <1>1, <1>2, <1>4, Zenon
<1>6. ~(1 < 1)
  OBVIOUS
<1>7. QED
  BY <1>1, <1>3, <1>5, <1>6, Zenon DEF Queued

(* Putting a batch makes it the queued one.                                *)
LEMMA PutEffect ==
  ASSUME AgeInv, BatcherPuts
  PROVE  /\ Queued = {} /\ Queued' = batch
         /\ held = {} /\ batch # {} /\ batch' = {}
         /\ UNCHANGED <<held, accum, dropped, entries>>
<1>1. queue = <<>> /\ Queued = {} /\ queue' = Append(queue, batch)
  BY QueueShape DEF BatcherPuts
<1>2. queue' = <<batch>>
  BY <1>1
<1>3. Queued' = batch
  BY <1>2 DEF Queued
<1>4. QED
  BY <1>1, <1>3 DEF BatcherPuts, AgeInv, PcInv, NoBatch, bufferVars, entries

(* The rest of the batcher moves no group.                                 *)
LEMMA BatcherIdle ==
  ASSUME AgeInv, BatcherSeesClose \/ BatcherFails \/ BatcherPutsNone
  PROVE  /\ Queued' = Queued /\ batcherPc # "crashed"
         /\ UNCHANGED <<held, accum, batch, dropped, entries>>
<1>1. CASE BatcherSeesClose \/ BatcherFails
  BY <1>1 DEF BatcherSeesClose, BatcherFails, bufferVars, entries, Queued
<1>2. CASE BatcherPutsNone
  <2>1. queue = <<>> /\ Queued = {} /\ queue' = Append(queue, NoBatch)
    BY <1>2, QueueShape DEF BatcherPutsNone
  <2>2. queue' = <<NoBatch>>
    BY <2>1
  <2>3. Queued' = {}
    BY <2>2 DEF Queued, NoBatch
  <2>4. QED
    BY <1>2, <2>1, <2>3 DEF BatcherPutsNone, bufferVars, entries
<1>3. QED
  BY <1>1, <1>2

(* The trainer trains the queued batch; an optimizer step ends it.         *)
LEMMA TrainerEffect ==
  ASSUME AgeInv, TrainerLoop
  PROVE  /\ \/ Queued' = {} /\ training = {} /\ training' = Queued
               /\ policyVersion' = policyVersion
            \/ Queued' = Queued /\ training # {} /\ training' = {}
               /\ policyVersion' = policyVersion + 1
            \/ Queued' = Queued /\ UNCHANGED <<training, policyVersion>>
<1>1. CASE TrainerGetsBatch
  <2>1. Len(queue) = 1 /\ queue # <<>> /\ queue' = Tail(queue)
    BY <1>1, QueueShape DEF TrainerGetsBatch
  <2>2. queue' = <<>>
    <3>1. queue \in Seq(SUBSET GroupIds)
      BY QueueShape
    <3>2. Tail(queue) \in Seq(SUBSET GroupIds) /\ Len(Tail(queue)) = 0
      BY <2>1, <3>1
    <3>3. QED
      BY <2>1, <3>2, EmptySeq
  <2>3. Queued' = {} /\ Queued = Head(queue)
    BY <2>1, <2>2 DEF Queued
  <2>4. QED
    BY <1>1, <2>3 DEF TrainerGetsBatch, AgeInv, PcInv, syncVars
<1>2. CASE TrainerOptimStep
  BY <1>2 DEF TrainerOptimStep, StepOptimizer, AgeInv, PcInv, NoBatch, Queued
<1>3. CASE TrainerStartsSync
  BY <1>3 DEF TrainerStartsSync, StartAsyncPushPull, Queued
<1>4. CASE ~TrainerGetsBatch /\ ~TrainerOptimStep /\ ~TrainerStartsSync
  BY <1>4 DEF TrainerLoop, TrainerForwardBackward, TrainerDiverges, TrainerFails,
     TrainerSavesCheckpoint, TrainerExits, TrainerMeetsSyncFailure, syncVars,
     Queued
<1>5. QED
  BY <1>1, <1>2, <1>3, <1>4

-------------------------------------------------------------------------------
(* Where a group can be.                                                   *)

(* An admitted group is buffered, with the batcher, queued or dropped, and *)
(* in one of these places only.                                            *)
LEMMA IdStep ==
  ASSUME AgeInv, [Next]_vars
  PROVE  IdInv'
<1> USE DEF IdInv, Pending, Buffered, Admitted
<1>0. IdInv /\ nextGroup \in Nat
  BY LoopTypes DEF AgeInv
<1>1. ASSUME UNCHANGED <<entries, running, nextGroup, held, accum, batch, dropped>>,
             Queued' \subseteq Queued, training' \subseteq training \union Queued
      PROVE  IdInv'
  BY <1>0, <1>1 DEF entries
<1>2. CASE DataInputLoop
  <2>1. UNCHANGED <<inflight, finalized, running, held, accum, batch, dropped>>
        /\ Queued' = Queued /\ training' = training
    BY <1>2, DataInputFrame DEF rolloutVars, batcherVars, trainerVars, Queued
  <2>2. CASE UNCHANGED <<waiting, nextGroup>>
    BY <1>1, <2>1, <2>2 DEF entries
  <2>3. CASE nextGroup' = nextGroup + 1 /\ waiting' = waiting \union {nextGroup}
    <3>1. Admitted' = Admitted \union {nextGroup} /\ nextGroup \notin Admitted
      BY <1>0, <2>3
    <3>2. QED
      BY <1>0, <2>1, <2>3, <3>1
  <2>4. QED
    BY <1>2, <2>2, <2>3, DataInputFrame
<1>3. CASE RolloutLoop
  <2>1. UNCHANGED <<nextGroup, held, accum, batch, dropped, training>>
        /\ Queued' = Queued
    BY <1>3, RolloutFrame DEF dataVars, batcherVars, trainerVars, Queued
  <2>2. QED
    BY <1>0, <1>3, <2>1, RolloutFrame DEF entries
<1>4. CASE BatcherLoop
  <2>1. UNCHANGED <<waiting, inflight, running, nextGroup, training>>
    BY <1>4, BatcherFrame DEF dataVars, rolloutVars, trainerVars
  <2>2. ASSUME NEW g \in GroupIds, BatcherTakes(g) PROVE IdInv'
    <3>1. Queued' = Queued
      BY <2>2, TakeEffect DEF Queued
    <3>2. QED
      BY <1>0, <2>1, <2>2, <3>1, TakeEffect
  <2>3. ASSUME NEW g \in GroupIds, BatcherPacksTrainable(g) PROVE IdInv'
    <3>1. Queued' = Queued
      BY <2>3, PackEffect DEF Queued
    <3>2. /\ held = {g} /\ held' = {} /\ batch = {}
          /\ UNCHANGED <<finalized, dropped>>
          /\ accum' \union batch' = accum \union {g}
      BY <2>3, PackEffect DEF entries
    <3>3. QED
      BY <1>0, <2>1, <3>1, <3>2
  <2>4. ASSUME NEW g \in GroupIds, BatcherDropsUntrainable(g) PROVE IdInv'
    <3>1. Queued' = Queued
      BY <2>4, DropEffect DEF Queued
    <3>2. QED
      BY <1>0, <2>1, <2>4, <3>1, DropEffect DEF entries
  <2>5. CASE BatcherPuts
    BY <1>0, <2>1, <2>5, PutEffect DEF entries
  <2>6. CASE BatcherSeesClose \/ BatcherFails \/ BatcherPutsNone
    BY <1>1, <2>1, <2>6, BatcherIdle
  <2>7. QED
    BY <1>4, <2>2, <2>3, <2>4, <2>5, <2>6 DEF BatcherLoop
<1>5. CASE TrainerLoop
  BY <1>1, <1>5, TrainerFrame, TrainerEffect
  DEF dataVars, rolloutVars, batcherVars
<1>6. CASE WeightSyncTasks
  BY <1>1, <1>6, SyncFrame
  DEF dataVars, rolloutVars, batcherVars, trainerVars, Queued
<1>7. CASE Run
  <2>1. UNCHANGED <<nextGroup, held, accum, batch, dropped, training>>
        /\ Queued' = Queued
    BY <1>7, RunFrame DEF Queued
  <2>2. QED
    BY <1>0, <1>7, <2>1, RunFrame DEF entries
<1>8. CASE UNCHANGED vars
  BY <1>1, <1>8 DEF vars, bufferVars, entries, dataVars, rolloutVars,
     batcherVars, trainerVars, Queued
<1>9. QED
  BY <1>2, <1>3, <1>4, <1>5, <1>6, <1>7, <1>8 DEF Next, Terminated

-------------------------------------------------------------------------------
(* Counting what left the buffer.                                          *)

(* take_finalized removes the group it returns.                            *)
LEMMA RemovedByTake ==
  ASSUME AgeInv, NEW g \in GroupIds, BatcherTakes(g)
  PROVE  g \notin Removed /\ Removed' = Removed \union {g}
<1>1. UNCHANGED <<waiting, inflight, nextGroup>>
  BY DEF BatcherTakes, TakeFinalized, dataVars
<1>2. IdInv
  BY DEF AgeInv
<1>3. QED
  BY <1>1, <1>2, TakeEffect DEF IdInv, Removed, Buffered, Admitted

(* Otherwise only close() removes groups from the buffer.                  *)
LEMMA RemovedKept ==
  ASSUME AgeInv,
         \/ DataInputLoop \/ RolloutLoop \/ TrainerLoop \/ WeightSyncTasks
         \/ Run \/ UNCHANGED vars
  PROVE  Removed \subseteq Removed' /\ (closed' \/ Removed' = Removed)
<1> USE DEF Removed, Buffered, Admitted
<1>0. IdInv /\ nextGroup \in Nat
  BY LoopTypes DEF AgeInv
<1>1. ASSUME UNCHANGED <<entries, nextGroup>> PROVE Removed' = Removed
  BY <1>1 DEF entries
<1>2. CASE DataInputLoop
  <2>1. CASE UNCHANGED <<waiting, nextGroup>>
    BY <1>1, <1>2, <2>1, DataInputFrame DEF entries
  <2>2. CASE nextGroup' = nextGroup + 1 /\ waiting' = waiting \union {nextGroup}
    <3>1. Admitted' = Admitted \union {nextGroup}
      BY <1>0, <2>2
    <3>2. QED
      BY <1>0, <1>2, <2>2, <3>1, DataInputFrame
  <2>3. QED
    BY <1>2, <2>1, <2>2, DataInputFrame
<1>3. CASE RolloutLoop
  <2>1. UNCHANGED nextGroup /\ Buffered' = Buffered
    BY <1>3, RolloutFrame DEF dataVars, entries
  <2>2. QED
    BY <2>1
<1>4. CASE TrainerLoop
  BY <1>1, <1>4, TrainerFrame DEF dataVars
<1>5. CASE WeightSyncTasks
  BY <1>1, <1>5, SyncFrame DEF dataVars
<1>6. CASE Run
  BY <1>1, <1>6, RunFrame
<1>7. CASE UNCHANGED vars
  BY <1>1, <1>7 DEF vars, bufferVars, entries, dataVars
<1>8. QED
  BY <1>2, <1>3, <1>4, <1>5, <1>6, <1>7

(* A batcher step that leaves the entries alone removes nothing.           *)
LEMMA RemovedByBatcher ==
  ASSUME BatcherLoop, UNCHANGED entries
  PROVE  Removed' = Removed
BY BatcherFrame DEF Removed, Buffered, Admitted, entries, dataVars

(* The trainer passes a batch on, it forms none.                           *)
LEMMA TrainerKeepsFormed ==
  ASSUME AgeInv, TrainerLoop
  PROVE  Formed' = Formed
<1>1. batch' = batch
  BY TrainerFrame DEF batcherVars
<1>2. policyVersion \in Nat /\ StartStep \in Nat
  BY LoopTypes, ConstantTypes
<1>3. QED
  BY <1>1, <1>2, TrainerEffect DEF Formed

(* What the steps outside the batcher leave alone, for the invariants that *)
(* count groups.                                                           *)
LEMMA OutsideBatcher ==
  ASSUME AgeInv,
         \/ DataInputLoop \/ RolloutLoop \/ TrainerLoop \/ WeightSyncTasks
         \/ Run \/ UNCHANGED vars
  PROVE  /\ UNCHANGED <<accum, dropped, held, batch>> /\ Formed' = Formed
         /\ Removed \subseteq Removed'
         /\ closed' \/ (Removed' = Removed /\ closed' = closed)
<1>1. CASE DataInputLoop
  BY <1>1, RemovedKept, DataInputFrame
  DEF syncVars, batcherVars, trainerVars, Formed, Queued
<1>2. CASE RolloutLoop
  BY <1>2, RemovedKept, RolloutFrame
  DEF syncVars, batcherVars, trainerVars, Formed, Queued
<1>3. CASE TrainerLoop
  BY <1>3, RemovedKept, TrainerFrame, TrainerKeepsFormed DEF batcherVars
<1>4. CASE WeightSyncTasks
  BY <1>4, RemovedKept, SyncFrame DEF batcherVars, trainerVars, Formed, Queued
<1>5. CASE Run
  BY <1>5, RemovedKept, RunFrame DEF syncVars, Formed, Queued
<1>6. CASE UNCHANGED vars
  BY <1>6, RemovedKept
  DEF vars, bufferVars, syncVars, batcherVars, trainerVars, Formed,
      Queued
<1>7. QED
  BY <1>1, <1>2, <1>3, <1>4, <1>5, <1>6

(* Everything removed from the buffer is in a formed batch, in the forming *)
(* one, dropped, or in the batcher's hands, or was discarded by close().   *)
LEMMA CountStep ==
  ASSUME AgeInv, [Next]_vars
  PROVE  CountInv'
<1> DEFINE P == NumPromptsPerTrainStep
<1>0. /\ CountInv
      /\ P \in Nat /\ P >= 1
      /\ IsFiniteSet(accum) /\ Cardinality(accum) \in Nat
      /\ IsFiniteSet(Removed) /\ Cardinality(Removed) \in Nat
      /\ Cardinality(dropped) \in Nat
      /\ Formed \in Int /\ P * Formed \in Int
  <2>1. CountInv
    BY DEF AgeInv
  <2>2. QED
    BY <2>1, FiniteParts, FormedType, ConstantTypes
<1>1. Cardinality({}) = 0 /\ \A g : Cardinality({g}) = 1
  BY FS_EmptySet, FS_Singleton
<1>2. IsFiniteSet(Removed')
  <2>1. nextGroup' \in Nat
    BY TypeStep DEF AgeInv, TypeOK
  <2>2. IsFiniteSet(0..(nextGroup' - 1))
    BY <2>1, FS_Interval
  <2>3. QED
    BY <2>2, FS_Subset DEF Removed, Admitted
<1>3. CASE \/ DataInputLoop \/ RolloutLoop \/ TrainerLoop \/ WeightSyncTasks
           \/ Run \/ UNCHANGED vars
  <2>1. accum' = accum /\ Accounted' = Accounted
    BY <1>3, OutsideBatcher DEF Accounted
  <2>2. Cardinality(Removed) <= Cardinality(Removed')
    BY <1>2, <1>3, OutsideBatcher, FS_Subset
  <2>3. Cardinality(Removed') \in Nat
    BY <1>2, FS_CardinalityType
  <2>4. Accounted \in Int
    BY AccountedType
  <2>5. closed' \/ (Removed' = Removed /\ closed' = closed)
    BY <1>3, OutsideBatcher
  <2>6. QED
    BY <1>0, <2>1, <2>2, <2>3, <2>4, <2>5 DEF CountInv
<1>4. CASE BatcherLoop
  <2>1. closed' = closed /\ UNCHANGED <<policyVersion, training>>
    BY <1>4, BatcherFrame DEF syncVars, trainerVars
  <2>2. ASSUME NEW g \in GroupIds, BatcherTakes(g) PROVE CountInv'
    <3>1. Formed' = Formed
      BY <2>1, <2>2, TakeEffect DEF Formed, Queued
    <3>2. Cardinality(Removed') = Cardinality(Removed) + 1
      BY <1>0, <2>2, RemovedByTake, FS_AddElement
    <3>3. Cardinality(held) = 0 /\ Cardinality(held') = 1
      BY <1>1, <2>2, TakeEffect
    <3>4. UNCHANGED <<accum, dropped>>
      BY <2>2, TakeEffect
    <3>5. Accounted' = Accounted + 1
      BY <1>0, <3>1, <3>3, <3>4 DEF Accounted
    <3>6. QED
      BY <1>0, <2>1, <3>2, <3>4, <3>5, AccountedType DEF CountInv
  <2>3. ASSUME Removed' = Removed, Accounted' = Accounted, Cardinality(accum') < P
        PROVE  CountInv'
    BY <1>0, <2>1, <2>3 DEF CountInv
  <2>4. ASSUME NEW g \in GroupIds, BatcherPacksTrainable(g) PROVE CountInv'
    <3>1. g \notin accum
      BY <2>4, PackEffect DEF AgeInv, IdInv
    <3>2. Cardinality(accum \union {g}) = Cardinality(accum) + 1
      BY <1>0, <3>1, FS_AddElement
    <3>3. Removed' = Removed /\ Queued' = Queued
      BY <1>4, <2>4, PackEffect, RemovedByBatcher DEF Queued
    <3>4. /\ Cardinality(held) = 1 /\ Cardinality(held') = 0
          /\ dropped' = dropped
      BY <1>1, <2>4, PackEffect
    <3>5. CASE Cardinality(accum \union {g}) < P
      <4>1. accum' = accum \union {g} /\ batch' = batch
        BY <2>4, <3>5, PackEffect
      <4>2. Formed' = Formed
        BY <2>1, <3>3, <4>1 DEF Formed
      <4>3. Accounted' = Accounted
        BY <1>0, <3>2, <3>4, <4>1, <4>2 DEF Accounted
      <4>4. QED
        BY <2>3, <3>3, <3>5, <4>1, <4>3
    <3>6. CASE ~(Cardinality(accum \union {g}) < P)
      <4>1. Formed' = Formed + 1
        <5>1. batch = {} /\ batch' # {}
          BY <2>4, <3>6, PackEffect
        <5>2. QED
          BY <2>1, <3>3, <5>1, LoopTypes, ConstantTypes DEF Formed
      <4>2. P * Formed' = P * Formed + P
        BY <1>0, <4>1, MulSucc
      <4>3. Cardinality(accum') = 0 /\ P = Cardinality(accum) + 1
        <5>1. accum' = {}
          BY <2>4, <3>6, PackEffect
        <5>2. QED
          BY <1>0, <1>1, <3>2, <3>6, <5>1 DEF CountInv
      <4>4. Accounted' = Accounted
        BY <1>0, <3>4, <4>2, <4>3 DEF Accounted
      <4>5. QED
        BY <1>0, <2>3, <3>3, <4>3, <4>4
    <3>7. QED
      BY <3>5, <3>6
  <2>5. ASSUME NEW g \in GroupIds, BatcherDropsUntrainable(g) PROVE CountInv'
    <3>1. Formed' = Formed /\ Removed' = Removed
      BY <1>4, <2>1, <2>5, DropEffect, RemovedByBatcher DEF Formed, Queued
    <3>2. /\ Cardinality(held) = 1 /\ Cardinality(held') = 0
          /\ accum' = accum
          /\ Cardinality(dropped') = Cardinality(dropped) + 1
      BY <1>1, <2>5, DropEffect
    <3>3. Accounted' = Accounted
      BY <1>0, <3>1, <3>2 DEF Accounted
    <3>4. QED
      BY <1>0, <2>3, <3>1, <3>2, <3>3 DEF CountInv
  <2>6. CASE BatcherPuts
    <3>1. Formed' = Formed /\ Removed' = Removed
      <4>1. Queued = {} /\ Queued' = batch /\ batch # {} /\ batch' = {}
        BY <2>6, PutEffect
      <4>2. QED
        BY <1>4, <2>1, <2>6, <4>1, PutEffect, RemovedByBatcher, LoopTypes,
           ConstantTypes DEF Formed
    <3>2. Accounted' = Accounted /\ accum' = accum
      BY <2>6, <3>1, PutEffect DEF Accounted
    <3>3. QED
      BY <1>0, <2>3, <3>1, <3>2 DEF CountInv
  <2>7. CASE BatcherSeesClose \/ BatcherFails \/ BatcherPutsNone
    <3>1. Formed' = Formed /\ Removed' = Removed
      BY <1>4, <2>1, <2>7, BatcherIdle, RemovedByBatcher DEF Formed
    <3>2. Accounted' = Accounted /\ accum' = accum
      BY <2>7, <3>1, BatcherIdle DEF Accounted
    <3>3. QED
      BY <1>0, <2>3, <3>1, <3>2 DEF CountInv
  <2>8. QED
    BY <1>4, <2>2, <2>4, <2>5, <2>6, <2>7 DEF BatcherLoop
<1>5. QED
  BY <1>3, <1>4 DEF Next, Terminated

(* Nothing removed is window_size or more ids ahead of a buffered group.   *)
LEMMA WindowStep ==
  ASSUME AgeInv, [Next]_vars
  PROVE  WindowInv'
<1> USE DEF WindowInv
<1>0. /\ WindowInv /\ IdInv
      /\ nextGroup \in Nat /\ WindowSize \in Nat /\ WindowSize >= 1
      /\ Removed \subseteq Admitted /\ Admitted \subseteq Int
      /\ Buffered \subseteq Int
  <2>1. WindowInv /\ IdInv
    BY DEF AgeInv
  <2>2. Admitted \subseteq Int
    BY LoopTypes DEF Admitted
  <2>3. QED
    BY <2>1, <2>2, LoopTypes, ConstantTypes DEF IdInv, Removed
<1>1. CASE \/ RolloutLoop \/ TrainerLoop \/ WeightSyncTasks \/ Run \/ UNCHANGED vars
  <2>1. closed' \/ (Removed' = Removed /\ closed' = closed)
    BY <1>1, OutsideBatcher
  <2>2. closed' \/ Buffered' = Buffered
    <3>1. CASE RolloutLoop
      BY <3>1, RolloutFrame DEF entries, Buffered
    <3>2. CASE TrainerLoop \/ WeightSyncTasks \/ Run
      BY <3>2, TrainerFrame, SyncFrame, RunFrame DEF entries, Buffered
    <3>3. CASE UNCHANGED vars
      BY <3>3 DEF vars, bufferVars, Buffered
    <3>4. QED
      BY <1>1, <3>1, <3>2, <3>3
  <2>3. QED
    BY <1>0, <2>1, <2>2
<1>2. CASE DataInputLoop
  <2>1. closed' \/ (Removed' = Removed /\ closed' = closed)
    BY <1>2, OutsideBatcher
  <2>2. Buffered' \subseteq Buffered \union {nextGroup}
    BY <1>2, DataInputFrame DEF Buffered
  <2>3. \A h \in Removed : h < nextGroup + WindowSize
    BY <1>0 DEF Admitted
  <2>4. QED
    BY <1>0, <2>1, <2>2, <2>3
<1>3. CASE BatcherLoop
  <2>1. closed' = closed
    BY <1>3, BatcherFrame
  <2>2. ASSUME NEW g \in GroupIds, BatcherTakes(g) PROVE WindowInv'
    <3>1. Buffered' \subseteq Buffered
      BY <1>3, <2>2, BatcherFrame, TakeEffect DEF Buffered
    <3>2. Removed' = Removed \union {g} /\ g \in Buffered /\ g \in Int
      BY <1>0, <2>2, RemovedByTake, TakeEffect DEF Buffered
    <3>3. \A h \in Buffered : g < h + WindowSize
      BY <1>0, <2>2, <3>2, TakeEffect DEF InWindow
    <3>4. QED
      BY <1>0, <2>1, <3>1, <3>2, <3>3
  <2>3. CASE UNCHANGED entries
    <3>1. Removed' = Removed /\ Buffered' = Buffered
      BY <1>3, <2>3, RemovedByBatcher DEF entries, Buffered
    <3>2. QED
      BY <1>0, <2>1, <3>1
  <2>4. ASSUME NEW g \in GroupIds,
               BatcherPacksTrainable(g) \/ BatcherDropsUntrainable(g)
        PROVE  UNCHANGED entries
    BY <2>4, PackEffect, DropEffect
  <2>5. CASE \/ BatcherPuts \/ BatcherSeesClose \/ BatcherFails
             \/ BatcherPutsNone
    BY <2>3, <2>5, PutEffect, BatcherIdle
  <2>6. QED
    BY <1>3, <2>2, <2>3, <2>4, <2>5 DEF BatcherLoop
<1>4. QED
  BY <1>1, <1>2, <1>3 DEF Next, Terminated

-------------------------------------------------------------------------------
(* What admission guarantees.                                              *)

(* Steps given back, and groups dropped, only grow.                        *)
LEMMA AdmissionGrows ==
  ASSUME AgeInv, [Next]_vars
  PROVE  /\ Released \in Int /\ Released' \in Int /\ Released <= Released'
         /\ \A g : /\ DroppedBefore(g) \in Nat /\ DroppedBefore(g)' \in Nat
                   /\ DroppedBefore(g) <= DroppedBefore(g)'
<1>1. Released' \in Int /\ Released <= Released'
  <2>1. ASSUME UNCHANGED syncVars
        PROVE  Released' \in Int /\ Released <= Released'
    <3>1. Released' = Released
      BY <2>1 DEF syncVars, Released
    <3>2. QED
      BY <3>1, ReleasedTypes
  <2>2. CASE DataInputLoop \/ RolloutLoop \/ BatcherLoop \/ Run
    <3>1. UNCHANGED syncVars
      BY <2>2, DataInputFrame, RolloutFrame, BatcherFrame, RunFrame
    <3>2. QED
      BY <2>1, <3>1
  <2>3. CASE UNCHANGED vars
    BY <2>1, <2>3 DEF vars
  <2>4. CASE TrainerLoop
    BY <2>4, TrainerKeepsReleased, ReleasedTypes
  <2>5. CASE WeightSyncTasks
    BY <2>5, SyncStepEffect, PullReleasesEffect, ReleasedTypes
    DEF WeightSyncTasks
  <2>6. QED
    BY <2>2, <2>3, <2>4, <2>5 DEF Next, Terminated
<1>2. dropped \subseteq dropped' /\ IsFiniteSet(dropped')
  <2>1. CASE \/ DataInputLoop \/ RolloutLoop \/ TrainerLoop \/ WeightSyncTasks
             \/ Run \/ UNCHANGED vars
    BY <2>1, OutsideBatcher, FiniteParts
  <2>2. ASSUME NEW g \in GroupIds, BatcherDropsUntrainable(g)
        PROVE  dropped \subseteq dropped' /\ IsFiniteSet(dropped')
    BY <2>2, DropEffect, FiniteParts, FS_AddElement
  <2>3. CASE BatcherLoop /\ \A g \in GroupIds : ~BatcherDropsUntrainable(g)
    BY <2>3, BatcherKeepsSlots, FiniteParts
  <2>4. QED
    BY <2>1, <2>2, <2>3 DEF Next, Terminated
<1>3. ASSUME NEW g
      PROVE  /\ DroppedBefore(g)' \in Nat
             /\ DroppedBefore(g) <= DroppedBefore(g)'
  <2>1. {d \in dropped : d < g} \subseteq {d \in dropped' : d < g}
    BY <1>2
  <2>2. IsFiniteSet({d \in dropped' : d < g})
    BY <1>2, FS_Subset
  <2>3. QED
    BY <2>1, <2>2, FS_Subset, FS_CardinalityType DEF DroppedBefore
<1>4. QED
  BY <1>1, <1>3, ReleasedTypes, FiniteParts

(* A group was admitted while fewer than MaxActive others were unreleased, *)
(* and is sampled at least as fresh as the steps released by then.         *)
LEMMA AdmitStep ==
  ASSUME AgeInv, [Next]_vars
  PROVE  AdmitInv'
<1> DEFINE P == NumPromptsPerTrainStep
           Room(g) == MaxActive + P * Released + DroppedBefore(g)
           Seen(g) == MaxActive + P * (version[g] - StartStep) + DroppedBefore(g)
<1>0. /\ AdmitInv /\ IdInv
      /\ P \in Nat /\ MaxActive \in Nat /\ StartStep \in Nat
      /\ GroupIds \subseteq Nat /\ nextGroup \in Nat
      /\ version \in [GroupIds -> Nat \union {NoVersion}]
      /\ Released \in Int /\ Released' \in Int
      /\ P * Released \in Int /\ P * Released' \in Int
      /\ P * Released <= P * Released'
  <2>1. Released \in Int /\ Released' \in Int /\ Released <= Released'
    BY AdmissionGrows
  <2>2. P \in Nat
    BY ConstantTypes
  <2>3. P * Released <= P * Released'
    BY <2>1, <2>2, MulMono
  <2>4. AdmitInv /\ IdInv
    BY DEF AgeInv
  <2>5. P * Released \in Int /\ P * Released' \in Int
    BY <2>1, <2>2
  <2>6. QED
    BY <2>1, <2>2, <2>3, <2>4, <2>5, LoopTypes, ConstantTypes, Zenon
<1>1. \A g \in Admitted : g \in Int /\ g + 1 <= Room(g)'
  <2>1. TAKE g \in Admitted
  <2>2. g \in Int /\ g + 1 <= Room(g)
    BY <1>0 DEF AdmitInv, Admitted
  <2>3. QED
    BY <1>0, <2>2, AdmissionGrows
<1>2. \A g \in Admitted' : g + 1 <= Room(g)'
  <2>1. CASE DataInputLoop
    <3>1. CASE nextGroup' = nextGroup
      BY <1>1, <3>1 DEF Admitted
    <3>2. CASE nextGroup' # nextGroup
      <4>1. /\ active < MaxActive /\ nextGroup' = nextGroup + 1
            /\ dropped' = dropped /\ Released' = Released
        BY <2>1, <3>2, DataInputFrame DEF batcherVars, syncVars, Released
      <4>2. PICK n \in Nat : n = nextGroup
        BY <1>0
      <4>3. n - P * Released - Cardinality(dropped) < MaxActive
        BY <4>1, <4>2 DEF AgeInv, SlotInv
      <4>4. DroppedBefore(n)' = Cardinality(dropped)
        <5>1. {d \in dropped : d < n} = dropped
          BY <1>0, <4>2 DEF IdInv, Admitted
        <5>2. QED
          BY <4>1, <5>1 DEF DroppedBefore
      <4>5. n + 1 <= Room(n)'
        BY <1>0, <4>1, <4>3, <4>4, FiniteParts
      <4>6. Admitted' = Admitted \union {n}
        BY <1>0, <4>1, <4>2 DEF Admitted
      <4>7. QED
        BY <1>1, <4>5, <4>6
    <3>3. QED
      BY <3>1, <3>2
  <2>2. CASE ~DataInputLoop
    <3>1. nextGroup' = nextGroup
      BY <2>2, RolloutFrame, BatcherFrame, TrainerFrame, SyncFrame, RunFrame
      DEF Next, Terminated, vars, dataVars
    <3>2. QED
      BY <1>1, <3>1 DEF Admitted
  <2>3. QED
    BY <2>1, <2>2
<1>3. ASSUME NEW g \in GroupIds, version[g] # NoVersion, version'[g] = version[g]
      PROVE  g + 1 <= Seen(g)'
  <2>1. version[g] \in Nat /\ g \in Int
    BY <1>0, <1>3
  <2>2. P * (version[g] - StartStep) \in Int
    BY <1>0, <2>1
  <2>3. g + 1 <= Seen(g)
    BY <1>0, <1>3 DEF AdmitInv
  <2>4. QED
    BY <1>0, <1>3, <2>1, <2>2, <2>3, AdmissionGrows
<1>4. \A g \in GroupIds : version'[g] # NoVersion => g + 1 <= Seen(g)'
  <2>1. CASE version' = version
    BY <1>3, <2>1
  <2>2. CASE version' # version
    <3>1. RolloutLoop
      BY <2>2, DataInputFrame, BatcherFrame, TrainerFrame, SyncFrame, RunFrame
      DEF Next, Terminated, vars, rolloutVars
    <3>2. PICK h \in running : 
            \/ version' = [version EXCEPT ![h] = NoVersion]
            \/ \E gen \in Generators :
                 version' = [version EXCEPT ![h] = genVersion[gen]]
      BY <2>2, <3>1, RolloutFrame
    <3>3. SUFFICES ASSUME NEW g \in GroupIds, version'[g] # NoVersion
                   PROVE  g + 1 <= Seen(g)'
      OBVIOUS
    <3>4. CASE g # h
      <4>1. version'[g] = version[g]
        BY <1>0, <3>2, <3>4
      <4>2. QED
        BY <1>3, <3>3, <4>1
    <3>5. CASE g = h
      <4>1. PICK gen \in Generators : version'[g] = genVersion[gen]
        BY <1>0, <3>2, <3>3, <3>5
      <4>2. /\ genVersion[gen] \in Nat
            /\ genVersion[gen] >= StartStep + Released
        BY LoopTypes DEF AgeInv, BornFreshInv
      <4>3. Released' = Released
        BY <3>1, RolloutFrame DEF syncVars, Released
      <4>4. P * Released <= P * (version'[g] - StartStep)
        BY <1>0, <4>1, <4>2, MulMono
      <4>5. g \in Admitted
        BY <1>0, <3>2, <3>5 DEF IdInv
      <4>6. P * (version'[g] - StartStep) \in Int
        BY <1>0, <4>1, <4>2
      <4>7. QED
        BY <1>0, <1>1, <4>3, <4>4, <4>5, <4>6, AdmissionGrows
    <3>6. QED
      BY <3>4, <3>5
  <2>3. QED
    BY <2>1, <2>2
<1>5. QED
  BY <1>2, <1>4 DEF AdmitInv

-------------------------------------------------------------------------------
(* The age of what waits for the trainer.                                  *)

(* No worker touches a group that left the buffer.                         *)
LEMMA PendingVersions ==
  ASSUME AgeInv, [Next]_vars
  PROVE  \A g \in Pending : g \in GroupIds => version'[g] = version[g]
<1>1. CASE RolloutLoop
  <2>1. CASE version' = version
    BY <2>1
  <2>2. CASE version' # version
    <3>1. PICK h \in running :
            \/ version' = [version EXCEPT ![h] = NoVersion]
            \/ \E gen \in Generators :
                 version' = [version EXCEPT ![h] = genVersion[gen]]
      BY <1>1, <2>2, RolloutFrame
    <3>2. h \notin Pending
      BY DEF AgeInv, IdInv
    <3>3. QED
      BY <3>1, <3>2, LoopTypes
  <2>3. QED
    BY <2>1, <2>2
<1>2. CASE ~RolloutLoop
  BY <1>2, DataInputFrame, BatcherFrame, TrainerFrame, SyncFrame, RunFrame
  DEF Next, Terminated, vars, rolloutVars
<1>3. QED
  BY <1>1, <1>2

(* A group taken from the buffer joins a batch that will be young enough:  *)
(* at most window_size - 1 groups overtook it, and at most MaxActive were  *)
(* admitted but not released when it was.                                  *)
LEMMA TakenIsFresh ==
  ASSUME AgeInv, NEW g \in GroupIds, BatcherTakes(g), version[g] # NoVersion
  PROVE  AgeAtBatch(g, Formed) <= MaxOffpolicySteps
<1> DEFINE P == NumPromptsPerTrainStep
           Older == 0 .. (g + WindowSize - 1)
           x == StartStep + Formed - version[g]
<1>1. /\ P \in Nat /\ P >= 1 /\ MaxActive \in Nat /\ WindowSize \in Nat
      /\ WindowSize >= 1 /\ StartStep \in Nat /\ g \in Nat
      /\ version[g] \in Nat /\ Formed \in Int /\ x \in Int
      /\ P * Formed \in Int /\ P * (version[g] - StartStep) \in Int /\ P * x \in Int
  <2>1. /\ P \in Nat /\ P >= 1 /\ MaxActive \in Nat /\ WindowSize \in Nat
        /\ WindowSize >= 1 /\ StartStep \in Nat /\ g \in Nat
        /\ version[g] \in Nat /\ Formed \in Int
    BY ConstantTypes, LoopTypes, FormedType
  <2>2. QED
    BY <2>1
<1>2. Cardinality(Removed) <= g + WindowSize - 1
  <2>1. g \in Buffered /\ ~closed
    BY TakeEffect DEF Buffered
  <2>2. g \notin Removed /\ g \in Older
    BY <1>1, <2>1 DEF Removed
  <2>3. Removed \subseteq Nat
    BY LoopTypes DEF Removed, Admitted
  <2>4. Removed \subseteq Older \ {g}
    BY <1>1, <2>1, <2>2, <2>3 DEF AgeInv, WindowInv
  <2>5. IsFiniteSet(Older) /\ Cardinality(Older) = g + WindowSize
    <3>1. 0 \in Int /\ g + WindowSize - 1 \in Int /\ ~(0 > g + WindowSize - 1)
      BY <1>1
    <3>2. Cardinality(Older) = (g + WindowSize - 1) - 0 + 1
      BY <3>1, FS_Interval
    <3>3. QED
      BY <1>1, <3>1, <3>2, FS_Interval
  <2>6. IsFiniteSet(Older \ {g})
    BY <2>5, FS_RemoveElement
  <2>7. Cardinality(Older \ {g}) = g + WindowSize - 1
    <3>1. Cardinality(Older \ {g}) = Cardinality(Older) - 1
      BY <2>2, <2>5, FS_RemoveElement
    <3>2. QED
      BY <1>1, <2>5, <3>1
  <2>8. Cardinality(Removed) <= Cardinality(Older \ {g})
    BY <2>4, <2>6, FS_Subset
  <2>9. QED
    BY <2>7, <2>8
<1>3. P * Formed + Cardinality(dropped) <= g + WindowSize - 1
  <2>1. Cardinality(held) = 0
    BY TakeEffect, FS_EmptySet
  <2>2. Cardinality(Removed) = P * Formed + Cardinality(accum)
                               + Cardinality(dropped) + Cardinality(held)
    BY TakeEffect DEF AgeInv, CountInv, Accounted
  <2>3. Cardinality(accum) \in Nat /\ Cardinality(dropped) \in Nat
    BY FiniteParts
  <2>4. QED
    BY <1>1, <1>2, <2>1, <2>2, <2>3
<1>4. g + 1 <= MaxActive + P * (version[g] - StartStep) + Cardinality(dropped)
  <2>1. g + 1 <= MaxActive + P * (version[g] - StartStep) + DroppedBefore(g)
    BY DEF AgeInv, AdmitInv
  <2>2. /\ DroppedBefore(g) \in Nat /\ Cardinality(dropped) \in Nat
        /\ DroppedBefore(g) <= Cardinality(dropped)
    BY FiniteParts
  <2>3. QED
    BY <1>1, <2>1, <2>2
<1>5. P * x = P * Formed - P * (version[g] - StartStep)
  <2>1. x = Formed - (version[g] - StartStep)
    BY <1>1
  <2>2. QED
    BY <1>1, <2>1, MulSub
<1>6. P * x <= MaxActive + WindowSize - 2
  BY <1>1, <1>3, <1>4, <1>5, FiniteParts
<1>7. QED
  BY <1>1, <1>6, DivBound DEF AgeAtBatch, MaxOffpolicySteps

(* Every group on its way to the trainer stays young enough.               *)
LEMMA FreshStep ==
  ASSUME AgeInv, [Next]_vars
  PROVE  FreshInv'
<1> DEFINE Carried == held \union accum \union batch \union Queued
           Ahead == IF training = {} THEN 0 ELSE 1
<1> USE DEF AgeAtBatch, PolicyAge
<1>0. /\ FreshInv /\ PcInv
      /\ policyVersion \in Nat /\ Formed \in Int /\ StartStep \in Nat
      /\ MaxOffpolicySteps' = MaxOffpolicySteps
  BY LoopTypes, FormedType, ConstantTypes DEF AgeInv, MaxOffpolicySteps
<1>1. Queued \subseteq GroupIds
  <2>1. queue # <<>> => Head(queue) \in SUBSET GroupIds
    BY QueueShape, HeadTailProperties
  <2>2. QED
    BY <2>1 DEF Queued
<1>2. \A g \in Carried : g \in GroupIds /\ version'[g] = version[g]
                         /\ version[g] \in Int
  <2>1. Carried \subseteq GroupIds /\ Carried \subseteq Pending
    BY <1>1 DEF AgeInv, TypeOK, Pending
  <2>2. QED
    BY <2>1, PendingVersions, LoopTypes DEF NoVersion
<1>3. ASSUME UNCHANGED <<held, accum, batch, policyVersion, training>>,
             Queued' = Queued, Formed' = Formed
      PROVE  FreshInv'
  BY <1>0, <1>2, <1>3 DEF FreshInv
<1>4. CASE DataInputLoop \/ RolloutLoop \/ WeightSyncTasks \/ Run \/ UNCHANGED vars
  <2>1. UNCHANGED <<held, accum, batch>> /\ Formed' = Formed
    BY <1>4, OutsideBatcher
  <2>2. UNCHANGED <<policyVersion, training>> /\ Queued' = Queued
    BY <1>4, DataInputFrame, RolloutFrame, SyncFrame, RunFrame
    DEF vars, syncVars, trainerVars, Queued
  <2>3. QED
    BY <1>3, <2>1, <2>2
<1>5. CASE TrainerLoop
  <2>1. UNCHANGED <<held, accum, batch>> /\ Formed' = Formed
    BY <1>5, OutsideBatcher
  <2>2. CASE Queued' = {}
    BY <1>0, <1>2, <2>1, <2>2 DEF FreshInv
  <2>3. CASE /\ Queued' = Queued /\ training # {} /\ training' = {}
             /\ policyVersion' = policyVersion + 1
    BY <1>0, <1>2, <2>1, <2>3 DEF FreshInv
  <2>4. CASE Queued' = Queued /\ UNCHANGED <<training, policyVersion>>
    BY <1>3, <2>1, <2>4
  <2>5. QED
    BY <1>5, <2>2, <2>3, <2>4, TrainerEffect
<1>6. CASE BatcherLoop
  <2>0. UNCHANGED <<policyVersion, training, version>>
    BY <1>6, BatcherFrame DEF syncVars, rolloutVars, trainerVars
  <2>1. ASSUME NEW g \in GroupIds, BatcherTakes(g) PROVE FreshInv'
    <3>1. /\ held' = {g} /\ UNCHANGED <<accum, batch>>
          /\ Queued' = Queued
      BY <2>1, TakeEffect DEF Queued
    <3>2. Formed' = Formed
      BY <2>0, <3>1 DEF Formed
    <3>3. version[g] # NoVersion => AgeAtBatch(g, Formed) <= MaxOffpolicySteps
      BY <2>1, TakenIsFresh
    <3>4. QED
      BY <1>0, <2>0, <3>1, <3>2, <3>3 DEF FreshInv
  <2>2. ASSUME NEW g \in GroupIds, BatcherPacksTrainable(g) PROVE FreshInv'
    <3>1. /\ held = {g} /\ held' = {} /\ batch = {} /\ Queued' = Queued
          /\ version[g] # NoVersion
      BY <2>2, PackEffect DEF Queued
    <3>2. \A h \in accum \union {g} : AgeAtBatch(h, Formed) <= MaxOffpolicySteps
      BY <1>0, <3>1 DEF FreshInv
    <3>3. CASE accum' = accum \union {g} /\ batch' = {}
      <4>1. Formed' = Formed
        BY <2>0, <3>1, <3>3 DEF Formed
      <4>2. QED
        BY <1>0, <2>0, <3>1, <3>2, <3>3, <4>1 DEF FreshInv
    <3>4. CASE accum' = {} /\ batch' = accum \union {g}
      <4>1. Formed' = Formed + 1
        BY <1>0, <2>0, <3>1, <3>4 DEF Formed
      <4>2. Formed' - 1 = Formed
        BY <1>0, <4>1
      <4>3. QED
        BY <1>0, <2>0, <3>1, <3>2, <3>4, <4>2 DEF FreshInv
    <3>5. QED
      BY <2>2, <3>3, <3>4, PackEffect
  <2>3. ASSUME NEW g \in GroupIds, BatcherDropsUntrainable(g) PROVE FreshInv'
    <3>1. held' = {} /\ UNCHANGED <<accum, batch>> /\ Queued' = Queued
      BY <2>3, DropEffect DEF Queued
    <3>2. Formed' = Formed
      BY <2>0, <3>1 DEF Formed
    <3>3. QED
      BY <1>0, <2>0, <3>1, <3>2 DEF FreshInv
  <2>4. CASE BatcherPuts
    <3>1. /\ Queued = {} /\ Queued' = batch /\ batch # {} /\ batch' = {}
          /\ UNCHANGED <<held, accum>>
      BY <2>4, PutEffect
    <3>2. Formed' = Formed /\ Formed - 1 = (policyVersion - StartStep) + Ahead
      BY <1>0, <2>0, <3>1 DEF Formed
    <3>3. \A g \in batch : PolicyAge(g) + Ahead <= MaxOffpolicySteps
      <4>1. TAKE g \in batch
      <4>2. AgeAtBatch(g, Formed - 1) <= MaxOffpolicySteps
        BY <1>0 DEF FreshInv
      <4>3. version[g] \in Int
        BY <1>2
      <4>4. QED
        BY <1>0, <3>2, <4>2, <4>3
    <3>4. QED
      BY <1>0, <2>0, <3>1, <3>2, <3>3 DEF FreshInv
  <2>5. CASE BatcherSeesClose \/ BatcherFails \/ BatcherPutsNone
    <3>1. UNCHANGED <<held, accum, batch>> /\ Queued' = Queued
      BY <2>5, BatcherIdle
    <3>2. Formed' = Formed
      BY <2>0, <3>1 DEF Formed
    <3>3. QED
      BY <1>3, <2>0, <3>1, <3>2
  <2>6. QED
    BY <1>6, <2>1, <2>2, <2>3, <2>4, <2>5 DEF BatcherLoop
<1>7. QED
  BY <1>4, <1>5, <1>6 DEF Next, Terminated

-------------------------------------------------------------------------------
(* The theorems.                                                           *)

(* The loop starts empty: nothing admitted, nothing released.              *)
LEMMA AgeInvInit ==
  ASSUME Init
  PROVE  AgeInv
<1> USE DEF Init, BufferInit, SyncInit, NoBatch
<1>0. Cardinality({}) = 0
  BY FS_EmptySet
<1>1. TypeOK
  BY TypeInit
<1>2. PcInv /\ SyncedVersionInv /\ BornFreshInv
  BY ConstantTypes DEF PcInv, SyncedVersionInv, BornFreshInv, Released
<1>3. Admitted = {} /\ Removed = {} /\ Queued = {} /\ Formed = 0 /\ Released = 0
  BY ConstantTypes
  DEF Admitted, Removed, Buffered, Queued, Formed, Released
<1>4. SlotInv
  BY <1>0, <1>3, ConstantTypes DEF SlotInv
<1>5. IdInv
  BY <1>3 DEF IdInv, Buffered, Pending
<1>6. CountInv
  BY <1>0, <1>3, ConstantTypes DEF CountInv, Accounted
<1>7. WindowInv /\ AdmitInv /\ FreshInv
  BY <1>3 DEF WindowInv, AdmitInv, FreshInv, Buffered
<1>8. QED
  BY <1>1, <1>2, <1>4, <1>5, <1>6, <1>7 DEF AgeInv

(* Every step keeps AgeInv.                                                *)
LEMMA AgeStep ==
  AgeInv /\ [Next]_vars => AgeInv'
BY TypeStep, PcStep, SyncedVersionStep, BornFreshStep, SlotStep, IdStep,
  CountStep, WindowStep, AdmitStep, FreshStep DEF AgeInv

(* AgeInv is inductive.                                                    *)
THEOREM AgeInvariant == Spec => []AgeInv
<1>1. Init => AgeInv
  BY AgeInvInit
<1>2. QED
  BY <1>1, AgeStep, PTL DEF Spec

(* AgeInv implies the bound: what is queued is fresh.                      *)
LEMMA AgeBounded == AgeInv => PolicyAgeBound
<1>1. SUFFICES ASSUME AgeInv, trainerPc = "get_batch", queue # <<>>
               PROVE  ~TooStale(Head(queue))
  BY DEF PolicyAgeBound
<1>2. Queued = Head(queue) /\ training = {}
  BY <1>1 DEF Queued, AgeInv, PcInv
<1>3. Head(queue) \in SUBSET GroupIds
  BY <1>1, QueueShape, HeadTailProperties
<1>4. \A g \in Head(queue) : PolicyAge(g) \in Int
  <2>1. \A g \in Head(queue) : g \in GroupIds
    BY <1>3
  <2>2. \A g \in GroupIds : version[g] \in Int
    BY <1>1, LoopTypes DEF NoVersion
  <2>3. policyVersion \in Int
    BY <1>1, LoopTypes
  <2>4. QED
    BY <2>1, <2>2, <2>3 DEF PolicyAge
<1>5. \A g \in Head(queue) : PolicyAge(g) <= MaxOffpolicySteps
  <2>1. \A g \in Queued : PolicyAge(g) + 0 <= MaxOffpolicySteps
    BY <1>1, <1>2 DEF AgeInv, FreshInv
  <2>2. QED
    BY <1>2, <1>4, <2>1
<1>6. MaxOffpolicySteps \in Int
  BY ConstantTypes DEF MaxOffpolicySteps
<1>7. QED
  BY <1>4, <1>5, <1>6 DEF TooStale

(* The hard off-policy bound, for every budget, window, batch size, number *)
(* of generators and of dropped groups, whatever fails: no batch handed to *)
(* the trainer holds a sample older than max_offpolicy_steps.              *)
THEOREM PolicyAgeBounded == Spec => []PolicyAgeBound
BY AgeInvariant, AgeBounded, PTL

(* Anchored windowed FIFO, for every window and whatever fails: the        *)
(* batcher never takes a group window_size or more ids ahead of one that   *)
(* is still waiting, sampling or finished in the buffer.                   *)
THEOREM WindowedFIFOHolds == Spec => []WindowedFIFO
<1>1. AgeInv => WindowedFIFO
  <2>1. AgeInv => Pending \union training \subseteq Removed
    BY DEF AgeInv, IdInv, Removed
  <2>2. QED
    BY <2>1 DEF AgeInv, WindowInv, WindowedFIFO
<1>2. QED
  BY <1>1, AgeInvariant, PTL

-------------------------------------------------------------------------------
(* The weight handoff.                                                     *)

(* Nothing but the trainer and the weight-sync tasks touches the handoff.  *)
LEMMA HandoffFrame ==
  ASSUME HandoffInv, UNCHANGED syncVars
  PROVE  HandoffInv'
BY DEF HandoffInv, syncVars

(* The trainer starts a sync only when the previous pull is over, and      *)
(* steps the optimizer only when the previous push is.                     *)
LEMMA HandoffTrainer ==
  ASSUME AgeInv, HandoffInv, TrainerLoop
  PROVE  HandoffInv'
<1>1. /\ policyVersion \in Nat /\ syncVersion \in Nat
      /\ genVersion \in [Generators -> Nat]
      /\ trainerPc = "wait_pull" => policyVersion = syncVersion + 1
      /\ \A gen \in Generators :
           genPull[gen] = "pulling" => pull \in {"running", "failed"}
  BY LoopTypes DEF AgeInv, TypeOK, SyncTypeOK, SyncedVersionInv, BornFreshInv
<1>2. CASE TrainerOptimStep
  BY <1>2 DEF TrainerOptimStep, StepOptimizer, PrevPushDone, HandoffInv,
     taskVars, genVars
<1>3. CASE TrainerStartsSync
  <2>1. /\ pull = "done" /\ pull' = "awaiting_push" /\ push' = "running"
        /\ policyVersion = syncVersion + 1 /\ syncVersion' = policyVersion
        /\ policyVersion' = policyVersion /\ UNCHANGED genVars
    BY <1>1, <1>3 DEF TrainerStartsSync, StartAsyncPushPull, PrevPullDone
  <2>2. QED
    BY <1>1, <2>1 DEF HandoffInv, genVars
<1>4. CASE ~TrainerOptimStep /\ ~TrainerStartsSync
  <2>1. UNCHANGED syncVars
    BY <1>4 DEF TrainerLoop, TrainerGetsBatch, TrainerForwardBackward,
       TrainerDiverges, TrainerFails, TrainerSavesCheckpoint, TrainerExits,
       TrainerMeetsSyncFailure
  <2>2. QED
    BY <2>1, HandoffFrame
<1>5. QED
  BY <1>2, <1>3, <1>4

(* The push stages the version being handed over; the generators load it.  *)
LEMMA HandoffSync ==
  ASSUME AgeInv, HandoffInv, WeightSyncTasks
  PROVE  HandoffInv'
<1> USE DEF HandoffInv
<1>1. /\ genVersion \in [Generators -> Nat] /\ genWeights \in [Generators -> Nat]
      /\ genPull \in [Generators -> GenPullStates] /\ syncVersion \in Nat
      /\ syncVersion >= StartStep /\ StartStep \in Nat
      /\ \A gen \in Generators :
           genPull[gen] = "pulling" => pull \in {"running", "failed"}
  BY ConstantTypes DEF AgeInv, TypeOK, SyncTypeOK, SyncedVersionInv,
     BornFreshInv
<1>2. CASE PushCompletes
  BY <1>1, <1>2 DEF PushCompletes, genVars
<1>3. CASE PushFails
  BY <1>1, <1>3 DEF PushFails, storeVars, genVars
<1>4. CASE PullStarts
  BY <1>1, <1>4 DEF PullStarts, storeVars
<1>5. CASE PullAborts
  BY <1>1, <1>5 DEF PullAborts, storeVars, genVars
<1>6. ASSUME NEW gen \in Generators, GeneratorPulls(gen) PROVE HandoffInv'
  BY <1>1, <1>6 DEF GeneratorPulls, storeVars, taskVars
<1>7. ASSUME NEW gen \in Generators, GeneratorPullFails(gen) PROVE HandoffInv'
  BY <1>1, <1>7 DEF GeneratorPullFails, storeVars
<1>8. CASE PullReleasesSlots
  <2>1. /\ pull = "running" /\ pull' \in {"done", "failed"}
        /\ UNCHANGED <<policyVersion, stored, syncVersion, push, genVars>>
    BY <1>8 DEF PullReleasesSlots, PullEnds, AllGeneratorsPulled, storeVars
  <2>2. QED
    BY <1>1, <2>1 DEF genVars
<1>9. QED
  BY <1>2, <1>3, <1>4, <1>5, <1>6, <1>7, <1>8 DEF WeightSyncTasks, SyncStep

(* HandoffInv is inductive relative to AgeInv.                             *)
LEMMA HandoffStep ==
  ASSUME AgeInv, HandoffInv, [Next]_vars
  PROVE  HandoffInv'
<1>1. CASE DataInputLoop \/ RolloutLoop \/ BatcherLoop \/ Run
  BY <1>1, HandoffFrame, DataInputFrame, RolloutFrame, BatcherFrame, RunFrame
<1>2. CASE UNCHANGED vars
  BY <1>2, HandoffFrame DEF vars
<1>3. CASE TrainerLoop
  BY <1>3, HandoffTrainer
<1>4. CASE WeightSyncTasks
  BY <1>4, HandoffSync
<1>5. QED
  BY <1>1, <1>2, <1>3, <1>4 DEF Next, Terminated

(* The handoff's invariant holds of every behaviour.                       *)
THEOREM HandoffInvariant == Spec => [](AgeInv /\ HandoffInv)
<1>1. Init => AgeInv /\ HandoffInv
  BY AgeInvInit, ConstantTypes DEF Init, SyncInit, HandoffInv
<1>2. QED
  BY <1>1, AgeStep, HandoffStep, PTL DEF Spec

(* No generator loads weights while the trainer is staging them, for any   *)
(* number of generators and also after one of their pulls has failed.      *)
THEOREM NoTornReads == Spec => []NoTornRead
<1>1. HandoffInv => NoTornRead
  BY DEF HandoffInv, NoTornRead
<1>2. QED
  BY <1>1, HandoffInvariant, PTL

(* The version a generator stamps is the version of the weights it         *)
(* computes with.                                                          *)
THEOREM VersionLabelsTrue == Spec => []VersionLabelTrue
<1>1. HandoffInv => VersionLabelTrue
  BY DEF HandoffInv, VersionLabelTrue
<1>2. QED
  BY <1>1, HandoffInvariant, PTL

(* Only a dropped group or the end of a pull that every generator finished *)
(* frees slots.                                                            *)
THEOREM SlotsComeBackAfterPull == Spec => SlotsReleasedAfterPull
<1> DEFINE Fresh == \/ dropped' # dropped
                    \/ \A gen \in Generators : genWeights[gen] = syncVersion
<1>1. AgeInv /\ HandoffInv /\ [Next]_vars => [active' < active => Fresh]_vars
  <2> SUFFICES ASSUME AgeInv, HandoffInv, Next, active' < active
               PROVE  Fresh
    OBVIOUS
  <2>1. active \in Int
    BY LoopTypes
  <2>2. active' # active
    BY <2>1
  <2>3. CASE DataInputLoop
    BY <2>1, <2>2, <2>3, DataInputFrame
  <2>4. CASE RolloutLoop \/ TrainerLoop \/ Run \/ Terminated \/ SyncStep
    BY <2>2, <2>4, RolloutFrame, TrainerFrame, RunFrame, SyncStepEffect
    DEF Terminated, vars, bufferVars
  <2>5. CASE BatcherLoop
    <3>1. PICK g \in GroupIds : BatcherDropsUntrainable(g)
      BY <2>2, <2>5, BatcherKeepsSlots
    <3>2. dropped' = dropped \union {g} /\ g \notin dropped
      BY <2>2, <3>1, DropEffect DEF AgeInv, IdInv
    <3>3. QED
      BY <3>2
  <2>6. CASE PullReleasesSlots
    <3>1. pull = "running" /\ \A gen \in Generators : genPull[gen] = "idle"
      BY <2>6, PullReleasesEffect
    <3>2. \A gen \in Generators : genVersion[gen] >= syncVersion
      BY <3>1 DEF AgeInv, BornFreshInv
    <3>3. /\ genVersion \in [Generators -> Nat] /\ syncVersion \in Nat
      BY DEF AgeInv, TypeOK, SyncTypeOK
    <3>4. \A gen \in Generators : genVersion[gen] = syncVersion
      BY <3>2, <3>3 DEF HandoffInv
    <3>5. QED
      BY <3>4 DEF HandoffInv
  <2>7. QED
    BY <2>3, <2>4, <2>5, <2>6 DEF Next, WeightSyncTasks
<1>2. QED
  BY <1>1, HandoffInvariant, PTL DEF Spec, SlotsReleasedAfterPull

-------------------------------------------------------------------------------
(* Places, batches.                                                        *)

(* What the tasks other than the batcher and the trainer leave in place.   *)
LEMMA GroupsStay ==
  ASSUME AgeInv,
         DataInputLoop \/ RolloutLoop \/ WeightSyncTasks \/ Run \/ UNCHANGED vars
  PROVE  /\ UNCHANGED <<held, accum, batch, dropped, queue, training>>
         /\ Queued' = Queued
         /\ policyVersion' = policyVersion
<1>1. CASE DataInputLoop \/ RolloutLoop
  BY <1>1, DataInputFrame, RolloutFrame
  DEF batcherVars, trainerVars, syncVars, Queued
<1>2. CASE WeightSyncTasks
  BY <1>2, SyncFrame DEF batcherVars, trainerVars, Queued
<1>3. CASE Run
  BY <1>3, RunFrame DEF syncVars, Queued
<1>4. CASE UNCHANGED vars
  BY <1>4 DEF vars, batcherVars, trainerVars, syncVars, Queued
<1>5. QED
  BY <1>1, <1>2, <1>3, <1>4

(* A group that left the buffer stays in one place.                        *)
LEMMA PlaceStep ==
  ASSUME AgeInv, PlaceInv, [Next]_vars
  PROVE  PlaceInv'
<1> USE DEF PlaceInv
<1>1. /\ Buffered \intersect (Pending \union training \union dropped) = {}
      /\ held \intersect (accum \union dropped) = {}
  BY DEF AgeInv, IdInv
<1>2. CASE DataInputLoop \/ RolloutLoop \/ WeightSyncTasks \/ Run \/ UNCHANGED vars
  BY <1>2, GroupsStay
<1>3. CASE TrainerLoop
  <2>1. UNCHANGED <<held, accum, batch, dropped>>
    BY <1>3, TrainerFrame DEF batcherVars
  <2>2. QED
    BY <1>3, <2>1, TrainerEffect
<1>4. CASE BatcherLoop
  <2>1. training' = training
    BY <1>4, BatcherFrame DEF trainerVars
  <2>2. ASSUME NEW g \in GroupIds, BatcherTakes(g) PROVE PlaceInv'
    <3>1. Queued' = Queued /\ g \in Buffered
      BY <2>2, TakeEffect DEF Queued, Buffered
    <3>2. QED
      BY <1>1, <2>1, <2>2, <3>1, TakeEffect DEF Pending
  <2>3. ASSUME NEW g \in GroupIds, BatcherPacksTrainable(g) PROVE PlaceInv'
    <3>1. Queued' = Queued
      BY <2>3, PackEffect DEF Queued
    <3>2. QED
      BY <2>1, <2>3, <3>1, PackEffect
  <2>4. ASSUME NEW g \in GroupIds, BatcherDropsUntrainable(g) PROVE PlaceInv'
    <3>1. Queued' = Queued
      BY <2>4, DropEffect DEF Queued
    <3>2. QED
      BY <2>1, <2>4, <3>1, DropEffect
  <2>5. CASE BatcherPuts
    BY <2>1, <2>5, PutEffect
  <2>6. CASE BatcherSeesClose \/ BatcherFails \/ BatcherPutsNone
    BY <2>1, <2>6, BatcherIdle
  <2>7. QED
    BY <1>4, <2>2, <2>3, <2>4, <2>5, <2>6 DEF BatcherLoop
<1>5. QED
  BY <1>2, <1>3, <1>4 DEF Next, Terminated

(* No rollout changes the version of a group that left the buffer.         *)
LEMMA LeftVersions ==
  ASSUME AgeInv, [Next]_vars
  PROVE  \A g \in Pending \union training : g \in GroupIds => version'[g] = version[g]
<1>1. CASE RolloutLoop
  <2>1. CASE version' = version
    BY <2>1
  <2>2. CASE version' # version
    <3>1. PICK h \in running :
            \/ version' = [version EXCEPT ![h] = NoVersion]
            \/ \E gen \in Generators :
                 version' = [version EXCEPT ![h] = genVersion[gen]]
      BY <1>1, <2>2, RolloutFrame
    <3>2. h \notin Pending \union training
      BY DEF AgeInv, IdInv
    <3>3. QED
      BY <3>1, <3>2, LoopTypes
  <2>3. QED
    BY <2>1, <2>2
<1>2. CASE ~RolloutLoop
  BY <1>2, DataInputFrame, BatcherFrame, TrainerFrame, SyncFrame, RunFrame
  DEF Next, Terminated, vars, rolloutVars
<1>3. QED
  BY <1>1, <1>2

(* Every set of groups has types.                                          *)
LEMMA GroupTypes ==
  ASSUME AgeInv
  PROVE  /\ held \subseteq GroupIds /\ accum \subseteq GroupIds /\ batch \subseteq GroupIds
         /\ training \subseteq GroupIds /\ Queued \subseteq GroupIds
<1>1. queue # <<>> => Head(queue) \in SUBSET GroupIds
  BY QueueShape, HeadTailProperties
<1>2. QED
  BY <1>1 DEF AgeInv, TypeOK, Queued

(* A batch is formed whole, from sampled groups, and trained fresh.        *)
LEMMA BatchStep ==
  ASSUME AgeInv, BatchInv, [Next]_vars
  PROVE  BatchInv'
<1> DEFINE P == NumPromptsPerTrainStep
           Whole(groups) == groups = {} \/ Cardinality(groups) = P
           Packed == accum \union batch \union Queued \union training
<1>1. /\ Whole(batch) /\ Whole(Queued) /\ Whole(training)
      /\ \A g \in Packed : version[g] # NoVersion
      /\ trainerPc \in {"forward_backward", "wait_push"} => ~TooStale(training)
  BY DEF BatchInv
<1>2. \A g \in Packed \union held : version'[g] = version[g] /\ g \in GroupIds
  BY LeftVersions, GroupTypes DEF Pending
<1>3. ASSUME Whole(batch'), Whole(Queued'), Whole(training'),
             \A g \in accum' \union batch' \union Queued' \union training' :
               g \in Packed \/ (g \in held /\ version[g] # NoVersion),
             trainerPc' \in {"forward_backward", "wait_push"} => ~TooStale(training)'
      PROVE  BatchInv'
  <2>1. \A g \in accum' \union batch' \union Queued' \union training' : version'[g] # NoVersion
    BY <1>1, <1>2, <1>3
  <2>2. QED
    BY <1>3, <2>1 DEF BatchInv
<1>4. ASSUME training' = training, policyVersion' = policyVersion,
             trainerPc' \in {"forward_backward", "wait_push"}
               => trainerPc \in {"forward_backward", "wait_push"}
      PROVE  trainerPc' \in {"forward_backward", "wait_push"} => ~TooStale(training)'
  <2>1. \A g \in training : PolicyAge(g)' = PolicyAge(g)
    BY <1>2, <1>4 DEF PolicyAge
  <2>2. TooStale(training)' <=> \E g \in training : PolicyAge(g)' > MaxOffpolicySteps
    BY <1>4 DEF TooStale, MaxOffpolicySteps
  <2>3. QED
    BY <1>1, <1>4, <2>1, <2>2 DEF TooStale
<1>5. CASE DataInputLoop \/ RolloutLoop \/ WeightSyncTasks \/ Run \/ UNCHANGED vars
  <2>1. trainerPc' \in {"forward_backward", "wait_push"}
          => trainerPc \in {"forward_backward", "wait_push"}
    <3>1. CASE Run
      BY <3>1, RunFrame
    <3>2. CASE ~Run
      BY <1>5, <3>2, DataInputFrame, RolloutFrame, SyncFrame DEF trainerVars, vars
    <3>3. QED
      BY <3>1, <3>2
  <2>2. QED
    BY <1>1, <1>3, <1>4, <1>5, <2>1, GroupsStay
<1>6. CASE TrainerLoop
  <2>1. UNCHANGED <<held, accum, batch>>
    BY <1>6, TrainerFrame DEF batcherVars
  <2>2. trainerPc' \in {"forward_backward", "wait_push"} => ~TooStale(training)'
    <3>1. CASE TrainerGetsBatch
      <4>1. SUFFICES ASSUME trainerPc' \in {"forward_backward", "wait_push"}
                     PROVE  ~TooStale(training)'
        OBVIOUS
      <4>2. /\ training' = Head(queue) /\ ~TooStale(Head(queue)) /\ queue # <<>>
            /\ policyVersion' = policyVersion /\ UNCHANGED version
        BY <3>1, <4>1 DEF TrainerGetsBatch, syncVars, rolloutVars
      <4>3. QED
        BY <4>2 DEF TooStale, PolicyAge, MaxOffpolicySteps
    <3>2. CASE TrainerForwardBackward
      BY <1>4, <3>2 DEF TrainerForwardBackward, syncVars
    <3>3. CASE ~TrainerGetsBatch /\ ~TrainerForwardBackward
      BY <1>6, <3>3 DEF TrainerLoop, TrainerDiverges, TrainerFails, TrainerOptimStep,
         TrainerStartsSync, TrainerSavesCheckpoint, TrainerExits, TrainerMeetsSyncFailure
    <3>4. QED
      BY <3>1, <3>2, <3>3
  <2>3. QED
    BY <1>1, <1>3, <1>6, <2>1, <2>2, TrainerEffect
<1>7. CASE BatcherLoop
  <2>1. UNCHANGED <<training, trainerPc, policyVersion>>
    BY <1>7, BatcherFrame DEF trainerVars, syncVars
  <2>2. trainerPc' \in {"forward_backward", "wait_push"} => ~TooStale(training)'
    BY <1>4, <2>1
  <2>3. ASSUME NEW g \in GroupIds, BatcherTakes(g) PROVE BatchInv'
    <3>1. Queued' = Queued /\ UNCHANGED <<accum, batch>>
      BY <2>3, TakeEffect DEF Queued
    <3>2. QED
      BY <1>1, <1>3, <2>1, <2>2, <3>1
  <2>4. ASSUME NEW g \in GroupIds, BatcherPacksTrainable(g) PROVE BatchInv'
    <3>1. Queued' = Queued /\ held = {g} /\ batch = {} /\ version[g] # NoVersion
      BY <2>4, PackEffect DEF Queued
    <3>2. accum' \union batch' = accum \union {g}
      BY <2>4, PackEffect
    <3>3. Whole(batch')
      <4>1. g \notin accum
        BY <2>4, PackEffect DEF AgeInv, IdInv
      <4>2. Cardinality(accum \union {g}) = Cardinality(accum) + 1 /\ Cardinality(accum) \in Nat
        BY <4>1, FiniteParts, FS_AddElement
      <4>3. Cardinality(accum) < P /\ P \in Nat
        BY ConstantTypes DEF AgeInv, CountInv
      <4>4. ~(Cardinality(accum \union {g}) < P) => Cardinality(accum \union {g}) = P
        BY <4>2, <4>3
      <4>5. QED
        BY <2>4, <4>4, PackEffect
    <3>4. QED
      BY <1>1, <1>3, <2>1, <2>2, <3>1, <3>2, <3>3
  <2>5. ASSUME NEW g \in GroupIds, BatcherDropsUntrainable(g) PROVE BatchInv'
    <3>1. Queued' = Queued /\ UNCHANGED <<accum, batch>>
      BY <2>5, DropEffect DEF Queued
    <3>2. QED
      BY <1>1, <1>3, <2>1, <2>2, <3>1
  <2>6. CASE BatcherPuts
    BY <1>1, <1>3, <2>1, <2>2, <2>6, PutEffect
  <2>7. CASE BatcherSeesClose \/ BatcherFails \/ BatcherPutsNone
    BY <1>1, <1>3, <2>1, <2>2, <2>7, BatcherIdle
  <2>8. QED
    BY <1>7, <2>3, <2>4, <2>5, <2>6, <2>7 DEF BatcherLoop
<1>8. QED
  BY <1>5, <1>6, <1>7 DEF Next, Terminated

-------------------------------------------------------------------------------
(* How tasks end.                                                          *)

(* Only the data input charges slots.                                      *)
LEMMA SlotsFreed ==
  ASSUME AgeInv, [Next]_vars, ~DataInputLoop
  PROVE  active' \in Int /\ active' <= active /\ dataPc' \in {dataPc, AfterCancel(dataPc)}
<1>1. active \in Int /\ NumPromptsPerTrainStep \in Nat
  BY LoopTypes, ConstantTypes
<1>2. CASE RolloutLoop \/ TrainerLoop
  BY <1>1, <1>2, RolloutFrame, TrainerFrame DEF dataVars
<1>3. CASE BatcherLoop
  <2>1. dataPc' = dataPc
    BY <1>3, BatcherFrame DEF dataVars
  <2>2. ASSUME NEW g \in GroupIds, BatcherDropsUntrainable(g)
        PROVE  active' \in Int /\ active' <= active
    BY <1>1, <2>2, DropEffect
  <2>3. QED
    BY <1>1, <1>3, <2>1, <2>2, BatcherKeepsSlots
<1>4. CASE WeightSyncTasks
  <2>1. dataPc' = dataPc
    BY <1>4, SyncFrame DEF dataVars
  <2>2. QED
    BY <1>1, <1>4, <2>1, SyncStepEffect, PullReleasesEffect DEF WeightSyncTasks
<1>5. CASE Run
  <2>1. dataPc' \in {dataPc, AfterCancel(dataPc)}
    BY <1>5 DEF Run, RunCloses, RunCancels, dataVars
  <2>2. QED
    BY <1>1, <1>5, <2>1, RunFrame
<1>6. CASE UNCHANGED vars
  BY <1>1, <1>6 DEF vars, bufferVars, dataVars
<1>7. QED
  BY <1>2, <1>3, <1>4, <1>5, <1>6 DEF Next, Terminated

(* No task but run() touches runPc or closes the buffer.                   *)
LEMMA RunFlag ==
  ASSUME [Next]_vars, ~Run
  PROVE  UNCHANGED <<runPc, closed>>
<1>1. CASE DataInputLoop
  BY <1>1, DataInputFrame DEF DataInputLoop, DataInputWaits, DataInputAdds, DataInputFails
<1>2. CASE RolloutLoop
  BY <1>2, RolloutFrame
  DEF RolloutLoop, RolloutClaims, RolloutSamples, RolloutFinishes, RolloutFails
<1>3. CASE BatcherLoop
  BY <1>3, BatcherFrame
  DEF BatcherLoop, BatcherTakes, BatcherPacksTrainable, BatcherDropsUntrainable,
      BatcherSeesClose, BatcherFails, BatcherPuts, BatcherPutsNone
<1>4. CASE TrainerLoop
  BY <1>4, TrainerFrame
  DEF TrainerLoop, TrainerGetsBatch, TrainerForwardBackward, TrainerDiverges, TrainerFails,
      TrainerOptimStep, TrainerStartsSync, TrainerSavesCheckpoint, TrainerExits,
      TrainerMeetsSyncFailure
<1>5. CASE WeightSyncTasks
  BY <1>5, SyncFrame DEF WeightSyncTasks, SyncStep, PullReleasesSlots, loopVars
<1>6. CASE UNCHANGED vars
  BY <1>6 DEF vars, bufferVars
<1>7. QED
  BY <1>1, <1>2, <1>3, <1>4, <1>5, <1>6 DEF Next, Terminated

(* The tasks only end early when the buffer is closed, and a free slot     *)
(* stays free until it is taken.                                           *)
LEMMA CloseStep ==
  ASSUME AgeInv, CloseInv, [Next]_vars
  PROVE  CloseInv'
<1>1. closed' <=> runPc' # "running"
  <2>1. CASE Run
    BY <2>1 DEF Run, RunCloses, RunCancels, Close, CloseInv, bufferVars
  <2>2. CASE ~Run
    BY <2>2, RunFlag DEF CloseInv
  <2>3. QED
    BY <2>1, <2>2
<1>2. closed => closed'
  BY <1>1, RunFlag DEF CloseInv, Run, RunCloses, RunCancels, Close, bufferVars
<1>3. /\ dataPc' = "get_sample" => HasActiveSlot'
      /\ dataPc' = "exited" => closed'
  <2>1. CASE DataInputLoop
    BY <1>2, <2>1 DEF CloseInv, DataInputLoop, DataInputWaits, WaitForSlot, DataInputAdds,
       DataInputFails, HasActiveSlot, bufferVars
  <2>2. CASE ~DataInputLoop
    <3>1. active \in Int /\ MaxActive \in Int /\ active' \in Int /\ active' <= active
      BY <2>2, SlotsFreed, LoopTypes, ConstantTypes
    <3>2. /\ dataPc' = "get_sample" => dataPc = "get_sample"
          /\ dataPc' = "exited" => dataPc = "exited"
      BY <2>2, SlotsFreed DEF AfterCancel
    <3>3. QED
      BY <1>2, <3>1, <3>2 DEF CloseInv, HasActiveSlot
  <2>3. QED
    BY <2>1, <2>2
<1>4. batcherPc' \in {"put_none", "exited"} => closed'
  <2>1. CASE BatcherLoop
    <3>1. ASSUME NEW g \in GroupIds, BatcherTakes(g) \/ BatcherPacksTrainable(g)
          PROVE  batcherPc' \in {"take", "pack", "put"}
      BY <3>1 DEF BatcherTakes, BatcherPacksTrainable
    <3>2. ASSUME NEW g \in GroupIds, BatcherDropsUntrainable(g)
          PROVE  batcherPc' = "take"
      BY <3>2, DropEffect
    <3>3. CASE BatcherSeesClose \/ BatcherFails \/ BatcherPuts \/ BatcherPutsNone
      BY <1>2, <3>3 DEF BatcherSeesClose, BatcherFails, BatcherPuts, BatcherPutsNone, CloseInv
    <3>4. QED
      BY <2>1, <3>1, <3>2, <3>3 DEF BatcherLoop
  <2>2. CASE Run
    BY <1>2, <2>2 DEF Run, RunCloses, RunCancels, AfterCancel, CloseInv, batcherVars
  <2>3. CASE ~BatcherLoop /\ ~Run
    <3>1. batcherPc' = batcherPc
      BY <2>3, DataInputFrame, RolloutFrame, TrainerFrame, SyncFrame
      DEF Next, Terminated, vars, batcherVars
    <3>2. QED
      BY <1>2, <3>1 DEF CloseInv
  <2>4. QED
    BY <2>1, <2>2, <2>3
<1>5. queue' # <<>> /\ Head(queue') = NoBatch => closed'
  <2>1. CASE BatcherPuts
    <3>1. queue = <<>> /\ batch # NoBatch /\ queue' = Append(queue, batch)
      BY <2>1, QueueShape DEF BatcherPuts, AgeInv, PcInv, NoBatch
    <3>2. queue' = <<batch>>
      BY <3>1
    <3>3. Head(queue') = batch
      BY <3>2
    <3>4. QED
      BY <3>1, <3>3
  <2>2. CASE BatcherPutsNone
    BY <1>2, <2>2 DEF BatcherPutsNone, CloseInv
  <2>3. CASE TrainerGetsBatch
    <3>1. queue \in Seq(SUBSET GroupIds) /\ Len(queue) = 1 /\ queue' = Tail(queue)
      BY <2>3, QueueShape DEF TrainerGetsBatch
    <3>2. queue' = <<>>
      BY <3>1, EmptySeq
    <3>3. QED
      BY <3>2
  <2>4. CASE queue' = queue
    BY <1>2, <2>4 DEF CloseInv
  <2>5. CASE BatcherLoop
    <3>1. ASSUME NEW g \in GroupIds,
                 BatcherTakes(g) \/ BatcherPacksTrainable(g) \/ BatcherDropsUntrainable(g)
          PROVE  queue' = queue
      BY <3>1, TakeEffect, PackEffect, DropEffect
    <3>2. CASE BatcherSeesClose \/ BatcherFails
      BY <2>4, <3>2 DEF BatcherSeesClose, BatcherFails
    <3>3. QED
      BY <2>1, <2>2, <2>4, <2>5, <3>1, <3>2 DEF BatcherLoop
  <2>6. CASE TrainerLoop
    <3>1. CASE ~TrainerGetsBatch
      BY <2>4, <2>6, <3>1 DEF TrainerLoop, TrainerForwardBackward, TrainerDiverges,
         TrainerFails, TrainerOptimStep, TrainerStartsSync, TrainerSavesCheckpoint,
         TrainerExits, TrainerMeetsSyncFailure
    <3>2. QED
      BY <2>3, <3>1
  <2>7. CASE DataInputLoop \/ RolloutLoop \/ WeightSyncTasks \/ Run \/ UNCHANGED vars
    BY <2>4, <2>7, GroupsStay
  <2>8. QED
    BY <2>5, <2>6, <2>7 DEF Next, Terminated
<1>6. QED
  BY <1>1, <1>3, <1>4, <1>5 DEF CloseInv

(* What the tasks other than the trainer leave of its progress.            *)
LEMMA TrainerStays ==
  ASSUME AgeInv, [Next]_vars, ~TrainerLoop
  PROVE  /\ UNCHANGED <<step, policyVersion, syncVersion>>
         /\ trainerPc' = trainerPc \/ (Run /\ trainerPc' = AfterCancel(trainerPc))
<1>1. CASE Run
  BY <1>1 DEF Run, RunCloses, RunCancels, syncVars, trainerVars
<1>2. CASE DataInputLoop \/ RolloutLoop \/ BatcherLoop \/ WeightSyncTasks
  BY <1>2, DataInputFrame, RolloutFrame, BatcherFrame, SyncFrame DEF syncVars, trainerVars
<1>3. CASE UNCHANGED vars
  BY <1>3 DEF vars, syncVars, trainerVars
<1>4. QED
  BY <1>1, <1>2, <1>3 DEF Next, Terminated

(* The last sync stays done.                                               *)
LEMMA SyncStaysDone ==
  ASSUME AgeInv, [Next]_vars, ~TrainerLoop, push = "done", pull = "done"
  PROVE  push' = "done" /\ pull' = "done"
<1>1. CASE DataInputLoop \/ RolloutLoop \/ BatcherLoop \/ Run
  BY <1>1, DataInputFrame, RolloutFrame, BatcherFrame, RunFrame DEF syncVars
<1>2. CASE SyncStep
  <2>1. \A gen \in Generators : genPull[gen] # "pulling"
    BY DEF AgeInv, BornFreshInv
  <2>2. QED
    BY <1>2, <2>1 DEF SyncStep, PushCompletes, PushFails, PullStarts, PullAborts,
       GeneratorPulls, GeneratorPullFails
<1>3. CASE PullReleasesSlots
  BY <1>3, PullReleasesEffect
<1>4. CASE UNCHANGED vars
  BY <1>4 DEF vars, syncVars
<1>5. QED
  BY <1>1, <1>2, <1>3, <1>4 DEF Next, Terminated, WeightSyncTasks

(* The trainer counts its steps, and leaves its loop when all are done.    *)
LEMMA ProgressStep ==
  ASSUME AgeInv, CloseInv, ProgressInv, [Next]_vars
  PROVE  ProgressInv'
<1>1. /\ policyVersion \in Nat /\ step \in Nat /\ syncVersion \in Nat
      /\ NumTrainingSteps \in Nat
  BY LoopAssumption DEF AgeInv, TypeOK, SyncTypeOK
<1>2. /\ trainerPc \in {"get_batch", "forward_backward", "wait_push", "save", "drain"}
           => policyVersion = syncVersion
      /\ ~closed <=> runPc = "running"
  BY DEF AgeInv, SyncedVersionInv, CloseInv
<1>3. closed => closed'
  BY RunFlag DEF Run, RunCloses, RunCancels, Close, bufferVars
<1>4. CASE TrainerLoop
  <2>1. trainerPc # "exited"
    BY <1>4 DEF TrainerLoop, TrainerGetsBatch, TrainerForwardBackward,
       TrainerDiverges, TrainerFails, TrainerOptimStep, TrainerStartsSync,
       TrainerSavesCheckpoint, TrainerExits, TrainerMeetsSyncFailure
  <2>2. runPc' = runPc
    BY <1>4 DEF TrainerLoop, TrainerGetsBatch, TrainerForwardBackward,
       TrainerDiverges, TrainerFails, TrainerOptimStep, TrainerStartsSync,
       TrainerSavesCheckpoint, TrainerExits, TrainerMeetsSyncFailure
  <2>3. runPc' \notin {"closed_completed", "completed"}
    BY <2>1, <2>2 DEF ProgressInv
  <2>4. CASE TrainerGetsBatch
    <3>1. Head(queue) = NoBatch => closed
      BY <2>4 DEF TrainerGetsBatch, CloseInv
    <3>2. QED
      BY <1>1, <1>2, <1>3, <2>3, <2>4, <3>1 DEF TrainerGetsBatch, syncVars, ProgressInv
  <2>5. CASE TrainerForwardBackward \/ TrainerFails \/ TrainerMeetsSyncFailure
    BY <1>1, <2>3, <2>5
    DEF TrainerForwardBackward, TrainerFails, TrainerMeetsSyncFailure, syncVars, ProgressInv
  <2>6. CASE TrainerDiverges
    BY <1>1, <1>2, <2>3, <2>6 DEF TrainerDiverges, syncVars, ProgressInv, AllTrained
  <2>7. CASE TrainerOptimStep
    BY <1>1, <2>3, <2>7 DEF TrainerOptimStep, StepOptimizer, ProgressInv
  <2>8. CASE TrainerStartsSync
    BY <1>1, <2>3, <2>8 DEF TrainerStartsSync, StartAsyncPushPull, ProgressInv
  <2>9. CASE TrainerSavesCheckpoint
    BY <1>1, <1>2, <2>3, <2>9 DEF TrainerSavesCheckpoint, syncVars, ProgressInv, AllTrained
  <2>10. CASE TrainerExits
    <3>1. policyVersion = syncVersion /\ (closed' \/ AllTrained)
      BY <1>3, <2>10 DEF TrainerExits, ProgressInv
    <3>2. AllTrained' <=> AllTrained
      BY <2>10 DEF TrainerExits, syncVars, AllTrained
    <3>3. QED
      BY <2>3, <2>10, <3>1, <3>2
      DEF TrainerExits, PrevPushDone, PrevPullDone, syncVars, ProgressInv
  <2>11. QED
    BY <1>4, <2>4, <2>5, <2>6, <2>7, <2>8, <2>9, <2>10 DEF TrainerLoop
<1>5. CASE ~TrainerLoop
  <2>1. /\ UNCHANGED <<step, policyVersion, syncVersion>>
        /\ trainerPc' = trainerPc \/ (Run /\ trainerPc' = AfterCancel(trainerPc))
    BY <1>5, TrainerStays
  <2>2. \A pc : pc = trainerPc' /\ pc \notin {"crashed", "cancelled"} => pc = trainerPc
    BY <2>1 DEF AfterCancel
  <2>3. AllTrained' <=> AllTrained
    BY <2>1 DEF AllTrained
  <2>4. trainerPc' = "exited" => push' = "done" /\ pull' = "done"
    BY <1>5, <2>2, SyncStaysDone DEF ProgressInv
  <2>5. runPc' \in {"closed_completed", "completed"} => trainerPc' = "exited" /\ AllTrained
    <3>1. CASE RunCloses
      BY <1>2, <3>1 DEF RunCloses, TrainerDone, trainerVars, ProgressInv
    <3>2. CASE RunCancels
      BY <3>2 DEF RunCancels, AfterCancel, ProgressInv
    <3>3. CASE ~Run
      BY <2>1, <3>3, RunFlag DEF ProgressInv
    <3>4. QED
      BY <3>1, <3>2, <3>3 DEF Run
  <2>6. QED
    BY <1>3, <2>1, <2>2, <2>3, <2>4, <2>5 DEF ProgressInv
<1>6. QED
  BY <1>4, <1>5

(* A stage only raises when something it calls does.                       *)
LEMMA NoFailureStep ==
  ASSUME AgeInv, CloseInv, NoFailureInv, [Next]_vars
  PROVE  NoFailureInv'
<1> SUFFICES ASSUME MayFail \subseteq {"rollout", "loss"}
             PROVE  /\ "crashed" \notin {dataPc', batcherPc', trainerPc'}
                    /\ push' # "failed" /\ pull' # "failed"
  BY DEF NoFailureInv
<1>1. /\ dataPc # "crashed" /\ batcherPc # "crashed" /\ trainerPc # "crashed"
      /\ push # "failed" /\ pull # "failed"
  BY DEF NoFailureInv
<1>2. /\ "data_input" \notin MayFail /\ "batcher" \notin MayFail /\ "trainer" \notin MayFail
      /\ "push" \notin MayFail /\ "pull" \notin MayFail
  OBVIOUS
<1>3. CASE DataInputLoop
  <2>1. dataPc' # "crashed"
    BY <1>1, <1>2, <1>3
    DEF CloseInv, DataInputLoop, DataInputWaits, DataInputAdds, DataInputFails
  <2>2. QED
    BY <1>1, <1>3, <2>1, DataInputFrame DEF syncVars, batcherVars, trainerVars
<1>4. CASE RolloutLoop
  BY <1>1, <1>4, RolloutFrame DEF syncVars, dataVars, batcherVars, trainerVars
<1>5. CASE BatcherLoop
  <2>1. batcherPc' # "crashed"
    <3>1. ASSUME NEW g \in GroupIds,
                 BatcherTakes(g) \/ BatcherPacksTrainable(g) \/ BatcherDropsUntrainable(g)
          PROVE  batcherPc' # "crashed"
      BY <3>1, DropEffect DEF BatcherTakes, BatcherPacksTrainable
    <3>2. QED
      BY <1>1, <1>2, <1>5, <3>1
      DEF BatcherLoop, BatcherSeesClose, BatcherFails, BatcherPuts, BatcherPutsNone
  <2>2. QED
    BY <1>1, <1>5, <2>1, BatcherFrame DEF syncVars, dataVars, trainerVars
<1>6. CASE TrainerLoop
  <2>1. trainerPc' # "crashed"
    <3>1. CASE TrainerGetsBatch
      BY <3>1, AgeBounded DEF TrainerGetsBatch, PolicyAgeBound
    <3>2. ~TrainerMeetsSyncFailure
      BY <1>1 DEF TrainerMeetsSyncFailure, PrevPushFailed, PrevPullFailed
    <3>3. QED
      BY <1>1, <1>2, <1>6, <3>1, <3>2
      DEF TrainerLoop, TrainerForwardBackward, TrainerDiverges, TrainerFails,
          TrainerOptimStep, TrainerStartsSync, TrainerSavesCheckpoint, TrainerExits
  <2>2. push' # "failed" /\ pull' # "failed"
    BY <1>1, <1>6
    DEF TrainerLoop, TrainerGetsBatch, TrainerForwardBackward, TrainerDiverges, TrainerFails,
        TrainerOptimStep, StepOptimizer, TrainerStartsSync, StartAsyncPushPull,
        TrainerSavesCheckpoint, TrainerExits, TrainerMeetsSyncFailure, syncVars, taskVars
  <2>3. QED
    BY <1>1, <1>6, <2>1, <2>2, TrainerFrame DEF dataVars, batcherVars
<1>7. CASE WeightSyncTasks
  <2>1. push' # "failed" /\ pull' # "failed"
    <3>1. CASE SyncStep
      BY <1>1, <1>2, <3>1 DEF SyncStep, PushCompletes, PushFails, PullStarts, PullAborts,
         GeneratorPulls, GeneratorPullFails, taskVars
    <3>2. CASE PullReleasesSlots
      <4>1. CanRelease(NumPromptsPerTrainStep)
        BY <3>2, SlotsToRelease DEF PullReleasesSlots, PullEnds, AllGeneratorsPulled
      <4>2. QED
        BY <1>1, <3>2, <4>1 DEF PullReleasesSlots, PullEnds
    <3>3. QED
      BY <1>7, <3>1, <3>2 DEF WeightSyncTasks
  <2>2. QED
    BY <1>1, <1>7, <2>1, SyncFrame DEF dataVars, batcherVars, trainerVars
<1>8. CASE Run
  BY <1>1, <1>8 DEF Run, RunCloses, RunCancels, AfterCancel, syncVars, dataVars,
     batcherVars, trainerVars
<1>9. CASE UNCHANGED vars
  BY <1>1, <1>9 DEF vars, syncVars, dataVars, batcherVars, trainerVars
<1>10. QED
  BY <1>3, <1>4, <1>5, <1>6, <1>7, <1>8, <1>9 DEF Next, Terminated

(* The whole invariant of the loop, for every buffer, window, batch size   *)
(* and number of steps and generators, and whatever fails.                 *)
THEOREM LoopInvariant == Spec => []LoopInv
<1>1. Init => LoopInv
  <2> SUFFICES ASSUME Init PROVE LoopInv
    OBVIOUS
  <2>1. Queued = {}
    BY DEF Init, Queued
  <2>2. AgeInv /\ HandoffInv
    BY AgeInvInit, ConstantTypes DEF Init, SyncInit, HandoffInv
  <2>3. PlaceInv /\ BatchInv
    BY <2>1 DEF Init, NoBatch, PlaceInv, BatchInv
  <2>4. CloseInv
    BY DEF Init, BufferInit, CloseInv
  <2>5. ProgressInv
    <3>1. CASE StartStep < NumTrainingSteps
      BY <3>1, ConstantTypes DEF Init, SyncInit, ProgressInv
    <3>2. CASE ~(StartStep < NumTrainingSteps)
      BY <3>2, ConstantTypes, LoopAssumption DEF Init, SyncInit, ProgressInv, AllTrained
    <3>3. QED
      BY <3>1, <3>2
  <2>6. NoFailureInv
    BY DEF Init, SyncInit, NoFailureInv
  <2>7. QED
    BY <2>2, <2>3, <2>4, <2>5, <2>6 DEF LoopInv
<1>2. LoopInv /\ [Next]_vars => LoopInv'
  BY AgeStep, HandoffStep, PlaceStep, BatchStep, CloseStep, ProgressStep, NoFailureStep
  DEF LoopInv
<1>3. QED
  BY <1>1, <1>2, PTL DEF Spec

-------------------------------------------------------------------------------
(* What the invariant says about a run.                                    *)

(* When run() returns normally, every step was trained unless the loss     *)
(* diverged, and every generator serves the final weights, for any number  *)
(* of steps and generators and whatever else fails.                        *)
THEOREM RunCompletes == Spec => []CompletedRun
<1>1. LoopInv => CompletedRun
  <2> SUFFICES ASSUME LoopInv, runPc = "completed"
               PROVE  /\ "loss" \in MayFail \/ policyVersion >= NumTrainingSteps
                      /\ \A gen \in Generators : genWeights[gen] = policyVersion
    BY DEF CompletedRun
  <2>1. AllTrained /\ policyVersion = syncVersion /\ pull = "done"
    BY DEF LoopInv, ProgressInv
  <2>2. /\ syncVersion \in Nat /\ StartStep \in Nat /\ genVersion \in [Generators -> Nat]
        /\ \A gen \in Generators : genVersion[gen] >= StartStep + Released
    BY ConstantTypes DEF LoopInv, AgeInv, BornFreshInv, TypeOK, SyncTypeOK
  <2>3. StartStep + Released = syncVersion
    BY <2>1, <2>2 DEF Released
  <2>4. \A gen \in Generators : genVersion[gen] \in StartStep..syncVersion
                                /\ genWeights[gen] = genVersion[gen]
    BY DEF LoopInv, HandoffInv
  <2>5. \A gen \in Generators : genWeights[gen] = policyVersion
    BY <2>1, <2>2, <2>3, <2>4
  <2>6. QED
    BY <2>1, <2>5 DEF AllTrained
<1>2. QED
  BY <1>1, LoopInvariant, PTL

(* Without a failing remote call no task raises, no release exceeds the    *)
(* charged slots, no batch is stale and no task ends before run() closes   *)
(* the buffer.                                                             *)
THEOREM NoTaskRaises == Spec => []NoSpuriousCrash
<1>1. LoopInv => NoSpuriousCrash
  BY DEF LoopInv, NoFailureInv, CloseInv, NoSpuriousCrash
<1>2. QED
  BY <1>1, LoopInvariant, PTL

(* The size of a disjoint union.                                           *)
LEMMA DisjointUnion ==
  ASSUME NEW S, NEW T, IsFiniteSet(S), IsFiniteSet(T), S \intersect T = {}
  PROVE  /\ IsFiniteSet(S \union T)
         /\ Cardinality(S \union T) = Cardinality(S) + Cardinality(T)
<1>1. /\ IsFiniteSet(S \union T)
      /\ Cardinality(S \union T) = Cardinality(S) + Cardinality(T) - Cardinality(S \intersect T)
  BY FS_Union
<1>2. Cardinality(S \intersect T) = 0
  BY FS_EmptySet
<1>3. Cardinality(S) \in Nat /\ Cardinality(T) \in Nat
  BY FS_CardinalityType
<1>4. QED
  BY <1>1, <1>2, <1>3

(* The sizes of the places a group can be in.                              *)
LEMMA PlaceSizes ==
  ASSUME LoopInv
  PROVE  /\ \A S \in {waiting, inflight, finalized, held, accum, batch, Queued, training} :
              IsFiniteSet(S) /\ Cardinality(S) \in Nat
         /\ Cardinality(Buffered)
              = Cardinality(waiting) + Cardinality(inflight) + Cardinality(finalized)
         /\ NumPromptsPerTrainStep * (Formed - Released)
              = NumPromptsPerTrainStep * (policyVersion - StartStep - Released)
                + Cardinality(batch) + Cardinality(Queued) + Cardinality(training)
<1> DEFINE P == NumPromptsPerTrainStep
           ahead == policyVersion - StartStep - Released
           One(S) == IF S = {} THEN 0 ELSE 1
<1>1. \A S \in {waiting, inflight, finalized, held, accum, batch, Queued, training} :
        IsFiniteSet(S) /\ Cardinality(S) \in Nat
  <2>1. \A S \in {waiting, inflight, finalized, held, accum, batch, Queued, training} :
          S \subseteq Admitted
    BY DEF LoopInv, AgeInv, IdInv, Buffered, Pending
  <2>2. QED
    BY <2>1, AdmittedFinite, LoopTypes DEF LoopInv
<1>2. Cardinality(Buffered) = Cardinality(waiting) + Cardinality(inflight) + Cardinality(finalized)
  <2>1. finalized \intersect (waiting \union inflight) = {} /\ waiting \intersect inflight = {}
    BY DEF LoopInv, AgeInv, IdInv
  <2>2. /\ IsFiniteSet(waiting \union inflight)
        /\ Cardinality(waiting \union inflight) = Cardinality(waiting) + Cardinality(inflight)
    BY <1>1, <2>1, DisjointUnion
  <2>3. Cardinality((waiting \union inflight) \union finalized)
          = Cardinality(waiting \union inflight) + Cardinality(finalized)
    <3>1. (waiting \union inflight) \intersect finalized = {}
      BY <2>1
    <3>2. QED
      BY <1>1, <2>2, <3>1, DisjointUnion
  <2>4. QED
    BY <1>1, <2>2, <2>3 DEF Buffered
<1>3. /\ P \in Nat /\ ahead \in Int
  BY ConstantTypes, LoopTypes, ReleasedTypes DEF LoopInv
<1>4. \A S \in {batch, Queued, training} : One(S) \in 0..1 /\ P * One(S) = Cardinality(S)
  <2> SUFFICES ASSUME NEW S \in {batch, Queued, training}
               PROVE  One(S) \in 0..1 /\ P * One(S) = Cardinality(S)
    OBVIOUS
  <2>1. CASE S = {}
    BY <1>3, <2>1, FS_EmptySet
  <2>2. CASE S # {}
    BY <1>3, <2>2 DEF LoopInv, BatchInv
  <2>3. QED
    BY <2>1, <2>2
<1>5. Formed - Released = ahead + One(batch) + One(Queued) + One(training)
  BY <1>3, <1>4, ReleasedTypes, LoopTypes, ConstantTypes DEF Formed, LoopInv
<1>6. \A a \in Int : \A b, c, d \in 0..1 :
        P * (a + b + c + d) = P * a + P * b + P * c + P * d
  BY <1>3
<1>7. P * (ahead + One(batch) + One(Queued) + One(training))
        = P * ahead + P * One(batch) + P * One(Queued) + P * One(training)
  <2> HIDE DEF ahead, One, P
  <2>1. One(batch) \in 0..1 /\ One(Queued) \in 0..1 /\ One(training) \in 0..1
    BY <1>4
  <2>2. QED
    BY <1>3, <1>6, <2>1
<1>8. QED
  BY <1>1, <1>2, <1>4, <1>5, <1>7

(* No slot leaks and none is freed twice: every charged slot is one group  *)
(* in the pipeline or waits for the generators to catch up, for every      *)
(* buffer, batch size and window and whatever fails, until run() closes.   *)
THEOREM SlotsAccounted == Spec => []SlotAccounting
<1>1. LoopInv => SlotAccounting
  <2> SUFFICES ASSUME LoopInv, ~closed
               PROVE  active = Cardinality(waiting) + Cardinality(inflight)
                        + Cardinality(finalized) + Cardinality(held)
                        + Cardinality(accum) + Cardinality(batch)
                        + Cardinality(Queued) + Cardinality(training)
                        + NumPromptsPerTrainStep * (policyVersion - StartStep - Released)
    BY DEF SlotAccounting
  <2> DEFINE ahead == NumPromptsPerTrainStep * (policyVersion - StartStep - Released)
             formed == NumPromptsPerTrainStep * (Formed - Released)
  <2>1. active = Cardinality(Buffered) + formed + Cardinality(accum) + Cardinality(held)
    BY SlotsCharged DEF LoopInv
  <2>2. /\ Cardinality(Buffered)
             = Cardinality(waiting) + Cardinality(inflight) + Cardinality(finalized)
        /\ formed = ahead + Cardinality(batch) + Cardinality(Queued) + Cardinality(training)
    BY PlaceSizes
  <2>3. /\ Cardinality(waiting) \in Nat /\ Cardinality(inflight) \in Nat
        /\ Cardinality(finalized) \in Nat /\ Cardinality(held) \in Nat
        /\ Cardinality(accum) \in Nat /\ Cardinality(batch) \in Nat
        /\ Cardinality(Queued) \in Nat /\ Cardinality(training) \in Nat
    BY PlaceSizes
  <2>4. ahead \in Int
    <3>1. \A p \in Nat, a \in Int : p * a \in Int
      OBVIOUS
    <3>2. policyVersion - StartStep - Released \in Int
      BY ConstantTypes, LoopTypes, ReleasedTypes DEF LoopInv
    <3>3. QED
      BY <3>1, <3>2, ConstantTypes
  <2> HIDE DEF ahead, formed
  <2>5. active = Cardinality(waiting) + Cardinality(inflight)
                 + Cardinality(finalized) + Cardinality(held)
                 + Cardinality(accum) + Cardinality(batch)
                 + Cardinality(Queued) + Cardinality(training) + ahead
    BY <2>1, <2>2, <2>3, <2>4
  <2>6. QED
    BY <2>5 DEF ahead
<1>2. QED
  BY <1>1, LoopInvariant, PTL

-------------------------------------------------------------------------------
(* The loop implements FreshTraining.                                      *)

(* The size of a union.                                                    *)
LEMMA UnionBound ==
  ASSUME NEW S, NEW T, IsFiniteSet(S), IsFiniteSet(T)
  PROVE  /\ IsFiniteSet(S \union T) /\ Cardinality(S \union T) \in Nat
         /\ Cardinality(S \union T) <= Cardinality(S) + Cardinality(T)
<1>1. /\ IsFiniteSet(S \union T)
      /\ Cardinality(S \union T) = Cardinality(S) + Cardinality(T) - Cardinality(S \intersect T)
  BY FS_Union
<1>2. IsFiniteSet(S \intersect T)
  BY FS_Intersection
<1>3. QED
  BY <1>1, <1>2, FS_CardinalityType

(* Every group in the loop holds a charged slot.                           *)
LEMMA OutstandingBound ==
  ASSUME LoopInv
  PROVE  Cardinality(Outstanding) <= active
<1> DEFINE A == Buffered \union held
           B == A \union accum
           C == B \union batch
           D == C \union Queued
           E == D \union training
<1>1. /\ IsFiniteSet(held) /\ IsFiniteSet(accum) /\ IsFiniteSet(batch)
      /\ IsFiniteSet(Queued) /\ IsFiniteSet(training) /\ IsFiniteSet(Buffered)
      /\ Cardinality(held) \in Nat /\ Cardinality(accum) \in Nat
      /\ Cardinality(batch) \in Nat /\ Cardinality(Queued) \in Nat
      /\ Cardinality(training) \in Nat /\ Cardinality(Buffered) \in Nat
  BY PlaceSizes, SlotsCharged DEF LoopInv
<1>2. /\ IsFiniteSet(A) /\ Cardinality(A) \in Nat
      /\ Cardinality(A) <= Cardinality(Buffered) + Cardinality(held)
  BY <1>1, UnionBound
<1>3. /\ IsFiniteSet(B) /\ Cardinality(B) \in Nat
      /\ Cardinality(B) <= Cardinality(A) + Cardinality(accum)
  BY <1>1, <1>2, UnionBound
<1>4. /\ IsFiniteSet(C) /\ Cardinality(C) \in Nat
      /\ Cardinality(C) <= Cardinality(B) + Cardinality(batch)
  BY <1>1, <1>3, UnionBound
<1>5. /\ IsFiniteSet(D) /\ Cardinality(D) \in Nat
      /\ Cardinality(D) <= Cardinality(C) + Cardinality(Queued)
  BY <1>1, <1>4, UnionBound
<1>6. /\ Cardinality(E) \in Nat
      /\ Cardinality(E) <= Cardinality(D) + Cardinality(training)
  BY <1>1, <1>5, UnionBound
<1>7. Outstanding = E
  BY DEF Outstanding, Pending
<1>8. Cardinality(Buffered) + Cardinality(batch) + Cardinality(Queued) + Cardinality(training)
        + Cardinality(accum) + Cardinality(held) <= active
  <2> DEFINE ahead == NumPromptsPerTrainStep * (policyVersion - StartStep - Released)
             formed == NumPromptsPerTrainStep * (Formed - Released)
  <2>1. Cardinality(Buffered) + formed + Cardinality(accum) + Cardinality(held) <= active
    BY SlotsCharged DEF LoopInv
  <2>2. formed = ahead + Cardinality(batch) + Cardinality(Queued) + Cardinality(training)
    BY PlaceSizes
  <2>3. ahead \in Nat
    <3>1. \A p \in Nat, a \in Nat : p * a \in Nat
      OBVIOUS
    <3>2. /\ policyVersion \in Nat /\ syncVersion \in Nat /\ StartStep \in Nat
          /\ policyVersion >= syncVersion
      BY ConstantTypes DEF LoopInv, AgeInv, SyncedVersionInv, TypeOK, SyncTypeOK
    <3>3. policyVersion - StartStep - Released \in Nat
      BY <3>2 DEF Released
    <3>4. QED
      BY <3>1, <3>3, ConstantTypes
  <2>4. active \in Int
    BY LoopTypes DEF LoopInv
  <2> HIDE DEF ahead, formed
  <2>5. QED
    BY <1>1, <2>1, <2>2, <2>3, <2>4
<1>9. active \in Int
  BY LoopTypes DEF LoopInv
<1> HIDE DEF A, B, C, D, E
<1>10. QED
  BY <1>1, <1>2, <1>3, <1>4, <1>5, <1>6, <1>7, <1>8, <1>9

(* FreshTraining counts as the loop does.                                  *)
LEMMA AbstractSizes ==
  ASSUME NEW S
  PROVE  Abstract!Cardinality(S) = Cardinality(S)
BY DEF Abstract!Cardinality, Cardinality

(* What moves or loses groups, and does nothing else, discards.            *)
LEMMA MovesDiscard ==
  ASSUME UNCHANGED <<nextGroup, version, policyVersion>>, Outstanding' \subseteq Outstanding
  PROVE  Abstract!FreshNext
<1> DEFINE lost == Outstanding \ Outstanding'
<1>1. lost \in SUBSET Outstanding /\ Outstanding' = Outstanding \ lost
  OBVIOUS
<1>2. Abstract!Discard(lost)
  BY <1>1 DEF Abstract!Discard
<1>3. QED
  BY <1>1, <1>2 DEF Abstract!FreshNext

(* The data input admits groups within the budget.                         *)
LEMMA DataInputRefines ==
  ASSUME LoopInv, DataInputLoop
  PROVE  Abstract!FreshNext
<1>1. /\ UNCHANGED <<version, policyVersion, held, accum, batch, queue, training>>
      /\ UNCHANGED <<inflight, finalized>>
  BY DataInputFrame DEF syncVars, rolloutVars, batcherVars, trainerVars
<1>2. CASE UNCHANGED <<waiting, nextGroup>>
  <2>1. Outstanding' = Outstanding
    BY <1>1, <1>2 DEF Outstanding, Buffered, Pending, Queued
  <2>2. QED
    BY <1>1, <1>2, <2>1, MovesDiscard
<1>3. CASE /\ active < MaxActive
           /\ nextGroup \in GroupIds
           /\ nextGroup' = nextGroup + 1
           /\ waiting' = waiting \union {nextGroup}
  <2>1. Outstanding' = Outstanding \union {nextGroup}
    BY <1>1, <1>3 DEF Outstanding, Buffered, Pending, Queued
  <2>2. Cardinality(Outstanding) < MaxActive
    <3>1. Cardinality(Outstanding) \in Nat
      <4>1. Outstanding \subseteq Admitted
        BY DEF LoopInv, AgeInv, IdInv, Outstanding
      <4>2. QED
        BY <4>1, AdmittedFinite, LoopTypes DEF LoopInv
    <3>2. active \in Int /\ MaxActive \in Int
      BY LoopTypes, ConstantTypes DEF LoopInv
    <3>3. QED
      BY <1>3, <3>1, <3>2, OutstandingBound
  <2>3. Abstract!Admit
    BY <1>1, <1>3, <2>1, <2>2, AbstractSizes DEF Abstract!Admit
  <2>4. QED
    BY <2>3 DEF Abstract!FreshNext
<1>4. QED
  BY <1>2, <1>3, DataInputFrame

(* A rollout samples by a version the trainer has reached, or voids.       *)
LEMMA RolloutRefines ==
  ASSUME LoopInv, RolloutLoop
  PROVE  Abstract!FreshNext
<1>1. /\ UNCHANGED <<nextGroup, policyVersion>> /\ Outstanding' = Outstanding
  BY RolloutFrame DEF dataVars, syncVars, batcherVars, trainerVars, Outstanding, Buffered,
     Pending, Queued, entries
<1>2. CASE version' = version
  BY <1>1, <1>2, MovesDiscard
<1>3. CASE version' # version
  <2>1. PICK g \in GroupIds : \/ \E gen \in Generators : RolloutSamples(g, gen)
                              \/ RolloutFails(g)
    BY <1>3 DEF RolloutLoop, RolloutClaims, RolloutFinishes
  <2>2. CASE RolloutFails(g)
    <3>1. Abstract!Void(g)
      BY <1>1, <2>2 DEF RolloutFails, Abstract!Void
    <3>2. QED
      BY <3>1 DEF Abstract!FreshNext
  <2>3. ASSUME NEW gen \in Generators, RolloutSamples(g, gen) PROVE Abstract!FreshNext
    <3>1. /\ version[g] = NoVersion
          /\ version' = [version EXCEPT ![g] = genVersion[gen]]
      BY <2>3 DEF RolloutSamples
    <3>2. genVersion[gen] \in StartStep..policyVersion
      <4>1. genVersion[gen] \in StartStep..syncVersion
        BY DEF LoopInv, HandoffInv
      <4>2. /\ syncVersion \in Nat /\ policyVersion \in Nat /\ StartStep \in Nat
            /\ syncVersion <= policyVersion
        BY ConstantTypes DEF LoopInv, AgeInv, SyncedVersionInv, TypeOK, SyncTypeOK
      <4>3. QED
        BY <4>1, <4>2
    <3>3. Abstract!Sample(g)
      BY <1>1, <3>1, <3>2 DEF Abstract!Sample
    <3>4. QED
      BY <3>3 DEF Abstract!FreshNext
  <2>4. QED
    BY <2>1, <2>2, <2>3
<1>4. QED
  BY <1>2, <1>3

(* The batcher passes groups on or drops them.                             *)
LEMMA BatcherRefines ==
  ASSUME LoopInv, BatcherLoop
  PROVE  Abstract!FreshNext
<1> USE DEF Outstanding, Pending
<1>1. UNCHANGED <<nextGroup, version, policyVersion, waiting, inflight, training>>
  BY BatcherFrame DEF dataVars, rolloutVars, syncVars, trainerVars
<1>2. ASSUME UNCHANGED entries PROVE Buffered' = Buffered
  BY <1>2 DEF entries, Buffered
<1>3. Outstanding' \subseteq Outstanding
  <2>1. ASSUME NEW g \in GroupIds, BatcherTakes(g) PROVE Outstanding' \subseteq Outstanding
    BY <1>1, <2>1, TakeEffect DEF LoopInv, Buffered, Queued
  <2>2. ASSUME NEW g \in GroupIds, BatcherPacksTrainable(g)
        PROVE  Outstanding' \subseteq Outstanding
    BY <1>1, <1>2, <2>2, PackEffect DEF LoopInv, Queued
  <2>3. ASSUME NEW g \in GroupIds, BatcherDropsUntrainable(g)
        PROVE  Outstanding' \subseteq Outstanding
    BY <1>1, <1>2, <2>3, DropEffect DEF LoopInv, Queued
  <2>4. CASE BatcherPuts
    BY <1>1, <1>2, <2>4, PutEffect DEF LoopInv
  <2>5. CASE BatcherSeesClose \/ BatcherFails \/ BatcherPutsNone
    BY <1>1, <1>2, <2>5, BatcherIdle DEF LoopInv
  <2>6. QED
    BY <2>1, <2>2, <2>3, <2>4, <2>5 DEF BatcherLoop
<1>4. QED
  BY <1>1, <1>3, MovesDiscard

(* An optimizer step trains one whole fresh batch, and nothing else does.  *)
LEMMA TrainerRefines ==
  ASSUME LoopInv, TrainerLoop
  PROVE  Abstract!FreshNext
<1> USE DEF Outstanding, Pending
<1>1. /\ UNCHANGED <<nextGroup, version, held, accum, batch>> /\ Buffered' = Buffered
  BY TrainerFrame DEF dataVars, rolloutVars, batcherVars, entries, Buffered
<1>2. CASE TrainerOptimStep
  <2>1. /\ trainerPc = "wait_push" /\ training' = {} /\ Queued' = Queued
        /\ policyVersion' = policyVersion + 1
    BY <1>2 DEF TrainerOptimStep, StepOptimizer, NoBatch, Queued
  <2>2. training # {} /\ ~TooStale(training)
    BY <2>1 DEF LoopInv, AgeInv, PcInv, BatchInv
  <2>3. /\ Cardinality(training) = NumPromptsPerTrainStep
        /\ \A g \in training : version[g] # NoVersion
    BY <2>2 DEF LoopInv, BatchInv
  <2>4. \A g \in training : policyVersion - version[g] <= MaxOffpolicySteps
    <3>1. \A g \in training : g \in GroupIds
      BY DEF LoopInv, AgeInv, TypeOK
    <3>2. \A g \in training : policyVersion - version[g] \in Int
      BY <3>1, LoopTypes DEF LoopInv, NoVersion
    <3>3. MaxOffpolicySteps \in Int
      BY ConstantTypes DEF MaxOffpolicySteps
    <3>4. QED
      BY <2>2, <3>2, <3>3 DEF TooStale, PolicyAge
  <2>5. Outstanding' = Outstanding \ training
    BY <1>1, <2>1 DEF LoopInv, AgeInv, IdInv, PlaceInv
  <2>6. Abstract!Train(training)
    BY <1>1, <2>1, <2>3, <2>4, <2>5, AbstractSizes DEF Abstract!Train
  <2>7. QED
    BY <2>6 DEF Abstract!FreshNext
<1>3. CASE ~TrainerOptimStep
  <2>1. policyVersion' = policyVersion
    BY <1>3 DEF TrainerLoop, TrainerGetsBatch, TrainerForwardBackward, TrainerDiverges,
       TrainerFails, TrainerStartsSync, StartAsyncPushPull, TrainerSavesCheckpoint,
       TrainerExits, TrainerMeetsSyncFailure, syncVars
  <2>2. policyVersion \in Int
    BY LoopTypes DEF LoopInv
  <2>3. Outstanding' = Outstanding
    BY <1>1, <2>1, <2>2, TrainerEffect DEF LoopInv
  <2>4. QED
    BY <1>1, <2>1, <2>3, MovesDiscard
<1>4. QED
  BY <1>2, <1>3

(* The weight sync and run() train nothing; close() discards the buffer.   *)
LEMMA RestRefines ==
  ASSUME LoopInv, WeightSyncTasks \/ Run \/ UNCHANGED vars
  PROVE  Abstract!FreshNext
<1>1. /\ UNCHANGED <<held, accum, batch, training, policyVersion>> /\ Queued' = Queued
  BY GroupsStay DEF LoopInv
<1>2. UNCHANGED <<nextGroup, version>> /\ Buffered' \subseteq Buffered
  BY SyncFrame, RunFrame DEF dataVars, rolloutVars, entries, Buffered, vars, bufferVars
<1>3. Outstanding' \subseteq Outstanding
  BY <1>1, <1>2 DEF Outstanding, Pending
<1>4. QED
  BY <1>1, <1>2, <1>3, MovesDiscard

(* The tasks, queues, window and weight handoff together implement         *)
(* FreshTraining: every step admits one group within the budget, samples   *)
(* or voids one, trains one whole fresh batch, discards groups, or does    *)
(* nothing FreshTraining sees.                                             *)
THEOREM LoopTrainsFresh == Spec => ImplementsFreshTraining
<1>1. Init => Abstract!FreshInit
  BY DEF Init, BufferInit, SyncInit, NoBatch, Abstract!FreshInit, Outstanding, Buffered,
     Pending, Queued
<1>2. LoopInv /\ [Next]_vars => [Abstract!FreshNext]_Abstract!freshVars
  BY DataInputRefines, RolloutRefines, BatcherRefines, TrainerRefines, RestRefines
  DEF Next, Terminated
<1>3. QED
  BY <1>1, <1>2, LoopInvariant, PTL DEF Spec, ImplementsFreshTraining, Abstract!FreshSpec
===============================================================================
