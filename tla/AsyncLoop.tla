------------------------------- MODULE AsyncLoop -------------------------------
(***************************************************************************)
(* TitanRL's asynchronous training loop (controller.py): Controller.run    *)
(* starts a data-input task, one rollout worker per active slot, a batcher *)
(* task and a trainer task on one asyncio event loop.  They meet in the    *)
(* RolloutGroupWorkBuffer and in a training-batch queue of one slot; the   *)
(* WeightSync tasks run beside them.                                       *)
(*                                                                         *)
(* An action is the code between two awaits that really suspend.  What a   *)
(* sample contains is abstracted to the oldest policy version it was       *)
(* sampled under and to whether its group is trainable.                    *)
(***************************************************************************)
EXTENDS RolloutGroupWorkBuffer, WeightSync, FiniteSets, Sequences

CONSTANTS
  NumPromptsPerTrainStep,   \* P: trainable groups in one training batch
  TargetOffpolicySteps,     \* S: sizes the buffer
  NumTrainingSteps,
  GroupIds,     \* bound: the group ids a behaviour may issue (Nat: no bound)
  MaxDropped,   \* bound: untrainable groups in a behaviour
  MayFail       \* the stages whose remote call or user code may raise

Stages == {"data_input", "rollout", "batcher", "loss", "trainer", "push", "pull"}

ASSUME LoopAssumption ==
  /\ NumPromptsPerTrainStep \in Nat \ {0}
  /\ TargetOffpolicySteps \in Nat
  /\ MaxActive = (TargetOffpolicySteps + 1) * NumPromptsPerTrainStep
  /\ NumTrainingSteps \in Nat
  /\ GroupIds \subseteq Nat
  /\ MaxDropped \in Nat
  /\ MayFail \subseteq Stages

VARIABLES
  dataPc,       \* where _data_input_loop is suspended
  nextGroup,    \* its group_index
  running,      \* groups held by a rollout worker
  version,      \* per group: the oldest version any of its tokens came from
  batcherPc,    \* where _batcher_loop is suspended
  held,         \* the group the batcher took and has not packed yet
  accum,        \* trainable groups in Batcher._groups_for_next_batch
  batch,        \* the packed batch the batcher is putting on the queue
  dropped,      \* groups released as untrainable
  queue,        \* training_batch_queue (maxsize 1)
  trainerPc,    \* where _trainer_loop is suspended
  step,         \* its loop variable
  training,     \* the groups of the batch the trainer consumed last
  runPc         \* run() itself

dataVars == <<dataPc, nextGroup>>
rolloutVars == <<running, version>>
batcherVars == <<batcherPc, held, accum, batch, dropped>>
trainerVars == <<trainerPc, step, training>>
vars == <<bufferVars, syncVars, dataVars, rolloutVars, batcherVars, queue,
          trainerVars, runPc>>

NoVersion == -1   \* an empty group: no completion, or its rollouts raised
NoBatch == {}     \* the None sentinel; a real batch is never empty

Stopped == {"exited", "crashed", "cancelled"}
DataPcs == {"wait_for_slot", "get_sample"} \union Stopped
BatcherPcs == {"take", "pack", "put", "put_none"} \union Stopped
TrainerPcs == {"get_batch", "forward_backward", "wait_push", "wait_pull",
               "save", "drain"} \union Stopped
RunPcs == {"running", "closed_completed", "closed_raised", "completed", "raised"}

MaxOffpolicySteps ==
  (MaxActive + WindowSize - 2) \div NumPromptsPerTrainStep

Init ==
  /\ BufferInit
  /\ SyncInit
  /\ dataPc = "wait_for_slot"
  /\ nextGroup = 0
  /\ running = {}
  /\ version = [g \in GroupIds |-> NoVersion]
  /\ batcherPc = "take"
  /\ held = {} /\ accum = {} /\ batch = NoBatch /\ dropped = {}
  /\ queue = <<>>
  /\ trainerPc = IF StartStep < NumTrainingSteps THEN "get_batch" ELSE "drain"
  /\ step = StartStep + 1
  /\ training = NoBatch
  /\ runPc = "running"

-------------------------------------------------------------------------------
(* _data_input_loop: check for a slot, then fetch a sample in a thread,    *)
(* then charge the slot.                                                   *)

DataInputWaits ==
  /\ dataPc = "wait_for_slot"
  /\ \E open \in BOOLEAN :
       /\ WaitForSlot(open)
       /\ dataPc' = IF open THEN "get_sample" ELSE "exited"
  /\ UNCHANGED <<syncVars, nextGroup, rolloutVars, batcherVars, queue,
                 trainerVars, runPc>>

DataInputAdds ==
  /\ dataPc = "get_sample"
  /\ nextGroup \in GroupIds
  /\ IF HasActiveSlot
     THEN /\ AddWork(nextGroup)
          /\ nextGroup' = nextGroup + 1
          /\ dataPc' = "wait_for_slot"
     ELSE /\ dataPc' = "crashed"
          /\ UNCHANGED <<bufferVars, nextGroup>>
  /\ UNCHANGED <<syncVars, rolloutVars, batcherVars, queue, trainerVars, runPc>>

DataInputFails ==
  /\ "data_input" \in MayFail
  /\ dataPc = "get_sample"
  /\ dataPc' = "crashed"
  /\ UNCHANGED <<bufferVars, syncVars, nextGroup, rolloutVars, batcherVars,
                 queue, trainerVars, runPc>>

-------------------------------------------------------------------------------
(* _rollout_loop, one worker per active slot.                              *)

RolloutClaims(g) ==
  /\ runPc \notin {"completed", "raised"}
  /\ Cardinality(running) < MaxActive
  /\ ClaimNext(g)
  /\ running' = running \union {g}
  /\ UNCHANGED <<syncVars, dataVars, version, batcherVars, queue, trainerVars,
                 runPc>>

(* The first tokens of the group come from some generator, at the version  *)
(* that generator holds by then.                                           *)
RolloutSamples(g, gen) ==
  /\ g \in running
  /\ version[g] = NoVersion
  /\ version' = [version EXCEPT ![g] = genVersion[gen]]
  /\ UNCHANGED <<bufferVars, syncVars, dataVars, running, batcherVars, queue,
                 trainerVars, runPc>>

RolloutFinishes(g) ==
  /\ g \in running
  /\ version[g] # NoVersion
  /\ FinalizeWork(g)
  /\ running' = running \ {g}
  /\ UNCHANGED <<syncVars, dataVars, version, batcherVars, queue, trainerVars,
                 runPc>>

EmptyGroups == {g \in finalized \union held : version[g] = NoVersion}

MayDrop == Cardinality(dropped \union EmptyGroups) < MaxDropped

(* Any exception in the rollouts becomes an empty group.                   *)
RolloutFails(g) ==
  /\ "rollout" \in MayFail
  /\ MayDrop
  /\ g \in running
  /\ version' = [version EXCEPT ![g] = NoVersion]
  /\ FinalizeWork(g)
  /\ running' = running \ {g}
  /\ UNCHANGED <<syncVars, dataVars, batcherVars, queue, trainerVars, runPc>>

-------------------------------------------------------------------------------
(* _batcher_loop.                                                          *)

BatcherTakes(g) ==
  /\ batcherPc = "take"
  /\ TakeFinalized(g)
  /\ held' = {g}
  /\ batcherPc' = "pack"
  /\ UNCHANGED <<syncVars, dataVars, rolloutVars, accum, batch, dropped, queue,
                 trainerVars, runPc>>

BatcherSeesClose ==
  /\ batcherPc = "take"
  /\ closed
  /\ batcherPc' = "put_none"
  /\ UNCHANGED <<bufferVars, syncVars, dataVars, rolloutVars, held, accum,
                 batch, dropped, queue, trainerVars, runPc>>

BatcherPacksTrainable_Late(g) ==
  /\ batcherPc = "pack"
  /\ g \in held
  /\ version[g] # NoVersion
  /\ held' = {}
  /\ IF Cardinality(accum) < NumPromptsPerTrainStep
     THEN /\ accum' = accum \union {g}
          /\ batcherPc' = "take"
          /\ UNCHANGED batch
     ELSE /\ batch' = accum \union {g}
          /\ accum' = {}
          /\ batcherPc' = "put"
  /\ UNCHANGED <<bufferVars, syncVars, dataVars, rolloutVars, dropped, queue,
                 trainerVars, runPc>>

(* build_from_group keeps samples and the batcher keeps some of them: the  *)
(* P-th trainable group completes a batch.                                 *)
BatcherPacksTrainable(g) ==
  /\ batcherPc = "pack"
  /\ g \in held
  /\ version[g] # NoVersion
  /\ held' = {}
  /\ IF Cardinality(accum \union {g}) < NumPromptsPerTrainStep
     THEN /\ accum' = accum \union {g}
          /\ batcherPc' = "take"
          /\ UNCHANGED batch
     ELSE /\ batch' = accum \union {g}
          /\ accum' = {}
          /\ batcherPc' = "put"
  /\ UNCHANGED <<bufferVars, syncVars, dataVars, rolloutVars, dropped, queue,
                 trainerVars, runPc>>

BatcherDropsUntrainable_Leaks(g) ==
  /\ batcherPc = "pack"
  /\ g \in held
  /\ version[g] = NoVersion
  /\ held' = {}
  /\ batcherPc' = "take"
  /\ UNCHANGED <<bufferVars, syncVars, dataVars, rolloutVars, accum, batch,
                 dropped, queue, trainerVars, runPc>>

(* Nothing of the group survives the filters: its slot is freed at once.   *)
BatcherDropsUntrainable(g) ==
  /\ batcherPc = "pack"
  /\ g \in held
  /\ version[g] = NoVersion \/ MayDrop
  /\ held' = {}
  /\ IF CanRelease(1)
     THEN /\ ReleaseActiveGroups(1)
          /\ dropped' = dropped \union {g}
          /\ batcherPc' = "take"
     ELSE /\ batcherPc' = "crashed"
          /\ UNCHANGED <<bufferVars, dropped>>
  /\ UNCHANGED <<syncVars, dataVars, rolloutVars, accum, batch, queue,
                 trainerVars, runPc>>

BatcherFails ==
  /\ "batcher" \in MayFail
  /\ batcherPc = "pack"
  /\ batcherPc' = "crashed"
  /\ UNCHANGED <<bufferVars, syncVars, dataVars, rolloutVars, held, accum,
                 batch, dropped, queue, trainerVars, runPc>>

BatcherPuts ==
  /\ batcherPc = "put"
  /\ Len(queue) < 1
  /\ queue' = Append(queue, batch)
  /\ batch' = NoBatch
  /\ batcherPc' = "take"
  /\ UNCHANGED <<bufferVars, syncVars, dataVars, rolloutVars, held, accum,
                 dropped, trainerVars, runPc>>

BatcherPutsNone ==
  /\ batcherPc = "put_none"
  /\ Len(queue) < 1
  /\ queue' = Append(queue, NoBatch)
  /\ batcherPc' = "exited"
  /\ UNCHANGED <<bufferVars, syncVars, dataVars, rolloutVars, held, accum,
                 batch, dropped, trainerVars, runPc>>

-------------------------------------------------------------------------------
(* _trainer_loop.                                                          *)

PolicyAge(g) == policyVersion - version[g]

(* compute_policy_age_metrics raises on a batch older than the bound.      *)
TooStale(groups) == \E g \in groups : PolicyAge(g) > MaxOffpolicySteps

TrainerGetsBatch ==
  /\ trainerPc = "get_batch"
  /\ queue # <<>>
  /\ queue' = Tail(queue)
  /\ training' = Head(queue)
  /\ trainerPc' = IF Head(queue) = NoBatch THEN "drain"
                  ELSE IF TooStale(Head(queue)) THEN "crashed"
                  ELSE "forward_backward"
  /\ UNCHANGED <<bufferVars, syncVars, dataVars, rolloutVars, batcherVars,
                 step, runPc>>

TrainerForwardBackward ==
  /\ trainerPc = "forward_backward"
  /\ trainerPc' = "wait_push"
  /\ UNCHANGED <<bufferVars, syncVars, dataVars, rolloutVars, batcherVars,
                 queue, step, training, runPc>>

TrainerDiverges ==
  /\ "loss" \in MayFail
  /\ trainerPc = "forward_backward"
  /\ trainerPc' = "drain"
  /\ UNCHANGED <<bufferVars, syncVars, dataVars, rolloutVars, batcherVars,
                 queue, step, training, runPc>>

(* Any call to the trainer actors may raise, sync_log_step before the get  *)
(* included.                                                               *)
TrainerFails ==
  /\ "trainer" \in MayFail
  /\ \/ trainerPc \in {"get_batch", "forward_backward", "save"}
     \/ trainerPc = "wait_push" /\ PrevPushDone
  /\ trainerPc' = "crashed"
  /\ UNCHANGED <<bufferVars, syncVars, dataVars, rolloutVars, batcherVars,
                 queue, step, training, runPc>>

TrainerOptimStep ==
  /\ trainerPc = "wait_push"
  /\ PrevPushDone
  /\ StepOptimizer
  /\ training' = NoBatch
  /\ trainerPc' = "wait_pull"
  /\ UNCHANGED <<bufferVars, dataVars, rolloutVars, batcherVars, queue, step,
                 runPc>>

TrainerStartsSync ==
  /\ trainerPc = "wait_pull"
  /\ PrevPullDone
  /\ StartAsyncPushPull
  /\ FlushMetrics
  /\ trainerPc' = "save"
  /\ UNCHANGED <<dataVars, rolloutVars, batcherVars, queue, step, training,
                 runPc>>

TrainerSavesCheckpoint ==
  /\ trainerPc = "save"
  /\ step' = step + 1
  /\ trainerPc' = IF step < NumTrainingSteps THEN "get_batch" ELSE "drain"
  /\ UNCHANGED <<bufferVars, syncVars, dataVars, rolloutVars, batcherVars,
                 queue, training, runPc>>

TrainerExits_NoDrain ==
  /\ trainerPc = "drain"
  /\ trainerPc' = "exited"
  /\ UNCHANGED <<bufferVars, syncVars, dataVars, rolloutVars, batcherVars,
                 queue, step, training, runPc>>

(* wait_inflight_push_pull after the loop, then the task returns.          *)
TrainerExits ==
  /\ trainerPc = "drain"
  /\ PrevPushDone
  /\ PrevPullDone
  /\ trainerPc' = "exited"
  /\ UNCHANGED <<bufferVars, syncVars, dataVars, rolloutVars, batcherVars,
                 queue, step, training, runPc>>

(* Awaiting a failed weight-sync task raises in the trainer loop.          *)
TrainerMeetsSyncFailure ==
  /\ \/ trainerPc = "wait_push" /\ PrevPushFailed
     \/ trainerPc = "wait_pull" /\ PrevPullFailed
     \/ trainerPc = "drain" /\ PrevPushFailed
     \/ trainerPc = "drain" /\ PrevPushDone /\ PrevPullFailed
  /\ trainerPc' = "crashed"
  /\ UNCHANGED <<bufferVars, syncVars, dataVars, rolloutVars, batcherVars,
                 queue, step, training, runPc>>

-------------------------------------------------------------------------------
(* The weight-sync tasks.                                                  *)

loopVars == <<dataVars, rolloutVars, batcherVars, queue, trainerVars, runPc>>

SyncStep ==
  /\ \/ PushCompletes
     \/ "push" \in MayFail /\ PushFails
     \/ PullStarts
     \/ PullAborts
     \/ \E gen \in Generators : GeneratorPulls(gen)
     \/ "pull" \in MayFail /\ \E gen \in Generators : GeneratorPullFails(gen)
  /\ UNCHANGED <<bufferVars, loopVars>>

(* The trained groups' slots are freed once every generator has pulled.    *)
PullReleasesSlots ==
  /\ IF CanRelease(NumPromptsPerTrainStep)
     THEN PullEnds(TRUE) /\ ReleaseActiveGroups(NumPromptsPerTrainStep)
     ELSE PullEnds(FALSE) /\ UNCHANGED bufferVars
  /\ UNCHANGED loopVars

-------------------------------------------------------------------------------
(* run(): wake when the first task is done, close the buffer, cancel.      *)

TrainerDone == trainerPc \in {"exited", "crashed"}
ProducerDone == dataPc \in {"exited", "crashed"} \/ batcherPc \in {"exited", "crashed"}

RunCloses ==
  /\ runPc = "running"
  /\ TrainerDone \/ ProducerDone
  /\ Close
  /\ runPc' = IF ProducerDone \/ trainerPc = "crashed" THEN "closed_raised"
                                                      ELSE "closed_completed"
  /\ UNCHANGED <<syncVars, dataVars, rolloutVars, batcherVars, queue,
                 trainerVars>>

AfterCancel(pc) == IF pc \in {"exited", "crashed"} THEN pc ELSE "cancelled"

RunCancels ==
  /\ runPc \in {"closed_completed", "closed_raised"}
  /\ dataPc' = AfterCancel(dataPc)
  /\ batcherPc' = AfterCancel(batcherPc)
  /\ trainerPc' = AfterCancel(trainerPc)
  /\ running' = {}
  /\ runPc' = IF runPc = "closed_completed" THEN "completed" ELSE "raised"
  /\ UNCHANGED <<bufferVars, syncVars, nextGroup, version, held, accum, batch,
                 dropped, queue, step, training>>

Ended == runPc \in {"completed", "raised"}

Terminated == Ended /\ UNCHANGED vars

-------------------------------------------------------------------------------

DataInputLoop == DataInputWaits \/ DataInputAdds \/ DataInputFails

RolloutLoop ==
  \E g \in GroupIds :
    \/ RolloutClaims(g)
    \/ \E gen \in Generators : RolloutSamples(g, gen)
    \/ RolloutFinishes(g)
    \/ RolloutFails(g)

BatcherLoop ==
  \/ \E g \in GroupIds : \/ BatcherTakes(g)
                         \/ BatcherPacksTrainable(g)
                         \/ BatcherDropsUntrainable(g)
  \/ BatcherSeesClose
  \/ BatcherFails
  \/ BatcherPuts
  \/ BatcherPutsNone

TrainerLoop ==
  \/ TrainerGetsBatch
  \/ TrainerForwardBackward
  \/ TrainerDiverges
  \/ TrainerFails
  \/ TrainerOptimStep
  \/ TrainerStartsSync
  \/ TrainerSavesCheckpoint
  \/ TrainerExits
  \/ TrainerMeetsSyncFailure

WeightSyncTasks == SyncStep \/ PullReleasesSlots

Run == RunCloses \/ RunCancels

Next ==
  \/ DataInputLoop
  \/ RolloutLoop
  \/ BatcherLoop
  \/ TrainerLoop
  \/ WeightSyncTasks
  \/ Run
  \/ Terminated

Spec == Init /\ [][Next]_vars

-------------------------------------------------------------------------------
(* Properties.                                                             *)

Queued == IF queue = <<>> THEN {} ELSE Head(queue)

(* Groups on their way from the buffer to the trainer.                     *)
Pending == held \union accum \union batch \union Queued

(* Types of the loop's own variables.                                      *)
TypeOK ==
  /\ SyncTypeOK
  /\ active \in 0..MaxActive
  /\ peak \in active..MaxActive
  /\ waiting \subseteq GroupIds
  /\ inflight \subseteq GroupIds
  /\ finalized \subseteq GroupIds
  /\ closed \in BOOLEAN
  /\ dataPc \in DataPcs
  /\ nextGroup \in Nat
  /\ running \subseteq GroupIds
  /\ version \in [GroupIds -> Nat \union {NoVersion}]
  /\ batcherPc \in BatcherPcs
  /\ held \subseteq GroupIds
  /\ accum \subseteq GroupIds
  /\ batch \subseteq GroupIds
  /\ dropped \subseteq GroupIds
  /\ queue \in Seq(SUBSET GroupIds)
  /\ Len(queue) <= 1
  /\ trainerPc \in TrainerPcs
  /\ step \in Nat
  /\ training \subseteq GroupIds
  /\ runPc \in RunPcs

(* Steps whose slots the weight sync has handed back.                      *)
Released == syncVersion - StartStep - (IF pull = "done" THEN 0 ELSE 1)

(* Every charged slot is one group somewhere in the pipeline, or one of    *)
(* the P groups of a step that the generators have not caught up with; no  *)
(* slot leaks and none is freed twice (the buffer docstring's "we never    *)
(* have more than max_active_rollout_groups in the entire pipeline").      *)
SlotAccounting ==
  ~closed =>
    active = Cardinality(waiting) + Cardinality(inflight)
             + Cardinality(finalized) + Cardinality(held)
             + Cardinality(accum) + Cardinality(batch)
             + Cardinality(Queued) + Cardinality(training)
             + NumPromptsPerTrainStep * (policyVersion - StartStep - Released)

(* The hard off-policy bound: a batch the trainer is about to consume      *)
(* holds no sample older than max_offpolicy_steps, so the RuntimeError of  *)
(* compute_policy_age_metrics cannot fire.                                 *)
PolicyAgeBound ==
  trainerPc = "get_batch" /\ queue # <<>> => ~TooStale(Head(queue))

(* Anchored windowed FIFO: nothing the batcher took is window_size or more *)
(* ids ahead of a group it left behind (strict order when it is 1).        *)
WindowedFIFO ==
  ~closed => \A g \in Buffered, h \in Pending \union training : h < g + WindowSize

(* A generator never loads weights while the trainer is still staging      *)
(* them, also when another generator's pull has failed.                    *)
NoTornRead ==
  push = "running" => \A gen \in Generators : genPull[gen] # "pulling"

(* The version a generator stamps on its tokens is the version of the      *)
(* weights it computes with, although label and weights travel separately. *)
VersionLabelTrue ==
  \A gen \in Generators : genWeights[gen] = genVersion[gen]

(* When run() returns normally every step was trained (unless the loss     *)
(* diverged) and every generator serves the final weights, which the       *)
(* post-training validation measures.                                      *)
CompletedRun ==
  runPc = "completed" =>
    /\ "loss" \in MayFail \/ policyVersion >= NumTrainingSteps
    /\ \A gen \in Generators : genWeights[gen] = policyVersion

(* Without a failing remote call no task of the loop raises: add_work      *)
(* always finds the slot that wait_for_slot saw, a release never exceeds   *)
(* the charged slots, no batch is stale, and no task ends before run()     *)
(* closes the buffer.                                                      *)
NoSpuriousCrash ==
  MayFail \subseteq {"rollout", "loss"} =>
    /\ "crashed" \notin {dataPc, batcherPc, trainerPc}
    /\ pull # "failed"
    /\ ~closed => dataPc # "exited" /\ batcherPc # "exited"

(* Trained slots come back only when every generator serves the version    *)
(* they were trained into ("born-fresh").                                  *)
SlotsReleasedAfterPull ==
  [][active' < active =>
       \/ dropped' # dropped
       \/ \A gen \in Generators : genWeights[gen] = syncVersion]_vars

-------------------------------------------------------------------------------
(* The inductive invariant behind PolicyAgeBound.                          *)

Admitted == 0..(nextGroup - 1)

(* Everything admitted that has left the buffer.                           *)
Removed == Admitted \ Buffered

(* Batches formed so far: trained, being trained, queued, being queued.    *)
Formed ==
  (policyVersion - StartStep)
  + (IF training = {} THEN 0 ELSE 1)
  + (IF Queued = {} THEN 0 ELSE 1)
  + (IF batch = {} THEN 0 ELSE 1)

DroppedBefore(g) == Cardinality({d \in dropped : d < g})

PcInv ==
  /\ batcherPc = "take" => held = {} /\ batch = {}
  /\ batcherPc = "pack" => batch = {} /\ \E g \in GroupIds : held = {g}
  /\ batcherPc = "put" => held = {} /\ batch # {}
  /\ trainerPc \in {"get_batch", "wait_pull", "save"} => training = {}
  /\ trainerPc \in {"forward_backward", "wait_push"} => training # {}

SyncedVersionInv ==
  /\ policyVersion >= StartStep
  /\ syncVersion >= StartStep
  /\ policyVersion \in {syncVersion, syncVersion + 1}
  /\ trainerPc = "wait_pull" => policyVersion = syncVersion + 1
  /\ trainerPc \in {"get_batch", "forward_backward", "wait_push", "save", "drain"}
       => policyVersion = syncVersion

(* A generator serves at least the newest version whose slots came back.   *)
BornFreshInv ==
  \A gen \in Generators :
    /\ genVersion[gen] >= StartStep + Released
    /\ pull = "running" /\ genPull[gen] = "idle"
         => genVersion[gen] >= syncVersion
    /\ genPull[gen] = "pulling" => pull \in {"running", "failed"}

SlotInv ==
  active = nextGroup - NumPromptsPerTrainStep * Released - Cardinality(dropped)

IdInv ==
  /\ Buffered \union running \union Pending \union training \union dropped
       \subseteq Admitted
  /\ finalized \intersect (waiting \union inflight) = {}
  /\ waiting \intersect inflight = {}
  /\ Buffered \intersect (Pending \union training \union dropped) = {}
  /\ running \intersect (waiting \union finalized \union Pending \union training) = {}
  /\ held \intersect (accum \union dropped) = {}

Accounted ==
  NumPromptsPerTrainStep * Formed
  + Cardinality(accum) + Cardinality(dropped) + Cardinality(held)

(* close() discards what is in the buffer, which is then not accounted for.*)
CountInv ==
  /\ Cardinality(accum) < NumPromptsPerTrainStep
  /\ Accounted <= Cardinality(Removed)
  /\ ~closed => Accounted = Cardinality(Removed)

WindowInv == ~closed => \A g \in Buffered, h \in Removed : h < g + WindowSize

(* What admission guaranteed about a group, kept until it is trained.      *)
AdmitInv ==
  /\ \A g \in Admitted :
       g + 1 <= MaxActive + NumPromptsPerTrainStep * Released + DroppedBefore(g)
  /\ \A g \in GroupIds : version[g] # NoVersion =>
       g + 1 <= MaxActive + NumPromptsPerTrainStep * (version[g] - StartStep)
                + DroppedBefore(g)

AgeAtBatch(g, n) == StartStep + n - version[g]

FreshInv ==
  /\ \A g \in held : version[g] # NoVersion =>
       AgeAtBatch(g, Formed) <= MaxOffpolicySteps
  /\ \A g \in accum : AgeAtBatch(g, Formed) <= MaxOffpolicySteps
  /\ \A g \in batch : AgeAtBatch(g, Formed - 1) <= MaxOffpolicySteps
  /\ \A g \in Queued :
       PolicyAge(g) + (IF training = {} THEN 0 ELSE 1) <= MaxOffpolicySteps

AgeInv ==
  /\ TypeOK
  /\ PcInv
  /\ SyncedVersionInv
  /\ BornFreshInv
  /\ SlotInv
  /\ IdInv
  /\ CountInv
  /\ WindowInv
  /\ AdmitInv
  /\ FreshInv

(* What makes the handoff of weights sound, although the store holds one   *)
(* copy, label and weights travel apart and nothing locks them.            *)
HandoffInv ==
  /\ push = "running" => pull = "awaiting_push" /\ policyVersion = syncVersion
  /\ push = "done" => stored = syncVersion
  /\ pull = "running" => push = "done"
  /\ \A gen \in Generators :
       /\ genPull[gen] = "pulling" => push = "done"
       /\ genWeights[gen] = genVersion[gen]
       /\ genVersion[gen] \in StartStep..syncVersion

(* A group that left the buffer is in one place, and a batch is whole,     *)
(* sampled, and fresh while it is trained.                                 *)
PlaceInv ==
  /\ held \intersect (accum \union batch \union Queued \union training \union dropped) = {}
  /\ accum \intersect (batch \union Queued \union training) = {}
  /\ batch \intersect (Queued \union training) = {}
  /\ Queued \intersect training = {}

BatchInv ==
  /\ \A groups \in {batch, Queued, training} :
       groups = {} \/ Cardinality(groups) = NumPromptsPerTrainStep
  /\ \A g \in accum \union batch \union Queued \union training : version[g] # NoVersion
  /\ trainerPc \in {"forward_backward", "wait_push"} => ~TooStale(training)

(* Only close() lets the tasks end early, and only the data input can take *)
(* the slot that it saw.                                                   *)
CloseInv ==
  /\ closed <=> runPc # "running"
  /\ dataPc = "get_sample" => HasActiveSlot
  /\ dataPc = "exited" \/ batcherPc \in {"put_none", "exited"} => closed
  /\ queue # <<>> /\ Head(queue) = NoBatch => closed

AllTrained == "loss" \in MayFail \/ policyVersion >= NumTrainingSteps

(* The trainer's loop variable counts its versions; it leaves the loop     *)
(* when it has trained them all and the last sync is over.                 *)
ProgressInv ==
  /\ trainerPc \in {"get_batch", "forward_backward", "wait_push"} => policyVersion = step - 1
  /\ trainerPc \in {"wait_pull", "save"} => policyVersion = step
  /\ trainerPc \in {"drain", "exited"} => policyVersion = syncVersion /\ (closed \/ AllTrained)
  /\ trainerPc = "exited" => push = "done" /\ pull = "done"
  /\ runPc \in {"closed_completed", "completed"} => trainerPc = "exited" /\ AllTrained

NoFailureInv ==
  MayFail \subseteq {"rollout", "loss"} =>
    /\ "crashed" \notin {dataPc, batcherPc, trainerPc}
    /\ push # "failed" /\ pull # "failed"

LoopInv ==
  /\ AgeInv /\ HandoffInv
  /\ PlaceInv /\ BatchInv /\ CloseInv /\ ProgressInv /\ NoFailureInv

-------------------------------------------------------------------------------
(* Liveness.  Each task runs when it can; a remote call, a rollout or a    *)
(* thread eventually answers; failures are never forced to happen.         *)

DataInputRuns == DataInputWaits \/ DataInputAdds

BatcherRuns ==
  \/ \E g \in GroupIds : \/ BatcherTakes(g)
                         \/ BatcherPacksTrainable(g)
                         \/ BatcherDropsUntrainable(g)
  \/ BatcherSeesClose
  \/ BatcherPuts
  \/ BatcherPutsNone

TrainerRuns ==
  \/ TrainerGetsBatch
  \/ TrainerForwardBackward
  \/ TrainerOptimStep
  \/ TrainerStartsSync
  \/ TrainerSavesCheckpoint
  \/ TrainerExits
  \/ TrainerMeetsSyncFailure

RolloutRuns(g) ==
  \/ RolloutClaims(g)
  \/ \E gen \in Generators : RolloutSamples(g, gen)
  \/ RolloutFinishes(g)

Fairness ==
  /\ WF_vars(DataInputRuns)
  /\ \A g \in GroupIds : WF_vars(RolloutRuns(g))
  /\ WF_vars(BatcherRuns)
  /\ WF_vars(TrainerRuns)
  /\ WF_vars(WeightSyncTasks)
  /\ WF_vars(Run)

FairSpec == Spec /\ Fairness

(* run() comes to an end.                                                  *)
Termination == <>Ended

(* A failed weight sync ends the run (run(): "Start every async loop and   *)
(* run until training completes or a stage crashes").                      *)
SyncFailureEndsRun == (push = "failed" \/ pull = "failed") ~> Ended
===============================================================================
