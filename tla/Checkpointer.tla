------------------------------ MODULE Checkpointer ------------------------------
(***************************************************************************)
(* The DCP checkpoint manager (components/checkpointer) under the          *)
(* pretraining loop (trainer.py) that drives it: saves in the three        *)
(* asynchronous modes, the purge thread, resuming after the process died.  *)
(*                                                                         *)
(* The ranks act as one: each runs the same calls, a save is collective,   *)
(* and only rank 0 purges.  The training state is the step it belongs to.  *)
(* Writing and deleting a directory take time and may stop half-way.       *)
(***************************************************************************)
EXTENDS Integers, FiniteSets, Sequences

CONSTANTS
  LastStep,       \* training.steps
  Interval,       \* checkpoint.interval
  FirstStep,      \* checkpoint.enable_first_step_checkpoint
  KeepLatestK,    \* checkpoint.keep_latest_k
  Exempt,         \* the steps checkpoint.purge_exempt protects
  AsyncModes,     \* the values of checkpoint.async_mode to consider
  LastSave,       \* what the last step saves: all, the model, or HF files
  LoadStep,       \* checkpoint.load_step, NoStep for the latest
  Earlier,        \* sets of checkpoints earlier runs may have left
  MaxDeaths       \* bound: times the process dies or raises

ASSUME CheckpointerAssumption ==
  /\ LastStep \in Nat \ {0}
  /\ Interval \in Nat \ {0}
  /\ FirstStep \in BOOLEAN
  /\ KeepLatestK \in Nat \ {1}
  /\ Exempt \subseteq Nat
  /\ AsyncModes \subseteq {"disabled", "async", "async_with_pinned_mem"}
  /\ LastSave \in {"full", "model", "hf"}
  /\ LoadStep \in (0..LastStep) \union {-1}
  /\ Earlier \subseteq SUBSET (0..LastStep)
  /\ MaxDeaths \in Nat

VARIABLES
  mode,        \* async_mode
  disk,        \* the directory step-N of every step
  jobPc,       \* where the training loop is
  step,        \* Trainer.step
  raised,      \* the loop is closing because of an exception
  save,        \* the save in progress or awaited
  saveStep,    \* the step it saves
  torn,        \* the optimizer ran while it was staged
  queue,       \* purge_queue
  deleting,    \* the directory the purge thread is deleting
  thread,      \* purge_thread
  deaths       \* times the process died or raised

diskVars == <<mode, disk>>
jobVars == <<jobPc, step, raised, deaths>>
saveVars == <<save, saveStep, torn>>
purgeVars == <<queue, deleting, thread>>
vars == <<diskVars, jobVars, saveVars, purgeVars>>

Steps == 0..LastStep
NoStep == -1
Sentinel == -2

(* The marker makes a directory a checkpoint; it is the last file written. *)
Absent == [marker |-> "none", data |-> "absent"]
Seed == [marker |-> "dcp", data |-> "model"]
Full == [marker |-> "dcp", data |-> "full"]

MaxStep(S) == CHOOSE s \in S : \A t \in S : t <= s

SortedSteps(S) ==
  CHOOSE order \in [1..Cardinality(S) -> S] :
    \A i, j \in 1..Cardinality(S) : i < j => order[i] < order[j]

IsValidCheckpoint_AnyDirectory(s) == disk[s].data # "absent"
IsValidCheckpoint(s) == disk[s].marker # "none"

ValidSteps == {s \in Steps : IsValidCheckpoint(s)}

FindLoadStep == IF ValidSteps = {} THEN NoStep ELSE MaxStep(ValidSteps)

Init ==
  /\ mode \in AsyncModes
  /\ \E left \in Earlier :
       disk = [s \in Steps |-> IF s \notin left THEN Absent
                               ELSE IF s = 0 THEN Seed ELSE Full]
  /\ jobPc = "down" /\ step = 0 /\ raised = FALSE /\ deaths = 0
  /\ save = "none" /\ saveStep = NoStep /\ torn = FALSE
  /\ queue = <<>> /\ deleting = NoStep /\ thread = "ended"

-------------------------------------------------------------------------------
(* Start and resume.                                                       *)

(* What dcp.load can restore: step 0 asks for the model only, any other    *)
(* step for the whole training state, and always in DCP's own format.      *)
CanLoad(s) ==
  /\ disk[s].marker = "dcp"
  /\ disk[s].data = "full" \/ (s = 0 /\ disk[s].data = "model")

(* A new process builds the manager and loads the checkpoint it was told   *)
(* to, or the latest, or starts afresh when the folder holds none.         *)
Start ==
  LET found == IF LoadStep = NoStep THEN FindLoadStep ELSE LoadStep IN
  /\ jobPc = "down"
  /\ thread' = IF KeepLatestK > 0 THEN "alive" ELSE "ended"
  /\ \/ found = NoStep /\ jobPc' = "ready" /\ step' = 0
     \/ found # NoStep /\ CanLoad(found) /\ jobPc' = "ready" /\ step' = found
     \/ found # NoStep /\ ~CanLoad(found) /\ jobPc' = "load_failed" /\ UNCHANGED step
  /\ UNCHANGED <<diskVars, raised, deaths, saveVars, queue, deleting>>

-------------------------------------------------------------------------------
(* The training loop.                                                      *)

ShouldContinueTraining == step < LastStep

StepBegins ==
  /\ jobPc = "ready"
  /\ ShouldContinueTraining
  /\ step' = step + 1
  /\ jobPc' = "stepping"
  /\ UNCHANGED <<diskVars, raised, deaths, saveVars, purgeVars>>

(* The optimizer changes the weights only after they are staged.           *)
OptimizerStep_NoWait ==
  /\ jobPc = "stepping"
  /\ jobPc' = "saving"
  /\ torn' = (torn \/ save = "staging")
  /\ UNCHANGED <<diskVars, step, raised, deaths, save, saveStep, purgeVars>>

OptimizerStep ==
  /\ jobPc = "stepping"
  /\ save \notin {"staging", "staging_failed"}
  /\ jobPc' = "saving"
  /\ torn' = (torn \/ save = "staging")
  /\ UNCHANGED <<diskVars, step, raised, deaths, save, saveStep, purgeVars>>

Raise ==
  /\ jobPc' = "closing"
  /\ raised' = TRUE
  /\ deaths' = deaths + 1
  /\ UNCHANGED step

(* Any exception of a step, a failed staging among them.                   *)
StepRaises ==
  /\ jobPc = "stepping"
  /\ deaths < MaxDeaths \/ save = "staging_failed"
  /\ Raise
  /\ UNCHANGED <<diskVars, saveVars, purgeVars>>

(* The data loader has nothing left: the step is cancelled, nothing saved.  *)
DataRunsOut ==
  /\ jobPc = "stepping"
  /\ jobPc' = "closing"
  /\ UNCHANGED <<diskVars, step, raised, deaths, saveVars, purgeVars>>

TrainingEnds ==
  /\ jobPc = "ready"
  /\ ~ShouldContinueTraining
  /\ jobPc' = "closing"
  /\ UNCHANGED <<diskVars, step, raised, deaths, saveVars, purgeVars>>

-------------------------------------------------------------------------------
(* Saving.                                                                 *)

ScheduledSave(s) ==
  \/ s = 1 /\ FirstStep
  \/ s = LastStep
  \/ s % Interval = 0

ShouldSave == ScheduledSave(step)

SaveSkipped ==
  /\ jobPc = "saving"
  /\ ~ShouldSave
  /\ jobPc' = "ready"
  /\ UNCHANGED <<diskVars, step, raised, deaths, saveVars, purgeVars>>

(* _purge_stale_checkpoints: the oldest checkpoints beyond the K-1 that    *)
(* stay beside the one about to be saved, then what saves left unfinished. *)
StaleCheckpoints_KeepFewer(others) ==
  {s \in others : Cardinality({t \in others : t > s}) + 2 >= KeepLatestK} \ Exempt

StaleCheckpoints_NewestFirst(others) ==
  {s \in others : Cardinality({t \in others : t < s}) + 1 >= KeepLatestK} \ Exempt

StaleCheckpoints(others) ==
  {s \in others : Cardinality({t \in others : t > s}) + 1 >= KeepLatestK} \ Exempt

AbandonedSaves_Current(saving) ==
  {s \in Steps : disk[s].data # "absent" /\ ~IsValidCheckpoint(s)}

AbandonedSaves(saving) ==
  {s \in Steps \ {saving} : disk[s].data # "absent" /\ ~IsValidCheckpoint(s)}

PurgeStaleCheckpoints(saving) ==
  queue' = IF KeepLatestK = 0 THEN queue
           ELSE queue \o SortedSteps(StaleCheckpoints(ValidSteps \ {saving}))
                      \o SortedSteps(AbandonedSaves(saving))

(* A save starts after the one before it has ended.  The last step is      *)
(* saved synchronously in every mode.                                      *)
SaveStarts ==
  /\ jobPc = "saving"
  /\ ShouldSave
  /\ save \in {"none", "done"}
  /\ PurgeStaleCheckpoints(step)
  /\ saveStep' = step
  /\ torn' = FALSE
  /\ IF step = LastStep \/ mode = "disabled"
     THEN jobPc' = "writing" /\ save' = "writing"
     ELSE /\ jobPc' = "ready"
          /\ save' = IF mode = "async" THEN "writing" ELSE "staging"
  /\ disk' = IF save' = "writing" THEN [disk EXCEPT ![step].data = "partial"] ELSE disk
  /\ UNCHANGED <<mode, step, raised, deaths, deleting, thread>>

(* The failure of an asynchronous save is raised by the next one.          *)
SaveRaises ==
  /\ jobPc = "saving"
  /\ ShouldSave
  /\ save \in {"failed", "staging_failed"}
  /\ Raise
  /\ UNCHANGED <<diskVars, saveVars, purgeVars>>

(* A synchronous save returns, or raises, and leaves no future behind.     *)
SaveReturns ==
  /\ jobPc = "writing"
  /\ save \in {"done", "failed"}
  /\ IF save = "done" THEN jobPc' = "ready" /\ UNCHANGED <<step, raised, deaths>>
                      ELSE Raise
  /\ save' = "none"
  /\ UNCHANGED <<diskVars, saveStep, torn, purgeVars>>

Staged ==
  /\ save = "staging"
  /\ save' = "writing"
  /\ disk' = [disk EXCEPT ![saveStep].data = "partial"]
  /\ UNCHANGED <<mode, jobVars, saveStep, torn, purgeVars>>

(* If the directory was deleted meanwhile, only the last files are there.  *)
SavedFiles ==
  CASE disk[saveStep].data = "absent" -> [marker |-> "dcp", data |-> "partial"]
    [] torn -> [marker |-> "dcp", data |-> "torn"]
    [] saveStep = LastStep /\ LastSave = "model" -> [marker |-> "dcp", data |-> "model"]
    [] saveStep = LastStep /\ LastSave = "hf" -> [marker |-> "hf", data |-> "model"]
    [] OTHER -> Full

Written ==
  /\ save = "writing"
  /\ save' = "done"
  /\ disk' = [disk EXCEPT ![saveStep] = SavedFiles]
  /\ UNCHANGED <<mode, jobVars, saveStep, torn, purgeVars>>

SaveFails ==
  /\ save \in {"staging", "writing"}
  /\ deaths < MaxDeaths
  /\ save' = IF save = "staging" THEN "staging_failed" ELSE "failed"
  /\ UNCHANGED <<diskVars, jobVars, saveStep, torn, purgeVars>>

-------------------------------------------------------------------------------
(* The purge thread.                                                       *)

PurgeTakes ==
  /\ thread = "alive"
  /\ deleting = NoStep
  /\ queue # <<>>
  /\ queue' = Tail(queue)
  /\ IF Head(queue) = Sentinel
     THEN thread' = "ended" /\ UNCHANGED deleting
     ELSE deleting' = Head(queue) /\ UNCHANGED thread
  /\ UNCHANGED <<diskVars, jobVars, saveVars>>

(* Some files are gone, the marker among them or not.                      *)
DeletesSome ==
  /\ deleting # NoStep
  /\ disk[deleting].data \notin {"absent", "partial"} \/ IsValidCheckpoint(deleting)
  /\ \E marker \in {"none", disk[deleting].marker} :
       disk' = [disk EXCEPT ![deleting] = [marker |-> marker, data |-> "partial"]]
  /\ UNCHANGED <<mode, jobVars, saveVars, purgeVars>>

Deleted ==
  /\ deleting # NoStep
  /\ disk' = [disk EXCEPT ![deleting] = Absent]
  /\ deleting' = NoStep
  /\ UNCHANGED <<mode, jobVars, saveVars, queue, thread>>

(* A failed deletion leaves what is left and goes on to the next.          *)
DeletionFails ==
  /\ deleting # NoStep
  /\ deleting' = NoStep
  /\ UNCHANGED <<diskVars, jobVars, saveVars, queue, thread>>

-------------------------------------------------------------------------------
(* The end of the process.                                                 *)

(* close() awaits staging and saving, whose failures it raises again after *)
(* releasing the purge thread.                                             *)
CloseAwaited_NoSentinel ==
  /\ jobPc = "closing"
  /\ save \notin {"staging", "writing"}
  /\ jobPc' = "joining"
  /\ raised' = (raised \/ save \in {"failed", "staging_failed"})
  /\ deaths' = IF raised' /\ ~raised THEN deaths + 1 ELSE deaths
  /\ save' = "none"
  /\ UNCHANGED <<diskVars, step, saveStep, torn, purgeVars>>

CloseAwaited ==
  /\ jobPc = "closing"
  /\ save \notin {"staging", "writing"}
  /\ jobPc' = "joining"
  /\ raised' = (raised \/ save \in {"failed", "staging_failed"})
  /\ deaths' = IF raised' /\ ~raised THEN deaths + 1 ELSE deaths
  /\ save' = "none"
  /\ queue' = IF thread = "alive" THEN Append(queue, Sentinel) ELSE queue
  /\ UNCHANGED <<diskVars, step, saveStep, torn, deleting, thread>>

Joined ==
  /\ jobPc = "joining"
  /\ thread = "ended"
  /\ jobPc' = IF raised THEN "down" ELSE "done"
  /\ raised' = FALSE
  /\ UNCHANGED <<diskVars, step, deaths, saveVars, purgeVars>>

(* The process is killed: its threads stop wherever they are.              *)
Killed ==
  /\ jobPc \notin {"down", "done", "load_failed"}
  /\ deaths < MaxDeaths
  /\ jobPc' = "down"
  /\ deaths' = deaths + 1
  /\ raised' = FALSE
  /\ save' = "none" /\ saveStep' = NoStep /\ torn' = FALSE
  /\ queue' = <<>> /\ deleting' = NoStep /\ thread' = "ended"
  /\ UNCHANGED <<diskVars, step>>

Over ==
  /\ jobPc \in {"done", "load_failed"}
  /\ UNCHANGED vars

-------------------------------------------------------------------------------
Next ==
  \/ Start
  \/ StepBegins \/ OptimizerStep \/ StepRaises \/ DataRunsOut \/ TrainingEnds
  \/ SaveSkipped \/ SaveStarts \/ SaveRaises \/ SaveReturns
  \/ Staged \/ Written \/ SaveFails
  \/ PurgeTakes \/ DeletesSome \/ Deleted \/ DeletionFails
  \/ CloseAwaited \/ Joined \/ Killed
  \/ Over

Spec == Init /\ [][Next]_vars

(* A process that died is started again, the loop runs, copies and writes  *)
(* end, and the thread gets on with its queue.                             *)
Fairness ==
  /\ WF_vars(Start)
  /\ WF_vars(StepBegins \/ OptimizerStep \/ TrainingEnds \/ SaveSkipped
             \/ SaveStarts \/ SaveRaises \/ SaveReturns \/ CloseAwaited \/ Joined)
  /\ WF_vars(StepRaises /\ save = "staging_failed")
  /\ WF_vars(Staged) /\ WF_vars(Written)
  /\ WF_vars(PurgeTakes) /\ WF_vars(Deleted \/ DeletionFails)

FairSpec == Spec /\ Fairness

-------------------------------------------------------------------------------
(* Properties.                                                             *)

(* Every variable has its type; training never goes past training.steps.   *)
TypeOK ==
  /\ mode \in AsyncModes
  /\ disk \in [Steps -> [marker : {"none", "dcp", "hf"},
                         data : {"absent", "partial", "torn", "model", "full"}]]
  /\ jobPc \in {"down", "ready", "stepping", "saving", "writing", "closing",
                "joining", "done", "load_failed"}
  /\ step \in Steps
  /\ raised \in BOOLEAN
  /\ deaths \in 0..MaxDeaths
  /\ save \in {"none", "staging", "writing", "done", "failed", "staging_failed"}
  /\ saveStep \in Steps \union {NoStep}
  /\ torn \in BOOLEAN
  /\ queue \in Seq(Steps \union {Sentinel})
  /\ deleting \in Steps \union {NoStep}
  /\ thread \in {"alive", "ended"}

ToPurge == {queue[i] : i \in 1..Len(queue)} \union {deleting}

(* What a restart would pick is a checkpoint it can load, at every moment: *)
(* during a save, a deletion, and after a death in the middle of either.   *)
LatestLoads == FindLoadStep # NoStep => CanLoad(FindLoadStep)

(* A whole checkpoint is deleted only when keep_latest_k - 1 newer whole   *)
(* ones are on disk, whatever deaths and failed deletions left there.      *)
KeepsLatestK ==
  \A s \in ToPurge \intersect Steps : CanLoad(s) =>
    Cardinality({t \in Steps : t > s /\ CanLoad(t)}) + 1 >= KeepLatestK

(* The purge thread never has the directory of the save in progress before *)
(* it, although an earlier process may have left that one unfinished.      *)
SaveUndisturbed ==
  save \in {"staging", "writing"} => saveStep \notin ToPurge

(* A checkpoint holds the weights of its step: none was staged while the   *)
(* optimizer of the next step ran.                                         *)
NoTornSnapshot == \A s \in Steps : disk[s].data # "torn"

(* A process that is started again with the same arguments finds a         *)
(* checkpoint it can load, or none ("Whether checkpoint_dir holds a        *)
(* checkpoint this manager can load").                                     *)
RestartLoads == jobPc # "load_failed"

(* Training ends, and the process with it, after finitely many deaths:     *)
(* close() does not wait for ever for saves or for the purge thread.       *)
JobEnds == <>(jobPc = "done")

(* The checkpoint folder is a register of the latest saved step.           *)
Register == INSTANCE LatestCheckpoint WITH
  latest <- FindLoadStep, running <- jobPc # "down", at <- step

ImplementsRegister == Register!Spec

-------------------------------------------------------------------------------
(* The inductive invariant behind the safety properties, for a job that    *)
(* resumes from its latest checkpoint and whose last save is a full one.   *)

Resumable == LastSave = "full" /\ LoadStep = NoStep

Alive == jobPc \notin {"down", "done", "load_failed"}

Looping == jobPc \in {"ready", "stepping", "saving", "writing"}

(* What the variables of the job and of its save say of each other.        *)
ProcessInv ==
  /\ raised => jobPc \in {"closing", "joining"}
  /\ save # "none" => Alive /\ jobPc # "joining" /\ saveStep \in Steps
  /\ save \in {"failed", "staging_failed"} /\ ~raised => deaths < MaxDeaths
  /\ KeepLatestK = 0 => thread = "ended"
  /\ torn = FALSE

NewerLoadable(s) == {t \in Steps : t > s /\ CanLoad(t)}

(* The retention policy can do without s: enough newer ones are whole.     *)
Covered(s) ==
  KeepLatestK > 0 /\ Cardinality(NewerLoadable(s)) + 1 >= KeepLatestK

(* A checkpoint that a deletion has damaged is one the policy can spare.   *)
WholeInv == \A s \in ValidSteps : CanLoad(s) \/ Covered(s)

(* The purge thread has older directories only, and of the valid ones      *)
(* only those the policy can spare.                                        *)
PurgeInv ==
  \A s \in ToPurge \intersect Steps :
    /\ KeepLatestK > 0
    /\ s < FindLoadStep
    /\ IsValidCheckpoint(s) => Covered(s)

(* The first step to be saved after the latest checkpoint.                 *)
NextSave(s) ==
  /\ s \in 1..LastStep
  /\ FindLoadStep < s
  /\ ScheduledSave(s)
  /\ \A t \in 1..(s - 1) : ScheduledSave(t) => t <= FindLoadStep

(* A save that stopped half-way is older than the latest checkpoint, or is *)
(* the one that the next save writes again.                                *)
AbandonedInv ==
  \A s \in Steps : disk[s].data # "absent" /\ ~IsValidCheckpoint(s) =>
    s < FindLoadStep \/ NextSave(s)

(* The save in progress is the next one, and nothing has touched it.       *)
SavingInv ==
  /\ save \in {"staging", "writing"} =>
       /\ NextSave(saveStep)
       /\ saveStep <= step
       /\ jobPc \in {"stepping", "saving"} => saveStep < step
  /\ save = "writing" => disk[saveStep] = [marker |-> "none", data |-> "partial"]
  /\ jobPc = "writing" => saveStep = step

(* Every scheduled step up to this one is covered by the latest checkpoint *)
(* but for the save in progress or failed and the step being taken.        *)
ScheduleInv ==
  Looping =>
    /\ FindLoadStep <= step
    /\ jobPc \in {"stepping", "saving"} => FindLoadStep < step /\ step > 0
    /\ \A t \in 1..step : ScheduledSave(t) =>
         \/ t <= FindLoadStep
         \/ t = saveStep /\ save \in {"staging", "writing", "failed", "staging_failed"}
         \/ t = step /\ jobPc \in {"stepping", "saving"}

CheckpointerInv ==
  /\ TypeOK /\ ProcessInv
  /\ NoTornSnapshot
  /\ WholeInv /\ PurgeInv /\ AbandonedInv /\ SavingInv /\ ScheduleInv
  /\ RestartLoads
================================================================================
