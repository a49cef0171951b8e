---------------------------- MODULE PretrainingSteps ----------------------------
(***************************************************************************)
(* The training loop of the trainer (trainer.py: train, train_step) over   *)
(* its data loader, the replayed and graphed backward, and a checkpoint    *)
(* that a later process resumes from.  The ranks of a job act as one.  The *)
(* checkpoint is atomic here and becomes durable some time after the save; *)
(* module Checkpointer shows how.                                          *)
(***************************************************************************)
EXTENDS DataLoader, ReplayedBackward, LRSchedule

CONSTANTS
  Configs,        \* the configurations to run
  Degrees,        \* data-parallel degrees a process may be started with
  NumSteps,       \* training.steps
  Interval,       \* checkpoint.interval
  MaxDeaths,      \* bound: processes killed, or ended by an exception
  MaxCorruptions  \* bound: executions whose result is silently corrupted

(* Config.__post_init__: at most one replay under CUDA graphs.             *)
ConfigOK(c) ==
  /\ c.source \in {"stream", "dataset"}
  /\ c.repeat \in BOOLEAN /\ c.shuffle \in BOOLEAN /\ c.graphs \in BOOLEAN
  /\ c.accumulation \in Nat \ {0}
  /\ c.sdcSteps \in Nat \union {-1}
  /\ c.replays \in Nat /\ (c.sdcSteps # 0 => c.replays # 0)
  /\ c.graphs => c.replays <= 1
  /\ ScheduleOK(c.schedule)

ASSUME TrainingAssumption ==
  /\ \A c \in Configs : ConfigOK(c)
  /\ Degrees \subseteq Nat \ {0}
  /\ NumSteps \in Nat /\ Interval \in Nat \ {0}
  /\ MaxDeaths \in Nat /\ MaxCorruptions \in Nat

VARIABLES
  pc,
  step,
  stepsSinceReset,  \* of the replayer
  batches,          \* rows fetched for this step
  group,            \* gradient-accumulation groups already executed
  replay,           \* [snapshot, reference, done] of a checked execution
  exec,             \* what executions change
  weights,          \* contributions the weights consist of
  lrScheduler,      \* [lastEpoch], and the rate its optimizer has
  checkpoint,       \* the latest durable checkpoint, or NoCheckpoint
  pending,          \* one that is being written, or NoCheckpoint
  loadedStep,       \* history: the step this process started from
  checkedRows,      \* history: rows whose execution was replayed and compared
  deaths, corruptions

trained == <<weights, lrScheduler>>
jobVars == <<checkpoint, pending, deaths>>
loopVars == <<pc, step, stepsSinceReset, batches, group, replay, exec, trained>>
history == <<loadedStep, checkedRows, corruptions>>
vars == <<config, dp, dataVars, loopVars, jobVars, history>>

NoCheckpoint == [step |-> 0]
NoReplay == [snapshot |-> <<>>, reference |-> <<>>, done |-> 0]

NewExec(c, tokens) ==
  NewExecution(c.graphs, WarmupIterations(c.accumulation, c.sdcSteps, c.replays), tokens)

(* LambdaLR at construction and after each step.                           *)
SchedulerAt(epoch) == [lastEpoch |-> epoch, rate |-> Rate(config.schedule, NumSteps, epoch)]

Init ==
  /\ config \in Configs
  /\ dp \in {world \in Degrees : DataConfigOK(config, world)}
  /\ DataInit
  /\ pc = "loop" /\ step = 0 /\ stepsSinceReset = 0
  /\ batches = <<>> /\ group = 0 /\ replay = NoReplay
  /\ exec = NewExec(config, 0)
  /\ weights = <<>> /\ lrScheduler = SchedulerAt(0)
  /\ checkpoint = NoCheckpoint /\ pending = NoCheckpoint
  /\ loadedStep = 0 /\ checkedRows = {}
  /\ deaths = 0 /\ corruptions = 0

Running == pc \in {"loop", "fetch", "forward", "replaying", "optimizer", "save"}

-------------------------------------------------------------------------------
(* train(): the head of the loop and the beginning of train_step.          *)
BeginStep ==
  /\ pc = "loop"
  /\ step < NumSteps
  /\ step' = step + 1
  /\ exec' = ZeroGrad(exec)
  /\ batches' = <<>> /\ group' = 0
  /\ pc' = "fetch"
  /\ UNCHANGED <<config, dp, dataVars, stepsSinceReset, replay, trained, jobVars, history>>

(* All rows of the step are fetched before anything is computed.           *)
FetchBatch ==
  /\ pc = "fetch"
  /\ TakeRow
  /\ batches' = Append(batches, Head(buffer).row)
  /\ pc' = IF Len(batches') = config.accumulation THEN "forward" ELSE "fetch"
  /\ UNCHANGED <<config, dp, step, stepsSinceReset, group, replay, exec, trained,
                 jobVars, history>>

(* DataloaderExhaustedError: the step is canceled and training ends.       *)
RunsOut ==
  /\ pc = "fetch"
  /\ NothingLeft
  /\ pc' = "ending"
  /\ UNCHANGED <<config, dp, dataVars, step, stepsSinceReset, batches, group, replay,
                 exec, trained, jobVars, history>>

(* The thread starts when the first row is asked for.                      *)
PrefetchThread ==
  /\ Running
  /\ step > loadedStep
  /\ Prefetch
  /\ UNCHANGED <<config, dp, loopVars, jobVars, history>>

-------------------------------------------------------------------------------
(* The groups of a step.                                                   *)

IsChecked ==
  group = 0 /\ (config.sdcSteps = -1 \/ stepsSinceReset < config.sdcSteps)

AfterGroup ==
  /\ group' = group + 1
  /\ pc' = IF group' = config.accumulation THEN "optimizer" ELSE "forward"
  /\ stepsSinceReset' = IF group = 0 THEN stepsSinceReset + 1 ELSE stepsSinceReset

(* An execution may be corrupted without a sign, each time differently.    *)
Executes(x) ==
  \/ /\ exec' = ForwardBackward(x, batches[group + 1], Correct)
     /\ UNCHANGED corruptions
  \/ /\ corruptions < MaxCorruptions
     /\ exec' = ForwardBackward(x, batches[group + 1], corruptions + 1)
     /\ corruptions' = corruptions + 1

RunGroup ==
  /\ pc = "forward"
  /\ ~IsChecked
  /\ Executes(exec)
  /\ AfterGroup
  /\ UNCHANGED <<config, dp, dataVars, step, batches, replay, trained, jobVars,
                 loadedStep, checkedRows>>

(* _run_checked: the reference execution ...                               *)
RunReference ==
  /\ pc = "forward"
  /\ IsChecked
  /\ Executes(exec)
  /\ replay' = [snapshot |-> Snapshot(exec), reference |-> Signature(exec'), done |-> 0]
  /\ pc' = "replaying"
  /\ UNCHANGED <<config, dp, dataVars, step, stepsSinceReset, batches, group, trained,
                 jobVars, loadedStep, checkedRows>>

(* ... and its replays; a mismatch is raised on every rank.                *)
RunReplay ==
  /\ pc = "replaying"
  /\ Executes(Restore(exec, replay.snapshot))
  /\ IF Signature(exec') # replay.reference
     THEN /\ pc' = "mismatch"
          /\ UNCHANGED <<stepsSinceReset, group, replay, checkedRows>>
     ELSE IF replay.done + 1 < config.replays
     THEN /\ replay' = [replay EXCEPT !.done = @ + 1]
          /\ UNCHANGED <<pc, stepsSinceReset, group, checkedRows>>
     ELSE /\ AfterGroup
          /\ replay' = NoReplay
          /\ checkedRows' = checkedRows \union {Len(weights) + 1}
  /\ UNCHANGED <<config, dp, dataVars, step, batches, trained, jobVars, loadedStep>>

(* Clipping, the assertion that the step is finite, and the optimizer with *)
(* the rate of its parameter groups, which its scheduler then moves on.    *)
OptimizerStep ==
  /\ pc = "optimizer"
  /\ weights' = weights \o
       [k \in DOMAIN Gradient(exec) |-> Append(Gradient(exec)[k], lrScheduler.rate)]
  /\ lrScheduler' = SchedulerAt(lrScheduler.lastEpoch + 1)
  /\ pc' = "save"
  /\ UNCHANGED <<config, dp, dataVars, step, stepsSinceReset, batches, group, replay,
                 exec, jobVars, history>>

NotFinite ==
  /\ pc = "optimizer"
  /\ deaths < MaxDeaths
  /\ pc' = "mismatch"
  /\ UNCHANGED <<config, dp, dataVars, step, stepsSinceReset, batches, group, replay,
                 exec, trained, jobVars, history>>

-------------------------------------------------------------------------------
(* Checkpoints, the end of a process, and the next process.                *)

CheckpointOf(s) ==
  [step |-> s, tokens |-> exec.tokens, weights |-> weights, lrScheduler |-> lrScheduler,
   checkedRows |-> checkedRows, data |-> StateDict]

SaveDue == step % Interval = 0 \/ step = NumSteps

(* A save first waits for the one before.                                  *)
Save ==
  /\ pc = "save"
  /\ SaveDue => pending = NoCheckpoint
  /\ pending' = IF SaveDue THEN CheckpointOf(step) ELSE pending
  /\ pc' = "loop"
  /\ UNCHANGED <<config, dp, dataVars, step, stepsSinceReset, batches, group, replay,
                 exec, trained, checkpoint, deaths, history>>

CheckpointWritten ==
  /\ pending # NoCheckpoint
  /\ checkpoint' = pending
  /\ pending' = NoCheckpoint
  /\ UNCHANGED <<config, dp, dataVars, loopVars, deaths, history>>

(* Trainer.close() waits for the checkpointer.                             *)
CloseTrainer ==
  /\ pc = "ending" \/ (pc = "loop" /\ step = NumSteps)
  /\ pending = NoCheckpoint
  /\ pc' = "done"
  /\ UNCHANGED <<config, dp, dataVars, step, stepsSinceReset, batches, group, replay,
                 exec, trained, jobVars, history>>

(* An exception ends the process through close(); a kill just ends it.     *)
Raised ==
  /\ pc = "mismatch"
  /\ pending = NoCheckpoint
  /\ pc' = "dead"
  /\ deaths' = deaths + 1
  /\ UNCHANGED <<config, dp, dataVars, step, stepsSinceReset, batches, group, replay,
                 exec, trained, checkpoint, pending, history>>

Killed ==
  /\ Running
  /\ deaths < MaxDeaths
  /\ deaths' = deaths + 1
  /\ pending' = NoCheckpoint
  /\ pc' = "dead"
  /\ UNCHANGED <<config, dp, dataVars, step, stepsSinceReset, batches, group, replay,
                 exec, trained, checkpoint, history>>

(* last_epoch comes from the scheduler's state, the rate of the parameter  *)
(* groups from the optimizer's; the scheduler does not write it.           *)
LoadScheduler(saved) == [lastEpoch |-> saved.lastEpoch, rate |-> saved.rate]

(* A new process, perhaps of another size, loads the latest checkpoint.    *)
StartAgain ==
  /\ pc = "dead"
  /\ dp' \in {world \in Degrees : DataConfigOK(config, world)}
  /\ stepsSinceReset' = 0 /\ batches' = <<>> /\ group' = 0 /\ replay' = NoReplay
  /\ loadedStep' = checkpoint.step
  /\ step' = checkpoint.step
  /\ IF checkpoint = NoCheckpoint
     THEN /\ BuildLoader
          /\ exec' = NewExec(config, 0)
          /\ weights' = <<>> /\ checkedRows' = {}
          /\ lrScheduler' = SchedulerAt(0)
          /\ pc' = "loop"
     ELSE /\ IF StateDictFits(checkpoint.data, dp')
             THEN LoadStateDict(checkpoint.data) /\ pc' = "loop"
             ELSE BuildLoader /\ pc' = "refused"
          /\ exec' = NewExec(config, checkpoint.tokens)
          /\ weights' = checkpoint.weights /\ checkedRows' = checkpoint.checkedRows
          /\ lrScheduler' = LoadScheduler(checkpoint.lrScheduler)
  /\ UNCHANGED <<config, jobVars, corruptions>>

Next ==
  \/ pc \in {"done", "refused"} /\ UNCHANGED vars
  \/ BeginStep \/ FetchBatch \/ RunsOut \/ PrefetchThread
  \/ RunGroup \/ RunReference \/ RunReplay \/ OptimizerStep \/ NotFinite
  \/ Save \/ CheckpointWritten \/ CloseTrainer
  \/ Raised \/ Killed \/ StartAgain

Spec == Init /\ [][Next]_vars

-------------------------------------------------------------------------------

(* Between steps, the weights are exactly what uninterrupted training on   *)
(* the rank's stream gives, each row once and in order, and so are the     *)
(* counters: whatever was read ahead, executed twice, captured, replayed,  *)
(* lost with a process, resumed in a later epoch, or canceled half-way.    *)
(* Each row has the learning rate of its step in the schedule, which stays *)
(* above the minimum up to the last step.                                  *)
TrainsExactly ==
  pc \in {"loop", "ending"} =>
    LET done == IF pc = "ending" THEN step - 1 ELSE step
    IN /\ [k \in DOMAIN weights |-> weights[k][1]]
            = [k \in 1..done * config.accumulation |-> Row(k)]
       /\ \A k \in DOMAIN weights :
            /\ weights[k][3] = Rate(config.schedule, NumSteps, (k - 1) \div config.accumulation)
            /\ WithinCurve(weights[k][3])
       /\ lrScheduler = SchedulerAt(done)
       /\ exec.tokens = done * config.accumulation
       /\ exec.rng = (done - loadedStep) * config.accumulation

(* The settings under which the curve does not end before training does:   *)
(* the scheduler's total_steps, where it is set, covers training.steps.    *)
SchedulesFit ==
  \A c \in Configs : c.schedule.total = Unset \/ c.schedule.total >= NumSteps

(* The replays find what they are for and nothing else: weights never hold *)
(* a corrupted result that was checked, and a process only stops at a      *)
(* comparison when one of its executions was corrupted.                    *)
ReplayFindsCorruption ==
  /\ \A k \in checkedRows \intersect DOMAIN weights : weights[k][2] = Correct
  /\ pc = "mismatch" /\ group = 0 => corruptions > 0

(* The graph is captured by the first call of a step, after two whole      *)
(* optimizer steps of this process; a step is never half eager.            *)
CapturesAtThirdStep ==
  pc \in {"forward", "replaying"} /\ Captures(exec) =>
    pc = "forward" /\ group = 0 /\ step - loadedStep = WarmupSteps + 1

-------------------------------------------------------------------------------
(* The inductive invariant behind them.                                    *)

Execution ==
  [tokens : Nat, rng : Nat, grad : 0..2, storage : [1..2 -> Seq(Batch \X Nat)],
   graphs : BOOLEAN, warmup : Nat,
   graph : [captured : BOOLEAN, args : Batch \union {<<>>}, grad : 0..2,
            accumulates : BOOLEAN],
   loss : (Batch \X Nat) \union {<<>>}]

InStep == pc \in {"fetch", "forward", "replaying", "optimizer"}

(* Optimizer steps whose rows are in the weights; groups of the current    *)
(* step that are in the gradient; rows taken from the loader.              *)
Completed == IF pc \in {"loop", "save"} THEN step ELSE step - 1

Executed == IF pc \in {"forward", "optimizer"} THEN group
            ELSE IF pc = "replaying" THEN 1 ELSE 0

Taken == IF InStep THEN (step - 1) * config.accumulation + Len(batches)
         ELSE step * config.accumulation

InProcess == step - loadedStep

(* The loop is where its counters say.                                     *)
StepInv ==
  /\ config \in Configs /\ dp \in Degrees /\ DataConfigOK(config, dp)
  /\ pc \in {"loop", "fetch", "forward", "replaying", "optimizer", "save", "ending",
             "mismatch", "dead", "done", "refused"}
  /\ step \in 0..NumSteps /\ loadedStep \in 0..step
  /\ group \in Nat /\ stepsSinceReset \in Nat /\ corruptions \in Nat
  /\ InStep \/ pc \in {"save", "ending"} => loadedStep < step
  /\ pc = "fetch" => group = 0 /\ Len(batches) < config.accumulation
  /\ pc = "forward" => group < config.accumulation
  /\ pc = "replaying" => group = 0 /\ IsChecked
  /\ pc = "optimizer" => group = config.accumulation
  /\ InStep /\ pc # "fetch" => Len(batches) = config.accumulation
  /\ Running => stepsSinceReset = IF InStep /\ group = 0 THEN InProcess - 1 ELSE InProcess

FetchInv ==
  /\ Running => LoaderAt(Taken)
  /\ InStep => /\ batches \in Seq(Batch)
               /\ \A j \in 1..Len(batches) :
                    batches[j] = Row((step - 1) * config.accumulation + j)

(* n steps of uninterrupted training.                                      *)
WeightsAfter(w, n) ==
  /\ w = [k \in 1..n * config.accumulation |-> w[k]]
  /\ \A k \in 1..n * config.accumulation :
       /\ w[k][1] = Row(k)
       /\ w[k][3] = Rate(config.schedule, NumSteps, (k - 1) \div config.accumulation)

WeightsInv ==
  Running \/ pc = "ending" =>
    WeightsAfter(weights, Completed) /\ lrScheduler = SchedulerAt(Completed)

(* Counters and generators stand where the executions that count left      *)
(* them, and the gradient holds the groups of this step.                   *)
ExecInv ==
  Running \/ pc = "ending" =>
    /\ exec \in Execution /\ exec.graphs = config.graphs
    /\ exec.tokens = Completed * config.accumulation + Executed
    /\ exec.rng = (Completed - loadedStep) * config.accumulation + Executed
    /\ InStep => /\ Len(Gradient(exec)) = Executed
                 /\ \A k \in 1..Executed : /\ Gradient(exec)[k][1] = batches[k]
                                           /\ Gradient(exec)[k][2] \in 0..corruptions

(* The reference of a checked group, and what the replays start from.      *)
ReplayInv ==
  pc = "replaying" =>
    /\ \E grad \in {0, exec.grad}, done \in 0..(config.replays - 1), mark \in 0..corruptions :
         replay = [snapshot |-> [tokens |-> exec.tokens - 1, rng |-> exec.rng - 1, grad |-> grad],
                   reference |-> <<<<batches[1], mark>>, exec.rng, TRUE,
                                   <<<<batches[1], mark>>>>, exec.tokens>>,
                   done |-> done]
    /\ config.graphs /\ exec.rng > 1 => replay.snapshot.grad = exec.grad

(* Eager calls of this process, and those the wrapper has left.            *)
CheckedSteps(n) ==
  IF config.sdcSteps = -1 THEN n ELSE SmallerOf(n, config.sdcSteps)

CallsMade == exec.rng + CheckedSteps(stepsSinceReset) * config.replays
             + (IF pc = "replaying" THEN replay.done ELSE 0)

(* The graph is captured at the first call of the third step, on the       *)
(* gradient that every later step accumulates into.                        *)
GraphInv ==
  Running /\ config.graphs =>
    /\ InProcess <= WarmupSteps =>
         /\ ~exec.graph.captured
         /\ exec.warmup + CallsMade =
              WarmupIterations(config.accumulation, config.sdcSteps, config.replays)
    /\ InProcess > WarmupSteps => exec.warmup = 0
    /\ exec.graph.captured <=>
         \/ InProcess > WarmupSteps + 1
         \/ InProcess = WarmupSteps + 1 /\ pc # "fetch" /\ ~(pc = "forward" /\ group = 0)
    /\ exec.graph.captured => exec.graph.accumulates /\ exec.graph.grad = exec.grad
    /\ exec.rng > 0 => exec.grad # 0

(* Rows that were replayed without a mismatch are correct, in the weights  *)
(* and in the gradient.                                                    *)
CheckedInv ==
  /\ \A k \in checkedRows \intersect DOMAIN weights : weights[k][2] = Correct
  /\ Running =>
       \A k \in checkedRows :
         \/ k \in 1..Len(weights)
         \/ /\ k = Len(weights) + 1 /\ Executed > 0 /\ pc \in {"forward", "optimizer"}
            /\ Gradient(exec)[1][2] = Correct
  /\ pc = "mismatch" /\ group = 0 => corruptions > 0

(* A checkpoint is the state of the job at the end of its step.            *)
IsCheckpoint(c) ==
  /\ c.step \in 1..NumSteps
  /\ c.tokens = c.step * config.accumulation
  /\ WeightsAfter(c.weights, c.step)
  /\ c.lrScheduler = SchedulerAt(c.step)
  /\ \A k \in c.checkedRows : k \in 1..Len(c.weights) /\ c.weights[k][2] = Correct
  /\ c.data.dp_world_size = dp
  /\ StateAt(c.data.rank, c.step * config.accumulation)

CheckpointInv ==
  /\ pc # "refused" =>
       /\ checkpoint # NoCheckpoint => IsCheckpoint(checkpoint)
       /\ pending # NoCheckpoint => IsCheckpoint(pending)
  /\ pc \in {"dead", "refused"} => pending = NoCheckpoint

PretrainingInv ==
  /\ StepInv /\ FetchInv /\ WeightsInv /\ ExecInv /\ ReplayInv /\ GraphInv
  /\ CheckedInv /\ CheckpointInv
================================================================================
