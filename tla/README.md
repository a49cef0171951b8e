# TLA+ models and proofs for torchtitan

This directory holds a verification development for torchtitan, a PyTorch
platform for training large language models. It models the parts of the
repository that are protocols or intricate algorithms of their own:

* **TitanRL** (`torchtitan/experiments/rl`), the asynchronous reinforcement-learning
  loop with its router, generators, rollouts and batcher;
* the **pretraining loop** with its data position, CUDA graph, corruption replayer and
  **checkpointer**;
* **FlexShard**'s resharding optimizer and the **expert-parallel exchange** with
  its dispatchers, where device streams and ranks share buffers.

Modules are checked with TLC on small instances. What matters most of the asynchronous
loop, the router, the generator, the checkpointer, the pretraining loop, FlexShard's pipeline and the
exchange over symmetric memory is also proved with TLAPS, for every value of the constants.

Paths are relative to the repository; `rl/` is `torchtitan/experiments/rl/`.

## 1. Inventory of the system

| Component | State it keeps | Operations | Hard behaviour | What makes it correct |
|---|---|---|---|---|
| **RolloutGroupWorkBuffer** `rl/components/work_buffer.py` | ordered map of work (WAITING, INFLIGHT, FINALIZED), active-slot gauge and its peak, closed flag | `wait_for_slot`, `add_work`, `claim_next`, `finalize_work`, `take_finalized`, `release_active_groups`, `close`, `metrics` | three loops wait on one condition; a slot outlives its entry; close drops entries whose rollout is still running | the budget is never exceeded, no slot leaks, no overtaking beyond the window |
| **Weight sync** `rl/components/weight_sync.py` | the push task and the pull task of the last step | `start_async_push_pull`, `wait_prev_push`, `wait_prev_pull`, `wait_inflight_push_pull` | both tasks overlap the next step; failures are raised only by the next wait | no generator reads weights being staged; labels tell the truth; slots come back after the pull |
| **Controller loop** `rl/controller.py`, `rl/controller_metrics.py` | the four loops' positions, the batch queue, `policy_version`, the step | `run`, `_data_input_loop`, `_rollout_loop`, `_batcher_loop`, `_trainer_loop`, `compute_policy_age_metrics` | everything overlaps everything; dropped groups, failing rollouts, failing remote calls, shutdown in two steps | the hard off-policy bound, completion, no spurious crash, no hang |
| **Inter-generator router** `rl/routing/` | per generator: serving or syncing, reserved load, idle event; the serving event; sticky sessions | `generate`, `pull_model_state_dict`, fan-outs | draining races with routing; wake-ups act on stale state | a drained generator has no call in flight; no call is lost |
| **Generator** `rl/actors/generator.py` | engine loop on every rank, request dispatcher with futures, pending pull, policy version | `generate`, `pull_model_state_dict`, `_engine_loop`, `close` | rank 0 decides and all ranks follow; the loop may crash with futures outstanding | every future is answered; ranks agree; min version of a request is right |
| **PolicyTrainer** `rl/actors/trainer.py` | model, optimizer, policy version | `forward_backward`, `optim_step`, `push_model_state_dict`, checkpoint | push copies live weights | version and weights move together |
| **Batcher** `rl/components/batcher.py` | groups for the next batch | `add_training_samples`, packing grid | leftover groups, samples of any length, ranks that must agree | every sample packed once, next to its own labels |
| **Training sample builder** `rl/components/training_sample_builder.py` | none | `build_from_group` | turns that extend or edit the history share a sample or open one | every token trained once, in the context it was sampled in |
| **Rollouter, environments, rubrics** `rl/rollout`, `rl/environment`, `rl/rubrics`, `rl/actors/rollout_worker.py` | the conversation of every sibling | turn loop, scoring, advantages | user code may raise or time out; generators pull between turns | a failure stays inside its group |
| **RL losses, models, metrics, set-up** | - | - | tensor code, reporting, process launch | - |
| **Pretraining loop** `torchtitan/trainer.py` | step, token counters, data iterator | `train`, `train_step`, `state_dict` | accumulation, replay, graphs and resume after a crash change the same state | the weights are those of uninterrupted training |
| **Checkpointer** `torchtitan/components/checkpointer` | checkpoint directories, staging futures, purge thread and queue | `save`, `load`, `maybe_wait_for_staging`, purge, `close` | asynchronous save, a background thread that deletes, crash between any two steps | the latest complete checkpoint survives and is the one loaded |
| **Data pipeline** `torchtitan/components/data` | position of every source, packing buffer, rows read ahead | iterate, `state_dict`, `load_state_dict` | a prefetch thread is ahead of the trainer when the position is saved | no row lost or repeated by resuming |
| **Optimizer and LR schedule** `torchtitan/components/optimizer` | optimizer states, schedule step | step, warm-up, decay | boundaries of the three phases | the schedule stays in range and is continuous |
| **FlexShard** `torchtitan/distributed/flex_shard` | plans, schedules, two buffer slots with their events | plan, `run`, exceptions | the streams of host and transfer share two slots, on all ranks; every rank derives the exchange on its own | an optimizer step, whatever overlaps |
| **Expert-parallel dispatch** `torchtitan/models/common/token_dispatcher.py`, `torchtitan/distributed/minimal_async_ep`, `deepep` | symmetric receive buffers, the buffer index, the metadata of a dispatch | dispatch, combine, their backwards | ranks write each other's buffers; a fast rank is ahead of a slow one; every dispatcher permutes and undoes it in its own way | the rows a consumer reads are those that were sent to it, whichever the dispatcher |
| **CUDA graph wrapper** `torchtitan/distributed/cudagraph.py` | warm-up counter, graph, input and gradient addresses | warm-up, capture, replay | the capture executes nothing and fixes addresses | the captured step equals the eager one |
| **Observability** `torchtitan/observability` | event buffers, snapshot of a step | structured logging, SDC replay | a replay must restore all state that the reference changed | a replay does not change training and finds corruption |
| **Other distributed code** `torchtitan/distributed` | meshes, pipeline stages | set-up of parallelism | - | every rank issues the same collectives |
| Loss, metrics, validation, tokenizer, LoRA, quantization, configuration, models, tools, other experiments, recipes, scripts, tests | - | - | tensor code, options, adapters | - |

`PROJECT.json` lists all of them under `components` with their status, and under
`hazards` what is hard to test, at the line where it bites.

### How the RL parts interact

`Controller.run` starts a data-input task, one rollout worker per active slot, a
batcher task and a trainer task on one asyncio loop.

    data input --add_work--> WorkBuffer --claim_next--> rollout workers --generate--> router --> generators
                                 |  ^------finalize_work------'
                           take_finalized
                                 v
                              batcher --queue(1)--> trainer --optim_step--> push --> store --> pull --> generators
                                 |                                                              |
                                 '------ release 1 (untrainable) ---> slots <--- release P -----'

A rollout (`Rollouter`) is a conversation of several calls to the router; the batcher
loop turns each finished group into samples (`TrainingSamples`) and samples into
microbatches of all trainer ranks (`Batcher`).

A slot is charged by the data input and freed by the batcher (an untrainable
group) or by the weight sync (P trained groups, after the pull). That circle is
what bounds staleness, and what can deadlock.

### How the pretraining parts interact

    prefetch thread --rows--> Trainer.train_step --group 0--> SDCReplayer --+
                                    |                                       v
                                    '--other groups--> forward_backward --> CUDAGraphWrapper
                                    |
                                    +--> optimizer step (FlexShard: buckets over streams and ranks)
                                    '--> checkpointer.save(step, counters, data position)

The step, the token counters, the random generators, the gradients and the position in
the data are changed by the step, restored by the replayer, saved by the checkpointer and,
under a graph, fixed by address. The MoE layers inside the forward and backward exchange
tokens between expert-parallel ranks (`MinimalAsyncEP`, `TokenDispatch`).

## 2. Modules

| Module | Models | Kind |
|---|---|---|
| `RolloutGroupWorkBuffer` | the work buffer | component |
| `WeightSync` | push and pull tasks, trainer's version, store, generators' pulls | component |
| `AsyncLoop` | `Controller.run` and its four loops over the two modules above | composition, properties |
| `FreshTraining` | what the loop promises, without tasks or queues | abstract specification |
| `AsyncLoopRefinement` | the mapping from the loop to `FreshTraining` | refinement |
| `MCAsyncLoop` | finite instances | model checking |
| `AsyncLoopProofs` | type correctness, the off-policy bound, the windowed order; the weight handoff, slots, completion, refinement of `FreshTraining` | proofs |
| `RoutingStrategies` | round-robin, least-loaded and sticky choice | component |
| `InterGeneratorRouter` | the router between rollouts and generators, over a strategy | composition, properties |
| `GeneratorPool` | what a draining router promises its callers | abstract specification |
| `MCInterGeneratorRouter` | finite instances | model checking |
| `InterGeneratorRouterProofs` | loads, drains, the assertion of `_route`, the strategies, refinement of `GeneratorPool` | proofs |
| `GeneratorEngine` | one generator: endpoints, engine loop on every rank, teardown | component, properties |
| `MCGeneratorEngine` | finite instances | model checking |
| `GeneratorEngineProofs` | requests held once, version bounds, the drain task | proofs |
| `TrainingSamples` | turns of a rollout to training samples | pure algorithm |
| `Batcher` | rows, grid and the cut of the accumulated groups | pure algorithm |
| `Rollouter` | a worker's turn loop, scores, the batcher loop, over the two above | composition, properties |
| `MCRollouter` | finite instances | model checking |
| `DatasetShards` | the slices of a dataset that the data-parallel ranks get | pure algorithm |
| `DataLoader` | streams and indexed datasets, the prefetch thread, the saved position | component |
| `LRSchedule` | warm-up, stable and decay phases of the learning rate | pure algorithm |
| `ReplayedBackward` | one forward and backward: graph wrapper, snapshot and restore | component |
| `PretrainingSteps` | `train` and `train_step` over these, deaths and resumes | composition, properties |
| `MCPretrainingSteps` | finite instances | model checking |
| `PretrainingStepsProofs` | exact training, replays, the capture of the graph; the slices partition a dataset | proofs |
| `Checkpointer` | the DCP checkpoint manager under the pretraining loop | component, properties |
| `LatestCheckpoint` | a register of the latest saved step | abstract specification |
| `MCCheckpointer` | finite instances | model checking |
| `CheckpointerProofs` | restart, retention, saves, refinement of `LatestCheckpoint` | proofs |
| `ReshardPlan` | regions, routes, plans, their validation, packed all-to-all | pure algorithm |
| `ReshardRuntime` | the two-slot pipeline on hosts, streams and ranks | component, properties |
| `OptimizerSteps` | what the pipeline promises the training loop | abstract specification |
| `ReshardRuntimeProofs` | the streams of a rank do not race on a buffer | proofs |
| `ReshardRefinementProofs` | the pipeline implements `OptimizerSteps`; the assertions of `run` | proofs |
| `FlexShardOptimizer` | balanced owners, bucket plans, the runtime over them | composition, properties |
| `MCFlexShardOptimizer` | finite instances | model checking |
| `MinimalAsyncEP` | the token exchange over symmetric memory, forward and backward | component, properties |
| `MinimalAsyncEPProofs` | every row a rank reads in place is the right one; sums over finite sets, the routing metadata | proofs |
| `TokenDispatch` | the local, all-to-all and padded dispatchers, one MoE forward | component |
| `ExpertParallel` | either kind of dispatcher on the same routings | composition, properties |
| `MCExpertParallel` | finite instances | model checking |

`AsyncLoop` abstracts the router and the generators to "a rollout samples under
the weights of any generator, any time it is held" and "a pull of a generator ends
or fails"; `InterGeneratorRouter` and `GeneratorEngine` are the layers below that,
each with the layer under it abstracted in the same way. That those layers keep
what the loop assumes of them is `RouterProgress`, `CallersAnswered` and `PullPrecedesCalls`.
`PretrainingSteps` takes a checkpoint as one atomic record that becomes durable later or
never; that the files behave so is `LatestLoads` and `ImplementsRegister` of `Checkpointer`.

### From the code to the model

*Work buffer.* An entry's state is the set (`waiting`, `inflight`, `finalized`)
its id is in. Ids come from one producer in increasing order, so the insertion
order of the `OrderedDict` is the order of ids. A method body holds the condition
and suspends only to wait for its own predicate, so each method is one step
guarded by that predicate. `notify_all` needs no model: a waiter re-evaluates its
predicate. `FinalizeWork` of an id that `close()` removed does nothing, as in the
code. `release_active_groups` beyond the gauge raises; callers branch on
`CanRelease` and go to their failed state.

*Weight sync.* `push` and `pull` are the states of the two tasks. The store
(`torchstore`, outside the repository) keeps one copy under one key; its version
is `stored`, and the push copies the live weights, so it stages the version the
trainer holds when the copy *ends*. The version label travels with the pull call
(`syncVersion`), the weights through the store: `genVersion` and `genWeights` are
separate variables, and that they agree is a property. A failed pull of one
generator fails the pull task at once and leaves the other pulls running, as
`asyncio.gather` does.

*Controller loop.* Each `*Pc` variable says at which await a task is suspended;
an action is the code between two awaits that really suspend. `run` closes the
buffer in one step and cancels the tasks in a later one, because `close()` and
the cancellation are separated by awaits; the other tasks run in between.
A sample is abstracted to one policy version, `version[g]`: that of any generator at
any time between the claim and the end of the rollout. So the oldest version of any
of its tokens is covered, and with it that of its opening turn, which is what the code reports
(`MinVersionIsOldest` shows that they are the same). A group whose rollouts raised has none (`NoVersion`). Whether a
sampled group is trainable (non-zero advantages, samples that fit) is a free choice of
the model. Worker ids are left out: at most `MaxActive` groups are held at once.

*Router.* The router is one asyncio actor, so an action is the code between two
awaits that suspend. An `asyncio.Event` that is set wakes all its waiters
(`waiting` becomes `woken`), and they go on later without looking at it again:
that is why the assertion on the candidates in `_route` is a property and not a
guard. A new round of pulls waits until no call is `woken`, because asyncio runs
ready tasks in order and the round's reply and the next request are queued behind
them; this is the one scheduling fact the model takes from asyncio.
`gather` starts its `_pull_one` tasks back to back, so all handles turn to
syncing in one step. Selection numbers matter only by their order: `recency` is the rank of
each candidate in it, the least recently chosen has rank 1. The sticky `OrderedDict` is `lru` (its
order) and `pin` (its values). `passedOver` is a history variable. A behaviour fixes its
strategy, the limit of the sticky map and `hot_swap` at the start (`setup`).

*Generator.* A rank stands for a data-parallel replica; its tensor-parallel ranks
do the same. Rank 0's `_decide_next_action` is three actions, `DecideToClose`,
`DecideToPull` and `DecideToStep`, in the code's order of preference. `sent` is the last
broadcast, and `delivered` says which ranks have it: a follower may lag behind rank 0, at
most by one decision, since the collective does not complete without it. `port`
holds the lists of completions sent to rank 0, which may be taken in any order.
The intra-generator router is its `reservation` and any choice of rank, made on rank 0 when
the decision to step is taken. `sampled` and `calledAt` are history variables.
`_rank0_check_engine_loop_running` looks at whether the task exists, so a crashed
loop still accepts calls: `LoopStarted` is true until `close()` has dropped the task.
Only rank 0 crashes here; if another rank dies, the rest waits in the next
broadcast until the process group times out, which is not in the repository. A behaviour
fixes at the start (`setup`) which requests come, the steps of a burst, and whether it may be
closed or crash.

*Rollouts and batches.* A token is named by group, sibling, turn and index, so that a token
that is trained twice, lost or in a foreign context is visible; index 0 is the reply of the
environment, sibling 0 the shared prompt. The next prompt is either the tokens so far with
the reply (a renderer that bridges) or the re-rendered history, in which past answers of more
than one token have lost their first (the reasoning). Of the router and the engines the module has what
decides under which version a turn is admitted: a round asks all generators to pull in one step
(`SyncStarts`: `gather` starts its pulls back to back); a draining generator takes no call until it has pulled,
and pulls when its calls are over; with hot swap a call may be routed at any time, but the messages of the router
reach an engine in the order it sent them, and the engine takes a waiting pull before waiting calls,
so a call is admitted at the version asked of its generator before it (`routedAt`) or a later one
(`Admitted`, a step after the routing). A pull that fails ends its engine loop and the run, and is left to the router's and the
engine's models. Groups come one after another, since their overlap is the subject of
`AsyncLoop`. `BatcherRaises` is what a rollout with an empty answer after the first turn does: the
builder raises, and nothing catches it.

*Pretraining.* A row stands for a batch and the weights for the sequence of their
contributions, each a batch, a mark (correct, or that of a corrupted execution) and the
learning rate of its update, a phase of the schedule with the progress in it. The
ranks of a job act as one. The cursor over the Hugging Face stream keeps the epoch of the
iterator, of the dataset object, and of the running iteration apart, because the code does and
because the state of a prefetched row may belong to the next epoch; an indexed dataset has only the index
of its next row, and the rank's slice and the epoch follow from it. The scheduler restores its counter, and the rate
of the parameter groups comes back with the optimizer (`LoadScheduler`). An execution
(`ReplayedBackward`) changes one record: counter, generator, gradient storage, graph and loss. The
graph fixes the storage of its gradient and the address of its arguments. `Killed` ends a
process anywhere; the next one may have another data-parallel degree, and then refuses to
resume.

*Checkpointer.* A directory `step-N` is a pair of its marker (the file that
`_is_valid_checkpoint` looks for, written last by a save) and its data: absent,
partial, model only, full, or torn (staged while the optimizer ran). Ranks act as
one: a save is collective and only rank 0 purges. A save is `staging` (pinned memory only),
`writing`, then `done` or `failed`; its future is looked at by the next
save or by `close()`. A deletion goes through states with and without the marker
(`DeletesSome`), may fail there and is then skipped. `Killed` stops the process and its
threads anywhere; `StepRaises` and the failures of saves take the way through `close()`. Both
count towards `MaxDeaths`, after which the process is started again with the
same arguments. The queue is FIFO, and the sentinel `None` is an entry of it.

*FlexShard.* The host of a rank enqueues and never waits for the device; a device operation
is one step, and two can overlap exactly when both are at the head of their streams with no
wait before them, which is what `NoBufferRace` looks at. `streams` keeps all that a rank's host has
enqueued, and `ended` how far its device has come. An event is the place on its stream at its
last record; a wait raises the `barrier` of the waiting stream, and an operation carries the barrier it was
enqueued behind as `after`. The host's loop takes one bucket at a time (`RunLocalBucket`,
`RunRedistributedBucket`), then one bucket ahead at a time (`PrefetchNext`); a step of the host enqueues all
that the code does for that bucket. Since the host reads nothing from the device, only the order of what it
enqueues matters, and a callback that raises leaves any prefix of it (`Interrupted`). The step number of an operation is history. An exchange takes place when all ranks have come to it on their transfer streams. A schedule without remote
transfers (say, to ranks that compute parts of what all of them store) is a copy in the code that waits for no other rank;
the model holds it to the same rendezvous, and so leaves out that ranks may drift further apart there. The two streams of a rank,
which `NoBufferRace` is about, are ordered by the rank's own events in either case. After an
exception the caller may use the memory again, `ReuseMemory`, which is why the cleanup joins the
streams; the other ranks may then wait for ever, until the process group ends them, and the model
counts that as the end of the job.
Plans are computed for tensors of two dimensions with the code's own arithmetic; elements are
their coordinates. The participants are taken in the order of the storage mesh, by which the code finds a rank's shard. The plans of a model never change, so the plan properties look at initial
states.

*Expert-parallel exchange.* A row is a record of the operation that moved it, its origin and slot, and
the expert that worked on it. Each rank follows the fixed schedule of a training step
(`KindOf` and `LayerOf` of the operation's number): layers forward, then backward with the forward operations
recomputed; `pos` is the operation and the stage of it where a rank's stream stands. A copy reaches
one peer at a time; a barrier is a counter that all ranks must have passed. The two receive
buffers are taken in turn by every operation of every layer. The collective dispatchers run one MoE forward
in lock step, since ranks share nothing between two collectives; `permute_and_pad` (torchao) is modelled
by how it is used: each group filled up to the multiple with the index of a sentinel row that comes last.

Operators whose name has a suffix after an underscore (`WaitForSlot_NoWait`) are
faulty variants of the operator they precede; no specification uses them. Each
property is checked to fail when one of them replaces the original.

## 3. Model checking

| Run | Instance | Shows |
|---|---|---|
| `windowed` | P=1, S=1, W=2, 4 steps, 2 generators, 1 untrainable or failed group | no batch beyond the bound, window order, slots accounted for, no crash of the loop's own making, completed runs serve the final weights, slots come back after the pull, refinement of `FreshTraining` |
| `failures` | P=1, S=1, W=2, resumed at step 1 of 3, 2 generators, any remote call or rollout may raise, fairness | no torn read, labels true, every run ends, and with an error if a weight sync failed |
| `on_policy_sync_failure` | P=1, S=0 | **violation**: a failed weight sync hangs the run |
| `router_serving` | 2 generators, 3 calls of 2 sessions, 2 rounds of pulls that may fail; each strategy draining (sticky map of 1), sticky with hot swap (map of 2); fairness | exact loads, no pull beside a call, the assertion of `_route`, fair ties, sessions stay on their generator, refinement of `GeneratorPool`, every call is answered and every round ends |
| `generator_engine` | 2 ranks and a pull; 2 requests in bursts of 2 steps, or 1 request with close and crash at any point; fairness | a request is held exactly once, reservations name its rank, version bounds, no sample older than an answered pull, every call and pull is answered, close() returns and leaves nobody waiting, the drain task survives it |
| `training_data` | one rollout of 3 turns; 2 siblings with rewards; 4 groups over batches of 2 | every token that enters the loss is trained once, with the context and advantage it was sampled with, none is missing, and their number divides the loss |
| `min_policy_version` | one rollout of 3 turns, or 2 siblings of 2 turns, on 2 generators, draining or hot-swapped; 2 rounds of pulls | the version of its opening turn, which a sample reports, is the oldest of its turns |
| `pretraining_steps` | 5 steps, 3 rows of a stream or a sliced dataset, 2 read ahead, schedules of three phases, of a warm-up alone, and longer than the run, a save every 2 steps, every combination of repeat, shuffle, graphs, 1 or 2 accumulation groups, 0 to 2 replays of no, the first or all steps; 2 deaths, 2 corruptions | the weights are those of uninterrupted training at the rates of its schedule, corruption is found and nothing else is, the graph is captured at the third step |
| `checkpointer_retention` | 5 steps, saves at 1, 2, 4, 5, K=2, step 2 exempt, 3 modes, 2 deaths, empty folder or a seed, fairness | restart loads the latest save, retention, no save disturbed, no torn snapshot, refinement of `LatestCheckpoint`, the job ends |
| `checkpointer_last_save` | the same with `last_save_in_hf` | **violation**: a restart after the final save cannot load |
| `reshard` | plans: 1 to 3 ranks, buckets of 2 parameters, all placements and layouts; runtime: 2 ranks, 2 steps, 5 bucket sequences, 2 slots, one rank may raise | plans valid, sizes agree, every element delivered there and back, work shared; no race on a buffer, no rank waits for ever, refinement of `OptimizerSteps` |
| `async_ep` | 2 ranks with 2 experts and 2 slots, 3 ranks with 1 and 1; 2 layers, every routing, float32; collective dispatchers with and without expert parallelism, unpadded and padded to 2 | the rows of an operation, and only they, are in the buffer while they are read; all dispatchers give an expert the same rows in the same order and a slot its own row back |

Bounds. `MCGroupIds` holds every id a behaviour can issue (slots + trained +
dropped groups), so the bound never stops the data input. Four steps in
`windowed` make an age of 3 possible where the bound is 2, so a violation is not
cut off by the end of training. Two trained steps in `failures` let one sync overlap a
failed pull of the one before. P is 1 in the runs; that a forming batch counts
right for every P is part of the proofs. `MaxDropped` bounds the untrainable and failed groups of
a behaviour (with one, a window of two is never dropped whole; two are beyond the time of a run); without it a behaviour may drop groups for ever, which the code may do
too (a run whose groups are all untrainable makes no step; the TODO in
`_batcher_loop` says so). Three calls on two draining generators let one call wait,
one keep a generator busy and one evict the other's session. Two ranks are enough for a
follower to lag behind rank 0, and one pull between two requests of two-step bursts
reaches a request that lives through the pull on either rank. Saves at four of five
steps with K=2 reach every purge decision: the exempt step, the step just taken, a queue
of two. Two deaths allow an unfinished directory to be met by a process that dies as well.
Three turns are the fewest in which a sample is extended twice, or extended and then opened
anew; four groups in batches of two leave one over. Two rounds of pulls over three turns let one
round end and the next begin within a rollout. Five pretraining steps over three rows
enter the second epoch, or the fourth with two groups per step, and leave two steps after the capture
at the third; a step saved in between is resumed in a process that captures again. Three
buckets reuse the first of two slots, and the second step meets the events of the first.
Two MoE layers are the fewest in which the backward of one meets buffers of another; three
ranks let one be ahead of a second while the third is behind.

Deadlock checking is off in `on_policy_sync_failure` alone, whose point is that the
system stops. Elsewhere a finished system stutters in an explicit action, and anything else that stops is an error: in
`reshard` and `async_ep` that is how a rank that waits for ever in an exchange or a barrier would show.

Fairness is weak fairness of each task: the asyncio loop runs every ready
task, a thread or remote call eventually answers, a rollout ends. Failures are
never forced. A rollout group has fairness of its own since each has a worker.
Router: woken tasks run and generators answer; no call has to arrive. Engine: the
tasks of every rank run, messages of the port are taken, and a request in an engine
that is stepped again and again finishes (strong fairness: sampling is bounded by
`max_tokens`). Checkpointer: a dead process is restarted, copies and writes end or
fail, and the purge thread works. The other runs check safety only.

### What the violated runs show

*`on_policy_sync_failure`.* `start_async_push_pull` keeps the push and pull tasks in the manager, not in the
set that `run` waits on, so their failure surfaces only at the trainer's next
`wait_prev_push` or `wait_prev_pull`. With `target_offpolicy_steps = 0` the buffer
has exactly P slots; they are freed by the pull. When the pull fails, the trainer
first waits for a batch, the data input for a slot, and the slot for the pull that
failed: nothing crashes and nothing proceeds, although `run` is documented to
"run until training completes or a stage crashes". With S >= 1 another
batch is on its way and the wait is reached (`failures` checks the same property).

*`checkpointer_last_save`.* `_is_valid_checkpoint` accepts `.metadata` or
`model.safetensors.index.json`, so the final save counts as the latest checkpoint
whatever its format. `_load` resumes from it in the DCP format and asks for the whole
training state (unless it is step 0). With `last_save_in_hf` the directory has no
`.metadata`, and the load fails, although the method is documented to tell
"whether `checkpoint_dir` holds a checkpoint this manager can load". The run needs one death
after the final save, before the process is gone; the ordinary way to meet it is to
raise `training.steps` and restart. `checkpointer_retention` therefore uses the full final save, for
which resuming is intended (comment in `_save_last_step`). The model-only final save
without Hugging Face format (the default) fails in the same way in the model (`LastSave = "model"`).

*Configurations outside the runs.* `ExpertParallel.cfg` has `Precision = "float32"`, where the
experts' cast to bfloat16 makes a copy of the receive buffer. With `Precision = "bfloat16"` the cast
returns the buffer itself and the autograd of the grouped matrix products keeps it for the weight
gradient; TLC then finds `RowsInPlace` violated: `combine_backward` is two operations after the recomputed
dispatch, gets the same buffer and fills it with gradients before the weight gradient reads
it. That rests on how PyTorch saves the argument of its kernel, which is outside the repository, and
no run on GPUs has confirmed it; so it is recorded as a hazard (`models/common/moe.py:99`) and not as a finding.

`lr_scheduler.total_steps` may be set below `training.steps`, and nothing refuses it. The schedules of
`MCPretrainingSteps` leave it unset or longer than the run; with `total |-> 3` for five steps TLC finds
`TrainsExactly` violated: the progress of the decay passes 1, where a linear or sqrt curve is below the
minimum, and below 0 when the minimum is 0. The help text says the minimum is kept
(`components/optimizer/lr_scheduler.py:86`), but also that `total_steps` is for training fewer steps, so this too is
recorded as a hazard.

## 4. Proofs

### The asynchronous loop

The theorems hold for every `NumPromptsPerTrainStep`, `TargetOffpolicySteps`,
`WindowSize`, number of steps, set of generators, set of failing stages and any
start step; the assumptions are `BufferAssumption`, `WeightSyncAssumption` and
`LoopAssumption`, the constraints that the configuration classes enforce.
`GroupIds` may be all of `Nat`. `AgeInv` assumes nothing about drops.

* `TypeCorrect`. Types; the gauge stays within the budget.
* `AgeInvariant`, from which `PolicyAgeBounded` and `WindowedFIFOHolds` follow. The
  bound says something about a batch at consumption, but what guarantees it
  happened when its groups were admitted, so the inductive invariant carries the
  argument through the pipeline. (1) `SlotInv`: active slots are ids issued less
  ids released. (2) `AdmitInv`: hence a group's id is at most
  B + P * (versions released when it was admitted) + earlier drops; a generator
  serves at least the released version (`BornFreshInv`), so the id bounds the
  version from below. (3) `CountInv`: groups that left the buffer are exactly those
  in formed batches, in the forming one, dropped or held. (4) `WindowInv`: a group
  leaves the buffer only when all but W-1 of the ids below it have left, so its id bounds the
  number of batches formed from above. (5) `FreshInv` puts (2), (3) and (4)
  together when the group is packed, and keeps the result, measured in the version
  the batch will be trained at, until the trainer takes it. Integer division by
  P is handled in one lemma.
* `HandoffInvariant`, with `NoTornReads`, `VersionLabelsTrue` and
  `SlotsComeBackAfterPull`. The push runs only while the pull task waits for it and
  while the trainer's version is the synced one; a pull, also one left running by a
  failed gather, implies the push is done, because a failed pull task is never
  replaced: the trainer awaits it before starting the next sync. It is proved
  relative to `AgeInv`, which supplies where the trainer is.
* `LoopInvariant`: `LoopInv` adds to these where every group is (`PlaceInv`: held, forming,
  formed, queued, training and dropped exclude each other), that batches are full and of sampled
  groups (`BatchInv`), what only `close()` can cause (`CloseInv`), how the trainer's position
  relates to its versions (`ProgressInv`), and that without failing calls no task has
  raised (`NoFailureInv`). `NoFailureInv` needs all the others. No `release_active_groups` raises,
  because the slots of a dropped group or a pulled batch are still charged: those of groups in the
  pipeline are part of the gauge by `SlotInv` and `CountInv`. The trainer does not meet a stale batch, by the
  age bound (`AgeBounded`). The data input adds to the slot it saw before it fetched its prompt, because
  nothing else charges slots.
* `SlotsAccounted`: the gauge is what is buffered, pending or trained but not pulled; after `close()`,
  which forgets entries but not slots, at least that. `NoTaskRaises`: a run without failing calls does not
  crash. `RunCompletes`: a completed run has trained every step, or the loss stopped it, and its last push and pull are over, so
  the generators serve the final weights.
* `LoopTrainsFresh`: the loop implements `FreshTraining`. Each step of the loop maps to one action
  or a stutter; the budget holds since everything outstanding has its slot, and a batch that the trainer
  takes for its optimizer step is full, fresh and outstanding by the invariants above.

### The router

For every number of generators, set of calls, session map, strategy, number of rounds and
either value of `HotSwap`; the assumptions are `StrategyAssumption` and `RouterAssumption`
(finitely many calls).

* `RouterInvariant`: `RouterInv` is inductive. Besides the three properties
  it holds `DrainInv`: a dispatched call has a target, a woken call implies that the
  serving event is set, and a handle that waits for its drain or pulls is syncing. From these a call
  dispatched in any step goes to a handle that does not drain, so its load, its idle event and
  its pull stay in agreement; a release wakes the drain only with the last call.
  Nothing is used of a strategy but that it returns a candidate.
* `LoadsExact`, `PullsAreDrained`, `RouteFindsCandidate` follow.
* `NobodyStarves`: `RecencyInv` says that the ranks are distinct and that the turns a candidate has lost to tied
  ones plus its rank never exceed the number of candidates. A candidate that loses a tie ranked behind
  the winner, which now ranks last, so it moves up by one; one that does not tie, or is not in the list
  because it drains, does not move down. Nothing is assumed about which candidates a choice sees.
* `SessionsKeepGenerator`: if nothing drains and the sticky map has room for every session (`SessionsFit`),
  a dispatched call's target is its session's entry (`AffinityInv`): no entry is evicted, and the entry's candidate is always in
  the list. Both conditions are needed: a drain moves the session by design, and eviction forgets it.
* `RouterIsPool`: the draining router implements `GeneratorPool`, under every strategy. That a load of weights
  finds the generator empty is the idle event together with exact loads.

### The generator

For every number of ranks, set of requests, number of pulls and setup; the assumption is `EngineAssumption`.

* `EngineInvariant`: `EngineInv` is inductive. `LoopInv` is the protocol of the decisions:
  a follower is at most one decision behind rank 0, and what it has not received is what was sent last. `CopiesInv`
  follows a request through queue, decision, broadcast, engine and port: it is in one of them, on the rank its
  reservation names, and while rank 0's loop serves it is somewhere exactly when it has a future
  (`FutureInv`). `VersionInv` is a chain: the version a rank has is at most the one it reaches
  after the pull it is in, then the one it reaches after what was sent to it, then the number of pulls; and rank 0 is never ahead of what
  another rank will reach. `StampInv` carries the stamp of a request between rank 0's version at the call
  and the versions it is sampled under.
* `RequestsHeldOnce`, `AnswersBounded`, `CallsSeePulls` and `DrainLives` follow. The step that looks
  obvious and is not: a request that is sent along a decision is sampled by a rank that may not yet have done the
  pull decided before, so bounds in terms of what a rank *has* are not inductive; those in terms of what it reaches are.

### The checkpointer

For every number of steps, interval, `keep_latest_k`, exempt steps, mode and number of deaths, in a folder
where earlier runs have left any set of whole checkpoints, a seed among them. The hypothesis of the theorems is `Resumable`: the last save is full and no explicit `load_step`
is given. Without the first, `checkpointer_last_save` shows that restarting fails; the second is the recorded
hazard of rolling back over newer checkpoints.

* `CheckpointerInvariant`: `CheckpointerInv` is inductive. A step is *covered* when enough newer
  checkpoints are loadable for the retention policy to do without it. Every checkpoint that looks valid
  is whole or covered (`WholeInv`), and the purge thread has only steps below the latest, the valid ones among them covered
  (`PurgeInv`); a deletion keeps both, because a step that it takes from the cover of an
  older one was covered itself, by steps newer than both. A directory left half-written is older than the latest checkpoint, or it is the
  one the next save overwrites (`AbandonedInv`), because saves follow the schedule: every scheduled step so far is below
  the latest checkpoint, but for the save in progress or failed and the step being taken (`SavingInv`, `ScheduleInv`).
* `LatestAlwaysLoads`, `LatestKAreKept`, `SavesAreUndisturbed`, `SnapshotsAreWhole` follow. The code sorts the
  steps of the folder; that the sorted list is increasing and complete, and what its last K entries are, is proved through
  the rank of a step (the number of smaller ones), which needs no induction over the list.
* `FolderIsRegister`: the folder implements the register `LatestCheckpoint`; of all steps of job and purge
  thread, only the end of a write moves it.

### The training loop

For every set of configurations (data, accumulation, schedules, graphs, replays), number of steps,
save interval, rows read ahead, deaths and corruptions.

* `PretrainingInvariant`: `PretrainingInv` is inductive. The loader has handed out exactly the rows of the steps so
  far, from a stream or an indexed dataset (`FetchInv`); the weights are those of the completed steps and the
  scheduler stands there (`WeightsInv`); counters, generator and gradient stand where the executions that count
  left them (`ExecInv`), also in the middle of a replay, whose snapshot is one execution
  behind and shares the gradient storage when a graph accumulates into it (`ReplayInv`); the warm-up counter plus the calls made
  is what the wrapper was configured with (`GraphInv`); a saved record, durable or pending, is the state at the end of its
  step (`CheckpointInv`), which is what a resumed process starts from.
* `TrainingIsExact`, under `SchedulesFit`: no schedule is shorter than the run. Otherwise it is false, which is a
  recorded hazard (`lr_scheduler.total_steps`, see above). `ReplaysFindCorruption` and `GraphIsCapturedOnTime` need no hypothesis.

### The data shards

* `ShardsPartition`, for every size of the dataset and number of ranks: each row is in exactly
  one rank's slice, sizes differ by at most one, and none is empty when there are as many rows
  as ranks. Slices adjoin (`ShardsAdjoin`) and the last one ends at the size (`ShardsSpan`), which with
  their order gives disjointness; `EveryRowDealt` names the rank of a row by
  division, by `size + 1` in the longer slices and by `size` after them.

### FlexShard

For every set of ranks, number of slots, set of bucket plans (local buckets anywhere among them) and number of steps, every
relative speed of hosts and streams, and a callback that may raise on any rank at any command; the assumption is
`ReshardAssumption`.

* `WorkIsOrdered`: `RaceInv` is inductive. Its core is `Ordered`: of two operations on the two streams of a rank that
  may touch the same memory, one was enqueued behind a wait for the other. That is fixed when the host enqueues the
  later one, so the device's steps change nothing of it. What the host must know to keep it is `InStep`: between
  two buckets the transfer stream waits for the backward and for every computation but that of the previous bucket, whose
  slot is the busy one and whose `compute_done` event is behind it (`ComputesSeen`), and each fetched slot's
  `compute_input_ready` event is behind its exchange (`Fetched`); slots are
  taken in turn (`SlotsInTurn`), so the current slot is neither busy nor fetched unless there is only one slot, when the code returns the
  previous bucket first. Every command has a lemma that says which of these it keeps, and every prefix of a bucket's
  commands keeps enough for the cleanup to order the reuse of memory after a callback raised.
* `NoRaceOnBuffers`, hence `NoBufferRace`: two operations at the heads of their streams with no wait before them are not
  ordered, hence do not conflict.
* `AssertionsNeverFail`: the assertions of `run` hold wherever its host may stand. `FlowInv` says what a host inside a
  step has enqueued of that step: the prefetched buckets are those from the current one on, none of them local;
  only the buckets before the current one have been called, and of these only the previous one is not yet returned.
* `PipelineImplementsSteps`, that is `ImplementsOptimizerSteps`: every step of the pipeline is a step of `OptimizerSteps`
  or a stutter, under the refinement mapping that leaves `plans`, `backwards` and `version` as they are.
  The invariant is `StepsInv == RaceInv /\ FlowInv /\ SamePath /\ DataInv`.
  1. `Structure`, part of `FlowInv`: the operations a rank has enqueued are in the right order and wait for the right ones. An
     exchange comes just after its packing, a finalize just after its gather; a computation waits for the scatter of its
     bucket and a gather for that computation; a slot is scattered into again only after a gather of what it held; nothing happens twice in a
     step; and a backward waits for all updates of the step before it (`StepsComplete`).
  2. `SamePath`: ranks run the same program on the same plans, so what their hosts have been through is a prefix of one
     path. Hence they agree on the operation at each place of their transfer streams,
     exchanges pair up, and this remains so of what a rank has enqueued when its callback raises in the middle.
  3. `DataInv`: which operations have ended determines the contents of the storage and compute buffers, `backwards` and
     `version`. No buffer is overwritten between two operations that hand a bucket on.

  It follows that a finalize writes the update of its own bucket and step, computed from what all owners
  packed (`FinalizeImplements`); local items are updated after their backward (`ReadyItemsImplement`), and a backward
  finds all items at the previous step (`BackwardImplements`).

### The exchange over symmetric memory

For every number of ranks, experts per rank, layers and slots, every choice of the router in every layer and every
relative speed of the ranks; the assumption on the constants is `SetupsAssumption`: ranks and slots are counted from 0, and
each slot's expert is one of the group's.

* Sums. Where a row goes is a sum of counts over experts and ranks (`SegmentStart`), written with the folds of the
  community modules. The library's induction theorems take the formula to be shown as an operator, which the provers cannot
  instantiate. But well-foundedness of the naturals can be used without them: the subsets of a finite set for which a
  law fails, if any, have a member of least cardinality (`SmallestSet`), and taking an element away
  leaves one for which the law holds. So it is shown that the fold has a solution and only one (`SummingExists`,
  `SummingUnique`), and from them `SumWithout`, `SumUnion`, `SumOfPart`, and that counting by classes is counting (`CountBy`).
* The metadata. Every rank computes from the counts, without asking its peers, where its own rows go and where received ones go
  back. `SegmentsDisjoint` and `PlacesDiffer`: no two slots of any two ranks are given the same row of the same rank.
  `SortPermutes`: the stable sort by expert is a permutation and its inverse is one. `DispatchGoesToPlace`, `RowsArePlaces` and `CombineGoesBack`:
  sender and receiver mean the same row by it. `GroupIsPlaces`: the group of an expert is the rows of the slots that chose
  it, each once.
* `ExchangeInvariant`: `ExchangeInv` is inductive. A rank past a barrier is past it only if all have reached it
  (`Barriers`), so a rank that reads counts finds those of its layer from all (`CountsSent`, `CountsKnown`). `RowsHeld`: what a peer has
  copied for an operation is in the buffer until the receiver reaches the barrier of the *next* operation, and not only until it has read it; it is that much
  that makes two buffers enough (`BufferIsFree`): to write the buffer again a rank must be two operations on, so past that barrier, which the
  receiver then has reached; and a peer that is two operations on would need this rank past a barrier it is not at.
  A copy also leaves the rows that other ranks have already copied (`SendingRowsDiffer`).
* `ReadsRowsInPlace`, hence `RowsInPlace`, under the hypothesis `Precision = "float32"`. In bfloat16 the last part of
  `RowsInPlace` is false (see the end of section 3); the invariant needs no hypothesis.

### What is only model-checked

The rollouts and batches (`TrainedAsSampled`, `MinVersionIsOldest`), FlexShard's plans (`PlansDeliver`),
and that all dispatchers agree (`DispatchersAgree`).
Their packing, planning, permutation and reference definitions are folds over sequences and recursive data. What they
compute for every input needs induction over data: the sums of the exchange show that the prover can be brought to it
one fold at a time, but these definitions nest several.
All liveness properties are out of the prover's reach and stay with TLC. The end of section 3 says what happens
without the hypotheses `Resumable` and `SchedulesFit`.

## 5. Not modelled, and why

Tensor code (models, losses, quantization, kernels), process launch,
configuration, metrics and logging: no protocol state, or outside what a
model checker can reach. Validation before and after `run` does not overlap the
loop. Trainer ranks act as one: they run the same program on the same batch, and a
failure of one surfaces as a failed call. Checkpoint saving inside the RL loop is
a step that may fail. In the router, metrics and the latency log; in the
generator, vLLM's scheduling (which requests finish in a step is free), the crash of a rank other than 0
and the process group's time-outs. In the checkpointer, the `torch_checkpointing` back end with its staging directories,
`initial_load_path`, `load_only`, the creation of a seed checkpoint (a seed may be there at
the start), conversion of formats, the data that a checkpoint holds beyond its kind, and
ranks that disagree on the folder's contents. Weights copied by a separate process may be
written after their parent was killed; the model stops both.

In the rollouts, rubrics and message environments, which are user code behind an interface, and
the renderers beyond what they do to a history. In pretraining, filters, the shuffle window of a stream, packing,
mixtures of sources, validation, ranks that differ, and the
profiler. In FlexShard, the Newton-Schulz numerics, the state dict, and the parsing of bucket
configurations. DeepEP and HybridEP call external libraries whose protocol is not in the repository.
The graph trainer (`experiments/graph_trainer`, with GraphPP) rewrites traced graphs: its
input is the FX graph of a model, so a model of a pass would be a model of PyTorch; its schedules are
PyTorch's. The transformers back end, torchft adapter and recipes hold no state of their own.

Three hazards have no property and `PROJECT.json` says why: a follower's crash, the rollback by an explicit
`load_step` (which is in the model, but no run sets it), and the builder's exception that
ends a run (which the model has as an action; that the run should survive is nowhere stated). The
bfloat16 buffer is the fourth, described above. Two simultaneous pulls of one
generator are made by no caller.

## 6. Plan

Done: the buffer, weight sync and loop with `FreshTraining` and proofs; the router with its
strategies, `GeneratorPool` and proofs; the generator; rollouts, samples and batches; the
checkpointer with `LatestCheckpoint`; the pretraining steps with data position, learning rate, graph and replayer;
FlexShard with `OptimizerSteps`; the expert-parallel exchange. Next, in this order:

1. Proofs: that the packed rows of a batch hold every sample once (`TrainedAsSampled`) and that versions do not fall over a rollout (`MinVersionIsOldest`), by induction as for the sums of the exchange.
2. Checkpointer: the rollback by `load_step`, runs whose interval changed between two
   processes, and the staging directories of the `torch_checkpointing` back end.
3. Data: packing and mixtures with their resume positions; the split of
   pipeline stages as a pure algorithm.
