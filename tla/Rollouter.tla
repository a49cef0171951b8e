-------------------------------- MODULE Rollouter --------------------------------
(***************************************************************************)
(* From a prompt to a training batch: a worker drives the siblings of a    *)
(* group turn by turn (rollout/rollouter.py, environment/token.py), scores *)
(* them and computes advantages; the batcher loop (controller.py) builds   *)
(* training samples and packs them.                                        *)
(*                                                                         *)
(* Groups come one after the other; that they overlap is AsyncLoop's       *)
(* subject.  Of the router and the engines it has what decides under which *)
(* version a turn is admitted; a pull that fails ends the run and is       *)
(* InterGeneratorRouter's subject.  A turn's version bounds are those      *)
(* GeneratorEngine shows.  A token is named <<group, sibling, turn,        *)
(* index>>: sibling 0 is the shared prompt, index 0 the environment's      *)
(* reply.  Closing the environments, the metrics and the recorder are left *)
(* out.                                                                    *)
(***************************************************************************)
EXTENDS Integers, Sequences, FiniteSets, Batcher

CONSTANTS
  Generators,   \* the generators that serve the calls
  Setups        \* configurations, with the bounds of each

ASSUME RollouterAssumption ==
  /\ Generators # {}
  /\ \A c \in Setups :
       /\ c.hotSwap \in BOOLEAN
       /\ {c.groups, c.siblings, c.numPrompts, c.seqLen,
           c.localBatchSize, c.dpDegree} \subseteq Nat \ {0}
       /\ {c.maxNumTurns, c.maxRolloutTokens, c.padMultiple, c.maxVersion} \subseteq Nat
       /\ c.padMultiple # 0 => c.seqLen % c.padMultiple = 0

VARIABLES
  setup,        \* which of the Setups this is
  group,        \* the group a worker is driving: id and length of the prompt
  sibling,      \* its siblings
  version,      \* each generator's policy version
  asked,        \* the version of the last pull the router asked each one for
  finalized,    \* the scored group the batcher loop takes next
  accumulated,  \* _groups_for_next_batch
  batches,      \* training batches packed so far
  batcherPc,    \* whether the batcher loop runs
  finished      \* history: the groups the batcher loop has taken

workerVars == <<group, sibling>>
batcherVars == <<accumulated, batches, batcherPc, finished>>
syncVars == <<version, asked>>
vars == <<setup, workerVars, syncVars, finalized, batcherVars>>

Siblings == 1..setup.siblings
NoGroup == [id |-> 0, rollouts |-> <<>>]
NewSibling == [pc |-> "init", prompt |-> <<>>, messages |-> <<>>, turns |-> <<>>,
               generator |-> "none", routedAt |-> 0, minVersion |-> 0,
               status |-> "ongoing"]

Init ==
  /\ setup \in Setups
  /\ group = [id |-> 0, promptLen |-> 0]
  /\ sibling = [s \in Siblings |-> [NewSibling EXCEPT !.pc = "scored"]]
  /\ version = [g \in Generators |-> 0]
  /\ asked = [g \in Generators |-> 0]
  /\ finalized = NoGroup
  /\ accumulated = <<>>
  /\ batches = <<>>
  /\ batcherPc = "running"
  /\ finished = <<>>

-------------------------------------------------------------------------------
(* Tokens and prompts.                                                     *)

PromptToken(k) == <<group.id, 0, 0, k>>
ReplyToken(s, t) == <<group.id, s, t, 0>>
CompletionOf(s, t, n) == [k \in 1..n |-> <<group.id, s, t, k>>]

(* A re-rendered history has lost the reasoning of past answers: the first *)
(* token of each that has more than one.                                   *)
WithoutThinking(completion) == IF Len(completion) > 1 THEN Tail(completion) ELSE completion

RenderIds(messages) == FlattenSeq(messages)

IsPromptTooLong(prompt) ==
  setup.maxRolloutTokens # 0 /\ Len(prompt) >= setup.maxRolloutTokens

-------------------------------------------------------------------------------
(* One group (run_group).                                                  *)

RunGroup ==
  /\ group.id < setup.groups
  /\ finalized = NoGroup
  /\ \A s \in Siblings : sibling[s].pc = "scored"
  /\ batcherPc = "running"
  /\ \E n \in setup.promptLens : group' = [id |-> group.id + 1, promptLen |-> n]
  /\ sibling' = [s \in Siblings |-> NewSibling]
  /\ UNCHANGED <<setup, syncVars, finalized, batcherVars>>

EnvInit(s) ==
  /\ sibling[s].pc = "init"
  /\ LET prompt == [k \in 1..group.promptLen |-> PromptToken(k)]
     IN sibling' = [sibling EXCEPT
          ![s].prompt = prompt,
          ![s].messages = <<prompt>>,
          ![s].pc = IF IsPromptTooLong(prompt) THEN "done" ELSE "prompted",
          ![s].status = IF IsPromptTooLong(prompt) THEN "truncated_prompt_too_long" ELSE @]
  /\ UNCHANGED <<setup, group, syncVars, finalized, batcherVars>>

(* A generator that drains takes no calls until it has pulled.             *)
Serving(g) == setup.hotSwap \/ version[g] = asked[g]

(* The router sends the call to a generator; the pulls it has asked of     *)
(* this generator so far are ahead of the call.                            *)
GenerateStarts(s, g) ==
  /\ sibling[s].pc = "prompted"
  /\ Serving(g)
  /\ sibling' = [sibling EXCEPT ![s].pc = "routed", ![s].generator = g,
                                ![s].routedAt = asked[g]]
  /\ UNCHANGED <<setup, group, syncVars, finalized, batcherVars>>

(* The engine decides to step and admits the call under its version: a     *)
(* pull that waits goes before the calls that wait.                        *)
Admitted(s) ==
  LET g == sibling[s].generator
  IN /\ sibling[s].pc = "routed"
     /\ version[g] >= sibling[s].routedAt
     /\ sibling' = [sibling EXCEPT ![s].pc = "generating", ![s].minVersion = version[g]]
     /\ UNCHANGED <<setup, group, syncVars, finalized, batcherVars>>

(* The environment's reply and the next prompt: a bridge from the tokens   *)
(* of this turn or, if the renderer has none, the whole history rendered.  *)
NextPrompt(s, completion, bridges) ==
  LET reply == <<ReplyToken(s, Len(sibling[s].turns) + 1)>>
  IN IF bridges THEN sibling[s].prompt \o completion \o reply
     ELSE RenderIds(sibling[s].messages \o <<WithoutThinking(completion), reply>>)

EndStatuses ==
  {"error_parse", "truncated_length", "error_abort", "error_timeout", "completed"}

(* How TokenEnv.step ends when the environment would go on.                *)
ContinuedStatus(s, prompt) ==
  IF setup.maxNumTurns # 0 /\ Len(sibling[s].turns) + 1 >= setup.maxNumTurns
  THEN "truncated_max_turns"
  ELSE IF IsPromptTooLong(prompt) THEN "truncated_prompt_too_long" ELSE "ongoing"

TurnEnds(s, completion, logprob, status, prompt) ==
  sibling' = [sibling EXCEPT
    ![s].turns = Append(@,
       [prompt |-> sibling[s].prompt, completion |-> completion, logprob |-> logprob,
        minVersion |-> sibling[s].minVersion,
        maxVersion |-> version[sibling[s].generator]]),
    ![s].messages = IF status = "ongoing"
       THEN @ \o <<WithoutThinking(completion), <<ReplyToken(s, Len(sibling[s].turns) + 1)>>>>
       ELSE @,
    ![s].prompt = prompt,
    ![s].pc = IF status = "ongoing" THEN "prompted" ELSE "done",
    ![s].status = status]

(* The completion arrives and the environment steps.  An aborted request   *)
(* may come back without tokens.                                           *)
Turn(s) ==
  /\ sibling[s].pc = "generating"
  /\ \E n \in 0..setup.maxCompletion, logprob \in setup.logprobs :
       LET completion == CompletionOf(s, Len(sibling[s].turns) + 1, n) IN
       \/ \E status \in EndStatuses :
            /\ n = 0 => status = "error_abort" /\ setup.abortsEmpty
            /\ TurnEnds(s, completion, logprob, status, <<>>)
       \/ \E bridges \in setup.bridges :
            LET prompt == NextPrompt(s, completion, bridges)
                status == ContinuedStatus(s, prompt)
            IN /\ n > 0
               /\ TurnEnds(s, completion, logprob, status,
                           IF status = "ongoing" THEN prompt ELSE <<>>)
  /\ UNCHANGED <<setup, group, syncVars, finalized, batcherVars>>

(* The environment or the generator raises: the turn is not recorded.      *)
RolloutRaises(s) ==
  /\ setup.mayRaise
  /\ sibling[s].pc \in {"init", "routed", "generating"}
  /\ sibling' = [sibling EXCEPT ![s].pc = "done", ![s].status = "error", ![s].prompt = <<>>]
  /\ UNCHANGED <<setup, group, syncVars, finalized, batcherVars>>

SumOf(rewards) == FoldLeft(LAMBDA sum, r : sum + r, 0, rewards)

(* The default estimator, times the size of the group: r - mean(r).        *)
Advantage(rewards, s) == setup.siblings * rewards[s] - SumOf(rewards)

Scored(rewards) ==
  [s \in Siblings |-> [turns |-> sibling[s].turns, reward |-> rewards[s],
                       advantage |-> Advantage(rewards, s)]]

AllDone == \A s \in Siblings : sibling[s].pc = "done"

GroupEnds(rollouts) ==
  /\ AllDone
  /\ finalized' = [id |-> group.id, rollouts |-> rollouts]
  /\ sibling' = [s \in Siblings |-> [NewSibling EXCEPT !.pc = "scored"]]
  /\ UNCHANGED <<setup, group, syncVars, batcherVars>>

ScoreGroup == \E rewards \in [Siblings -> setup.rewards] : GroupEnds(Scored(rewards))

(* A reward function raises: the loop sends an empty group.                *)
GroupFails == setup.mayRaise /\ GroupEnds(<<>>)

-------------------------------------------------------------------------------
(* The batcher loop and the generators.                                    *)

AddTrainingSamples(samples) ==
  LET groups == Append(accumulated, [id |-> finalized.id, samples |-> Fitting(samples, setup)])
      cut == Cut(groups, setup)
  IN IF BatchReady(groups, setup)
     THEN /\ batches' = Append(batches, PackBatch(SubSeq(groups, 1, cut), setup))
          /\ accumulated' = SubSeq(groups, cut + 1, Len(groups))
     ELSE accumulated' = groups /\ UNCHANGED batches

BatcherLoop ==
  /\ finalized # NoGroup
  /\ batcherPc = "running"
  /\ ~BuildRaises(finalized.rollouts, setup.dropZeroStd)
  /\ AddTrainingSamples(BuildFromGroup(finalized.rollouts, setup.dropZeroStd))
  /\ finished' = Append(finished, finalized)
  /\ finalized' = NoGroup
  /\ UNCHANGED <<setup, workerVars, syncVars, batcherPc>>

(* Nothing catches what the builder raises: the run ends.                  *)
BatcherRaises ==
  /\ finalized # NoGroup
  /\ BuildRaises(finalized.rollouts, setup.dropZeroStd)
  /\ batcherPc = "running"
  /\ batcherPc' = "raised"
  /\ UNCHANGED <<setup, workerVars, syncVars, finalized, accumulated, batches, finished>>

InService(g) == {s \in Siblings : sibling[s].pc \in {"routed", "generating"}
                                    /\ sibling[s].generator = g}

(* A rolling sync, which the TODO in _pull_model_state_dict considers.     *)
SyncStarts_Rolling ==
  \E g \in Generators :
    /\ asked[g] < setup.maxVersion
    /\ \A h \in Generators : version[h] = asked[h] /\ asked[h] >= asked[g]
    /\ asked' = [asked EXCEPT ![g] = @ + 1]
    /\ UNCHANGED <<setup, workerVars, version, finalized, batcherVars>>

(* A round of pulls, after the one before: gather starts its pulls back to *)
(* back, so every generator is draining, or has the pull ahead of all      *)
(* later calls, before the first of them pulls.                            *)
SyncStarts ==
  /\ \A g \in Generators : version[g] = asked[g] /\ asked[g] < setup.maxVersion
  /\ asked' = [g \in Generators |-> asked[g] + 1]
  /\ UNCHANGED <<setup, workerVars, version, finalized, batcherVars>>

(* With draining a pull waits until the calls of its generator are over.   *)
Pull(g) ==
  /\ version[g] < asked[g]
  /\ setup.hotSwap \/ InService(g) = {}
  /\ version' = [version EXCEPT ![g] = asked[g]]
  /\ UNCHANGED <<setup, workerVars, asked, finalized, batcherVars>>

Over ==
  /\ batcherPc = "raised" \/ (group.id = setup.groups /\ Len(finished) = setup.groups)
  /\ UNCHANGED vars

Next ==
  \/ RunGroup
  \/ \E s \in Siblings :
       \/ EnvInit(s)
       \/ \E g \in Generators : GenerateStarts(s, g)
       \/ Admitted(s)
       \/ Turn(s)
       \/ RolloutRaises(s)
  \/ ScoreGroup
  \/ GroupFails
  \/ BatcherLoop
  \/ BatcherRaises
  \/ SyncStarts
  \/ \E g \in Generators : Pull(g)
  \/ Over

Spec == Init /\ [][Next]_vars

-------------------------------------------------------------------------------
(* Properties.                                                             *)

(* The valid tokens of a row, each with the inputs from the last position  *)
(* 0 up to its own: what attention lets the model see.                     *)
TrainedIn(row) ==
  LET valid == SelectSeq([k \in DOMAIN row |-> k], LAMBDA k : IsValid(row[k].cell))
  IN [i \in DOMAIN valid |->
       LET k == valid[i] IN
       [context |-> [j \in 1..row[k].position + 1 |-> row[k - row[k].position - 1 + j].cell.input],
        token |-> row[k].cell.label, advantage |-> row[k].cell.advantage]]

RowsOf(batch) == FlattenSeq(FlattenSeq(batch.grid))

TrainedBy(batch) ==
  FlattenSeq([r \in DOMAIN RowsOf(batch) |-> TrainedIn(RowsOf(batch)[r])])

Trained == FlattenSeq([b \in DOMAIN batches |-> TrainedBy(batches[b])])

Sampled(rollout) ==
  UNION {{[context |-> t.prompt \o SubSeq(t.completion, 1, i - 1),
           token |-> t.completion[i], advantage |-> rollout.advantage] :
             i \in DOMAIN t.completion} :
           t \in {t \in ToSet(rollout.turns) : t.logprob = Finite}}

(* A group has something to teach, and a rollout a place in a row.         *)
Learnable(g) ==
  /\ g.rollouts # <<>>
  /\ \A i \in DOMAIN g.rollouts :
       \E t \in ToSet(g.rollouts[i].turns) : t.completion # <<>>
  /\ setup.siblings > 1 /\ setup.dropZeroStd =>
       \E i \in DOMAIN g.rollouts : g.rollouts[i].advantage # 0

Fits(rollout) ==
  \A t \in ToSet(rollout.turns) :
    RoundedUp(Len(t.prompt) + Len(t.completion) - 1, setup) <= setup.seqLen

Settled == {k \in DOMAIN finished : \A i \in DOMAIN accumulated : accumulated[i].id # finished[k].id}

(* What is trained on is what was sampled: every token that enters the     *)
(* loss has, in its packed row, the context its generator saw and the      *)
(* advantage of its rollout, and is trained once; no token of a group that *)
(* left the batcher is missing if its rollout fits a row; and the loss of  *)
(* a batch is divided by the number of tokens in it, never by zero.        *)
TrainedAsSampled ==
  LET trained == ToSet(Trained)
  IN /\ Cardinality(trained) = Len(Trained)
     /\ trained \subseteq UNION {UNION {Sampled(r) : r \in ToSet(finished[k].rollouts)} : k \in Settled}
     /\ \A k \in Settled : Learnable(finished[k]) =>
          \A r \in ToSet(finished[k].rollouts) : Fits(r) => Sampled(r) \subseteq trained
     /\ \A b \in DOMAIN batches :
          /\ batches[b].numGlobalValidTokens > 0
          /\ batches[b].numGlobalValidTokens = Len(TrainedBy(batches[b]))

(* types.py: min_policy_version of a sample is the "Oldest policy version  *)
(* among this branch's trained turns".  The builder takes the opening      *)
(* turn's and never lowers it, which is right only while no later turn of  *)
(* the rollout, on whatever generator, is admitted under an older version. *)
MinVersionIsOldest ==
  \A i \in DOMAIN accumulated : \A sample \in ToSet(accumulated[i].samples) :
    \A v \in sample.versions : sample.minVersion <= v
===============================================================================
