------------------------------ MODULE WeightSync ------------------------------
(***************************************************************************)
(* The trainer -> generators weight handoff (components/weight_sync.py):   *)
(* a push task stages the trainer's weights in the store, a pull task      *)
(* waits for it, loads the staged weights into every generator and then    *)
(* hands the trained groups' slots back.  The tasks run beside the next    *)
(* training step; the trainer loop awaits the push before the next         *)
(* optimizer step and the pull before the next push.                       *)
(***************************************************************************)
EXTENDS Integers

CONSTANTS
  Generators,   \* the generator replicas behind the router
  StartStep     \* policy version restored from the checkpoint (0 if fresh)

ASSUME WeightSyncAssumption == StartStep \in Nat

VARIABLES
  policyVersion,  \* the trainer's policy_version: completed optimizer steps
  stored,         \* version of the weights staged under "model_state_dict"
  syncVersion,    \* the version the last started sync hands over
  push,           \* state of _trainer_push_task
  pull,           \* state of _generator_pull_task
  genPull,        \* each generator's own pull call
  genVersion,     \* each generator's policy_version label
  genWeights      \* version of the weights each generator computes with

storeVars == <<policyVersion, stored, syncVersion>>
taskVars == <<push, pull>>
genVars == <<genPull, genVersion, genWeights>>
syncVars == <<policyVersion, stored, syncVersion, push, pull,
              genPull, genVersion, genWeights>>

PushStates == {"running", "done", "failed"}
PullStates == {"awaiting_push", "running", "done", "failed"}
GenPullStates == {"idle", "pulling", "failed"}

(* The initial sync ran before run(); the two tasks start as finished      *)
(* no-ops.                                                                 *)
SyncInit ==
  /\ policyVersion = StartStep
  /\ stored = StartStep
  /\ syncVersion = StartStep
  /\ push = "done"
  /\ pull = "done"
  /\ genPull = [gen \in Generators |-> "idle"]
  /\ genVersion = [gen \in Generators |-> StartStep]
  /\ genWeights = [gen \in Generators |-> StartStep]

-------------------------------------------------------------------------------

(* wait_prev_push / wait_prev_pull return once the task is done and raise  *)
(* the task's own exception.                                               *)
PrevPushDone_NotAwaited == push # "failed"
PrevPushDone == push = "done"
PrevPushFailed == push = "failed"
PrevPullDone == pull = "done"
PrevPullFailed_Swallowed == FALSE
PrevPullFailed == pull = "failed"

StepOptimizer ==
  /\ policyVersion' = policyVersion + 1
  /\ UNCHANGED <<stored, syncVersion, taskVars, genVars>>

StartAsyncPushPull ==
  /\ syncVersion' = policyVersion
  /\ push' = "running"
  /\ pull' = "awaiting_push"
  /\ UNCHANGED <<policyVersion, stored, genVars>>

(* The push copies the live GPU weights: what is staged is the version the *)
(* trainer holds when the copy ends.                                       *)
PushCompletes ==
  /\ push = "running"
  /\ push' = "done"
  /\ stored' = policyVersion
  /\ UNCHANGED <<policyVersion, syncVersion, pull, genVars>>

PushFails ==
  /\ push = "running"
  /\ push' = "failed"
  /\ UNCHANGED <<storeVars, pull, genVars>>

PullStarts_Early ==
  /\ pull = "awaiting_push"
  /\ pull' = "running"
  /\ genPull' = [gen \in Generators |-> "pulling"]
  /\ UNCHANGED <<storeVars, push, genVersion, genWeights>>

(* `await push_task`, then the router starts every generator's pull.       *)
PullStarts ==
  /\ pull = "awaiting_push"
  /\ push = "done"
  /\ pull' = "running"
  /\ genPull' = [gen \in Generators |-> "pulling"]
  /\ UNCHANGED <<storeVars, push, genVersion, genWeights>>

PullAborts ==
  /\ pull = "awaiting_push"
  /\ push = "failed"
  /\ pull' = "failed"
  /\ UNCHANGED <<storeVars, push, genVars>>

GeneratorPulls(gen) ==
  /\ genPull[gen] = "pulling"
  /\ genPull' = [genPull EXCEPT ![gen] = "idle"]
  /\ genVersion' = [genVersion EXCEPT ![gen] = syncVersion]
  /\ genWeights' = [genWeights EXCEPT ![gen] = stored]
  /\ UNCHANGED <<storeVars, taskVars>>

(* The first failed pull fails the router's gather, and so the pull task;  *)
(* the other generators' pulls are not cancelled.                          *)
GeneratorPullFails(gen) ==
  /\ genPull[gen] = "pulling"
  /\ genPull' = [genPull EXCEPT ![gen] = "failed"]
  /\ pull' = "failed"
  /\ UNCHANGED <<storeVars, push, genVersion, genWeights>>

AllGeneratorsPulled_First ==
  /\ pull = "running"
  /\ \E gen \in Generators : genPull[gen] = "idle"

AllGeneratorsPulled ==
  /\ pull = "running"
  /\ \A gen \in Generators : genPull[gen] = "idle"

(* The pull task's last step, after the release of the trained slots.      *)
PullEnds(released) ==
  /\ AllGeneratorsPulled
  /\ pull' = IF released THEN "done" ELSE "failed"
  /\ UNCHANGED <<storeVars, push, genVars>>

-------------------------------------------------------------------------------

SyncTypeOK ==
  /\ policyVersion \in Nat
  /\ stored \in Nat
  /\ syncVersion \in Nat
  /\ push \in PushStates
  /\ pull \in PullStates
  /\ genPull \in [Generators -> GenPullStates]
  /\ genVersion \in [Generators -> Nat]
  /\ genWeights \in [Generators -> Nat]
===============================================================================
