------------------------------ MODULE MCAsyncLoop ------------------------------
(* Finite instances of AsyncLoop.  The generators are interchangeable.      *)
EXTENDS AsyncLoopRefinement, TLC

(* Enough ids that the bound never stops the data input: every slot, every *)
(* trained group and every dropped group uses one.                         *)
MCGroupIds ==
  0..(MaxActive + NumPromptsPerTrainStep * (NumTrainingSteps - StartStep)
      + MaxDropped - 1)

RemoteFailures == {"data_input", "batcher", "loss", "trainer", "push", "pull"}
RolloutFailures == {"rollout"}
AllFailures == RemoteFailures \cup RolloutFailures
SyncFailures == {"push", "pull"}

GeneratorSymmetry == Permutations(Generators)
===============================================================================
