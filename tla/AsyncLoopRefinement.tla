-------------------------- MODULE AsyncLoopRefinement --------------------------
(* The refinement mapping from the loop to FreshTraining.                   *)
EXTENDS AsyncLoop

(* Groups somewhere in the loop.  close() discards those in the buffer.     *)
Outstanding == Buffered \union Pending \union training

Abstract == INSTANCE FreshTraining WITH
  Groups <- GroupIds,
  Budget <- MaxActive,
  BatchSize <- NumPromptsPerTrainStep,
  MaxStaleness <- MaxOffpolicySteps,
  FirstVersion <- StartStep,
  Unsampled <- NoVersion,
  nextId <- nextGroup,
  outstanding <- Outstanding,
  sampledAt <- version,
  trainedVersion <- policyVersion

(* The tasks together do what FreshTraining says: a group is trained at    *)
(* most once, in a full batch, never beyond the off-policy bound, and the  *)
(* untrained groups never exceed the budget.                               *)
ImplementsFreshTraining == Abstract!FreshSpec
===============================================================================
