----------------------------- MODULE OptimizerSteps -----------------------------
(***************************************************************************)
(* What _BucketedRedistributionRuntime.run promises the training loop      *)
(* (distributed/flex_shard/_optimizer_reshard_runtime.py): each step       *)
(* updates every item of every bucket exactly once, from the gradients of  *)
(* that step, and the next forward and backward see all the updates.  An   *)
(* item that is resharded needs the gradients of every rank.               *)
(***************************************************************************)
EXTENDS Integers

CONSTANTS
  Ranks,
  NumSteps,     \* bound: optimizer steps
  ItemSets      \* the possible sets of items of a model

VARIABLES
  items,        \* the items of this model; <<bucket, kind>>
  backwards,    \* steps whose gradients a rank has computed
  version       \* the step of the last update of each item on each rank

vars == <<items, backwards, version>>

Resharded(item) == item[2] = "resharded"

Init ==
  /\ items \in ItemSets
  /\ backwards = [r \in Ranks |-> 0]
  /\ version = [r \in Ranks |-> [i \in items |-> 0]]

(* Forward and backward run on the weights of the step before.             *)
Backward(r) ==
  /\ backwards[r] < NumSteps
  /\ \A i \in items : version[r][i] = backwards[r]
  /\ backwards' = [backwards EXCEPT ![r] = @ + 1]
  /\ UNCHANGED <<items, version>>

Update(r, i) ==
  /\ version[r][i] = backwards[r] - 1
  /\ Resharded(i) => \A q \in Ranks : backwards[q] >= backwards[r]
  /\ version' = [version EXCEPT ![r][i] = backwards[r]]
  /\ UNCHANGED <<items, backwards>>

Next == \E r \in Ranks : Backward(r) \/ \E i \in items : Update(r, i)

StepsSpec == Init /\ [][Next]_vars
===============================================================================
