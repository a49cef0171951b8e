----------------------------- MODULE FreshTraining -----------------------------
(***************************************************************************)
(* What the asynchronous loop promises, without its tasks, queues, window  *)
(* or weight handoff: groups are admitted against a budget, sampled by     *)
(* some policy version, and trained P at a time, each group at most once   *)
(* and none by a policy more than MaxStaleness versions newer than the one *)
(* that sampled it.                                                        *)
(***************************************************************************)
EXTENDS Integers, FiniteSets

CONSTANTS
  Groups,         \* the group ids a behaviour may use
  Budget,         \* groups admitted and neither trained nor discarded
  BatchSize,      \* groups per training step
  MaxStaleness,   \* in policy versions
  FirstVersion,   \* version of the policy training starts from
  Unsampled

VARIABLES
  nextId,         \* ids are never reused
  outstanding,    \* groups admitted and neither trained nor discarded
  sampledAt,      \* oldest version behind each group's tokens
  trainedVersion  \* version of the policy being trained

freshVars == <<nextId, outstanding, sampledAt, trainedVersion>>

FreshInit ==
  /\ nextId = 0
  /\ outstanding = {}
  /\ sampledAt = [g \in Groups |-> Unsampled]
  /\ trainedVersion = FirstVersion

Admit ==
  /\ nextId \in Groups
  /\ Cardinality(outstanding) < Budget
  /\ outstanding' = outstanding \union {nextId}
  /\ nextId' = nextId + 1
  /\ UNCHANGED <<sampledAt, trainedVersion>>

Sample(g) ==
  /\ sampledAt[g] = Unsampled
  /\ \E v \in FirstVersion..trainedVersion :
       sampledAt' = [sampledAt EXCEPT ![g] = v]
  /\ UNCHANGED <<nextId, outstanding, trainedVersion>>

(* A group whose rollouts failed counts as never sampled.                  *)
Void(g) ==
  /\ sampledAt' = [sampledAt EXCEPT ![g] = Unsampled]
  /\ UNCHANGED <<nextId, outstanding, trainedVersion>>

Train(groups) ==
  /\ Cardinality(groups) = BatchSize
  /\ \A g \in groups :
       /\ sampledAt[g] # Unsampled
       /\ trainedVersion - sampledAt[g] <= MaxStaleness
  /\ outstanding' = outstanding \ groups
  /\ trainedVersion' = trainedVersion + 1
  /\ UNCHANGED <<nextId, sampledAt>>

Discard(groups) ==
  /\ outstanding' = outstanding \ groups
  /\ UNCHANGED <<nextId, sampledAt, trainedVersion>>

FreshNext ==
  \/ Admit
  \/ \E g \in Groups : Sample(g) \/ Void(g)
  \/ \E groups \in SUBSET outstanding : Train(groups) \/ Discard(groups)

FreshSpec == FreshInit /\ [][FreshNext]_freshVars
===============================================================================
