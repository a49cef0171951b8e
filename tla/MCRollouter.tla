------------------------------- MODULE MCRollouter -------------------------------
(* Finite instances of Rollouter.                                          *)
EXTENDS Rollouter

Base ==
  [groups |-> 1, siblings |-> 1, promptLens |-> {2}, maxNumTurns |-> 2,
   maxRolloutTokens |-> 0, maxCompletion |-> 2, logprobs |-> {Finite},
   abortsEmpty |-> FALSE, bridges |-> {TRUE, FALSE}, mayRaise |-> TRUE,
   rewards |-> {0}, dropZeroStd |-> TRUE, hotSwap |-> TRUE, maxVersion |-> 0,
   numPrompts |-> 1, seqLen |-> 8, localBatchSize |-> 1, dpDegree |-> 2, padMultiple |-> 0]

(* One rollout of three turns that keeps or edits its history.             *)
LongRollout ==
  [Base EXCEPT !.maxNumTurns = 3, !.abortsEmpty = TRUE, !.promptLens = {1, 2},
               !.maxRolloutTokens = 8, !.logprobs = {Finite, NotFinite}]

(* Two siblings with rewards.                                              *)
SiblingGroup ==
  [Base EXCEPT !.siblings = 2, !.rewards = {0, 1}, !.padMultiple = 2]

(* Several groups share batches of two.                                    *)
ManyGroups ==
  [Base EXCEPT !.groups = 4, !.maxNumTurns = 1, !.promptLens = {1, 4}, !.numPrompts = 2,
               !.seqLen = 4, !.localBatchSize = 2, !.logprobs = {Finite, NotFinite}]

MCSetups == {LongRollout, SiblingGroup, ManyGroups}

(* Three turns of one rollout, or two siblings of two turns that keep      *)
(* generators busy for each other, during two rounds of pulls.             *)
Pulls(hotSwap) ==
  {[Base EXCEPT !.hotSwap = hotSwap, !.maxNumTurns = 3, !.numPrompts = 2, !.maxVersion = 2],
   [Base EXCEPT !.hotSwap = hotSwap, !.siblings = 2, !.maxCompletion = 1, !.rewards = {0, 1},
                !.mayRaise = FALSE, !.numPrompts = 2, !.maxVersion = 2]}

MCPulls == Pulls(TRUE) \union Pulls(FALSE)
===============================================================================
