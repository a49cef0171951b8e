----------------------------- MODULE TrainingSamples -----------------------------
(***************************************************************************)
(* How a group of scored rollouts becomes training samples                 *)
(* (components/training_sample_builder.py).  A rollout is its turns and    *)
(* its advantage; a turn is the prompt and the completion as tokens, the   *)
(* completion's log-probability and its policy versions.  A sample is the  *)
(* sequence of its tokens with what the four lists of a TrainingSample say *)
(* of each.                                                                *)
(***************************************************************************)
EXTENDS Integers, Sequences, FiniteSets, SequencesExt

(* The log-probabilities of a completion, as far as the code looks.        *)
Finite == "finite"
NotFinite == "not_finite"
NoLogprob == "zero"

Tokens(seq, trained, logprob, advantage) ==
  [k \in DOMAIN seq |-> [token |-> seq[k], trained |-> trained,
                         logprob |-> logprob, advantage |-> advantage]]

(* The first sample of a rollout or a branch; `versions` (history) are the *)
(* oldest versions of the turns it packs.                                  *)
NewSample(t) ==
  [tokens |-> <<>>, versions |-> {},
   minVersion |-> t.minVersion, maxVersion |-> t.maxVersion]

Extended_WholePrompt(sample, t, prefix, advantage) ==
  [sample EXCEPT
    !.tokens = @ \o Tokens(t.prompt, FALSE, NoLogprob, 0)
                 \o Tokens(t.completion, TRUE, t.logprob, advantage),
    !.versions = @ \union {t.minVersion},
    !.maxVersion = IF t.maxVersion > @ THEN t.maxVersion ELSE @]

(* The part of the prompt that is new, not trained, then the completion.   *)
(* minVersion stays the opening turn's.                                    *)
Extended(sample, t, prefix, advantage) ==
  [sample EXCEPT
    !.tokens = @ \o Tokens(SubSeq(t.prompt, prefix + 1, Len(t.prompt)), FALSE, NoLogprob, 0)
                 \o Tokens(t.completion, TRUE, t.logprob, advantage),
    !.versions = @ \union {t.minVersion},
    !.maxVersion = IF t.maxVersion > @ THEN t.maxVersion ELSE @]

(* One turn in the loop of rollout_to_training_samples.                    *)
AddTurn(acc, t, advantage) ==
  LET continues == acc.samples # <<>> /\ IsPrefix(acc.previous, t.prompt)
      open == IF continues THEN acc.samples ELSE Append(acc.samples, NewSample(t))
      prefix == IF continues THEN Len(acc.previous) ELSE 0
  IN [samples |-> [open EXCEPT ![Len(open)] = Extended(@, t, prefix, advantage)],
      previous |-> t.prompt \o t.completion]

(* A single turn without a completion gives no sample; in a longer rollout *)
(* such a turn makes the builder raise.                                    *)
BuilderRaises(rollout) ==
  Len(rollout.turns) > 1 /\ \E k \in DOMAIN rollout.turns : rollout.turns[k].completion = <<>>

RolloutToTrainingSamples(rollout) ==
  LET step(acc, t) == AddTurn(acc, t, rollout.advantage)
      start == [samples |-> <<>>, previous |-> <<>>]
  IN IF Len(rollout.turns) = 1 /\ rollout.turns[1].completion = <<>> THEN <<>>
     ELSE FoldLeft(step, start, rollout.turns).samples

HasValidLossToken(sample) ==
  \E k \in 2..Len(sample.tokens) :
    sample.tokens[k].trained /\ sample.tokens[k].logprob = Finite

-------------------------------------------------------------------------------
(* build_from_group: the filters of a group, then those of a sample.       *)

HasNoCompletion(rollout) ==
  \A k \in DOMAIN rollout.turns : rollout.turns[k].completion = <<>>

ZeroStd(rollouts) ==
  Len(rollouts) > 1 /\ \A i, j \in DOMAIN rollouts : rollouts[i].reward = rollouts[j].reward

GroupDropped(rollouts, dropZeroStd) ==
  \/ rollouts = <<>>
  \/ \E i \in DOMAIN rollouts : HasNoCompletion(rollouts[i])
  \/ dropZeroStd /\ ZeroStd(rollouts)

BuildRaises(rollouts, dropZeroStd) ==
  ~GroupDropped(rollouts, dropZeroStd) /\ \E i \in DOMAIN rollouts : BuilderRaises(rollouts[i])

BuildFromGroup(rollouts, dropZeroStd) ==
  IF GroupDropped(rollouts, dropZeroStd) THEN <<>>
  ELSE FlattenSeq([i \in DOMAIN rollouts |->
         SelectSeq(RolloutToTrainingSamples(rollouts[i]), HasValidLossToken)])
===============================================================================
