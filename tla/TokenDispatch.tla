------------------------------ MODULE TokenDispatch ------------------------------
(***************************************************************************)
(* The dispatchers of routed tokens that move rows with collectives        *)
(* (models/common/token_dispatcher.py): local without expert parallelism,  *)
(* all-to-all with it, and either with the groups padded for quantized     *)
(* matrix products.  One MoE forward, all ranks a step at a time: between  *)
(* two collectives they share nothing.                                     *)
(*                                                                         *)
(* Ranks, experts and slots (token * top_k + choice) count from 0, the     *)
(* rows of a tensor from 1.  A row is [src, slot], and [src, slot, expert] *)
(* once an expert has worked on it.                                        *)
(***************************************************************************)
EXTENDS Integers, Sequences, FiniteSets, SequencesExt, FiniteSetsExt

VARIABLES
  routing,      \* [ids : rank -> slot -> expert, experts of a rank, pad multiple or 0]
  step,         \* what comes next
  sorted,       \* token_indices_experts_sorted_N: the slots in the order of the rows
  tokenCounts,  \* num_global_tokens_per_local_expert_E: per source and local expert
  splits,       \* the rows to and from each rank
  indices,      \* permuted_indices
  groups,       \* num_global_tokens_per_local_expert_e: the rows of each local expert
  rows,         \* the routed tensor
  scattered     \* the row added, scored, to each slot's token

dispatchVars ==
  <<routing, step, sorted, tokenCounts, splits, indices, groups, rows, scattered>>

EpRanks == DOMAIN routing.ids
EpRankCount == Cardinality(EpRanks)
NoEp == EpRankCount = 1             \* ep_mesh is None
Pads == routing.multiple > 0

SumSeq(seq) == FoldSeq(LAMBDA x, y : x + y, 0, seq)
StartOf(lengths, k) == SumSeq(SubSeq(lengths, 1, k - 1))
Slice(seq, lengths, k) ==
  SubSeq(seq, StartOf(lengths, k) + 1, StartOf(lengths, k) + lengths[k])

-------------------------------------------------------------------------------

DispatchInit(ids, experts, multiple) ==
  /\ routing = [ids |-> ids, experts |-> experts, multiple |-> multiple]
  /\ step = "reorder"
  /\ sorted = [r \in DOMAIN ids |-> <<>>]
  /\ tokenCounts = sorted
  /\ splits = [r \in DOMAIN ids |-> [input |-> <<>>, output |-> <<>>]]
  /\ indices = sorted
  /\ groups = sorted
  /\ rows = sorted
  /\ scattered = sorted

(* argsort(stable=True) of the chosen experts.                             *)
SortedSlots(chosen) ==
  SetToSortSeq(DOMAIN chosen,
    LAMBDA s, o : chosen[s] < chosen[o] \/ (chosen[s] = chosen[o] /\ s < o))

(* num_local_tokens_per_expert_E.                                          *)
LocalTokens(r, expert) == Cardinality({s \in DOMAIN routing.ids[r] : routing.ids[r][s] = expert})

LocalReorder ==
  /\ step = "reorder"
  /\ sorted' = [r \in EpRanks |-> SortedSlots(routing.ids[r])]
  /\ rows' = [r \in EpRanks |-> [n \in DOMAIN sorted'[r] |-> [src |-> r, slot |-> sorted'[r][n]]]]
  /\ IF NoEp
     THEN /\ tokenCounts' =
               [r \in EpRanks |-> [x \in 1..routing.experts |-> LocalTokens(r, x - 1)]]
          /\ groups' = tokenCounts'
          /\ step' = IF Pads THEN "permute" ELSE "experts"
     ELSE step' = "exchange_counts" /\ UNCHANGED <<tokenCounts, groups>>
  /\ UNCHANGED <<routing, splits, indices, scattered>>

(* _token_count_exchange and _sync_token_count_exchange.                   *)
TokenCountExchange ==
  LET e == routing.experts IN
  /\ step = "exchange_counts"
  /\ tokenCounts' = [r \in EpRanks |-> [k \in 1..EpRankCount * e |->
                       LocalTokens((k - 1) \div e, r * e + ((k - 1) % e))]]
  /\ splits' = [r \in EpRanks |->
       [input |-> [q \in 1..EpRankCount |->
                     MapThenSumSet(LAMBDA l : LocalTokens(r, (q - 1) * e + l), 0..e - 1)],
        output |-> [q \in 1..EpRankCount |->
                     SumSeq(SubSeq(tokenCounts'[r], (q - 1) * e + 1, q * e))]]]
  /\ step' = "exchange_rows"
  /\ UNCHANGED <<routing, sorted, indices, groups, rows, scattered>>

(* all_to_all_single: the chunk that each rank has for each other, in the  *)
(* order of the senders.                                                   *)
AllToAll(inputs, sendSplits) ==
  [r \in DOMAIN inputs |->
     FlattenSeq([k \in 1..Cardinality(DOMAIN inputs) |->
                   Slice(inputs[k - 1], sendSplits[k - 1], r + 1)])]

DispatchTokenExchange ==
  /\ step = "exchange_rows"
  /\ rows' = AllToAll(rows, [r \in EpRanks |-> splits[r].input])
  /\ step' = "permute"
  /\ UNCHANGED <<routing, sorted, tokenCounts, splits, indices, groups, scattered>>

-------------------------------------------------------------------------------
(* From rank-major to expert-major order and back.                         *)

(* For each row of a local expert's group its place in the input, the rows *)
(* from each rank in turn.                                                 *)
GroupIndices(counts, l) ==
  LET e == routing.experts
      segment(k) == [i \in 1..counts[(k - 1) * e + l] |-> StartOf(counts, (k - 1) * e + l) + i]
  IN FlattenSeq([k \in 1..EpRankCount |-> segment(k)])

(* permute_and_pad fills a group up with a sentinel row, one past the last.*)
Fill(counts, size) ==
  [i \in 1..(IF Pads THEN (-size) % routing.multiple ELSE 0) |-> SumSeq(counts) + 1]

PaddedGroup(counts, l) ==
  LET group == GroupIndices(counts, l) IN group \o Fill(counts, Len(group))

SentinelRow == [src |-> -1, slot |-> -1]

Permute ==
  LET padded == [r \in EpRanks |->
                   [l \in 1..routing.experts |-> PaddedGroup(tokenCounts[r], l)]]
  IN /\ step = "permute"
     /\ indices' = [r \in EpRanks |-> FlattenSeq(padded[r])]
     /\ groups' = [r \in EpRanks |-> [l \in 1..routing.experts |-> Len(padded[r][l])]]
     /\ rows' = [r \in EpRanks |-> [k \in DOMAIN indices'[r] |->
                   IF indices'[r][k] > Len(rows[r]) THEN SentinelRow
                   ELSE rows[r][indices'[r][k]]]]
     /\ step' = "experts"
     /\ UNCHANGED <<routing, sorted, tokenCounts, splits, scattered>>

(* The grouped matrix product: each expert on its group of rows.           *)
GroupedExperts ==
  /\ step = "experts"
  /\ rows' = [r \in EpRanks |-> [k \in DOMAIN rows[r] |->
       [src |-> rows[r][k].src, slot |-> rows[r][k].slot,
        expert |-> r * routing.experts - 1 +
          CHOOSE l \in DOMAIN groups[r] :
            StartOf(groups[r], l) < k /\ k <= StartOf(groups[r], l) + groups[r][l]]]]
  /\ step' = IF NoEp /\ ~Pads THEN "scatter" ELSE "unpermute"
  /\ UNCHANGED <<routing, sorted, tokenCounts, splits, indices, groups, scattered>>

(* A plausible bug: gather where the indices must scatter.                 *)
Unpermuted_Gather(r) == [k \in 1..SumSeq(tokenCounts[r]) |-> rows[r][indices[r][k]]]

(* Every row where it came from; the sentinel, which comes last, goes.     *)
Unpermuted(r) ==
  [k \in 1..SumSeq(tokenCounts[r]) |->
     rows[r][CHOOSE i \in DOMAIN indices[r] : indices[r][i] = k]]

Unpermute ==
  /\ step = "unpermute"
  /\ rows' = [r \in EpRanks |-> Unpermuted(r)]
  /\ step' = IF NoEp THEN "scatter" ELSE "return_rows"
  /\ UNCHANGED <<routing, sorted, tokenCounts, splits, indices, groups, scattered>>

CombineTokenExchange ==
  /\ step = "return_rows"
  /\ rows' = AllToAll(rows, [r \in EpRanks |-> splits[r].output])
  /\ step' = "scatter"
  /\ UNCHANGED <<routing, sorted, tokenCounts, splits, indices, groups, scattered>>

(* Scores and tokens are matched with the rows in the sorted order.        *)
ScatterAdd ==
  /\ step = "scatter"
  /\ scattered' = [r \in EpRanks |-> [s \in DOMAIN routing.ids[r] |->
       rows[r][CHOOSE n \in DOMAIN sorted[r] : sorted[r][n] = s]]]
  /\ step' = "done"
  /\ UNCHANGED <<routing, sorted, tokenCounts, splits, indices, groups, rows>>

DispatchNext ==
  \/ LocalReorder \/ TokenCountExchange \/ DispatchTokenExchange \/ Permute
  \/ GroupedExperts
  \/ Unpermute \/ CombineTokenExchange \/ ScatterAdd

-------------------------------------------------------------------------------

(* What a rank sends is what its peer expects, in both exchanges.          *)
SplitsMatch ==
  \A r, q \in EpRanks : splits[r].input[q + 1] = splits[q].output[r + 1]

(* The rows routed to an expert, by source and there by slot.              *)
RoutedTo(ids, expert) ==
  FlattenSeq([k \in 1..Cardinality(DOMAIN ids) |->
    [n \in 1..Cardinality({s \in DOMAIN ids[k - 1] : ids[k - 1][s] = expert}) |->
       [src |-> k - 1,
        slot |-> SetToSortSeq({s \in DOMAIN ids[k - 1] : ids[k - 1][s] = expert}, <)[n]]]])
===============================================================================
