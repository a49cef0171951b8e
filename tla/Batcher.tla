--------------------------------- MODULE Batcher ---------------------------------
(***************************************************************************)
(* How the batcher accumulates groups and packs a training batch           *)
(* (components/batcher.py).  c is its configuration: seqLen,               *)
(* localBatchSize, dpDegree, padMultiple (0: none) and numPrompts.         *)
(***************************************************************************)
EXTENDS Integers, Sequences, FiniteSets, TrainingSamples

CeilDiv(a, b) == (a + b - 1) \div b

RoundedUp(n, c) == IF c.padMultiple = 0 THEN n ELSE CeilDiv(n, c.padMultiple) * c.padMultiple

NumTokensToPack(sample, c) == RoundedUp(Len(sample.tokens) - 1, c)

Fitting(samples, c) == SelectSeq(samples, LAMBDA s : NumTokensToPack(s, c) <= c.seqLen)

-------------------------------------------------------------------------------
(* Rows.                                                                   *)

(* Next-fit: a sample goes to the last row or opens one.                   *)
AssignToRows(samples, c) ==
  LET load(row) == FoldLeft(LAMBDA n, s : n + NumTokensToPack(s, c), 0, row)
      assign(rows, s) ==
        IF rows # <<>> /\ load(Last(rows)) + NumTokensToPack(s, c) <= c.seqLen
        THEN [rows EXCEPT ![Len(rows)] = Append(@, s)]
        ELSE Append(rows, <<s>>)
  IN FoldLeft(assign, <<>>, samples)

Pad == <<>>
PadCells(n) ==
  [k \in 1..n |-> [input |-> Pad, label |-> Pad, trained |-> FALSE,
                   logprob |-> NoLogprob, advantage |-> 0]]

(* Inputs and labels of a sample: what a label says is at its own index.   *)
SampleCells(sample, c) ==
  LET labels == Tail(sample.tokens)
      cells == [k \in DOMAIN labels |->
        [input |-> sample.tokens[k].token, label |-> labels[k].token,
         trained |-> labels[k].trained, logprob |-> labels[k].logprob,
         advantage |-> labels[k].advantage]]
  IN cells \o PadCells(NumTokensToPack(sample, c) - Len(cells))

WithPositions(cells) ==
  [k \in DOMAIN cells |-> [cell |-> cells[k], position |-> k - 1]]

PackRow(samples, c) ==
  LET packed == FlattenSeq([i \in DOMAIN samples |-> WithPositions(SampleCells(samples[i], c))])
  IN packed \o WithPositions(PadCells(c.seqLen - Len(packed)))

-------------------------------------------------------------------------------
(* The batch.                                                              *)

NumMicrobatches(rows, c) ==
  LET n == CeilDiv(Len(rows), c.localBatchSize * c.dpDegree) IN IF n > 1 THEN n ELSE 1

PaddedRows(rows, c) ==
  LET total == NumMicrobatches(rows, c) * c.localBatchSize * c.dpDegree
  IN rows \o [k \in 1..total - Len(rows) |-> PackRow(<<>>, c)]

(* rows[start :: num_microbatches * dp_degree].                            *)
DealtRows(rows, microbatch, rank, n, c) ==
  LET start == (microbatch - 1) * c.dpDegree + rank - 1
      stride == n * c.dpDegree
  IN [k \in 1..CeilDiv(Len(rows) - start, stride) |-> rows[start + (k - 1) * stride + 1]]

MicrobatchGrid(rows, c) ==
  LET n == NumMicrobatches(rows, c)
      padded == PaddedRows(rows, c)
  IN [microbatch \in 1..n |-> [rank \in 1..c.dpDegree |->
       DealtRows(padded, microbatch, rank, n, c)]]

IsValid(cell) == cell.trained /\ cell.logprob = Finite

NumValidTokens(rows) ==
  FoldLeft(LAMBDA n, row : n + Cardinality({k \in DOMAIN row : IsValid(row[k].cell)}), 0, rows)

NumTrainable(groups) == Cardinality({k \in DOMAIN groups : groups[k].samples # <<>>})

(* How many of the accumulated groups a batch takes, oldest first.         *)
Cut(groups, c) ==
  CHOOSE k \in 0..Len(groups) :
    /\ NumTrainable(SubSeq(groups, 1, k)) = c.numPrompts
    /\ \A j \in 0..k - 1 : NumTrainable(SubSeq(groups, 1, j)) < c.numPrompts

PackBatch(groups, c) ==
  LET samples == FlattenSeq([k \in DOMAIN groups |-> groups[k].samples])
      assigned == AssignToRows(samples, c)
      rows == [k \in DOMAIN assigned |-> PackRow(assigned[k], c)]
  IN [grid |-> MicrobatchGrid(rows, c),
      numRows |-> Len(rows),
      numGlobalValidTokens |-> NumValidTokens(rows),
      minPolicyVersions |-> [k \in DOMAIN samples |-> samples[k].minVersion]]

BatchReady(groups, c) == NumTrainable(groups) >= c.numPrompts
===============================================================================
