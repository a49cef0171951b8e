---------------------------- MODULE ReplayedBackward ----------------------------
(***************************************************************************)
(* One forward and backward of the trainer as it is really executed:       *)
(* eagerly while the CUDA graph warms up, then captured and replayed       *)
(* (distributed/cudagraph.py), and for the first group of a checked step   *)
(* executed again from a snapshot to find silent data corruption           *)
(* (observability/sdc_replayer.py).                                        *)
(*                                                                         *)
(* x is the state that an execution changes: the token counter, the random *)
(* generators, the gradient (the storage param.grad points at, 0 for None, *)
(* and what is in each storage), the graph wrapper and the loss.  A value  *)
(* is the sequence of contributions in it; a contribution is a batch and   *)
(* a mark, Correct or that of a corrupted execution.                       *)
(***************************************************************************)
EXTENDS Integers, Sequences

WarmupSteps == 2     \* num_warmup_steps of wrap_with_cuda_graph

Correct == 0

SmallerOf(a, b) == IF a < b THEN a ELSE b

(* num_warmup_iterations: eager calls before the capture.                  *)
WarmupIterations_NoReplays(accumulation, numSteps, numReplays) ==
  WarmupSteps * accumulation

WarmupIterations(accumulation, numSteps, numReplays) ==
  LET checked == IF numSteps = -1 THEN WarmupSteps ELSE SmallerOf(WarmupSteps, numSteps)
  IN WarmupSteps * accumulation + checked * numReplays

NoGraph == [captured |-> FALSE, args |-> <<>>, grad |-> 0, accumulates |-> FALSE]

NewExecution(graphs, warmup, tokens) ==
  [tokens |-> tokens, rng |-> 0, grad |-> 0, storage |-> [id \in 1..2 |-> <<>>],
   graphs |-> graphs, warmup |-> warmup, graph |-> NoGraph, loss |-> <<>>]

(* A storage nobody else uses: the graph keeps the one it was captured on. *)
FreshStorage(x) == IF x.graph.grad = 1 THEN 2 ELSE 1

Gradient(x) == IF x.grad = 0 THEN <<>> ELSE x.storage[x.grad]

(* optimizers.zero_grad(set_to_none=disable_cuda_graphs).                  *)
ZeroGrad(x) ==
  IF x.graphs /\ x.grad # 0 THEN [x EXCEPT !.storage[x.grad] = <<>>]
  ELSE [x EXCEPT !.grad = 0]

-------------------------------------------------------------------------------
(* The wrapper.                                                            *)

Eager(x, batch, mark) ==
  LET id == IF x.grad = 0 THEN FreshStorage(x) ELSE x.grad
  IN [x EXCEPT !.grad = id,
               !.storage[id] = Append(Gradient(x), <<batch, mark>>),
               !.loss = <<batch, mark>>]

(* The capture executes nothing.  Its arguments become the static inputs;  *)
(* the graph adds to the gradient it meets, or sets the one it allocates.  *)
CaptureGraph(x, batch) ==
  LET id == IF x.grad = 0 THEN FreshStorage(x) ELSE x.grad
  IN [x EXCEPT !.grad = id,
               !.graph = [captured |-> TRUE, args |-> batch, grad |-> id,
                          accumulates |-> x.grad # 0]]

ReplayGraph(x, mark) ==
  LET value == <<x.graph.args, mark>>
  IN [x EXCEPT !.loss = value,
               !.storage[x.graph.grad] =
                 IF x.graph.accumulates THEN Append(@, value) ELSE <<value>>]

CopyInputs(x, batch) ==
  IF x.graph.captured THEN [x EXCEPT !.graph.args = batch] ELSE CaptureGraph(x, batch)

Wrapped(x, batch, mark) ==
  IF ~x.graphs THEN Eager(x, batch, mark)
  ELSE IF x.warmup > 0 THEN Eager([x EXCEPT !.warmup = @ - 1], batch, mark)
  ELSE ReplayGraph(CopyInputs(x, batch), mark)

Captures(x) == x.graphs /\ x.warmup = 0 /\ ~x.graph.captured

(* forward_backward_step: the host counts the tokens on every call.        *)
ForwardBackward(x, batch, mark) ==
  Wrapped([x EXCEPT !.tokens = @ + 1, !.rng = @ + 1], batch, mark)

-------------------------------------------------------------------------------
(* The replayer.                                                           *)

Snapshot(x) == [tokens |-> x.tokens, rng |-> x.rng, grad |-> x.grad]

(* restore: counters and generators; a gradient that was None becomes None *)
(* again and any other is reinstated and zeroed.                           *)
Restore_KeepsTokens(x, s) ==
  LET y == [x EXCEPT !.rng = s.rng, !.grad = s.grad]
  IN IF s.grad = 0 THEN y ELSE [y EXCEPT !.storage[s.grad] = <<>>]

Restore(x, s) ==
  LET y == [x EXCEPT !.tokens = s.tokens, !.rng = s.rng, !.grad = s.grad]
  IN IF s.grad = 0 THEN y ELSE [y EXCEPT !.storage[s.grad] = <<>>]

(* Loss, generators, gradients and counters after an execution.            *)
Signature(x) == <<x.loss, x.rng, x.grad # 0, Gradient(x), x.tokens>>
===============================================================================
