---------------------------- MODULE MinimalAsyncEP ----------------------------
(***************************************************************************)
(* The expert-parallel token exchange of distributed/minimal_async_ep and  *)
(* its dispatcher: each rank copies rows straight into its peers'          *)
(* symmetric-memory receive buffers, a group barrier tells that all rows   *)
(* have come, and the consumer then reads the buffer in place.  Two hidden *)
(* buffers serve all layers, forward and backward in turn: nothing but the *)
(* order of the operations keeps a fast rank from writing the buffer a     *)
(* slow one still reads.                                                   *)
(*                                                                         *)
(* A row is a record that says which operation moved it, the rank it comes *)
(* from, its slot there (token * top_k + choice) and, once an expert has   *)
(* worked on it, which.  Ranks, experts, rows and slots count from 0.      *)
(***************************************************************************)
EXTENDS Integers, Sequences, FiniteSets, Functions

CONSTANTS
  NumLayers,    \* the MoE layers of the model
  Precision,    \* training.mixed_precision_param: "float32" or "bfloat16"
  Setups        \* the group, its experts and the router's choices

ASSUME NumLayersAssumption == NumLayers \in Nat \ {0}
ASSUME PrecisionAssumption == Precision \in {"float32", "bfloat16"}

(* The ranks and the slots of a rank count from 0, and the router gives    *)
(* every slot an expert of the group.                                      *)
Counted(set) == IsFiniteSet(set) /\ set = 0..Cardinality(set) - 1

ASSUME SetupsAssumption ==
  \A s \in Setups :
    LET ranks == DOMAIN s.topkExpertIds[1]
        experts == 0..Cardinality(ranks) * s.numLocalExperts - 1
    IN /\ s.numLocalExperts \in Nat \ {0}
       /\ Counted(ranks) /\ ranks # {}
       /\ \A layer \in 1..NumLayers :
            /\ DOMAIN s.topkExpertIds[layer] = ranks
            /\ \A r \in ranks :
                 LET ids == s.topkExpertIds[layer][r]
                 IN Counted(DOMAIN ids) /\ ids \in [DOMAIN ids -> experts]

VARIABLES
  setup,    \* [numLocalExperts, topkExpertIds : layer -> rank -> slot -> expert]
  pos,      \* where each rank's stream stands: operation and stage of it
  sent,     \* the peers its current copy has already reached
  counts,   \* counts_recv_buffer: what each rank has received from each
  known,    \* the counts its routing metadata was computed from
  hidden,   \* hidden_recv_buffers: per rank and buffer, the row at each index
  output    \* the rows the local experts produced last

vars == <<setup, pos, sent, counts, known, hidden, output>>

Ranks == DOMAIN setup.topkExpertIds[1]
EpSize == Cardinality(Ranks)
NumExperts == EpSize * setup.numLocalExperts

(* A plausible bug: one receive buffer for every operation.                *)
HiddenRecvBufferCount_Single == 1

(* _HIDDEN_RECV_BUFFER_COUNT.                                              *)
HiddenRecvBufferCount == 2

-------------------------------------------------------------------------------

(* Every layer goes forward; then every layer goes back, the last first,   *)
(* under full recompute: its forward operations run again before the       *)
(* gradients go back.                                                      *)
ForwardOps == <<"dispatch", "combine">>
BackwardOps == <<"dispatch", "combine", "combine_backward", "dispatch_backward">>

NumForwardOps == NumLayers * 2
NumOps == NumForwardOps + NumLayers * 4

KindOf(op) ==
  IF op <= NumForwardOps THEN ForwardOps[((op - 1) % 2) + 1]
  ELSE BackwardOps[((op - NumForwardOps - 1) % 4) + 1]

LayerOf(op) ==
  IF op <= NumForwardOps THEN ((op - 1) \div 2) + 1
  ELSE NumLayers - ((op - NumForwardOps - 1) \div 4)

(* The kernels an operation and the consumer of its result launch: the     *)
(* rows go to their ranks and are read there.                              *)
Exchange == <<"send_rows", "hidden_ready", "read">>

DispatchStages ==
  <<"send_counts", "counts_ready", "read_counts", "send_rows", "hidden_ready", "read">>
CombineStages == Exchange
CombineBackwardStages == <<"read_saved", "send_rows", "hidden_ready", "read">>
DispatchBackwardStages == Exchange

StagesOf(kind) ==
  CASE kind = "dispatch" -> DispatchStages
    [] kind = "combine" -> CombineStages
    [] kind = "combine_backward" -> CombineBackwardStages
    [] kind = "dispatch_backward" -> DispatchBackwardStages

Running(r) == pos[r].op <= NumOps

At(r) ==
  LET op == pos[r].op
  IN [op |-> op, kind |-> KindOf(op), layer |-> LayerOf(op),
      stage |-> StagesOf(KindOf(op))[pos[r].stage]]

Stands(r, stage) == Running(r) /\ At(r).stage = stage

(* Whether a rank is as far as another in the schedule, which is the same  *)
(* for all.                                                                *)
Reached(q, r) ==
  \/ pos[q].op > pos[r].op
  \/ pos[q].op = pos[r].op /\ pos[q].stage >= pos[r].stage

(* hidden_recv_buffer_index: every operation takes the next buffer.        *)
BufferOf(op) == (op - 1) % HiddenRecvBufferCount

-------------------------------------------------------------------------------
(* The routing metadata.                                                   *)

TopkIds(r, layer) == setup.topkExpertIds[layer][r]
Slots(r, layer) == DOMAIN TopkIds(r, layer)

(* num_local_tokens_per_expert_E.                                          *)
LocalCounts(r, layer) ==
  [x \in 0..NumExperts - 1 |-> Cardinality({s \in Slots(r, layer) : TopkIds(r, layer)[s] = x})]

(* T_row_to_E_row: where the stable sort by expert puts a slot.            *)
TRowToERow(r, layer) ==
  [s \in Slots(r, layer) |->
     Cardinality({o \in Slots(r, layer) :
       \/ TopkIds(r, layer)[o] < TopkIds(r, layer)[s]
       \/ TopkIds(r, layer)[o] = TopkIds(r, layer)[s] /\ o < s})]

(* E_row_to_T_row, its inverse.                                            *)
ERowToTRow(r, layer) ==
  [n \in Slots(r, layer) |-> CHOOSE s \in Slots(r, layer) : TRowToERow(r, layer)[s] = n]

DstRank(expert) == expert \div setup.numLocalExperts
LocalExperts(r) == {x \in 0..NumExperts - 1 : DstRank(x) = r}

FromSources(c, sources, expert) == SumFunction([s \in sources |-> c[s][expert]])
Total(c, expert) == FromSources(c, Ranks, expert)

(* expert_starts_de: a rank's receive rows are grouped by local expert.    *)
ExpertStart(c, expert) ==
  SumFunction([x \in {x \in LocalExperts(DstRank(expert)) : x < expert} |-> Total(c, x)])

(* The row of the owner's buffer where a source's rows for an expert start.*)
SegmentStart(c, source, expert) ==
  ExpertStart(c, expert) + FromSources(c, {s \in Ranks : s < source}, expert)

(* Where a source's rows for an expert start in its own expert order.      *)
SourceStart(c, source, expert) ==
  SumFunction([x \in {x \in 0..NumExperts - 1 : x < expert} |-> c[source][x]])

(* dispatch_dst_ranks and dispatch_dst_rows of an expert-ordered row.      *)
DispatchDst(r, layer, n) ==
  LET expert == TopkIds(r, layer)[ERowToTRow(r, layer)[n]]
  IN [rank |-> DstRank(expert),
      row |-> SegmentStart(known[r], r, expert) + n - SourceStart(known[r], r, expert)]

(* The active receive rows of a rank: which expert's, from which source.   *)
Segments(r) == LocalExperts(r) \X Ranks
RowsOf(r, segment) ==
  LET start == SegmentStart(known[r], segment[2], segment[1])
  IN start..start + known[r][segment[2]][segment[1]] - 1

(* combine_dst_ranks and combine_dst_rows of an active receive row.        *)
CombineDst(r, row) ==
  LET segment == CHOOSE g \in Segments(r) : row \in RowsOf(r, g)
      expert == segment[1]
      source == segment[2]
  IN [rank |-> source,
      row |-> SourceStart(known[r], source, expert) + row
                - SegmentStart(known[r], source, expert)]

ActiveRows(r) == UNION {RowsOf(r, g) : g \in Segments(r)}

(* The rows the grouped GEMM gives a local expert.                         *)
ExpertRows(r, expert) ==
  LET start == ExpertStart(known[r], expert)
  IN start..start + Total(known[r], expert) - 1

-------------------------------------------------------------------------------
(* What an operation sends: which row where.                               *)

(* A token's row to each expert it chose, or its gradient.                 *)
ToExperts(r) ==
  LET here == At(r)
  IN {[to |-> DispatchDst(r, here.layer, n),
       value |-> [op |-> here.op, src |-> r, slot |-> ERowToTRow(r, here.layer)[n]]] :
        n \in Slots(r, here.layer)}

(* The experts' rows, or their gradients, to the ranks they came from.     *)
ToOrigins(r) == {[to |-> CombineDst(r, n), value |-> output[r][n]] : n \in ActiveRows(r)}

Sends(r) ==
  IF At(r).kind \in {"dispatch", "combine_backward"} THEN ToExperts(r) ELSE ToOrigins(r)

(* A peer's buffer after the copy kernel has stored the rows meant for it. *)
Stored(buffer, sends, peer) ==
  LET mine == {m \in sends : m.to.rank = peer}
      rows == {m.to.row : m \in mine}
  IN [row \in DOMAIN buffer \cup rows |->
        IF row \in rows THEN (CHOOSE m \in mine : m.to.row = row).value ELSE buffer[row]]

-------------------------------------------------------------------------------

Init ==
  /\ setup \in Setups
  /\ pos = [r \in Ranks |-> [op |-> 1, stage |-> 1]]
  /\ sent = [r \in Ranks |-> {}]
  /\ counts = [r \in Ranks |-> [s \in Ranks |-> [x \in 0..NumExperts - 1 |-> 0]]]
  /\ known = counts
  /\ hidden = [r \in Ranks |-> [k \in 0..HiddenRecvBufferCount - 1 |-> <<>>]]
  /\ output = [r \in Ranks |-> <<>>]

Advance(r) ==
  pos' = [pos EXCEPT ![r] =
    IF @.stage < Len(StagesOf(At(r).kind)) THEN [op |-> @.op, stage |-> @.stage + 1]
    ELSE [op |-> @.op + 1, stage |-> 1]]

(* A copy kernel reaches the peers in any order.                           *)
Reach(r, peer) ==
  /\ peer \notin sent[r]
  /\ IF sent[r] \cup {peer} = Ranks
     THEN sent' = [sent EXCEPT ![r] = {}] /\ Advance(r)
     ELSE sent' = [sent EXCEPT ![r] = @ \cup {peer}] /\ UNCHANGED pos

SendCounts(r, peer) ==
  /\ Stands(r, "send_counts")
  /\ Reach(r, peer)
  /\ counts' = [counts EXCEPT ![peer][r] = LocalCounts(r, At(r).layer)]
  /\ UNCHANGED <<setup, known, hidden, output>>

SendRows(r, peer) ==
  /\ Stands(r, "send_rows")
  /\ Reach(r, peer)
  /\ hidden' = [hidden EXCEPT ![peer][BufferOf(At(r).op)] = Stored(@, Sends(r), peer)]
  /\ UNCHANGED <<setup, counts, known, output>>

(* _wait_ready: the barrier opens when every rank has reached it.          *)
WaitReady(r) ==
  /\ Stands(r, "counts_ready") \/ Stands(r, "hidden_ready")
  /\ \A q \in Ranks : Reached(q, r)
  /\ Advance(r)
  /\ UNCHANGED <<setup, sent, counts, known, hidden, output>>

(* _compute_direct_metadata, from the buffer into tensors of its own.      *)
ReadCounts(r) ==
  /\ Stands(r, "read_counts")
  /\ known' = [known EXCEPT ![r] = counts[r]]
  /\ Advance(r)
  /\ UNCHANGED <<setup, sent, counts, hidden, output>>

(* What the local experts make of the rows they find in the buffer.        *)
ExpertOutput(r) ==
  LET buffer == hidden[r][BufferOf(At(r).op)]
      expertOf(row) == CHOOSE x \in LocalExperts(r) : row \in ExpertRows(r, x)
  IN [row \in ActiveRows(r) |->
        [op |-> buffer[row].op, src |-> buffer[row].src, slot |-> buffer[row].slot,
         expert |-> expertOf(row)]]

(* The grouped experts after a dispatch, their backward after              *)
(* combine_backward: their output is a tensor of its own.                  *)
RunExperts(r) ==
  /\ Stands(r, "read")
  /\ At(r).kind \in {"dispatch", "combine_backward"}
  /\ output' = [output EXCEPT ![r] = ExpertOutput(r)]
  /\ Advance(r)
  /\ UNCHANGED <<setup, sent, counts, known, hidden>>

(* The sum over the top-k slots of each token, of rows or of gradients.    *)
ReduceSlots(r) ==
  /\ Stands(r, "read")
  /\ At(r).kind \in {"combine", "dispatch_backward"}
  /\ Advance(r)
  /\ UNCHANGED <<setup, sent, counts, known, hidden, output>>

(* combine_backward first computes the score gradients from the routed     *)
(* output that combine saved, which is its receive buffer.                 *)
ScoreGradients(r) ==
  /\ Stands(r, "read_saved")
  /\ Advance(r)
  /\ UNCHANGED <<setup, sent, counts, known, hidden, output>>

StepDone ==
  /\ \A r \in Ranks : ~Running(r)
  /\ UNCHANGED vars

Next ==
  \/ \E r \in Ranks, peer \in Ranks : SendCounts(r, peer) \/ SendRows(r, peer)
  \/ \E r \in Ranks : WaitReady(r) \/ ReadCounts(r)
                       \/ RunExperts(r) \/ ReduceSlots(r) \/ ScoreGradients(r)
  \/ StepDone

Spec == Init /\ [][Next]_vars

-------------------------------------------------------------------------------

(* Each local expert finds the rows of the tokens routed to it, all of     *)
(* them and no others, moved by the operation op.                          *)
ExpertsRowsIn(r, layer, op) ==
  \A x \in LocalExperts(r) :
    LET wanted == UNION {{[op |-> op, src |-> q, slot |-> s] :
                            s \in {s \in Slots(q, layer) : TopkIds(q, layer)[s] = x}} :
                         q \in Ranks}
        buffer == hidden[r][BufferOf(op)]
    IN /\ Cardinality(ExpertRows(r, x)) = Cardinality(wanted)
       /\ ExpertRows(r, x) \subseteq DOMAIN buffer
       /\ {buffer[row] : row \in ExpertRows(r, x)} = wanted

(* Each slot finds its own row, as the expert it chose made it from what   *)
(* the operation before op brought there.                                  *)
SlotsRowsIn(r, layer, op) ==
  \A s \in Slots(r, layer) :
    LET row == TRowToERow(r, layer)[s]
        buffer == hidden[r][BufferOf(op)]
    IN /\ row \in DOMAIN buffer
       /\ buffer[row] = [op |-> op - 1, src |-> r, slot |-> s,
                         expert |-> TopkIds(r, layer)[s]]

(* x_RD.bfloat16() makes a copy of a float32 buffer and none of a bfloat16 *)
(* one, which the weight gradient then reads in place.                     *)
SavedInputIn(r, layer, op) == Precision = "bfloat16" => ExpertsRowsIn(r, layer, op)

(* As long as a rank reads what an operation brought it, the receive       *)
(* buffer holds exactly the rows that operation was to bring: the metadata *)
(* each rank derives from the counts agrees with everyone else's, no row   *)
(* is early, late or lost, and no peer that is ahead has written over it.  *)
RowsInPlace ==
  \A r \in Ranks : Running(r) =>
    LET here == At(r)
    IN /\ here.stage = "read_counts" =>
            counts[r] = [q \in Ranks |-> LocalCounts(q, here.layer)]
       /\ here.stage = "read_saved" => SlotsRowsIn(r, here.layer, here.op - 1)
       /\ here.stage = "read" =>
            CASE here.kind = "dispatch" -> ExpertsRowsIn(r, here.layer, here.op)
              [] here.kind = "combine_backward" ->
                   /\ ExpertsRowsIn(r, here.layer, here.op)
                   /\ SavedInputIn(r, here.layer, here.op - 2)
              [] OTHER -> SlotsRowsIn(r, here.layer, here.op)
===============================================================================
