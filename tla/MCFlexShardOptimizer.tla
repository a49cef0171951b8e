-------------------------- MODULE MCFlexShardOptimizer --------------------------
(* Finite instances of FlexShardOptimizer: two ranks run models of up to    *)
(* three buckets; buckets of two parameters are planned for one, two and    *)
(* three ranks.                                                             *)
EXTENDS FlexShardOptimizer

Tensor(shape, placement, layout) ==
  [shape |-> shape, placement |-> placement, layout |-> layout,
   order |-> <<0, 1>>, rows |-> 1]

(* A local bucket, one owned by rank 0, and one that both ranks compute.   *)
Local == <<Tensor(<<2, 1>>, 1, "ready")>>
Owned == <<Tensor(<<2, 1>>, 1, "owned")>>
Both == <<Tensor(<<2, 1>>, 2, "dim0"), Tensor(<<1, 1>>, 0, "ready")>>

(* A slot is reused, a local bucket separates others, or leads or ends.    *)
RunModels ==
  {[size |-> 2, runs |-> TRUE, buckets |-> buckets] :
     buckets \in {<<Both, Owned, Both>>, <<Owned, Local, Both>>, <<Local, Both>>,
                  <<Both, Local>>, <<Local>>}}

Orders(n) ==
  {s \in [1..n -> 0..n - 1] : \A i, j \in 1..n : i # j => s[i] # s[j]}

(* Every layout of a parameter on n ranks; matrices have two rows.         *)
Tensors(shape, n) ==
  LET base(placement) == [Tensor(shape, placement, "owned") EXCEPT !.rows = 2]
  IN {base(placement) : placement \in 0..2}
       \union {[base(placement) EXCEPT !.layout = "dim0", !.order = order] :
                 placement \in 0..2, order \in Orders(n)}
       \union (IF shape[1] % 2 = 0
               THEN {[base(placement) EXCEPT !.layout = "batched"] : placement \in 0..1}
               ELSE {})

Planned(n, first, second) ==
  {[size |-> n, runs |-> FALSE, buckets |-> <<<<a>>, <<a, b>>>>] :
     a \in Tensors(first, n), b \in Tensors(second, n)}

PlannedModels ==
  UNION {Planned(n, first, second) :
           n \in 1..3, first \in {<<3, 2>>, <<1, 2>>}, second \in {<<4, 1>>}}

MCModels == RunModels \union PlannedModels
MCPlanSets == {RunPlans(m) : m \in MCModels}
===============================================================================
