---------------------------- MODULE FlexShardOptimizer ----------------------------
(***************************************************************************)
(* The construction of FlexShard's DistMuon optimizer and the runtime it   *)
(* then drives (distributed/flex_shard/dist_muon.py and                    *)
(* _optimizer_reshard_schedule.py): owners are balanced, every parameter   *)
(* that must move gets its plan, and a bucket without one is local.        *)
(*                                                                         *)
(* A parameter is its storage shape and placement, and its compute layout: *)
(* "ready", "owned", "dim0" (of the ranks in `order`) or "batched" (of     *)
(* matrices of `rows` rows).  The keys of a bucket's parameters are their  *)
(* positions.                                                              *)
(***************************************************************************)
EXTENDS ReshardRuntime, ReshardPlan

CONSTANT Models   \* the buckets, the mesh, and whether steps are run (bound)

VARIABLE model

allVars == <<model, vars>>

(* Newton-Schulz iterations are as many for all; so they are left out.     *)
ComputeCost(shape) ==
  LET short == Smaller(shape[1], shape[2])
      long == Larger(shape[1], shape[2])
  IN short * short * (2 * long + short)

StorageSize(param) == param.shape[1] * param.shape[2]

(* The order in which _balance_loads_across_partitions takes the loads,    *)
(* and in which its heap orders the partitions.                            *)
HeavierFirst(bucket, i, j) ==
  LET a == <<ComputeCost(bucket[i].shape), StorageSize(bucket[i])>>
      b == <<ComputeCost(bucket[j].shape), StorageSize(bucket[j])>>
  IN \/ a[1] > b[1]
     \/ a[1] = b[1] /\ a[2] > b[2]
     \/ a = b /\ i < j

LighterThan(l, p, q) ==
  \/ l[p].primary < l[q].primary
  \/ /\ l[p].primary = l[q].primary
     /\ \/ l[p].secondary < l[q].secondary
        \/ /\ l[p].secondary = l[q].secondary
           /\ \/ l[p].cumulative < l[q].cumulative
              \/ l[p].cumulative = l[q].cumulative /\ p < q

Lightest(l) == CHOOSE p \in DOMAIN l : \A q \in DOMAIN l \ {p} : LighterThan(l, p, q)

(* Owners and cumulative loads after the owned parameters of a bucket.     *)
BalancedOwners(bucket, cumulative) ==
  LET owned == {i \in DOMAIN bucket : bucket[i].layout = "owned"}
      ordered == SetToSortSeq(owned, LAMBDA i, j : HeavierFirst(bucket, i, j))
      start == [owner |-> [i \in DOMAIN bucket |-> 0],
                loads |-> [p \in DOMAIN cumulative |->
                  [primary |-> 0, secondary |-> 0, cumulative |-> cumulative[p]]]]
      assign(acc, i) ==
        LET p == Lightest(acc.loads)
            cost == ComputeCost(bucket[i].shape)
        IN [owner |-> [acc.owner EXCEPT ![i] = p],
            loads |-> [acc.loads EXCEPT
              ![p].primary = @ + cost, ![p].secondary = @ + StorageSize(bucket[i]),
              ![p].cumulative = @ + cost]]
  IN FoldLeft(assign, start, ordered)

IsRedistributed(bucket) == \E i \in DOMAIN bucket : bucket[i].layout # "ready"

(* The owners of all buckets in their order (_resolve_muon_redistribution_plans). *)
OwnersOf(m) ==
  LET next(acc, bucket) ==
        IF ~IsRedistributed(bucket)
        THEN [acc EXCEPT !.results = Append(@, [owner |-> <<>>, loads |-> <<>>])]
        ELSE LET result == BalancedOwners(bucket, acc.cumulative)
             IN [results |-> Append(acc.results, result),
                 cumulative |-> [p \in DOMAIN acc.cumulative |-> result.loads[p].cumulative]]
      start == [results |-> <<>>, cumulative |-> [p \in 0..m.size - 1 |-> 0]]
  IN FoldLeft(next, start, m.buckets).results

(* _build_parameter_redistribution_plan.                                   *)
PlanOf(param, owner, n) ==
  CASE param.layout = "owned" -> WholeTensorPlan(param.shape, param.placement, n, <<owner>>)
    [] param.layout = "dim0" -> Dim0ShardPlan(param.shape, param.placement, n, param.order)
    [] param.layout = "batched" ->
         BatchedMatrixPlan(param.shape, param.placement, n, param.rows)

(* The redistribution plans of a bucket, in the order of its parameters.   *)
BucketPlans(bucket, owner, n) ==
  LET moved == SelectSeq([i \in DOMAIN bucket |-> i], LAMBDA i : bucket[i].layout # "ready")
  IN [k \in DOMAIN moved |-> PlanOf(bucket[moved[k]], owner[moved[k]], n)]

AllPlans(m) ==
  [b \in DOMAIN m.buckets |-> BucketPlans(m.buckets[b], OwnersOf(m)[b].owner, m.size)]

(* The ranks that hold a part of a bucket in its compute layout.           *)
ComputingRanks(itemPlans, n) ==
  {p \in 0..n - 1 : \E i \in DOMAIN itemPlans : Numel(itemPlans[i].compute[p]) > 0}

(* What the runtime executes; nothing of a model that is only planned.     *)
RunPlans(m) ==
  IF m.runs THEN [b \in DOMAIN m.buckets |-> ComputingRanks(AllPlans(m)[b], m.size)]
  ELSE <<>>

OptimizerInit ==
  /\ model \in Models
  /\ plans = RunPlans(model)
  /\ RuntimeInit

OptimizerNext ==
  \/ model.runs /\ Next /\ UNCHANGED model
  \/ ~model.runs /\ UNCHANGED allVars

OptimizerSpec == OptimizerInit /\ [][OptimizerNext]_allVars

-------------------------------------------------------------------------------

(* What one rank sends another is what the other expects, although each    *)
(* computes its own split sizes: the all-to-all does not hang or truncate. *)
SplitsAgree(itemPlans, direction, n) ==
  LET transfers == Transfers(Routes(itemPlans, direction))
  IN \A p, q \in 0..n - 1 :
       SplitSize(SentBy(transfers, p, n), "fromRegion", "dst", q)
         = SplitSize(ReceivedBy(transfers, q, n), "toRegion", "src", p)

(* The exchange puts every element of every parameter of the bucket where  *)
(* it belongs: a compute rank gets exactly its part, and on the way back   *)
(* every storage shard, replicas included, gets its own.                   *)
Delivers(itemPlans, direction, n) ==
  LET there == direction = "storage_to_compute"
      tensors == TensorsAt(itemPlans, IF there THEN "storage" ELSE "compute", n)
      wanted == TensorsAt(itemPlans, IF there THEN "compute" ELSE "storage", n)
      transfers == Transfers(Routes(itemPlans, direction))
  IN \A p \in 0..n - 1 : \A i \in DOMAIN itemPlans :
       Unpacked(transfers, tensors, p, i, n) = wanted[p][i]

(* The loads of two ranks differ by no more than the largest parameter.    *)
Even(bucket, loads) ==
  \A p, q \in DOMAIN loads : loads[p].primary > loads[q].primary =>
    \E i \in DOMAIN bucket :
      /\ bucket[i].layout = "owned"
      /\ ComputeCost(bucket[i].shape) >= loads[p].primary - loads[q].primary

(* Whatever the mesh, the shapes, the placements and the layouts: the      *)
(* validation accepts the plans the builders make, both exchanges of a     *)
(* bucket agree on their sizes and deliver every element, and the owners   *)
(* share the work.  The plans never change, so the initial states decide.  *)
PlansDeliver ==
  host = HostsAtStart =>
    \A b \in DOMAIN model.buckets :
      LET itemPlans == AllPlans(model)[b]
      IN /\ \A i \in DOMAIN itemPlans : ValidPlan(itemPlans[i], model.size)
         /\ \A direction \in {"storage_to_compute", "compute_to_storage"} :
              /\ SplitsAgree(itemPlans, direction, model.size)
              /\ Delivers(itemPlans, direction, model.size)
         /\ Even(model.buckets[b], OwnersOf(model)[b].loads)
===============================================================================
