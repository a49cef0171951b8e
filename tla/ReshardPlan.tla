------------------------------- MODULE ReshardPlan -------------------------------
(***************************************************************************)
(* How FlexShard plans the redistribution of a bucket of parameters        *)
(* (distributed/flex_shard/_optimizer_reshard_schedule.py): routes from    *)
(* the regions that storage shards hold to the regions that compute ranks  *)
(* need, their transfers, and the packed all-to-all of all the bucket's    *)
(* transfers that each rank derives on its own.  Tensors have two          *)
(* dimensions; an element is named by its logical coordinate.              *)
(***************************************************************************)
EXTENDS Integers, Sequences, FiniteSets, SequencesExt

-------------------------------------------------------------------------------
(* Regions: offsets and shape.                                             *)

Region(off, shape) == [off |-> off, shape |-> shape]
Numel(g) == g.shape[1] * g.shape[2]
Full(shape) == Region(<<0, 0>>, shape)

Coordinates(g) ==
  (g.off[1]..g.off[1] + g.shape[1] - 1) \X (g.off[2]..g.off[2] + g.shape[2] - 1)

Smaller(a, b) == IF a < b THEN a ELSE b
Larger(a, b) == IF a > b THEN a ELSE b

(* _tensor_region_intersection; a region without elements stands for None. *)
Intersection(g, h) ==
  LET off == [d \in 1..2 |-> Larger(g.off[d], h.off[d])]
  IN Region(off, [d \in 1..2 |->
       Larger(0, Smaller(g.off[d] + g.shape[d], h.off[d] + h.shape[d]) - off[d])])

(* Where the logical region g lies in a local tensor that starts at off.   *)
Shifted(g, off) == Region([d \in 1..2 |-> g.off[d] - off[d]], g.shape)

-------------------------------------------------------------------------------
(* Storage: what each rank of the mesh axis holds.  Participants are       *)
(* 0..n-1 in the order of the mesh.                                        *)

(* Shard.local_shard_size_and_offset of PyTorch: chunks rounded up.        *)
ShardSize(size, n, k) ==
  LET chunk == (size + n - 1) \div n
  IN Larger(0, Smaller(size, chunk * (k + 1)) - chunk * k)
ShardOffset(size, n, k) == Smaller(size, ((size + n - 1) \div n) * k)

(* placement: the sharded dimension, or 0 for Replicate.                   *)
StorageRegion(shape, placement, n, p) ==
  IF placement = 0 THEN Full(shape)
  ELSE Region([d \in 1..2 |->
                IF d = placement THEN ShardOffset(shape[d], n, p) ELSE 0],
              [d \in 1..2 |->
                IF d = placement THEN ShardSize(shape[d], n, p) ELSE shape[d]])

(* _dtensor_storage_regions: each distinct region once, with its holders,  *)
(* in the order of the first holder.                                       *)
StorageRegions(shape, placement, n) ==
  LET held(p) == StorageRegion(shape, placement, n, p)
      first == {p \in 0..n - 1 : \A q \in 0..p - 1 : held(q) # held(p)}
  IN [k \in 1..Cardinality(first) |->
       LET p == CHOOSE p \in first : Cardinality({q \in first : q < p}) = k - 1
       IN [region |-> held(p),
          holders |-> SetToSortSeq({q \in 0..n - 1 : held(q) = held(p)}, <)]]

-------------------------------------------------------------------------------
(* Plans.  A route has a logical region and, at both ends, the region of   *)
(* the local tensor and its participants.                                  *)

Route(logical, fromRegion, from, toRegion, to) ==
  [logical |-> logical, fromRegion |-> fromRegion, from |-> from,
   toRegion |-> toRegion, to |-> to]

InverseRoute(r) == Route(r.logical, r.toRegion, r.to, r.fromRegion, r.from)

NoRegion == Region(<<0, 0>>, <<0, 0>>)

(* _build_whole_tensor_redistribution_plan: one or more ranks compute the  *)
(* whole tensor; `computing` is a sequence without repetition.             *)
WholeTensorPlan(shape, placement, n, computing) ==
  LET stored == StorageRegions(shape, placement, n)
  IN [shape |-> shape,
      storage |-> [p \in 0..n - 1 |-> StorageRegion(shape, placement, n, p)],
      compute |-> [p \in 0..n - 1 |->
        IF p \in ToSet(computing) THEN Full(shape) ELSE NoRegion],
      routes |-> [k \in DOMAIN stored |->
        LET g == stored[k].region
        IN Route(g, Shifted(g, g.off), stored[k].holders, g, computing)]]

(* _build_dim0_shard_redistribution_plan: the ranks of `order` compute     *)
(* equal shards of the rows, in that order.                                *)
Dim0ShardPlan(shape, placement, n, order) ==
  LET stored == StorageRegions(shape, placement, n)
      position(p) == CHOOSE k \in 1..n : order[k] = p
      computed(p) ==
        Region(<<ShardOffset(shape[1], n, position(p) - 1), 0>>,
               <<ShardSize(shape[1], n, position(p) - 1), shape[2]>>)
      pairs == [i \in 1..Len(stored) * n |->
                 <<stored[(i - 1) \div n + 1], (i - 1) % n>>]
      routed == SelectSeq(pairs, LAMBDA x :
                  Numel(Intersection(x[1].region, computed(x[2]))) > 0)
  IN [shape |-> shape,
      storage |-> [p \in 0..n - 1 |-> StorageRegion(shape, placement, n, p)],
      compute |-> [p \in 0..n - 1 |-> computed(p)],
      routes |-> [k \in DOMAIN routed |->
        LET from == routed[k][1]
            p == routed[k][2]
            g == Intersection(from.region, computed(p))
        IN Route(g, Shifted(g, from.region.off), from.holders,
                 Shifted(g, computed(p).off), <<p>>)]]

(* _build_batched_matrix_redistribution_plan: the rows are a stack of      *)
(* matrices of `rows` rows, and each rank computes whole matrices.         *)
BatchedMatrixPlan(shape, placement, n, rows) ==
  LET stored == StorageRegions(shape, placement, n)
      matrices == shape[1] \div rows
      offset(p) == ShardOffset(matrices, n, p)
      size(p) == ShardSize(matrices, n, p)
      computed(p) == Region(<<offset(p) * rows, 0>>, <<size(p) * rows, shape[2]>>)
      holder(i) == CHOOSE p \in 0..n - 1 : offset(p) <= i /\ i < offset(p) + size(p)
      matrix(i) == Region(<<i * rows, 0>>, <<rows, shape[2]>>)
      pairs == [k \in 1..Len(stored) * matrices |->
                 <<stored[(k - 1) \div matrices + 1], (k - 1) % matrices>>]
      routed == SelectSeq(pairs, LAMBDA x :
                  Numel(Intersection(x[1].region, matrix(x[2]))) > 0)
  IN [shape |-> shape,
      storage |-> [p \in 0..n - 1 |-> StorageRegion(shape, placement, n, p)],
      compute |-> [p \in 0..n - 1 |-> computed(p)],
      routes |-> [k \in DOMAIN routed |->
        LET from == routed[k][1]
            p == holder(routed[k][2])
            g == Intersection(from.region, matrix(routed[k][2]))
        IN Route(g, Shifted(g, from.region.off), from.holders,
                 Shifted(g, computed(p).off), <<p>>)]]

-------------------------------------------------------------------------------
(* _validate_redistribution_plan.                                          *)

InBounds(g, shape) ==
  \A d \in 1..2 : g.off[d] >= 0 /\ g.off[d] + g.shape[d] <= shape[d]

(* Regions (with repetition) that are in bounds and disjoint ...           *)
Disjoint(regions, shape) ==
  /\ \A k \in DOMAIN regions : InBounds(regions[k], shape)
  /\ \A i, j \in DOMAIN regions :
       i # j => Numel(Intersection(regions[i], regions[j])) = 0

Total(regions) ==
  FoldLeft(LAMBDA sum, g : sum + Numel(g), 0, regions)

(* ... and cover the whole shape.                                          *)
Partition(regions, shape) ==
  Disjoint(regions, shape) /\ Total(regions) = shape[1] * shape[2]

Column(routes, field) == [k \in DOMAIN routes |-> routes[k][field]]

(* Whether the routes at one end cover what the participant holds there.   *)
CoversEnd(routes, regionField, held, shape) ==
  LET logical == Column(routes, "logical")
  IN /\ Disjoint(logical, shape)
     /\ Total(logical) = Numel(held)
     /\ \A k \in DOMAIN routes :
          Numel(Intersection(logical[k], held)) = Numel(logical[k])
     /\ Partition(Column(routes, regionField), held.shape)

ValidPlan(plan, n) ==
  /\ \A k \in DOMAIN plan.routes :
       LET r == plan.routes[k]
       IN /\ r.from # <<>> /\ r.to # <<>>
          /\ Numel(r.logical) = Numel(r.fromRegion)
          /\ Numel(r.logical) = Numel(r.toRegion)
  /\ Partition(Column(plan.routes, "logical"), plan.shape)
  /\ \A p \in 0..n - 1 :
       /\ CoversEnd(SelectSeq(plan.routes, LAMBDA r : p \in ToSet(r.from)), "fromRegion",
                    plan.storage[p], plan.shape)
       /\ CoversEnd(SelectSeq(plan.routes, LAMBDA r : p \in ToSet(r.to)), "toRegion",
                    plan.compute[p], plan.shape)

-------------------------------------------------------------------------------
(* Transfers and the packed schedule.                                      *)

Transfer(r, param, dst) ==
  LET sources == ToSet(r.from)
  IN [param |-> param, dst |-> dst,
      src |-> IF dst \in sources THEN dst
              ELSE CHOOSE p \in sources : \A q \in sources : p <= q,
      fromRegion |-> r.fromRegion, toRegion |-> r.toRegion]

(* _resolve_routes_to_transfers over all parameters of the bucket: a       *)
(* destination takes its own copy if it has one, else the first holder's.  *)
Transfers(routesOfParams) ==
  FlattenSeq([i \in DOMAIN routesOfParams |->
    FlattenSeq([k \in DOMAIN routesOfParams[i] |->
      LET r == routesOfParams[i][k]
      IN [j \in DOMAIN r.to |-> Transfer(r, i, r.to[j])]])])

(* What a rank packs: by destination, then in the order of the transfers;  *)
(* and where it expects what it receives: by source, in the same order.    *)
SentBy(transfers, p, n) ==
  FlattenSeq([d \in 1..n |->
    SelectSeq(transfers, LAMBDA t : t.src = p /\ t.dst = d - 1)])

ReceivedBy_ByParameter(transfers, p, n) ==
  SelectSeq(transfers, LAMBDA t : t.dst = p)

ReceivedBy(transfers, p, n) ==
  FlattenSeq([s \in 1..n |->
    SelectSeq(transfers, LAMBDA t : t.src = s - 1 /\ t.dst = p)])

SplitSize(spans, regionField, peerField, peer) ==
  Total(Column(SelectSeq(spans, LAMBDA t : t[peerField] = peer), regionField))

(* The elements of a region of a local tensor, row by row.                 *)
Elements(tensor, g) ==
  [k \in 1..Numel(g) |->
    tensor[<<g.off[1] + ((k - 1) \div g.shape[2]),
             g.off[2] + ((k - 1) % g.shape[2])>>]]

(* The packed buffer a rank sends, and the part of it for one peer.        *)
PackedSend(transfers, tensors, p, n) ==
  LET spans == SentBy(transfers, p, n)
  IN FlattenSeq([k \in DOMAIN spans |->
       Elements(tensors[p][spans[k].param], spans[k].fromRegion)])

Segment(transfers, tensors, src, dst, n) ==
  LET spans == SentBy(transfers, src, n)
      start == FoldLeft(LAMBDA sum, d : sum + SplitSize(spans, "fromRegion", "dst", d),
                        0, [d \in 1..dst |-> d - 1])
  IN SubSeq(PackedSend(transfers, tensors, src, n), start + 1,
            start + SplitSize(spans, "fromRegion", "dst", dst))

(* all_to_all_single: the segments for a rank, by source.                  *)
PackedReceive(transfers, tensors, p, n) ==
  FlattenSeq([s \in 1..n |-> Segment(transfers, tensors, s - 1, p, n)])

(* The local tensor a rank unpacks for one parameter.                      *)
Unpacked(transfers, tensors, p, param, n) ==
  LET spans == ReceivedBy(transfers, p, n)
      buffer == PackedReceive(transfers, tensors, p, n)
      start(k) == Total(Column(SubSeq(spans, 1, k - 1), "toRegion"))
      place(k) ==
        LET g == spans[k].toRegion
        IN [c \in Coordinates(g) |->
             buffer[start(k) + (c[1] - g.off[1]) * g.shape[2] + c[2] - g.off[2] + 1]]
      own == {k \in DOMAIN spans : spans[k].param = param}
  IN [c \in UNION {Coordinates(spans[k].toRegion) : k \in own} |->
       place(CHOOSE k \in own : c \in Coordinates(spans[k].toRegion))[c]]

-------------------------------------------------------------------------------

(* The local tensors of a bucket at one end: each element is named by its  *)
(* parameter and logical coordinate.                                       *)
LocalTensor(param, held) ==
  [c \in Coordinates(Region(<<0, 0>>, held.shape)) |->
    <<param, c[1] + held.off[1], c[2] + held.off[2]>>]

TensorsAt(itemPlans, end, n) ==
  [p \in 0..n - 1 |-> [i \in DOMAIN itemPlans |-> LocalTensor(i, itemPlans[i][end][p])]]

Routes(itemPlans, direction) ==
  [i \in DOMAIN itemPlans |->
    IF direction = "storage_to_compute" THEN itemPlans[i].routes
    ELSE [k \in DOMAIN itemPlans[i].routes |-> InverseRoute(itemPlans[i].routes[k])]]
===============================================================================
