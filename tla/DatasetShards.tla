----------------------------- MODULE DatasetShards -----------------------------
(***************************************************************************)
(* How a finite dataset of `size` rows is dealt to `world` data-parallel   *)
(* ranks (components/data/dataset.py): each gets a slice of the globally   *)
(* shuffled rows, the first ones a row more when it does not come out even.*)
(* Rows and ranks count from 0.                                            *)
(***************************************************************************)
EXTENDS Integers

(* The build refuses fewer rows than ranks.                                *)
ShardsOK(size, world) == size >= world

ShardSize(size, world, rank) ==
  size \div world + (IF rank < size % world THEN 1 ELSE 0)

ShardStart(size, world, rank) ==
  rank * (size \div world) + (IF rank < size % world THEN rank ELSE size % world)

Shard(size, world, rank) ==
  {row \in Nat : /\ ShardStart(size, world, rank) <= row
                 /\ row < ShardStart(size, world, rank) + ShardSize(size, world, rank)}
===============================================================================
