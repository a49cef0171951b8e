--------------------------- MODULE MCExpertParallel ---------------------------
(***************************************************************************)
(* Instances of ExpertParallel: two ranks with two experts each and every  *)
(* choice the router can make for two slots a rank (two tokens of one      *)
(* expert each, or one token of two), and three ranks with an expert and a *)
(* slot each.  The second layer routes as the first with the ranks         *)
(* exchanged.                                                              *)
(***************************************************************************)
EXTENDS ExpertParallel

SetupsOf(ranks, numLocal, slots) ==
  {[numLocalExperts |-> numLocal,
    topkExpertIds |-> [l \in 1..NumLayers |->
      [r \in 0..ranks - 1 |-> first[(r + l - 1) % ranks]]]] :
     first \in [0..ranks - 1 -> [0..slots - 1 -> 0..ranks * numLocal - 1]]}

MCSetups == SetupsOf(2, 2, 2) \cup SetupsOf(3, 1, 1)
===============================================================================
