------------------------- MODULE MCInterGeneratorRouter -------------------------
(* Finite instances of InterGeneratorRouter.                                *)
EXTENDS InterGeneratorRouter, TLC

CONSTANTS s1, s2, c1, c2, c3

(* Two turns of one rollout and one of another.                             *)
MCSessionOf == c1 :> s1 @@ c2 :> s1 @@ c3 :> s2

Setup(strategy, maxSessions, hotSwap) ==
  [strategy |-> strategy, maxSessions |-> maxSessions, hotSwap |-> hotSwap]

(* Each strategy under draining, with a sticky map that evicts; hot swap    *)
(* with a sticky map that holds all sessions.                               *)
MCSetups ==
  {Setup("round_robin", 1, FALSE), Setup("least_loaded", 1, FALSE),
   Setup("sticky", 1, FALSE), Setup("sticky", 2, TRUE)}
===============================================================================
