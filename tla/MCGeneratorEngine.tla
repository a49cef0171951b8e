--------------------------- MODULE MCGeneratorEngine ---------------------------
(* Finite instances of GeneratorEngine.                                    *)
EXTENDS GeneratorEngine

CONSTANTS q1, q2

(* Two requests served in bursts of two steps; one request of a generator  *)
(* that is closed, or whose loop raises, at any point.                     *)
MCSetups ==
  {[called |-> {q1, q2}, burst |-> 2, mayClose |-> FALSE, mayCrash |-> FALSE],
   [called |-> {q1}, burst |-> 1, mayClose |-> TRUE, mayCrash |-> TRUE]}
===============================================================================
