----------------------------- MODULE GeneratorPool -----------------------------
(***************************************************************************)
(* What a draining router promises to its callers: a call is served by one *)
(* generator, at most once, under one version of its weights.              *)
(***************************************************************************)
EXTENDS Integers

CONSTANTS
  Workers,    \* the generators
  Requests    \* the calls

VARIABLES
  inService,   \* the calls each generator works on
  served,      \* the calls that are over
  loaded       \* the version of the weights each generator has loaded

poolVars == <<inService, served, loaded>>

PoolInit ==
  /\ inService = [w \in Workers |-> {}]
  /\ served = {}
  /\ loaded = [w \in Workers |-> 0]

Accept(r, w) ==
  /\ r \notin served
  /\ \A v \in Workers : r \notin inService[v]
  /\ inService' = [inService EXCEPT ![w] = @ \union {r}]
  /\ UNCHANGED <<served, loaded>>

Complete(r, w) ==
  /\ r \in inService[w]
  /\ inService' = [inService EXCEPT ![w] = @ \ {r}]
  /\ served' = served \union {r}
  /\ UNCHANGED loaded

(* Weights change only between calls.                                      *)
Load(w) ==
  /\ inService[w] = {}
  /\ loaded' = [loaded EXCEPT ![w] = @ + 1]
  /\ UNCHANGED <<inService, served>>

PoolNext ==
  \/ \E r \in Requests, w \in Workers : Accept(r, w) \/ Complete(r, w)
  \/ \E w \in Workers : Load(w)

PoolSpec == PoolInit /\ [][PoolNext]_poolVars
===============================================================================
