-------------------------- MODULE InterGeneratorRouter --------------------------
(***************************************************************************)
(* The router between rollouts and generators                              *)
(* (routing/inter_generator_router.py): it sends each generate call to the *)
(* first rank of a generator the strategy picks, and pulls new weights     *)
(* into every generator, either while calls are in flight (hot swap) or    *)
(* after draining each generator.                                          *)
(*                                                                         *)
(* The router is one asyncio actor: an action is the code between two      *)
(* awaits that suspend.  An asyncio.Event that is set wakes all its        *)
(* waiters, who resume later and do not look at the event again.           *)
(***************************************************************************)
EXTENDS RoutingStrategies

CONSTANTS
  Calls,        \* generate calls
  SessionOf,    \* the routing_session_id of each call
  MaxPulls,     \* bound: pull_model_state_dict calls
  PullMayFail   \* whether a generator's pull may raise

ASSUME RouterAssumption ==
  /\ \A s \in Setups : s.hotSwap \in BOOLEAN
  /\ IsFiniteSet(Calls)
  /\ SessionOf \in [Calls -> Sessions \union {NoSession}]
  /\ MaxPulls \in Nat
  /\ PullMayFail \in BOOLEAN

VARIABLES
  state,          \* each handle's lifecycle state
  reservedLoad,   \* each handle's reserved_load
  idle,           \* each handle's idle event
  serving,        \* the _serving event
  callPc,         \* where each _route call is
  target,         \* the handle a call was sent to
  pullPc,         \* where each handle's _pull_one is
  roundPc,        \* the pull_model_state_dict endpoint
  pulls,          \* calls of it so far
  weights         \* pulls each generator has applied

handleVars == <<state, reservedLoad, idle, serving>>
callVars == <<callPc, target>>
pullVars == <<pullPc, roundPc, pulls, weights>>
vars == <<strategyVars, handleVars, callVars, pullVars>>

HotSwap == setup.hotSwap

CallPcs == {"new", "waiting", "woken", "dispatched", "answered", "raised", "asserted"}
PullPcs == {"none", "drain_wait", "woken", "pulling", "done", "failed"}

Init ==
  /\ StrategyInit
  /\ state = [h \in Handles |-> "serving"]
  /\ reservedLoad = [h \in Handles |-> 0]
  /\ idle = [h \in Handles |-> TRUE]
  /\ serving = TRUE
  /\ callPc = [c \in Calls |-> "new"]
  /\ target = [c \in Calls |-> NoHandle]
  /\ pullPc = [h \in Handles |-> "none"]
  /\ roundPc = "idle"
  /\ pulls = 0
  /\ weights = [h \in Handles |-> 0]

-------------------------------------------------------------------------------

Candidates_All == Handles
Candidates == {h \in Handles : state[h] = "serving"}

ServingIn(st) == \E h \in Handles : st[h] = "serving"

WakeCalls == [c \in Calls |-> IF callPc[c] = "waiting" THEN "woken" ELSE callPc[c]]

(* _set_state on the handles of hs, with _refresh_serving_status: the      *)
(* event wakes every waiting call when it is set.                          *)
SetState_NoRefresh(hs, st) ==
  /\ state' = [h \in Handles |-> IF h \in hs THEN st ELSE state[h]]
  /\ callPc' = IF st = "serving" THEN WakeCalls ELSE callPc
  /\ UNCHANGED serving

SetState(hs, st) ==
  /\ state' = [h \in Handles |-> IF h \in hs THEN st ELSE state[h]]
  /\ serving' = ServingIn(state')
  /\ callPc' = IF serving' THEN WakeCalls ELSE callPc

Reserve(h) ==
  /\ reservedLoad' = [reservedLoad EXCEPT ![h] = @ + 1]
  /\ idle' = [idle EXCEPT ![h] = FALSE]

Release_Leaks(h) == UNCHANGED <<reservedLoad, idle, pullPc>>

Release_IdleAtOnce(h) ==
  /\ reservedLoad' = [reservedLoad EXCEPT ![h] = @ - 1]
  /\ idle' = [idle EXCEPT ![h] = TRUE]
  /\ pullPc' = [pullPc EXCEPT ![h] = IF @ = "drain_wait" THEN "woken" ELSE @]

(* The last call to leave a handle sets its idle event.                    *)
Release(h) ==
  LET last == reservedLoad[h] = 1
  IN /\ reservedLoad' = [reservedLoad EXCEPT ![h] = @ - 1]
     /\ idle' = [idle EXCEPT ![h] = last]
     /\ pullPc' = [pullPc EXCEPT ![h] =
          IF last /\ @ = "drain_wait" THEN "woken" ELSE @]

-------------------------------------------------------------------------------
(* _route.                                                                 *)

(* From the wake-up (or the check that found the event set) to the remote  *)
(* call: one piece of code without a suspension.                           *)
Dispatch(c) ==
  IF Candidates = {}
  THEN /\ callPc' = [callPc EXCEPT ![c] = "asserted"]
       /\ UNCHANGED <<strategyVars, reservedLoad, idle, target>>
  ELSE \E h \in Candidates :
       /\ ChooseCandidate(SessionOf[c], reservedLoad, Candidates, h)
       /\ Reserve(h)
       /\ target' = [target EXCEPT ![c] = h]
       /\ callPc' = [callPc EXCEPT ![c] = "dispatched"]

CallArrives(c) ==
  /\ callPc[c] = "new"
  /\ IF serving
     THEN Dispatch(c)
     ELSE /\ callPc' = [callPc EXCEPT ![c] = "waiting"]
          /\ UNCHANGED <<strategyVars, reservedLoad, idle, target>>
  /\ UNCHANGED <<state, serving, pullVars>>

CallResumes(c) ==
  /\ callPc[c] = "woken"
  /\ Dispatch(c)
  /\ UNCHANGED <<state, serving, pullVars>>

(* The generator answers or raises; `finally` releases either way.         *)
CallReturns(c, result) ==
  /\ callPc[c] = "dispatched"
  /\ Release(target[c])
  /\ callPc' = [callPc EXCEPT ![c] = result]
  /\ UNCHANGED <<strategyVars, state, serving, target, roundPc, pulls, weights>>

-------------------------------------------------------------------------------
(* _pull_model_state_dict.                                                 *)

(* The weight sync starts a pull after the last one has returned (and none *)
(* after one that raised).  A call woken by the last round has run by      *)
(* then: asyncio runs ready tasks in order, and the round's reply and the  *)
(* next request are queued behind it.                                      *)
PullRequested ==
  /\ roundPc = "idle"
  /\ pulls < MaxPulls
  /\ \A c \in Calls : callPc[c] # "woken"

(* gather starts one _pull_one per handle, back to back.                   *)
PullStartsHot ==
  /\ HotSwap
  /\ PullRequested
  /\ pulls' = pulls + 1
  /\ roundPc' = "pulling"
  /\ pullPc' = [h \in Handles |-> "pulling"]
  /\ UNCHANGED <<strategyVars, handleVars, callVars, weights>>

PullStartsDraining ==
  /\ ~HotSwap
  /\ PullRequested
  /\ pulls' = pulls + 1
  /\ roundPc' = "pulling"
  /\ SetState(Handles, "syncing")
  /\ pullPc' = [h \in Handles |-> IF idle[h] THEN "pulling" ELSE "drain_wait"]
  /\ UNCHANGED <<strategyVars, reservedLoad, idle, target, weights>>

DrainEnds(h) ==
  /\ pullPc[h] = "woken"
  /\ pullPc' = [pullPc EXCEPT ![h] = "pulling"]
  /\ UNCHANGED <<strategyVars, handleVars, callVars, roundPc, pulls, weights>>

(* The handle is readmitted when its pull ends, also when it raised.       *)
Readmit_OnSuccess(h, ok) ==
  IF HotSwap \/ ~ok THEN UNCHANGED <<state, serving, callPc>>
                    ELSE SetState({h}, "serving")

Readmit(h, ok) ==
  IF HotSwap THEN UNCHANGED <<state, serving, callPc>>
             ELSE SetState({h}, "serving")

(* gather returns with the last pull.                                      *)
PullReturns(h) ==
  /\ pullPc[h] = "pulling"
  /\ pullPc' = [pullPc EXCEPT ![h] = "done"]
  /\ weights' = [weights EXCEPT ![h] = @ + 1]
  /\ Readmit(h, TRUE)
  /\ roundPc' = IF \A k \in Handles : pullPc'[k] = "done" THEN "idle" ELSE roundPc
  /\ UNCHANGED <<strategyVars, reservedLoad, idle, target, pulls>>

(* gather raises with the first failure; the other pulls go on.            *)
PullRaises(h) ==
  /\ PullMayFail
  /\ pullPc[h] = "pulling"
  /\ pullPc' = [pullPc EXCEPT ![h] = "failed"]
  /\ Readmit(h, FALSE)
  /\ roundPc' = "raised"
  /\ UNCHANGED <<strategyVars, reservedLoad, idle, target, pulls, weights>>

-------------------------------------------------------------------------------

Finished ==
  /\ \A c \in Calls : callPc[c] \in {"answered", "raised"}
  /\ roundPc = "raised" \/ (roundPc = "idle" /\ pulls = MaxPulls)
  /\ \A h \in Handles : pullPc[h] \in {"none", "done", "failed"}
  /\ UNCHANGED vars

Next ==
  \/ \E c \in Calls :
       \/ CallArrives(c)
       \/ CallResumes(c)
       \/ \E result \in {"answered", "raised"} : CallReturns(c, result)
  \/ PullStartsHot
  \/ PullStartsDraining
  \/ \E h \in Handles : DrainEnds(h) \/ PullReturns(h) \/ PullRaises(h)
  \/ Finished

Spec == Init /\ [][Next]_vars

(* asyncio runs every ready task, and generators answer.  No call has to   *)
(* arrive and no pull has to be requested or to fail.                      *)
Fairness ==
  /\ \A c \in Calls : WF_vars(CallResumes(c)) /\ WF_vars(CallReturns(c, "answered"))
  /\ \A h \in Handles : WF_vars(DrainEnds(h)) /\ WF_vars(PullReturns(h))

FairSpec == Spec /\ Fairness

-------------------------------------------------------------------------------
(* Properties.                                                             *)

InFlight(h) == {c \in Calls : callPc[c] = "dispatched" /\ target[c] = h}

RouterTypeOK ==
  /\ state \in [Handles -> {"serving", "syncing"}]
  /\ reservedLoad \in [Handles -> Nat]
  /\ idle \in [Handles -> BOOLEAN]
  /\ serving \in BOOLEAN
  /\ callPc \in [Calls -> CallPcs]
  /\ target \in [Calls -> Handles \union {NoHandle}]
  /\ pullPc \in [Handles -> PullPcs]
  /\ roundPc \in {"idle", "pulling", "raised"}
  /\ pulls \in 0..MaxPulls
  /\ weights \in [Handles -> Nat]

(* Types of the router's and the strategy's state; the load never goes     *)
(* negative (the assertion of _release), the sticky map never outgrows     *)
(* max_sessions.                                                           *)
TypeOK == StrategyTypeOK /\ RouterTypeOK

(* The router's estimate is exact whatever fails: the reserved load counts *)
(* the calls in flight, the idle event marks none, and the serving event   *)
(* says whether there is a candidate.                                      *)
LoadAccounting ==
  /\ \A h \in Handles :
       /\ reservedLoad[h] = Cardinality(InFlight(h))
       /\ idle[h] <=> InFlight(h) = {}
  /\ serving <=> Candidates # {}

(* Without hot swap a generator never pulls while a call is in flight on   *)
(* it, although the wake-up of the drain and the pull are separate steps   *)
(* (hot_swap: "When False, each generator is drained before its pull").    *)
DrainedWhilePulling ==
  ~HotSwap => \A h \in Handles :
    pullPc[h] \in {"woken", "pulling"} => InFlight(h) = {}

(* `assert candidates` in _route never fires: a call that resumes after    *)
(* the serving event finds a candidate.                                    *)
NoRouteAssertion == \A c \in Calls : callPc[c] # "asserted"

SessionsFit ==
  /\ setup.strategy = "sticky" /\ HotSwap
  /\ IsFiniteSet(Sessions) /\ Cardinality(Sessions) <= setup.maxSessions

(* While all sessions fit in the sticky map and no generator drains, the   *)
(* calls of a session go to one generator.                                 *)
SessionAffinity ==
  SessionsFit =>
    \A c, d \in Calls :
      /\ SessionOf[c] = SessionOf[d] /\ SessionOf[c] # NoSession
      /\ target[c] # NoHandle /\ target[d] # NoHandle
      => target[c] = target[d]

(* The inductive invariant behind the three properties above.              *)
DrainInv ==
  /\ \A c \in Calls : callPc[c] = "dispatched" => target[c] # NoHandle
  /\ \A c \in Calls : callPc[c] = "woken" => serving
  /\ ~HotSwap => \A h \in Handles :
       pullPc[h] \in {"drain_wait", "woken", "pulling"} => state[h] = "syncing"

RouterInv ==
  /\ RouterTypeOK
  /\ LoadAccounting
  /\ DrainInv
  /\ DrainedWhilePulling
  /\ NoRouteAssertion

(* The inductive invariant behind SessionAffinity: no generator leaves the *)
(* candidates, and a session stays pinned where its first call went.       *)
AffinityInv ==
  /\ HotSwap => Candidates = Handles
  /\ pin \in [Sessions -> Handles \union {NoHandle}]
  /\ SessionsFit =>
       \A c \in Calls :
         SessionOf[c] \in Sessions /\ target[c] # NoHandle
           => pin[SessionOf[c]] = target[c]

(* What callers may rely on without hot swap: each call is served once, by *)
(* one generator, under one version of its weights.  With hot swap nothing *)
(* is promised, and the mapping stands still.                              *)
Pool == INSTANCE GeneratorPool WITH
  Workers <- Handles,
  Requests <- Calls,
  inService <- [h \in Handles |-> IF HotSwap THEN {} ELSE InFlight(h)],
  served <- IF HotSwap THEN {} ELSE {c \in Calls : callPc[c] \in {"answered", "raised"}},
  loaded <- IF HotSwap THEN [h \in Handles |-> 0] ELSE weights

ImplementsPool == Pool!PoolSpec

(* Every call that reaches the router is sent on and answered, through     *)
(* drains and failed pulls; and a pull ends: the calls that keep a         *)
(* generator busy run out, because a draining one gets no new ones.        *)
RouterProgress ==
  /\ \A c \in Calls :
       callPc[c] # "new" ~> callPc[c] \in {"answered", "raised"}
  /\ roundPc = "pulling" ~> roundPc # "pulling"
===============================================================================
