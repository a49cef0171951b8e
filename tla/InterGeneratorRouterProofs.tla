----------------------- MODULE InterGeneratorRouterProofs -----------------------
(***************************************************************************)
(* The router, for any number of generators, calls, pulls and sessions.    *)
(* RouterInv uses nothing of a strategy but that it returns one of the     *)
(* candidates; the strategies' own promises and the refinement of          *)
(* GeneratorPool follow.                                                   *)
(***************************************************************************)
EXTENDS InterGeneratorRouter, FiniteSetTheorems, TLAPS

(* The calls in flight on a handle are finitely many.                      *)
LEMMA InFlightFinite ==
  ASSUME NEW h
  PROVE  IsFiniteSet(InFlight(h))
BY RouterAssumption, FS_Subset DEF InFlight, RouterAssumption

(* Loads, idle events and pulls when one more call is sent to handle h.    *)
LEMMA ReserveKeepsCount ==
  ASSUME RouterInv, NEW c \in Calls, NEW h \in Handles,
         callPc[c] # "dispatched",
         Reserve(h),
         target' = [target EXCEPT ![c] = h],
         callPc' = [callPc EXCEPT ![c] = "dispatched"],
         NEW k \in Handles
  PROVE  /\ reservedLoad'[k] = Cardinality(InFlight(k)')
         /\ idle'[k] <=> InFlight(k)' = {}
         /\ k # h => InFlight(k)' = InFlight(k)
<1>1. /\ target \in [Calls -> Handles \union {NoHandle}]
      /\ callPc \in [Calls -> CallPcs]
      /\ reservedLoad \in [Handles -> Nat]
      /\ idle \in [Handles -> BOOLEAN]
  BY DEF RouterInv, RouterTypeOK
<1>2. /\ reservedLoad[k] = Cardinality(InFlight(k))
      /\ idle[k] <=> InFlight(k) = {}
  BY DEF RouterInv, LoadAccounting
<1>3. c \notin InFlight(k)
  BY DEF InFlight
<1>4. CASE k = h
  <2>1. InFlight(k)' = InFlight(k) \union {c}
    BY <1>1, <1>4 DEF InFlight
  <2>2. Cardinality(InFlight(k)') = Cardinality(InFlight(k)) + 1
    BY <1>3, <2>1, InFlightFinite, FS_AddElement
  <2>3. reservedLoad'[k] = reservedLoad[k] + 1 /\ idle'[k] = FALSE
    BY <1>1, <1>4 DEF Reserve
  <2> QED BY <1>2, <1>4, <2>1, <2>2, <2>3
<1>5. CASE k # h
  <2>1. InFlight(k)' = InFlight(k)
    BY <1>1, <1>5 DEF InFlight
  <2>2. reservedLoad'[k] = reservedLoad[k] /\ idle'[k] = idle[k]
    BY <1>1, <1>5 DEF Reserve
  <2> QED BY <1>2, <2>1, <2>2
<1> QED BY <1>4, <1>5

(* ... and when a call leaves handle h.                                    *)
LEMMA ReleaseKeepsCount ==
  ASSUME RouterInv, NEW c \in Calls, NEW h \in Handles, NEW result \in {"answered", "raised"},
         callPc[c] = "dispatched", target[c] = h,
         Release(h),
         target' = target,
         callPc' = [callPc EXCEPT ![c] = result],
         NEW k \in Handles
  PROVE  /\ reservedLoad'[k] \in Nat
         /\ reservedLoad'[k] = Cardinality(InFlight(k)')
         /\ idle'[k] <=> InFlight(k)' = {}
         /\ InFlight(k)' \subseteq InFlight(k)
         /\ reservedLoad[h] = 1 => InFlight(h)' = {}
<1>1. /\ callPc \in [Calls -> CallPcs]
      /\ reservedLoad \in [Handles -> Nat]
      /\ idle \in [Handles -> BOOLEAN]
  BY DEF RouterInv, RouterTypeOK
<1>2. \A i \in Handles :
        /\ reservedLoad[i] = Cardinality(InFlight(i))
        /\ idle[i] <=> InFlight(i) = {}
  BY DEF RouterInv, LoadAccounting
<1>3. c \in InFlight(h)
  BY DEF InFlight
<1>4. InFlight(h)' = InFlight(h) \ {c}
  BY <1>1 DEF InFlight
<1>5. /\ IsFiniteSet(InFlight(h)')
      /\ Cardinality(InFlight(h)') = Cardinality(InFlight(h)) - 1
  BY <1>3, <1>4, InFlightFinite, FS_RemoveElement
<1>6. Cardinality(InFlight(h)') \in Nat
  BY <1>5, FS_CardinalityType
<1>7. Cardinality(InFlight(h)') = 0 <=> InFlight(h)' = {}
  BY <1>5, FS_EmptySet
<1>8. /\ reservedLoad'[h] = reservedLoad[h] - 1
      /\ idle'[h] <=> reservedLoad[h] = 1
  BY <1>1 DEF Release
<1>9. /\ reservedLoad[h] \in Nat
      /\ reservedLoad[h] = 1 <=> InFlight(h)' = {}
  BY <1>1, <1>2, <1>5, <1>6, <1>7
<1>10. CASE k = h
  BY <1>2, <1>4, <1>5, <1>6, <1>8, <1>9, <1>10
<1>11. CASE k # h
  <2>1. InFlight(k)' = InFlight(k)
    BY <1>1, <1>11 DEF InFlight
  <2>2. reservedLoad'[k] = reservedLoad[k] /\ idle'[k] = idle[k]
    BY <1>1, <1>11 DEF Release
  <2> QED BY <1>1, <1>2, <1>9, <2>1, <2>2
<1> QED BY <1>10, <1>11

(* The configuration never changes.                                        *)
LEMMA SetupFixed == [Next]_vars => HotSwap' = HotSwap
<1> SUFFICES ASSUME [Next]_vars PROVE setup' = setup
  BY DEF HotSwap
<1>1. ASSUME NEW c \in Calls, Dispatch(c) PROVE setup' = setup
  <2>1. CASE Candidates = {}
    BY <1>1, <2>1 DEF Dispatch, strategyVars
  <2>2. CASE Candidates # {}
    <3>1. PICK h \in Candidates :
            ChooseCandidate(SessionOf[c], reservedLoad, Candidates, h)
      BY <1>1, <2>2 DEF Dispatch
    <3> QED BY <3>1 DEF ChooseCandidate
  <2> QED BY <2>1, <2>2
<1>2. ASSUME NEW c \in Calls, CallArrives(c) \/ CallResumes(c)
      PROVE  setup' = setup
  BY <1>1, <1>2 DEF CallArrives, CallResumes, strategyVars
<1>3. ASSUME NEW c \in Calls, NEW result \in {"answered", "raised"}, CallReturns(c, result)
      PROVE  setup' = setup
  BY <1>3 DEF CallReturns, strategyVars
<1>4. CASE PullStartsHot \/ PullStartsDraining
  BY <1>4 DEF PullStartsHot, PullStartsDraining, strategyVars
<1>5. ASSUME NEW h \in Handles, DrainEnds(h) \/ PullReturns(h) \/ PullRaises(h)
      PROVE  setup' = setup
  BY <1>5 DEF DrainEnds, PullReturns, PullRaises, strategyVars
<1>6. CASE UNCHANGED vars
  BY <1>6 DEF vars, strategyVars
<1> QED BY <1>2, <1>3, <1>4, <1>5, <1>6 DEF Next, Finished

(* A call that reaches Dispatch while the event is set is sent to a        *)
(* serving handle.                                                         *)
LEMMA DispatchSends ==
  ASSUME RouterInv, NEW c \in Calls, serving, Dispatch(c)
  PROVE  \E h \in Handles :
           /\ state[h] = "serving"
           /\ Reserve(h)
           /\ target' = [target EXCEPT ![c] = h]
           /\ callPc' = [callPc EXCEPT ![c] = "dispatched"]
<1>1. Candidates # {}
  BY DEF RouterInv, LoadAccounting
<1>2. \E h \in Candidates :
        /\ Reserve(h)
        /\ target' = [target EXCEPT ![c] = h]
        /\ callPc' = [callPc EXCEPT ![c] = "dispatched"]
  BY <1>1 DEF Dispatch
<1> QED BY <1>2 DEF Candidates

(* Sending a call keeps the invariant: its handle is serving, so no drain  *)
(* waits for it.                                                           *)
LEMMA DispatchKeepsInv ==
  ASSUME RouterInv, NEW c \in Calls, serving, callPc[c] \in {"new", "woken"},
         Dispatch(c), UNCHANGED <<state, serving, pullVars>>, HotSwap' = HotSwap
  PROVE  RouterInv'
<1> PICK h \in Handles :
      /\ state[h] = "serving"
      /\ Reserve(h)
      /\ target' = [target EXCEPT ![c] = h]
      /\ callPc' = [callPc EXCEPT ![c] = "dispatched"]
  BY DispatchSends
<1>1. RouterTypeOK /\ LoadAccounting /\ DrainInv /\ DrainedWhilePulling /\ NoRouteAssertion
  BY DEF RouterInv
<1>2. callPc[c] # "dispatched"
  OBVIOUS
<1>3. \A k \in Handles :
        /\ reservedLoad'[k] = Cardinality(InFlight(k)')
        /\ idle'[k] <=> InFlight(k)' = {}
        /\ k # h => InFlight(k)' = InFlight(k)
  BY <1>2, ReserveKeepsCount
<1>4. RouterTypeOK'
  BY <1>1 DEF RouterTypeOK, Reserve, CallPcs, pullVars
<1>5. LoadAccounting'
  <2>1. Candidates' = Candidates
    BY DEF Candidates
  <2> QED BY <1>1, <1>3, <2>1 DEF LoadAccounting
<1>6. DrainInv'
  <2>1. h # NoHandle
    BY DEF Handles, NoHandle
  <2> QED BY <1>1, <2>1 DEF DrainInv, RouterTypeOK, pullVars
<1>7. DrainedWhilePulling'
  <2> SUFFICES ASSUME ~HotSwap, NEW k \in Handles, pullPc'[k] \in {"woken", "pulling"}
               PROVE  InFlight(k)' = {}
    BY DEF DrainedWhilePulling
  <2>1. pullPc[k] \in {"woken", "pulling"}
    BY DEF pullVars
  <2>2. state[k] = "syncing"
    BY <1>1, <2>1 DEF DrainInv
  <2>3. k # h
    BY <2>2
  <2> QED BY <1>1, <1>3, <2>1, <2>3 DEF DrainedWhilePulling
<1>8. NoRouteAssertion'
  BY <1>1 DEF NoRouteAssertion, RouterTypeOK
<1> QED BY <1>4, <1>5, <1>6, <1>7, <1>8 DEF RouterInv

(* _set_state leaves the serving event telling the truth and wakes calls   *)
(* only when it is set.                                                    *)
LEMMA SetStateEffect ==
  ASSUME RouterInv, NEW hs \in SUBSET Handles, NEW st \in {"serving", "syncing"},
         SetState(hs, st)
  PROVE  /\ state' \in [Handles -> {"serving", "syncing"}]
         /\ callPc' \in [Calls -> CallPcs]
         /\ serving' <=> Candidates' # {}
         /\ \A c \in Calls :
              /\ callPc'[c] = "dispatched" <=> callPc[c] = "dispatched"
              /\ callPc'[c] = "woken" => serving' \/ callPc[c] = "woken"
              /\ callPc'[c] = "asserted" => callPc[c] = "asserted"
         /\ \A h \in Handles : state'[h] = IF h \in hs THEN st ELSE state[h]
<1>1. /\ callPc \in [Calls -> CallPcs]
      /\ state \in [Handles -> {"serving", "syncing"}]
  BY DEF RouterInv, RouterTypeOK
<1>2. state' \in [Handles -> {"serving", "syncing"}]
  BY <1>1 DEF SetState
<1>3. serving' <=> Candidates' # {}
  BY DEF SetState, ServingIn, Candidates
<1> QED BY <1>1, <1>2, <1>3 DEF SetState, WakeCalls, CallPcs

(* A step that leaves states and targets of the calls alone leaves them in *)
(* flight.                                                                 *)
LEMMA SameCallsInFlight ==
  ASSUME target' = target,
         \A c \in Calls : callPc'[c] = "dispatched" <=> callPc[c] = "dispatched",
         NEW h \in Handles
  PROVE  InFlight(h)' = InFlight(h)
BY DEF InFlight

(* A step of a pull that dispatches and releases nothing.                  *)
LEMMA PullStepKeepsInv ==
  ASSUME RouterInv, NEW hs \in SUBSET Handles, NEW st \in {"serving", "syncing"},
         SetState(hs, st),
         st = "syncing" => \A c \in Calls : callPc[c] # "woken",
         UNCHANGED <<reservedLoad, idle, target>>,
         pullPc' \in [Handles -> PullPcs],
         roundPc' \in {"idle", "pulling", "raised"},
         pulls' \in 0..MaxPulls,
         weights' \in [Handles -> Nat],
         \A h \in Handles : pullPc'[h] \in {"drain_wait", "woken", "pulling"} =>
           \/ h \in hs /\ st = "syncing"
           \/ h \notin hs /\ pullPc'[h] = pullPc[h],
         \A h \in Handles : pullPc'[h] \in {"woken", "pulling"} =>
           \/ pullPc'[h] = pullPc[h]
           \/ idle[h],
         ~HotSwap, HotSwap' = HotSwap
  PROVE  RouterInv'
<1>1. RouterTypeOK /\ LoadAccounting /\ DrainInv /\ DrainedWhilePulling /\ NoRouteAssertion
  BY DEF RouterInv
<1>2. /\ state' \in [Handles -> {"serving", "syncing"}]
      /\ callPc' \in [Calls -> CallPcs]
      /\ serving' <=> Candidates' # {}
      /\ \A c \in Calls :
           /\ callPc'[c] = "dispatched" <=> callPc[c] = "dispatched"
           /\ callPc'[c] = "woken" => serving' \/ callPc[c] = "woken"
           /\ callPc'[c] = "asserted" => callPc[c] = "asserted"
      /\ \A h \in Handles : state'[h] = IF h \in hs THEN st ELSE state[h]
  BY SetStateEffect
<1>3. \A h \in Handles : InFlight(h)' = InFlight(h)
  BY <1>2, SameCallsInFlight
<1>4. RouterTypeOK'
  <2>1. serving' \in BOOLEAN
    BY DEF SetState, ServingIn
  <2> QED BY <1>1, <1>2, <2>1 DEF RouterTypeOK
<1>5. LoadAccounting'
  BY <1>1, <1>2, <1>3 DEF LoadAccounting
<1>6. DrainInv'
  <2>1. \A c \in Calls : callPc'[c] = "dispatched" => target'[c] # NoHandle
    BY <1>1, <1>2 DEF DrainInv
  <2>2. ASSUME NEW c \in Calls, callPc'[c] = "woken"  PROVE serving'
    <3>1. CASE st = "syncing"
      BY <1>2, <2>2, <3>1
    <3>2. CASE st = "serving" /\ ~serving'
      <4>1. callPc[c] = "woken"
        BY <1>2, <2>2, <3>2
      <4>2. Candidates # {}
        BY <1>1, <4>1 DEF DrainInv, LoadAccounting
      <4>3. Candidates \subseteq Candidates'
        BY <1>2, <3>2 DEF Candidates
      <4> QED BY <1>2, <4>2, <4>3
    <3> QED BY <3>1, <3>2
  <2>3. ASSUME NEW h \in Handles, pullPc'[h] \in {"drain_wait", "woken", "pulling"}
        PROVE  state'[h] = "syncing"
    <3>1. CASE h \in hs /\ st = "syncing"
      BY <1>2, <3>1
    <3>2. CASE h \notin hs /\ pullPc'[h] = pullPc[h]
      BY <1>1, <1>2, <2>3, <3>2 DEF DrainInv
    <3> QED BY <2>3, <3>1, <3>2
  <2> QED BY <2>1, <2>2, <2>3 DEF DrainInv
<1>7. DrainedWhilePulling'
  BY <1>1, <1>3 DEF DrainedWhilePulling, LoadAccounting
<1>8. NoRouteAssertion'
  BY <1>1, <1>2 DEF NoRouteAssertion
<1> QED BY <1>4, <1>5, <1>6, <1>7, <1>8 DEF RouterInv

(* The invariant holds at the start.                                       *)
LEMMA RouterInvInit == Init => RouterInv
<1> SUFFICES ASSUME Init PROVE RouterInv
  OBVIOUS
<1>1. \A h \in Handles : InFlight(h) = {}
  BY DEF Init, InFlight
<1>2. Candidates = Handles /\ 1 \in Handles
  BY StrategyAssumption DEF Init, Candidates, Handles, StrategyAssumption
<1>3. RouterTypeOK
  BY RouterAssumption DEF Init, RouterTypeOK, CallPcs, PullPcs, RouterAssumption
<1>4. LoadAccounting
  BY <1>1, <1>2, FS_EmptySet DEF Init, LoadAccounting
<1>5. DrainInv /\ DrainedWhilePulling /\ NoRouteAssertion
  BY <1>1 DEF Init, DrainInv, DrainedWhilePulling, NoRouteAssertion
<1> QED BY <1>3, <1>4, <1>5 DEF RouterInv

(* A call that returns lowers one load, and sets the idle event with the   *)
(* last one.                                                               *)
LEMMA CallReturnsKeepsInv ==
  ASSUME RouterInv, NEW c \in Calls, NEW result \in {"answered", "raised"},
         CallReturns(c, result), HotSwap' = HotSwap
  PROVE  RouterInv'
<1>1. RouterTypeOK /\ LoadAccounting /\ DrainInv /\ DrainedWhilePulling /\ NoRouteAssertion
  BY DEF RouterInv
<1>3. PICK h \in Handles : target[c] = h
  BY <1>1 DEF RouterTypeOK, DrainInv, CallReturns
<1>2. /\ callPc[c] = "dispatched"
      /\ Release(h)
      /\ callPc' = [callPc EXCEPT ![c] = result]
      /\ UNCHANGED <<state, serving, target, roundPc, pulls, weights>>
  BY <1>3 DEF CallReturns
<1>5. \A k \in Handles :
        /\ reservedLoad'[k] \in Nat
        /\ reservedLoad'[k] = Cardinality(InFlight(k)')
        /\ idle'[k] <=> InFlight(k)' = {}
        /\ InFlight(k)' \subseteq InFlight(k)
        /\ reservedLoad[h] = 1 => InFlight(h)' = {}
  BY <1>2, <1>3, ReleaseKeepsCount
<1>6. \A k \in Handles :
        \/ pullPc'[k] = pullPc[k]
        \/ k = h /\ pullPc[k] = "drain_wait" /\ pullPc'[k] = "woken" /\ InFlight(k)' = {}
  <2>1. pullPc \in [Handles -> PullPcs]
    BY <1>1 DEF RouterTypeOK
  <2>2. pullPc' = [pullPc EXCEPT ![h] =
          IF reservedLoad[h] = 1 /\ pullPc[h] = "drain_wait" THEN "woken" ELSE pullPc[h]]
    BY <1>2 DEF Release
  <2>3. reservedLoad[h] = 1 => InFlight(h)' = {}
    BY <1>3, <1>5
  <2>4. ASSUME NEW k \in Handles, k # h  PROVE pullPc'[k] = pullPc[k]
    BY <2>1, <2>2, <2>4
  <2>5. \/ pullPc'[h] = pullPc[h]
        \/ pullPc[h] = "drain_wait" /\ pullPc'[h] = "woken" /\ InFlight(h)' = {}
    BY <1>3, <2>1, <2>2, <2>3
  <2> QED BY <2>4, <2>5
<1>7. RouterTypeOK'
  <2>1. reservedLoad' \in [Handles -> Nat]
    BY <1>1, <1>2, <1>5 DEF Release, RouterTypeOK
  <2>2. idle' \in [Handles -> BOOLEAN] /\ pullPc' \in [Handles -> PullPcs]
    BY <1>1, <1>2 DEF Release, RouterTypeOK, PullPcs
  <2>3. callPc' \in [Calls -> CallPcs]
    BY <1>1, <1>2 DEF RouterTypeOK, CallPcs
  <2> QED BY <1>1, <1>2, <2>1, <2>2, <2>3 DEF RouterTypeOK
<1>8. LoadAccounting'
  <2>1. Candidates' = Candidates
    BY <1>2 DEF Candidates
  <2> QED BY <1>1, <1>2, <1>5, <2>1 DEF LoadAccounting
<1>9. DrainInv'
  BY <1>1, <1>2, <1>6 DEF DrainInv, RouterTypeOK
<1>10. DrainedWhilePulling'
  BY <1>1, <1>5, <1>6 DEF DrainedWhilePulling
<1>11. NoRouteAssertion'
  BY <1>1, <1>2 DEF NoRouteAssertion, RouterTypeOK
<1> QED BY <1>7, <1>8, <1>9, <1>10, <1>11 DEF RouterInv

(* Every step keeps the invariant.                                         *)
LEMMA RouterInvStep == RouterInv /\ [Next]_vars => RouterInv'
<1> SUFFICES ASSUME RouterInv, [Next]_vars PROVE RouterInv'
  OBVIOUS
<1> HotSwap' = HotSwap
  BY SetupFixed
<1>0. RouterTypeOK /\ LoadAccounting /\ DrainInv /\ DrainedWhilePulling /\ NoRouteAssertion
  BY DEF RouterInv
<1>1. ASSUME NEW c \in Calls, CallArrives(c)
      PROVE  RouterInv'
  <2>1. CASE serving
    BY <1>1, <2>1, DispatchKeepsInv DEF CallArrives
  <2>2. CASE ~serving
    <3>1. /\ callPc[c] = "new"
          /\ callPc' = [callPc EXCEPT ![c] = "waiting"]
          /\ UNCHANGED <<reservedLoad, idle, target, state, serving, pullVars>>
      BY <1>1, <2>2 DEF CallArrives
    <3>2. callPc \in [Calls -> CallPcs]
      BY <1>0 DEF RouterTypeOK
    <3>3. \A d \in Calls : callPc'[d] = "dispatched" <=> callPc[d] = "dispatched"
      BY <3>1, <3>2
    <3>4. \A h \in Handles : InFlight(h)' = InFlight(h)
      BY <3>1, <3>3, SameCallsInFlight
    <3>5. RouterTypeOK'
      BY <1>0, <3>1 DEF RouterTypeOK, CallPcs, pullVars
    <3>6. LoadAccounting'
      BY <1>0, <3>1, <3>4 DEF LoadAccounting, Candidates
    <3>7. DrainInv'
      BY <1>0, <3>1, <3>2 DEF DrainInv, pullVars
    <3>8. DrainedWhilePulling'
      BY <1>0, <3>1, <3>4 DEF DrainedWhilePulling, pullVars
    <3>9. NoRouteAssertion'
      BY <1>0, <3>1, <3>2 DEF NoRouteAssertion
    <3> QED BY <3>5, <3>6, <3>7, <3>8, <3>9 DEF RouterInv
  <2> QED BY <2>1, <2>2
<1>2. ASSUME NEW c \in Calls, CallResumes(c)
      PROVE  RouterInv'
  <2>1. callPc[c] = "woken" /\ serving
    BY <1>0, <1>2 DEF CallResumes, DrainInv
  <2> QED BY <1>2, <2>1, DispatchKeepsInv DEF CallResumes
<1>3. ASSUME NEW c \in Calls, NEW result \in {"answered", "raised"}, CallReturns(c, result)
      PROVE  RouterInv'
  BY <1>3, CallReturnsKeepsInv
<1>4. ASSUME HotSwap, UNCHANGED <<handleVars, callVars>>,
             pullPc' \in [Handles -> PullPcs], roundPc' \in {"idle", "pulling", "raised"},
             pulls' \in 0..MaxPulls, weights' \in [Handles -> Nat]
      PROVE  RouterInv'
  <2>1. \A h \in Handles : InFlight(h)' = InFlight(h)
    BY <1>4 DEF InFlight, callVars
  <2>2. RouterTypeOK'
    BY <1>0, <1>4 DEF RouterTypeOK, handleVars, callVars
  <2>3. LoadAccounting'
    BY <1>0, <1>4, <2>1 DEF LoadAccounting, Candidates, handleVars
  <2>4. DrainInv' /\ DrainedWhilePulling' /\ NoRouteAssertion'
    BY <1>0, <1>4
      DEF DrainInv, DrainedWhilePulling, NoRouteAssertion, handleVars, callVars
  <2> QED BY <2>2, <2>3, <2>4 DEF RouterInv
<1>5. CASE PullStartsHot
  <2>1. pulls' \in 0..MaxPulls
    BY <1>0, <1>5, RouterAssumption
      DEF PullStartsHot, PullRequested, RouterTypeOK, RouterAssumption
  <2> QED BY <1>0, <1>4, <1>5, <2>1 DEF PullStartsHot, RouterTypeOK, PullPcs
<1>6. CASE PullStartsDraining
  <2>1. pulls' \in 0..MaxPulls
    BY <1>0, <1>6, RouterAssumption
      DEF PullStartsDraining, PullRequested, RouterTypeOK, RouterAssumption
  <2>2. /\ ~HotSwap
        /\ \A c \in Calls : callPc[c] # "woken"
        /\ SetState(Handles, "syncing")
        /\ pullPc' = [h \in Handles |-> IF idle[h] THEN "pulling" ELSE "drain_wait"]
        /\ roundPc' = "pulling"
        /\ UNCHANGED <<reservedLoad, idle, target, weights>>
    BY <1>6 DEF PullStartsDraining, PullRequested
  <2>3. pullPc' \in [Handles -> PullPcs] /\ weights' \in [Handles -> Nat]
    BY <1>0, <2>2 DEF RouterTypeOK, PullPcs
  <2>4. \A h \in Handles : pullPc'[h] \in {"woken", "pulling"} => idle[h]
    BY <2>2
  <2> QED BY <2>1, <2>2, <2>3, <2>4, PullStepKeepsInv
<1>7. ASSUME NEW h \in Handles, DrainEnds(h)
      PROVE  RouterInv'
  <2>1. /\ pullPc[h] = "woken"
        /\ pullPc' = [pullPc EXCEPT ![h] = "pulling"]
        /\ UNCHANGED <<handleVars, callVars, roundPc, pulls, weights>>
    BY <1>7 DEF DrainEnds
  <2>2. \A k \in Handles : InFlight(k)' = InFlight(k)
    BY <2>1 DEF InFlight, callVars
  <2>3. \A k \in Handles : pullPc'[k] = pullPc[k] \/ (pullPc[k] = "woken" /\ pullPc'[k] = "pulling")
    BY <1>0, <2>1 DEF RouterTypeOK
  <2>4. RouterTypeOK'
    BY <1>0, <2>1 DEF RouterTypeOK, PullPcs, handleVars, callVars
  <2>5. LoadAccounting'
    BY <1>0, <2>1, <2>2 DEF LoadAccounting, Candidates, handleVars
  <2>6. DrainInv' /\ NoRouteAssertion'
    BY <1>0, <2>1, <2>3 DEF DrainInv, NoRouteAssertion, handleVars, callVars
  <2>7. DrainedWhilePulling'
    BY <1>0, <2>2, <2>3 DEF DrainedWhilePulling
  <2> QED BY <2>4, <2>5, <2>6, <2>7 DEF RouterInv
<1>8. ASSUME NEW h \in Handles, NEW pc \in {"done", "failed"}, NEW ok \in BOOLEAN,
             pullPc' = [pullPc EXCEPT ![h] = pc], Readmit(h, ok),
             roundPc' \in {"idle", "pulling", "raised"}, weights' \in [Handles -> Nat],
             UNCHANGED <<reservedLoad, idle, target, pulls>>
      PROVE  RouterInv'
  <2>1. pullPc' \in [Handles -> PullPcs] /\ pulls' \in 0..MaxPulls
    BY <1>0, <1>8 DEF RouterTypeOK, PullPcs
  <2>2. \A k \in Handles : pullPc'[k] \in {"drain_wait", "woken", "pulling"} =>
          k \notin {h} /\ pullPc'[k] = pullPc[k]
    BY <1>0, <1>8 DEF RouterTypeOK
  <2>3. CASE HotSwap
    BY <1>4, <1>8, <2>1, <2>3 DEF Readmit, handleVars, callVars
  <2>4. CASE ~HotSwap
    <3>1. SetState({h}, "serving")
      BY <1>8, <2>4 DEF Readmit
    <3> QED BY <1>8, <2>1, <2>2, <2>4, <3>1, PullStepKeepsInv
  <2> QED BY <2>3, <2>4
<1>9. ASSUME NEW h \in Handles, PullReturns(h)
      PROVE  RouterInv'
  <2>1. weights' \in [Handles -> Nat] /\ roundPc' \in {"idle", "pulling", "raised"}
    BY <1>0, <1>9 DEF PullReturns, RouterTypeOK
  <2> QED BY <1>8, <1>9, <2>1 DEF PullReturns
<1>10. ASSUME NEW h \in Handles, PullRaises(h)
      PROVE  RouterInv'
  <2>1. weights' \in [Handles -> Nat] /\ roundPc' \in {"idle", "pulling", "raised"}
    BY <1>0, <1>10 DEF PullRaises, RouterTypeOK
  <2> QED BY <1>8, <1>10, <2>1 DEF PullRaises
<1>11. CASE UNCHANGED vars
  <2>1. \A h \in Handles : InFlight(h)' = InFlight(h)
    BY <1>11 DEF InFlight, vars, callVars
  <2> QED
    BY <1>0, <1>11, <2>1
      DEF RouterInv, RouterTypeOK, LoadAccounting, DrainInv, DrainedWhilePulling,
          NoRouteAssertion, Candidates, vars, handleVars, callVars, pullVars
<1> QED
  BY <1>1, <1>2, <1>3, <1>5, <1>6, <1>7, <1>9, <1>10, <1>11 DEF Next, Finished

(* The router's invariant holds in every reachable state.                  *)
THEOREM RouterInvariant == Spec => []RouterInv
<1>1. Init => RouterInv
  BY RouterInvInit
<1>2. RouterInv /\ [Next]_vars => RouterInv'
  BY RouterInvStep
<1> QED BY <1>1, <1>2, PTL DEF Spec

(* The reserved load, the idle events and the serving event are exact,     *)
(* whatever fails.                                                         *)
THEOREM LoadsExact == Spec => []LoadAccounting
<1>1. RouterInv => LoadAccounting
  BY DEF RouterInv
<1> QED BY <1>1, RouterInvariant, PTL

(* No pull overlaps a call on a generator that is drained first.           *)
THEOREM PullsAreDrained == Spec => []DrainedWhilePulling
<1>1. RouterInv => DrainedWhilePulling
  BY DEF RouterInv
<1> QED BY <1>1, RouterInvariant, PTL

(* The assertion of _route never fires.                                    *)
THEOREM RouteFindsCandidate == Spec => []NoRouteAssertion
<1>1. RouterInv => NoRouteAssertion
  BY DEF RouterInv
<1> QED BY <1>1, RouterInvariant, PTL

-------------------------------------------------------------------------------
(* The strategies.                                                         *)

(* A dispatched call is sent where the strategy chose.                     *)
LEMMA DispatchChooses ==
  ASSUME NEW c \in Calls, Dispatch(c)
  PROVE  \/ /\ UNCHANGED <<strategyVars, target>>
            /\ callPc' = [callPc EXCEPT ![c] = "asserted"]
         \/ \E h \in Candidates :
              /\ ChooseCandidate(SessionOf[c], reservedLoad, Candidates, h)
              /\ target' = [target EXCEPT ![c] = h]
              /\ callPc' = [callPc EXCEPT ![c] = "dispatched"]
<1>1. CASE Candidates = {}
  BY <1>1 DEF Dispatch
<1>2. CASE Candidates # {}
  BY <1>2 DEF Dispatch
<1>3. QED
  BY <1>1, <1>2

(* Only a call that is sent on moves the strategy or gets a target.        *)
LEMMA StrategyMoves ==
  ASSUME [Next]_vars
  PROVE  \/ UNCHANGED <<strategyVars, target>>
         \/ \E c \in Calls, h \in Candidates :
              /\ ChooseCandidate(SessionOf[c], reservedLoad, Candidates, h)
              /\ target' = [target EXCEPT ![c] = h]
              /\ UNCHANGED state
<1>1. ASSUME NEW c \in Calls, CallArrives(c) \/ CallResumes(c)
      PROVE  \/ UNCHANGED <<strategyVars, target>>
             \/ \E h \in Candidates :
                  /\ ChooseCandidate(SessionOf[c], reservedLoad, Candidates, h)
                  /\ target' = [target EXCEPT ![c] = h]
                  /\ UNCHANGED state
  <2>1. CASE Dispatch(c)
    BY <1>1, <2>1, DispatchChooses DEF CallArrives, CallResumes
  <2>2. CASE ~Dispatch(c)
    BY <1>1, <2>2 DEF CallArrives, CallResumes
  <2>3. QED
    BY <2>1, <2>2
<1>2. ASSUME NEW c \in Calls, NEW result \in {"answered", "raised"}, CallReturns(c, result)
      PROVE  UNCHANGED <<strategyVars, target>>
  BY <1>2 DEF CallReturns
<1>3. CASE PullStartsHot \/ PullStartsDraining
  BY <1>3 DEF PullStartsHot, PullStartsDraining, callVars
<1>4. ASSUME NEW h \in Handles, DrainEnds(h) \/ PullReturns(h) \/ PullRaises(h)
      PROVE  UNCHANGED <<strategyVars, target>>
  BY <1>4 DEF DrainEnds, PullReturns, PullRaises, callVars
<1>5. CASE UNCHANGED vars
  BY <1>5 DEF vars, callVars
<1>6. QED
  BY <1>1, <1>2, <1>3, <1>4, <1>5 DEF Next, Finished

(* Choosing ranks the chosen candidate last and moves up only those that   *)
(* ranked behind it.                                                       *)
LEMMA ChosenLastRanks ==
  ASSUME RecencyInv, NEW h \in Handles
  PROVE  /\ ChosenLast(h) \in [Handles -> Handles]
         /\ \A j, k \in Handles : ChosenLast(h)[j] = ChosenLast(h)[k] => j = k
         /\ ChosenLast(h)[h] = NumCandidates
         /\ \A k \in Handles : ChosenLast(h)[k] <= recency[k] \/ k = h
         /\ \A k \in Handles : recency[k] > recency[h] => ChosenLast(h)[k] = recency[k] - 1
<1>1. /\ recency \in [Handles -> Handles] /\ NumCandidates \in Nat /\ NumCandidates >= 1
      /\ \A j, k \in Handles : recency[j] = recency[k] => j = k
      /\ \A k \in Handles : recency[k] \in 1..NumCandidates
  <2>1. NumCandidates \in Nat /\ NumCandidates >= 1
    BY StrategyAssumption DEF StrategyAssumption
  <2>2. recency \in [Handles -> Handles] /\ \A j, k \in Handles : recency[j] = recency[k] => j = k
    BY DEF RecencyInv
  <2>3. \A k \in Handles : recency[k] \in 1..NumCandidates
    BY <2>2 DEF Handles
  <2>4. QED
    BY <2>1, <2>2, <2>3
<1>2. \A k \in Handles :
        ChosenLast(h)[k] = IF k = h THEN NumCandidates
                           ELSE IF recency[k] > recency[h] THEN recency[k] - 1
                           ELSE recency[k]
  BY DEF ChosenLast
<1>3. \A k \in Handles : ChosenLast(h)[k] \in 1..NumCandidates
  BY <1>1, <1>2
<1>4. ChosenLast(h) \in [Handles -> Handles]
  BY <1>3 DEF ChosenLast, Handles
<1>5. \A k \in Handles : k # h => ChosenLast(h)[k] < NumCandidates
  BY <1>1, <1>2
<1>6. \A j, k \in Handles : ChosenLast(h)[j] = ChosenLast(h)[k] => j = k
  <2> SUFFICES ASSUME NEW j \in Handles, NEW k \in Handles,
                      ChosenLast(h)[j] = ChosenLast(h)[k]
               PROVE  j = k
    OBVIOUS
  <2>1. CASE j = h \/ k = h
    BY <1>1, <1>2, <1>5, <2>1
  <2>2. CASE j # h /\ k # h
    <3>1. recency[j] # recency[h] /\ recency[k] # recency[h]
      BY <1>1, <2>2
    <3>2. recency[j] = recency[k]
      BY <1>1, <1>2, <2>2, <3>1
    <3>3. QED
      BY <1>1, <3>2
  <2>3. QED
    BY <2>1, <2>2
<1>7. \A k \in Handles : ChosenLast(h)[k] <= recency[k] \/ k = h
  BY <1>1, <1>2
<1>8. \A k \in Handles : recency[k] > recency[h] => ChosenLast(h)[k] = recency[k] - 1
  BY <1>1, <1>2
<1>9. QED
  BY <1>1, <1>2, <1>4, <1>6, <1>7, <1>8

(* A tied candidate that loses moves up by one rank.                       *)
LEMMA LeastLoadedKeepsRecency ==
  ASSUME RecencyInv, NEW load, NEW candidates \in SUBSET Handles, NEW h \in candidates,
         ChooseLeastLoaded(load, candidates, h)
  PROVE  RecencyInv'
<1>1. /\ recency \in [Handles -> Handles] /\ NumCandidates \in Nat
      /\ \A j, k \in Handles : recency[j] = recency[k] => j = k
      /\ passedOver \in [Handles -> Nat]
      /\ \A k \in Handles : passedOver[k] + recency[k] <= NumCandidates
      /\ \A k \in Handles : recency[k] \in Nat
  <2>1. NumCandidates \in Nat
    BY StrategyAssumption DEF StrategyAssumption
  <2>2. /\ recency \in [Handles -> Handles] /\ passedOver \in [Handles -> Nat]
        /\ \A j, k \in Handles : recency[j] = recency[k] => j = k
    BY DEF RecencyInv
  <2>3. \A k \in Handles : passedOver[k] + recency[k] <= NumCandidates
    BY Zenon DEF RecencyInv
  <2>4. \A k \in Handles : recency[k] \in Nat
    BY <2>1, <2>2 DEF Handles
  <2>5. QED
    BY <2>1, <2>2, <2>3, <2>4
<1>2. /\ recency' = ChosenLast(h)
      /\ passedOver' = [k \in Handles |->
           IF k = h THEN 0
           ELSE IF k \in LeastLoaded(load, candidates) THEN passedOver[k] + 1
           ELSE passedOver[k]]
      /\ \A k \in LeastLoaded(load, candidates) : recency[h] <= recency[k]
  BY DEF ChooseLeastLoaded, LeastLoadedChoice
<1>3. ASSUME NEW k \in Handles
      PROVE  passedOver'[k] \in Nat /\ passedOver'[k] + recency'[k] <= NumCandidates
  <2>1. CASE k = h
    BY <1>1, <1>2, <2>1, ChosenLastRanks
  <2>2. CASE k # h /\ k \in LeastLoaded(load, candidates)
    <3>1. recency[k] > recency[h]
      BY <1>1, <1>2, <2>2
    <3>2. recency'[k] = recency[k] - 1 /\ passedOver'[k] = passedOver[k] + 1
      BY <1>2, <2>2, <3>1, ChosenLastRanks
    <3>3. QED
      BY <1>1, <3>2
  <2>3. CASE k # h /\ k \notin LeastLoaded(load, candidates)
    <3>1. /\ recency'[k] <= recency[k] /\ passedOver'[k] = passedOver[k]
          /\ recency'[k] \in Handles
      BY <1>2, <2>3, ChosenLastRanks
    <3>2. recency'[k] \in Nat
      BY <3>1 DEF Handles
    <3>3. QED
      BY <1>1, <3>1, <3>2
  <2>4. QED
    BY <2>1, <2>2, <2>3
<1>4. passedOver' \in [Handles -> Nat]
  BY <1>2, <1>3
<1>5. /\ recency' \in [Handles -> Handles]
      /\ \A j, k \in Handles : recency'[j] = recency'[k] => j = k
  BY <1>2, ChosenLastRanks
<1>6. QED
  BY <1>3, <1>4, <1>5 DEF RecencyInv

(* RecencyInv is inductive, whatever the strategy.                         *)
LEMMA RecencyStep == RecencyInv /\ [Next]_vars => RecencyInv'
<1> SUFFICES ASSUME RecencyInv, [Next]_vars PROVE RecencyInv'
  OBVIOUS
<1>1. CASE UNCHANGED strategyVars
  BY <1>1 DEF strategyVars, RecencyInv
<1>2. ASSUME NEW c \in Calls, NEW h \in Candidates,
             ChooseCandidate(SessionOf[c], reservedLoad, Candidates, h)
      PROVE  RecencyInv'
  <2>1. Candidates \in SUBSET Handles
    BY DEF Candidates
  <2>2. CASE ChooseLeastLoaded(reservedLoad, Candidates, h)
    BY <2>1, <2>2, LeastLoadedKeepsRecency
  <2>3. CASE UNCHANGED <<recency, passedOver>>
    BY <2>3 DEF RecencyInv
  <2>4. QED
    BY <1>2, <2>2, <2>3 DEF ChooseCandidate, ChooseRoundRobin, ChooseSticky
<1>3. QED
  BY <1>1, <1>2, StrategyMoves

(* Least loaded starves nobody, for any number of generators that come and *)
(* go: a candidate loses a tie at most once to each other one in a row.    *)
THEOREM NobodyStarves == Spec => []NoCandidateStarves
<1>1. Init => RecencyInv
  BY StrategyAssumption DEF Init, StrategyInit, RecencyInv, Handles
<1>2. RecencyInv => NoCandidateStarves
  <2> SUFFICES ASSUME RecencyInv, NEW h \in Handles PROVE passedOver[h] < NumCandidates
    BY DEF NoCandidateStarves
  <2>1. /\ recency[h] \in 1..NumCandidates /\ passedOver[h] \in Nat
        /\ passedOver[h] + recency[h] <= NumCandidates
    BY DEF RecencyInv, Handles
  <2>2. QED
    BY <2>1, StrategyAssumption
<1>3. QED
  BY <1>1, <1>2, RecencyStep, PTL DEF Spec

(* With hot swap no generator ever leaves the candidates.                  *)
LEMMA HotCandidates ==
  ASSUME HotSwap => Candidates = Handles, [Next]_vars
  PROVE  HotSwap' => Candidates' = Handles'
<1> SUFFICES ASSUME HotSwap PROVE state' = state
  BY SetupFixed DEF Candidates, Handles
<1>1. ASSUME NEW c \in Calls
      PROVE  /\ CallArrives(c) => state' = state
             /\ CallResumes(c) => state' = state
             /\ \A result \in {"answered", "raised"} : CallReturns(c, result) => state' = state
  BY DEF CallArrives, CallResumes, CallReturns
<1>2. CASE PullStartsHot \/ PullStartsDraining
  BY <1>2 DEF PullStartsHot, PullStartsDraining, handleVars
<1>3. ASSUME NEW h \in Handles, DrainEnds(h) \/ PullReturns(h) \/ PullRaises(h)
      PROVE  state' = state
  BY <1>3 DEF DrainEnds, PullReturns, PullRaises, Readmit, handleVars
<1>4. CASE UNCHANGED vars
  BY <1>4 DEF vars, handleVars
<1>5. QED
  BY <1>1, <1>2, <1>3, <1>4 DEF Next, Finished

(* Without an eviction a session is pinned once, where its call is sent.   *)
LEMMA StickyPins ==
  ASSUME pin \in [Sessions -> Handles \union {NoHandle}], SessionsFit, setup \in Setups,
         NEW session \in Sessions \union {NoSession}, NEW load, NEW h \in Handles,
         ChooseSticky(session, load, Handles, h)
  PROVE  /\ session \in Sessions => pin'[session] = h /\ pin[session] \in {h, NoHandle}
         /\ \A s \in Sessions : s # session => pin'[s] = pin[s]
         /\ pin' \in [Sessions -> Handles \union {NoHandle}]
<1>1. NoSession \notin Sessions /\ NoHandle \notin Handles
  BY StrategyAssumption DEF Handles, NoHandle
<1>2. CASE session = NoSession
  BY <1>1, <1>2 DEF ChooseSticky, Pinned
<1>3. CASE Pinned(session, Handles)
  BY <1>1, <1>3 DEF ChooseSticky, Pinned
<1>4. CASE session \in Sessions /\ ~Pinned(session, Handles)
  <2>1. Remember(session, h)
    BY <1>1, <1>4 DEF ChooseSticky
  <2>2. ~(Cardinality(Remembered \union {session}) > setup.maxSessions)
    <3>1. Remembered \union {session} \in SUBSET Sessions
      BY <1>4 DEF Remembered
    <3>2. /\ Cardinality(Remembered \union {session}) <= Cardinality(Sessions)
          /\ Cardinality(Remembered \union {session}) \in Nat /\ Cardinality(Sessions) \in Nat
      BY <3>1, FS_Subset, FS_CardinalityType DEF SessionsFit
    <3>3. setup.maxSessions \in Nat
      BY StrategyAssumption
    <3>4. QED
      BY <3>2, <3>3 DEF SessionsFit
  <2>3. pin' = [s \in Sessions |-> IF s = session THEN h ELSE pin[s]]
    BY <2>1, <2>2 DEF Remember
  <2>4. QED
    BY <1>4, <2>3 DEF Pinned
<1>5. QED
  BY <1>2, <1>3, <1>4

(* The types the pins need.                                                *)
LEMMA PinTypes ==
  ASSUME pin \in [Sessions -> Handles \union {NoHandle}], NEW h \in Handles,
         NEW session, NEW load, NEW candidates,
         ChooseCandidate(session, load, candidates, h)
  PROVE  pin' \in [Sessions -> Handles \union {NoHandle}]
<1>1. CASE pin' = pin
  BY <1>1
<1>2. CASE Remember(session, h)
  BY <1>2 DEF Remember
<1>3. QED
  BY <1>1, <1>2 DEF ChooseCandidate, ChooseSticky

(* A session stays pinned where its first call went.                       *)
LEMMA AffinityStep ==
  ASSUME RouterTypeOK, setup \in Setups, AffinityInv, [Next]_vars
  PROVE  AffinityInv'
<1>1. HotSwap' => Candidates' = Handles'
  BY HotCandidates DEF AffinityInv
<1>2. CASE UNCHANGED <<strategyVars, target>>
  BY <1>1, <1>2 DEF AffinityInv, SessionsFit, HotSwap, strategyVars
<1>3. ASSUME NEW c \in Calls, NEW h \in Candidates,
             ChooseCandidate(SessionOf[c], reservedLoad, Candidates, h),
             target' = [target EXCEPT ![c] = h]
      PROVE  AffinityInv'
  <2>1. h \in Handles /\ setup' = setup /\ SessionOf[c] \in Sessions \union {NoSession}
    BY <1>3, RouterAssumption DEF Candidates, ChooseCandidate
  <2>2. pin' \in [Sessions -> Handles \union {NoHandle}]
    BY <1>3, <2>1, PinTypes DEF AffinityInv
  <2>3. ASSUME SessionsFit, NEW d \in Calls, SessionOf[d] \in Sessions, target'[d] # NoHandle
        PROVE  pin'[SessionOf[d]] = target'[d]
    <3>1. ChooseSticky(SessionOf[c], reservedLoad, Handles, h)
      BY <1>3, <2>3 DEF SessionsFit, AffinityInv, ChooseCandidate
    <3>2. /\ SessionOf[c] \in Sessions
               => pin'[SessionOf[c]] = h /\ pin[SessionOf[c]] \in {h, NoHandle}
          /\ \A s \in Sessions : s # SessionOf[c] => pin'[s] = pin[s]
      BY <2>1, <2>3, <3>1, StickyPins DEF AffinityInv
    <3>3. target \in [Calls -> Handles \union {NoHandle}]
      BY DEF RouterTypeOK
    <3>4. CASE d = c
      BY <1>3, <2>3, <3>2, <3>3, <3>4
    <3>5. CASE d # c
      <4>1. target'[d] = target[d] /\ target[d] # NoHandle
        BY <1>3, <2>3, <3>3, <3>5
      <4>2. pin[SessionOf[d]] = target[d]
        BY <2>3, <4>1 DEF AffinityInv
      <4>3. QED
        BY <2>3, <3>2, <4>1, <4>2
    <3>6. QED
      BY <3>4, <3>5
  <2>4. SessionsFit' <=> SessionsFit
    BY <2>1 DEF SessionsFit, HotSwap
  <2>5. QED
    BY <1>1, <2>2, <2>3, <2>4 DEF AffinityInv
<1>4. QED
  BY <1>2, <1>3, StrategyMoves

(* While all sessions fit in the sticky map and no generator drains, all   *)
(* calls of a session go to one generator, for every number of them.       *)
THEOREM SessionsKeepGenerator == Spec => []SessionAffinity
<1> DEFINE Inv == RouterInv /\ setup \in Setups /\ AffinityInv
<1>1. Init => Inv
  <2> SUFFICES ASSUME Init PROVE AffinityInv
    BY RouterInvInit DEF Init, StrategyInit
  <2>1. QED
    BY DEF Init, StrategyInit, AffinityInv, Candidates
<1>2. Inv /\ [Next]_vars => Inv'
  <2> SUFFICES ASSUME Inv, [Next]_vars PROVE Inv'
    OBVIOUS
  <2>1. setup' \in Setups
    <3>1. UNCHANGED strategyVars => setup' = setup
      BY DEF strategyVars
    <3>2. QED
      BY <3>1, StrategyMoves DEF ChooseCandidate
  <2>2. QED
    BY <2>1, RouterInvStep, AffinityStep DEF RouterInv
<1>3. Inv => SessionAffinity
  <2> SUFFICES ASSUME Inv, SessionsFit, NEW c \in Calls, NEW d \in Calls,
                      SessionOf[c] = SessionOf[d], SessionOf[c] # NoSession,
                      target[c] # NoHandle, target[d] # NoHandle
               PROVE  target[c] = target[d]
    BY DEF SessionAffinity
  <2>1. SessionOf[c] \in Sessions
    BY RouterAssumption
  <2>2. QED
    BY <2>1 DEF AffinityInv
<1>4. QED
  BY <1>1, <1>2, <1>3, PTL DEF Spec

-------------------------------------------------------------------------------
(* The draining router implements GeneratorPool.                           *)

(* A step that answers no call and applies no weights is invisible.        *)
LEMMA PoolStutter ==
  ASSUME HotSwap' = HotSwap, UNCHANGED <<target, weights>>,
         \A c \in Calls : \A pc \in {"dispatched", "answered", "raised"} :
           callPc'[c] = pc <=> callPc[c] = pc
  PROVE  UNCHANGED Pool!poolVars
<1>1. \A h \in Handles : InFlight(h)' = InFlight(h)
  BY DEF InFlight
<1>2. {c \in Calls : callPc'[c] \in {"answered", "raised"}}
        = {c \in Calls : callPc[c] \in {"answered", "raised"}}
  OBVIOUS
<1>3. QED
  BY <1>1, <1>2 DEF Pool!poolVars

(* A call that is sent on is accepted by the generator it is sent to.      *)
LEMMA DispatchRefines ==
  ASSUME RouterInv, ~HotSwap, HotSwap' = HotSwap, NEW c \in Calls,
         callPc[c] \in {"new", "woken"}, serving, Dispatch(c), UNCHANGED weights
  PROVE  Pool!PoolNext
<1>1. PICK h \in Handles :
        /\ state[h] = "serving"
        /\ Reserve(h)
        /\ target' = [target EXCEPT ![c] = h]
        /\ callPc' = [callPc EXCEPT ![c] = "dispatched"]
  BY DispatchSends
<1>2. callPc \in [Calls -> CallPcs] /\ target \in [Calls -> Handles \union {NoHandle}]
  BY DEF RouterInv, RouterTypeOK
<1>3. \A k \in Handles :
        InFlight(k)' = IF k = h THEN InFlight(k) \union {c} ELSE InFlight(k)
  BY <1>1, <1>2 DEF InFlight
<1>4. \A k \in Handles : c \notin InFlight(k)
  BY DEF InFlight
<1>5. {d \in Calls : callPc'[d] \in {"answered", "raised"}}
        = {d \in Calls : callPc[d] \in {"answered", "raised"}}
  BY <1>1, <1>2
<1>6. Pool!Accept(c, h)
  BY <1>1, <1>3, <1>4, <1>5 DEF Pool!Accept
<1>7. QED
  BY <1>1, <1>6 DEF Pool!PoolNext

(* A call that returns is completed by its generator.                      *)
LEMMA ReturnRefines ==
  ASSUME RouterInv, ~HotSwap, HotSwap' = HotSwap, NEW c \in Calls,
         NEW result \in {"answered", "raised"}, CallReturns(c, result)
  PROVE  Pool!PoolNext
<1>1. /\ callPc[c] = "dispatched" /\ callPc' = [callPc EXCEPT ![c] = result]
      /\ UNCHANGED <<target, weights>>
  BY DEF CallReturns
<1>2. callPc \in [Calls -> CallPcs] /\ target \in [Calls -> Handles \union {NoHandle}]
  BY DEF RouterInv, RouterTypeOK
<1>3. PICK h \in Handles : target[c] = h
  BY <1>1, <1>2 DEF RouterInv, DrainInv
<1>4. \A k \in Handles : InFlight(k)' = IF k = h THEN InFlight(k) \ {c} ELSE InFlight(k)
  BY <1>1, <1>2, <1>3 DEF InFlight
<1>5. c \in InFlight(h)
  BY <1>1, <1>3 DEF InFlight
<1>6. {d \in Calls : callPc'[d] \in {"answered", "raised"}}
        = {d \in Calls : callPc[d] \in {"answered", "raised"}} \union {c}
  BY <1>1, <1>2
<1>7. Pool!Complete(c, h)
  BY <1>1, <1>4, <1>5, <1>6 DEF Pool!Complete
<1>8. QED
  BY <1>3, <1>7 DEF Pool!PoolNext

(* A pull that returns loads new weights into a generator without calls.   *)
LEMMA PullRefines ==
  ASSUME RouterInv, ~HotSwap, HotSwap' = HotSwap, NEW h \in Handles, PullReturns(h)
  PROVE  Pool!PoolNext
<1>1. /\ SetState({h}, "serving") /\ target' = target /\ pullPc[h] = "pulling"
      /\ weights' = [weights EXCEPT ![h] = @ + 1]
  BY DEF PullReturns, Readmit
<1>2. \A c \in Calls : \A pc \in {"dispatched", "answered", "raised"} :
        callPc'[c] = pc <=> callPc[c] = pc
  BY <1>1 DEF SetState, WakeCalls
<1>3. \A k \in Handles : InFlight(k)' = InFlight(k)
  BY <1>1, <1>2 DEF InFlight
<1>4. {d \in Calls : callPc'[d] \in {"answered", "raised"}}
        = {d \in Calls : callPc[d] \in {"answered", "raised"}}
  BY <1>2
<1>5. InFlight(h) = {}
  BY <1>1 DEF RouterInv, DrainedWhilePulling
<1>6. Pool!Load(h)
  BY <1>1, <1>3, <1>4, <1>5 DEF Pool!Load
<1>7. QED
  BY <1>6 DEF Pool!PoolNext

(* Without hot swap, a router over any strategy serves each call once, on  *)
(* one generator and under one version of its weights.                     *)
THEOREM RouterIsPool == Spec => ImplementsPool
<1>1. Init => Pool!PoolInit
  BY DEF Init, InFlight, Pool!PoolInit
<1>2. RouterInv /\ [Next]_vars => [Pool!PoolNext]_Pool!poolVars
  <2> SUFFICES ASSUME RouterInv, [Next]_vars
               PROVE  Pool!PoolNext \/ UNCHANGED Pool!poolVars
    OBVIOUS
  <2> HotSwap' = HotSwap
    BY SetupFixed
  <2>1. CASE HotSwap
    BY <2>1 DEF Pool!poolVars
  <2>2. CASE ~HotSwap
    <3>1. ASSUME NEW c \in Calls, CallArrives(c)
          PROVE  Pool!PoolNext \/ UNCHANGED Pool!poolVars
      <4>1. CASE serving
        BY <2>2, <3>1, <4>1, DispatchRefines DEF CallArrives, pullVars
      <4>2. CASE ~serving
        <5>1. /\ callPc[c] = "new" /\ callPc' = [callPc EXCEPT ![c] = "waiting"]
              /\ UNCHANGED <<target, weights>> /\ callPc \in [Calls -> CallPcs]
          BY <3>1, <4>2 DEF CallArrives, pullVars, RouterInv, RouterTypeOK
        <5>2. QED
          BY <5>1, PoolStutter
      <4>3. QED
        BY <4>1, <4>2
    <3>2. ASSUME NEW c \in Calls, CallResumes(c)
          PROVE  Pool!PoolNext
      <4>1. serving
        BY <3>2 DEF CallResumes, RouterInv, DrainInv
      <4>2. QED
        BY <2>2, <3>2, <4>1, DispatchRefines DEF CallResumes, pullVars
    <3>3. ASSUME NEW c \in Calls, NEW result \in {"answered", "raised"},
                 CallReturns(c, result)
          PROVE  Pool!PoolNext
      BY <2>2, <3>3, ReturnRefines
    <3>4. CASE PullStartsHot
      BY <2>2, <3>4 DEF PullStartsHot
    <3>5. CASE PullStartsDraining
      <4>1. SetState(Handles, "syncing") /\ UNCHANGED <<target, weights>>
        BY <3>5 DEF PullStartsDraining
      <4>2. QED
        BY <4>1, PoolStutter DEF SetState, WakeCalls
    <3>6. ASSUME NEW h \in Handles, DrainEnds(h) PROVE UNCHANGED Pool!poolVars
      BY <3>6, PoolStutter DEF DrainEnds, callVars
    <3>7. ASSUME NEW h \in Handles, PullReturns(h) PROVE Pool!PoolNext
      BY <2>2, <3>7, PullRefines
    <3>8. ASSUME NEW h \in Handles, PullRaises(h) PROVE UNCHANGED Pool!poolVars
      <4>1. SetState({h}, "serving") /\ UNCHANGED <<target, weights>>
        BY <2>2, <3>8 DEF PullRaises, Readmit
      <4>2. QED
        BY <4>1, PoolStutter DEF SetState, WakeCalls
    <3>9. CASE UNCHANGED vars
      BY <3>9, PoolStutter DEF vars, callVars, pullVars
    <3>10. QED
      BY <3>1, <3>2, <3>3, <3>4, <3>5, <3>6, <3>7, <3>8, <3>9 DEF Next, Finished
  <2>3. QED
    BY <2>1, <2>2
<1>3. QED
  BY <1>1, <1>2, RouterInvariant, PTL DEF Spec, ImplementsPool, Pool!PoolSpec
================================================================================
