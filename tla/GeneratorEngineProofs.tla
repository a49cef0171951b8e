------------------------- MODULE GeneratorEngineProofs -------------------------
(***************************************************************************)
(* EngineInv holds in every reachable state, for any number of ranks,      *)
(* requests and pulls and any set of runs.                                 *)
(***************************************************************************)
EXTENDS GeneratorEngine, FiniteSetTheorems, TLAPS

(* Rank 0 is a rank, and the markers are no values.                        *)
LEMMA RankTypes ==
  /\ 0 \in Ranks /\ Ranks \subseteq Nat /\ NoRank \notin Ranks
  /\ IsFiniteSet(Ranks) /\ IsFiniteSet(Requests)
  /\ Versions \subseteq Nat /\ NoVersion \notin Versions /\ NoVersion \in Int
  /\ 0 \in Versions
BY EngineAssumption, FS_Interval DEF EngineAssumption, Ranks, Versions, NoRank, NoVersion

(* The idle decision is a decision.                                        *)
LEMMA NoDecisionType == NoDecision \in Decisions /\ WellFormed(NoDecision)
BY DEF NoDecision, Decisions, WellFormed

(* What a step of rank r does when it samples batch and finishes done.     *)
EngineEffect(r, batch, done) ==
  /\ done \subseteq batch
  /\ sampled' = [q \in Requests |->
       IF q \in batch THEN sampled[q] \union {rankVersion[r]} ELSE sampled[q]]
  /\ engine' = [engine EXCEPT ![r] = @ \ done]
  /\ r = 0 => Resolve([q \in done |-> rankVersion[r]]) /\ UNCHANGED port
  /\ r # 0 => /\ port' = IF done = {} THEN port
                          ELSE port \union {[q \in done |-> rankVersion[r]]}
              /\ UNCHANGED <<callVars, futureVars>>

(* What is known of an EngineStep of rank r, batch and finished requests   *)
(* named.                                                                  *)
LEMMA StepEffect ==
  ASSUME NEW r \in Ranks, EngineStep(r)
  PROVE  \E batch \in SUBSET engine[r], done \in SUBSET engine[r] : EngineEffect(r, batch, done)
<1>1. PICK batch \in SUBSET engine[r] : \E done \in SUBSET batch : EngineEffect(r, batch, done)
  BY DEF EngineStep, EngineEffect
<1> QED BY <1>1

-------------------------------------------------------------------------------
(* Types.                                                                  *)

(* Types at the start.                                                     *)
LEMMA TypeInit == Init => TypeOK
<1> SUFFICES ASSUME Init PROVE TypeOK
  OBVIOUS
<1> USE RankTypes, NoDecisionType
<1>1. setup.burst \in Nat \ {0} /\ stepsLeft \in [Ranks -> 0..Burst]
  BY EngineAssumption DEF Init, EngineAssumption, Burst
<1>2. loopPc \in [Ranks -> {"deciding", "broadcasting", "receiving", "pulling",
                            "stepping", "stopped", "crashed"}]
  BY DEF Init
<1>3. pulls \in Versions /\ rankVersion \in [Ranks -> Versions]
  BY DEF Init
<1> QED BY <1>1, <1>2, <1>3 DEF Init, TypeOK

(* The calls of the endpoints keep the types.                              *)
LEMMA TypeEndpoints ==
  ASSUME TypeOK,
         (\E q \in Requests : Generate(q)) \/ PullModelStateDict \/ CloseRequested
  PROVE  TypeOK'
<1> USE RankTypes
<1>1. ASSUME NEW q \in Requests, Generate(q) PROVE TypeOK'
  <2>1. CASE LoopStarted
    <3>1. rankVersion[0] \in Versions
      BY DEF TypeOK
    <3>2. /\ calledAt' \in [Requests -> Versions \union {NoVersion}]
          /\ callPc' \in [Requests -> {"new", "waiting", "answered", "failed", "rejected"}]
      BY <1>1, <2>1, <3>1 DEF Generate, TypeOK
    <3> QED BY <1>1, <2>1, <3>2 DEF Generate, TypeOK, rankVars, portVars, Burst
  <2>2. CASE ~LoopStarted
    BY <1>1, <2>2 DEF Generate, TypeOK, rankVars, portVars, Burst
  <2> QED BY <2>1, <2>2
<1>2. CASE PullModelStateDict
  <2>1. pulls + 1 \in Versions
    BY <1>2, EngineAssumption DEF PullModelStateDict, TypeOK, Versions, EngineAssumption
  <2> QED BY <1>2, <2>1 DEF PullModelStateDict, TypeOK, callVars, futureVars, rankVars, portVars, Burst
<1>3. CASE CloseRequested
  BY <1>3 DEF CloseRequested, TypeOK, callVars, futureVars, rankVars, portVars, Burst
<1> QED BY <1>1, <1>2, <1>3

(* The decisions of rank 0 keep the types.                                 *)
LEMMA TypeDecide ==
  ASSUME TypeOK, DecideToClose \/ DecideToPull \/ DecideToStep
  PROVE  TypeOK'
<1> USE RankTypes
<1>1. ASSUME NEW d \in Decisions, DecideWith(d),
             queued' \subseteq Requests,
             reservation' \in [Requests -> Ranks \union {NoRank}]
      PROVE  TypeOK'
  BY <1>1 DEF DecideWith, TypeOK, callVars, portVars, Burst
<1>2. CASE DecideToClose
  <2>1. [NoDecision EXCEPT !.action = "close"] \in Decisions
    BY NoDecisionType DEF Decisions
  <2> QED BY <1>1, <1>2, <2>1 DEF DecideToClose, TypeOK
<1>3. CASE DecideToPull
  <2>1. [NoDecision EXCEPT !.action = "pull", !.version = pullRequest] \in Decisions
    BY NoDecisionType DEF Decisions, TypeOK
  <2> QED BY <1>1, <1>3, <2>1 DEF DecideToPull, TypeOK
<1>4. CASE DecideToStep
  <2>1. PICK rankOf \in [queued -> Ranks] :
          /\ DecideWith([NoDecision EXCEPT
               !.action = "step",
               !.admit = [r \in Ranks |-> {q \in queued : rankOf[q] = r}]])
          /\ Reserve(rankOf)
    BY <1>4 DEF DecideToStep
  <2>2. [r \in Ranks |-> {q \in queued : rankOf[q] = r}] \in [Ranks -> SUBSET Requests]
    BY DEF TypeOK
  <2>3. [NoDecision EXCEPT !.action = "step",
           !.admit = [r \in Ranks |-> {q \in queued : rankOf[q] = r}]] \in Decisions
    BY <2>2, NoDecisionType DEF Decisions
  <2>4. reservation' \in [Requests -> Ranks \union {NoRank}]
    BY <2>1 DEF Reserve, TypeOK
  <2> QED BY <1>1, <1>4, <2>1, <2>3, <2>4 DEF DecideToStep
<1> QED BY <1>2, <1>3, <1>4
(* The loops of the ranks keep the types.                                  *)
LEMMA TypeLoops ==
  ASSUME TypeOK,
         Broadcast \/ \E r \in Ranks : Receive(r) \/ Pulled(r) \/ BurstEnds(r),
         LoopInv
  PROVE  TypeOK'
<1> USE RankTypes
<1>0. Burst \in 0..Burst /\ \A r \in Ranks : NextPc(r) \in {"deciding", "receiving"}
  BY EngineAssumption DEF TypeOK, EngineAssumption, Burst, NextPc
<1>1. CASE Broadcast
  <2>1. AfterReceipt(decision[0].action) \in {"stopped", "pulling", "stepping"}
    BY <1>1 DEF Broadcast, TypeOK, LoopInv, Decisions, AfterReceipt
  <2>2. decision[0] \in Decisions /\ decision[0].admit[0] \subseteq Requests
    BY DEF TypeOK, Decisions
  <2> QED BY <1>0, <1>1, <2>1, <2>2 DEF Broadcast, TypeOK, callVars, inboxVars, portVars, Burst
<1>2. ASSUME NEW r \in Ranks, Receive(r) PROVE TypeOK'
  <2>1. AfterReceipt(sent.action) \in {"stopped", "pulling", "stepping"}
    BY <1>2 DEF Receive, TypeOK, LoopInv, Decisions, AfterReceipt
  <2>2. sent.admit[r] \subseteq Requests
    BY DEF TypeOK, Decisions
  <2> QED BY <1>0, <1>2, <2>1, <2>2
           DEF Receive, TypeOK, callVars, inboxVars, futureVars, portVars, Burst
<1>3. ASSUME NEW r \in Ranks, Pulled(r) PROVE TypeOK'
  <2>1. decision[r].version \in Versions
    BY <1>3 DEF Pulled, TypeOK, LoopInv, WellFormed, Decisions
  <2> QED BY <1>0, <1>3, <2>1 DEF Pulled, TypeOK, callVars, futureVars, portVars, Burst
<1>4. ASSUME NEW r \in Ranks, BurstEnds(r) PROVE TypeOK'
  BY <1>0, <1>4 DEF BurstEnds, TypeOK, callVars, inboxVars, futureVars, portVars, Burst
<1> QED BY <1>1, <1>2, <1>3, <1>4

(* Resolving futures keeps the types of what it changes.                   *)
LEMMA TypeResolve ==
  ASSUME TypeOK, NEW done, DOMAIN done \subseteq Requests,
         \A q \in DOMAIN done : done[q] \in Versions, Resolve(done)
  PROVE  /\ futures' \subseteq Requests
         /\ callPc' \in [Requests -> {"new", "waiting", "answered", "failed", "rejected"}]
         /\ completion' \in [Requests -> [min : Versions \union {NoVersion},
                                         max : Versions \union {NoVersion}]]
         /\ reservation' \in [Requests -> Ranks \union {NoRank}]
         /\ stamp' = stamp /\ calledAt' = calledAt
BY DEF Resolve, Release, TypeOK

(* The steps of the engines and the answers of the port keep the types.    *)
LEMMA TypeAnswers ==
  ASSUME TypeOK, (\E r \in Ranks : EngineStep(r)) \/ DrainResult
  PROVE  TypeOK'
<1> USE RankTypes
<1>1. ASSUME NEW r \in Ranks, EngineStep(r) PROVE TypeOK'
  <2>1. PICK batch \in SUBSET engine[r], done \in SUBSET engine[r] : EngineEffect(r, batch, done)
    BY <1>1, StepEffect
  <2> DEFINE completions == [q \in done |-> rankVersion[r]]
  <2>2. /\ rankVersion[r] \in Versions /\ done \subseteq Requests /\ batch \subseteq Requests
        /\ completions \in [done -> Versions]
    BY DEF TypeOK
  <2>3. /\ sampled' \in [Requests -> SUBSET Versions]
        /\ engine' \in [Ranks -> SUBSET Requests]
        /\ stepsLeft' \in [Ranks -> 0..Burst]
    <3>1. stepsLeft[r] \in 0..Burst /\ stepsLeft[r] > 0 /\ Burst \in Nat
      BY <1>1, EngineAssumption DEF EngineStep, TypeOK, EngineAssumption, Burst
    <3>2. stepsLeft' \in [Ranks -> 0..Burst] /\ Burst' = Burst
      BY <1>1, <3>1 DEF EngineStep, TypeOK, Burst
    <3>3. sampled' \in [Requests -> SUBSET Versions]
      BY <2>1, <2>2 DEF EngineEffect, TypeOK
    <3>4. engine' \in [Ranks -> SUBSET Requests]
      BY <2>1, <2>2 DEF EngineEffect, TypeOK
    <3> QED BY <3>2, <3>3, <3>4
  <2>4. port' \subseteq UNION {[answers -> Versions] : answers \in SUBSET Requests}
    <3>1. completions \in UNION {[answers -> Versions] : answers \in SUBSET Requests}
      BY <2>2
    <3> QED BY <2>1, <3>1 DEF TypeOK, EngineEffect
  <2>5. /\ futures' \subseteq Requests
        /\ callPc' \in [Requests -> {"new", "waiting", "answered", "failed", "rejected"}]
        /\ completion' \in [Requests -> [min : Versions \union {NoVersion},
                                        max : Versions \union {NoVersion}]]
        /\ reservation' \in [Requests -> Ranks \union {NoRank}]
        /\ stamp' = stamp /\ calledAt' = calledAt
    <3>1. CASE r = 0
      <4>1. DOMAIN completions \subseteq Requests /\ \A q \in DOMAIN completions : completions[q] \in Versions
        BY <2>2
      <4> HIDE DEF completions
      <4>2. Resolve(completions)
        BY <2>1, <3>1 DEF completions, EngineEffect
      <4> QED BY <4>1, <4>2, TypeResolve
    <3>2. CASE r # 0
      BY <2>1, <3>2 DEF TypeOK, callVars, futureVars, EngineEffect
    <3> QED BY <3>1, <3>2
  <2> QED BY <1>1, <2>3, <2>4, <2>5 DEF EngineStep, TypeOK, inboxVars, Burst
<1>2. CASE DrainResult
  <2>1. PICK done \in port :
          /\ port' = port \ {done}
          /\ IF DOMAIN done \subseteq futures
             THEN Resolve(done) /\ UNCHANGED drain
             ELSE drain' = "failed" /\ UNCHANGED <<callVars, futureVars>>
    BY <1>2 DEF DrainResult
  <2>2. DOMAIN done \subseteq Requests /\ \A q \in DOMAIN done : done[q] \in Versions
    BY DEF TypeOK
  <2>3. CASE DOMAIN done \subseteq futures
    BY <1>2, <2>1, <2>2, <2>3, TypeResolve DEF DrainResult, TypeOK, inboxVars, rankVars, Burst
  <2>4. CASE ~(DOMAIN done \subseteq futures)
    BY <1>2, <2>1, <2>4 DEF DrainResult, TypeOK, inboxVars, rankVars, callVars, futureVars, Burst
  <2> QED BY <2>3, <2>4
<1> QED BY <1>1, <1>2

(* Crash and close() keep the types.                                       *)
LEMMA TypeTeardown ==
  ASSUME TypeOK, Crash \/ LoopEnded \/ CloseReturns \/ UNCHANGED vars
  PROVE  TypeOK'
<1> USE RankTypes
<1>1. CASE Crash
  BY <1>1 DEF Crash, FailFutures, TypeOK, portVars, Burst
<1>2. CASE LoopEnded
  BY <1>2 DEF LoopEnded, TypeOK, callVars, futureVars, rankVars, Burst
<1>3. CASE CloseReturns
  BY <1>3 DEF CloseReturns, FailFutures, TypeOK, rankVars, portVars, Burst
<1>4. CASE UNCHANGED vars
  BY <1>4 DEF vars, callVars, inboxVars, futureVars, rankVars, portVars, TypeOK, Burst
<1> QED BY <1>1, <1>2, <1>3, <1>4

(* Every step keeps the types.                                             *)
LEMMA TypeStep == TypeOK /\ LoopInv /\ [Next]_vars => TypeOK'
<1> SUFFICES ASSUME TypeOK, LoopInv, [Next]_vars PROVE TypeOK'
  OBVIOUS
<1>1. CASE Quiet
  BY <1>1, TypeTeardown DEF Quiet
<1> QED BY <1>1, TypeEndpoints, TypeDecide, TypeLoops, TypeAnswers, TypeTeardown DEF Next

-------------------------------------------------------------------------------
(* The decisions and the loops.                                            *)

(* No rank has anything to do at the start.                                *)
LEMMA LoopInit == Init => LoopInv
BY RankTypes, NoDecisionType DEF Init, LoopInv, Followers, NoDecision

(* A step that touches neither loops nor decisions nor close().            *)
LEMMA LoopFrame ==
  ASSUME LoopInv, UNCHANGED <<loopPc, decision, sent, delivered>>,
         UNCHANGED <<closePc, drain>>
  PROVE  LoopInv'
BY DEF LoopInv, WellFormed

(* A decision of rank 0 keeps the loops in agreement: every follower has   *)
(* taken the one before.                                                   *)
LEMMA LoopDecide ==
  ASSUME TypeOK, LoopInv, DecideToClose \/ DecideToPull \/ DecideToStep
  PROVE  LoopInv'
<1> USE RankTypes
<1>1. ASSUME NEW d \in Decisions, WellFormed(d), d.action # "none", DecideWith(d),
             loopPc[0] = "deciding"
      PROVE  LoopInv'
  BY <1>1 DEF DecideWith, LoopInv, TypeOK, Followers, portVars, WellFormed
<1>2. CASE DecideToClose
  <2>1. /\ [NoDecision EXCEPT !.action = "close"] \in Decisions
        /\ WellFormed([NoDecision EXCEPT !.action = "close"])
        /\ [NoDecision EXCEPT !.action = "close"].action # "none"
    BY NoDecisionType DEF Decisions, WellFormed, NoDecision
  <2> QED BY <1>1, <1>2, <2>1 DEF DecideToClose
<1>3. CASE DecideToPull
  <2> DEFINE d == [NoDecision EXCEPT !.action = "pull", !.version = pullRequest]
  <2>1. d \in Decisions /\ WellFormed(d) /\ d.action # "none"
    BY <1>3, NoDecisionType DEF Decisions, TypeOK, DecideToPull, WellFormed, NoDecision
  <2>2. DecideWith(d) /\ loopPc[0] = "deciding"
    BY <1>3 DEF DecideToPull
  <2> HIDE DEF d
  <2> QED BY <1>1, <2>1, <2>2
<1>4. CASE DecideToStep
  <2>1. PICK rankOf \in [queued -> Ranks] :
          DecideWith([NoDecision EXCEPT
            !.action = "step",
            !.admit = [r \in Ranks |-> {q \in queued : rankOf[q] = r}]])
    BY <1>4 DEF DecideToStep
  <2> DEFINE d == [NoDecision EXCEPT !.action = "step",
                     !.admit = [r \in Ranks |-> {q \in queued : rankOf[q] = r}]]
  <2>2. [r \in Ranks |-> {q \in queued : rankOf[q] = r}] \in [Ranks -> SUBSET Requests]
    BY DEF TypeOK
  <2>3. d \in Decisions /\ WellFormed(d) /\ d.action # "none"
    BY <2>2, NoDecisionType DEF Decisions, WellFormed, NoDecision
  <2>4. DecideWith(d) /\ loopPc[0] = "deciding"
    BY <1>4, <2>1 DEF DecideToStep
  <2> HIDE DEF d
  <2> QED BY <1>1, <2>3, <2>4
<1> QED BY <1>2, <1>3, <1>4

(* Every step keeps the loops in agreement.                                *)
LEMMA LoopStep == TypeOK /\ LoopInv /\ [Next]_vars => LoopInv'
<1> SUFFICES ASSUME TypeOK, LoopInv, [Next]_vars PROVE LoopInv'
  OBVIOUS
<1> USE RankTypes
<1>1. CASE (\E q \in Requests : Generate(q)) \/ PullModelStateDict
  BY <1>1, LoopFrame DEF Generate, PullModelStateDict, rankVars, portVars
<1>2. CASE CloseRequested
  BY <1>2 DEF CloseRequested, LoopInv, rankVars, portVars, WellFormed
<1>3. CASE DecideToClose \/ DecideToPull \/ DecideToStep
  BY <1>3, LoopDecide
<1>4. CASE Broadcast
  <2>1. /\ AfterReceipt(decision[0].action) \in {"stopped", "pulling", "stepping"}
        /\ AfterReceipt(decision[0].action) = "pulling" <=> decision[0].action = "pull"
    BY <1>4 DEF Broadcast, TypeOK, LoopInv, Decisions, AfterReceipt
  <2> QED BY <1>4, <2>1 DEF Broadcast, LoopInv, TypeOK, Followers, inboxVars, portVars, WellFormed
<1>5. ASSUME NEW r \in Ranks, Receive(r) PROVE LoopInv'
  <2>1. /\ AfterReceipt(sent.action) \in {"stopped", "pulling", "stepping"}
        /\ AfterReceipt(sent.action) = "pulling" <=> sent.action = "pull"
    BY <1>5 DEF Receive, TypeOK, LoopInv, Decisions, AfterReceipt
  <2> QED BY <1>5, <2>1 DEF Receive, LoopInv, TypeOK, Followers, inboxVars, portVars, WellFormed
<1>6. ASSUME NEW r \in Ranks, Pulled(r) \/ BurstEnds(r) PROVE LoopInv'
  BY <1>6 DEF Pulled, BurstEnds, LoopInv, TypeOK, Followers, NextPc, inboxVars, portVars, WellFormed
<1>7. ASSUME NEW r \in Ranks, EngineStep(r) PROVE LoopInv'
  BY <1>7, LoopFrame DEF EngineStep, inboxVars
<1>8. CASE DrainResult
  BY <1>8 DEF DrainResult, LoopInv, inboxVars, rankVars, WellFormed
<1>9. CASE Crash \/ LoopEnded \/ CloseReturns
  BY <1>9 DEF Crash, LoopEnded, CloseReturns, LoopInv, TypeOK, Followers, rankVars, portVars, WellFormed
<1>10. CASE UNCHANGED vars
  BY <1>10, LoopFrame DEF vars, rankVars, inboxVars, portVars
<1> QED BY <1>1, <1>2, <1>3, <1>4, <1>5, <1>6, <1>7, <1>8, <1>9, <1>10 DEF Next, Quiet

-------------------------------------------------------------------------------
(* Versions.                                                               *)

(* All versions are 0 at the start.                                        *)
LEMMA VersionInit == Init => VersionInv
<1> SUFFICES ASSUME Init PROVE VersionInv
  OBVIOUS
<1> USE RankTypes
<1>1. \A r \in Ranks : rankVersion[r] = 0 /\ Applied(r) = 0 /\ Reaches(r) = 0
  BY DEF Init, Applied, Reaches
<1>2. pulls = 0 /\ pullRequest = NoVersion /\ pullPc = "idle" /\ NoVersion <= 0
      /\ loopPc[0] = "deciding"
  BY DEF Init, NoVersion
<1> QED BY <1>1, <1>2 DEF VersionInv

(* The versions of a rank are naturals once they matter.                   *)
LEMMA VersionTypes ==
  ASSUME TypeOK, LoopInv, NEW r \in Ranks
  PROVE  /\ rankVersion[r] \in Nat /\ Applied(r) \in Nat
         /\ Reaches(r) \in Nat
         /\ pulls \in Nat /\ pullRequest \in Int
<1>1. Versions \subseteq Nat /\ NoVersion \in Int
  BY RankTypes
<1>2. rankVersion[r] \in Versions /\ pulls \in Versions
      /\ pullRequest \in Versions \union {NoVersion}
  BY DEF TypeOK
<1>3. Applied(r) \in Versions
  BY <1>2 DEF Applied, TypeOK, LoopInv, WellFormed, Decisions
<1>4. Reaches(r) \in Versions
  BY <1>3 DEF Reaches, TypeOK, LoopInv, WellFormed, Decisions
<1>5. pullRequest \in Int
  BY <1>1, <1>2
<1>6. \A v \in Versions : v \in Nat
  BY <1>1
<1> QED BY <1>2, <1>3, <1>4, <1>5, <1>6

(* A step that keeps what every rank reaches and the pulls.                *)
LEMMA VersionFrame ==
  ASSUME VersionInv, UNCHANGED <<pulls, pullPc, pullRequest>>,
         \A r \in Ranks : /\ rankVersion'[r] = rankVersion[r]
                          /\ Applied(r)' = Applied(r)
                          /\ Reaches(r)' = Reaches(r),
         loopPc'[0] \in {"broadcasting", "pulling"} /\ decision'[0].action = "pull" =>
           decision'[0].version = pullRequest
  PROVE  VersionInv'
<1>1. Reaches(0)' = Reaches(0)
  BY RankTypes
<1> QED BY <1>1 DEF VersionInv

(* A decision keeps the versions in order: one to pull carries the version *)
(* that was asked for.                                                     *)
LEMMA VersionDecide ==
  ASSUME TypeOK, LoopInv, VersionInv, DecideToClose \/ DecideToPull \/ DecideToStep
  PROVE  VersionInv'
<1> USE RankTypes
<1>1. ASSUME NEW d, DecideWith(d), loopPc[0] = "deciding",
             d.action = "pull" => d.version = pullRequest
      PROVE  VersionInv'
  <2>1. ASSUME NEW r \in Ranks
        PROVE  /\ rankVersion'[r] = rankVersion[r]
               /\ Applied(r)' = Applied(r)
               /\ Reaches(r)' = Reaches(r)
    BY <1>1 DEF DecideWith, TypeOK, Applied, Reaches
  <2>2. decision'[0] = d /\ UNCHANGED <<pulls, pullPc, pullRequest>>
    BY <1>1 DEF DecideWith, TypeOK
  <2> QED BY <1>1, <2>1, <2>2, VersionFrame
<1>2. CASE DecideToClose
  <2> DEFINE d == [NoDecision EXCEPT !.action = "close"]
  <2>1. d.action # "pull"
    BY DEF NoDecision
  <2>2. DecideWith(d) /\ loopPc[0] = "deciding"
    BY <1>2 DEF DecideToClose
  <2> HIDE DEF d
  <2> QED BY <1>1, <2>1, <2>2
<1>3. CASE DecideToPull
  <2> DEFINE d == [NoDecision EXCEPT !.action = "pull", !.version = pullRequest]
  <2>1. d.version = pullRequest
    BY DEF NoDecision
  <2>2. DecideWith(d) /\ loopPc[0] = "deciding"
    BY <1>3 DEF DecideToPull
  <2> HIDE DEF d
  <2> QED BY <1>1, <2>1, <2>2
<1>4. CASE DecideToStep
  <2>1. PICK rankOf \in [queued -> Ranks] :
          DecideWith([NoDecision EXCEPT
            !.action = "step",
            !.admit = [r \in Ranks |-> {q \in queued : rankOf[q] = r}]])
    BY <1>4 DEF DecideToStep
  <2> DEFINE d == [NoDecision EXCEPT !.action = "step",
                     !.admit = [r \in Ranks |-> {q \in queued : rankOf[q] = r}]]
  <2>2. d.action # "pull"
    BY DEF NoDecision
  <2>3. DecideWith(d) /\ loopPc[0] = "deciding"
    BY <1>4, <2>1 DEF DecideToStep
  <2> HIDE DEF d
  <2> QED BY <1>1, <2>2, <2>3
<1> QED BY <1>2, <1>3, <1>4

(* A broadcast pull gives all ranks the same target, which none has        *)
(* passed; any other decision leaves their targets alone.                  *)
LEMMA VersionBroadcast ==
  ASSUME TypeOK, LoopInv, VersionInv, Broadcast
  PROVE  VersionInv'
<1> USE RankTypes
<1>1. /\ loopPc[0] = "broadcasting" /\ \A r \in Ranks : delivered[r]
      /\ sent' = decision[0] /\ \A r \in Followers : ~delivered'[r]
      /\ delivered'[0]
      /\ loopPc'[0] = AfterReceipt(decision[0].action)
      /\ \A r \in Followers : loopPc'[r] = loopPc[r]
      /\ UNCHANGED <<decision, rankVersion, pulls, pullPc, pullRequest>>
  BY DEF Broadcast, TypeOK, LoopInv, Followers, inboxVars
<1>2. AfterReceipt(decision[0].action) = "pulling" <=> decision[0].action = "pull"
  BY <1>1 DEF TypeOK, LoopInv, Decisions, AfterReceipt
<1>3. Ranks = Followers \union {0}
  BY DEF Followers
<1>4. CASE decision[0].action = "pull"
  <2>1. decision[0].version = pullRequest /\ pullRequest # NoVersion
    BY <1>1, <1>4 DEF VersionInv, LoopInv, WellFormed
  <2>2. \A r \in Ranks : Reaches(r)' = pullRequest
    BY <1>1, <1>2, <1>3, <1>4, <2>1 DEF Reaches, Applied
  <2>3. \A r \in Followers : Applied(r)' = Applied(r)
    BY <1>1 DEF Applied
  <2>4. Applied(0)' = pullRequest /\ Applied(0) = rankVersion[0]
    BY <1>1, <1>2, <1>4, <2>1 DEF Applied
  <2>5. ASSUME NEW r \in Ranks
        PROVE  /\ rankVersion[r] <= Applied(r) /\ Applied(r) <= pullRequest
               /\ rankVersion[r] \in Nat /\ Applied(r) \in Nat /\ pullRequest \in Int
               /\ pullRequest <= pulls
    <3>1. Applied(r) <= Reaches(r) /\ Reaches(r) <= pullRequest
      BY <2>1 DEF VersionInv
    <3> QED BY <3>1, VersionTypes DEF VersionInv
  <2>6. /\ rankVersion[0] <= pullRequest
        /\ \A r \in Ranks : rankVersion[r] <= Applied(r)' /\ Applied(r)' <= pullRequest
    BY <1>3, <2>3, <2>4, <2>5
  <2> QED BY <1>1, <1>3, <2>1, <2>2, <2>5, <2>6 DEF VersionInv
<1>5. CASE decision[0].action # "pull"
  <2>1. ASSUME NEW r \in Ranks
        PROVE  Applied(r)' = Applied(r) /\ Reaches(r)' = Reaches(r)
    BY <1>1, <1>2, <1>3, <1>5 DEF Reaches, Applied
  <2> QED BY <1>1, <1>5, <2>1, VersionFrame
<1> QED BY <1>4, <1>5

(* Receiving and applying a decision.                                      *)
LEMMA VersionApply ==
  ASSUME TypeOK, LoopInv, VersionInv, NEW r \in Ranks, Receive(r) \/ Pulled(r) \/ BurstEnds(r)
  PROVE  VersionInv'
<1> USE RankTypes
<1>1. CASE Receive(r)
  <2>1. /\ loopPc[r] = "receiving" /\ ~delivered[r] /\ r # 0 /\ delivered'[r]
        /\ decision'[r] = sent /\ loopPc'[r] = AfterReceipt(sent.action)
        /\ \A k \in Ranks \ {r} : /\ decision'[k] = decision[k] /\ loopPc'[k] = loopPc[k]
                                  /\ delivered'[k] = delivered[k]
        /\ UNCHANGED <<sent, rankVersion, pulls, pullPc, pullRequest>>
    BY <1>1 DEF Receive, TypeOK, LoopInv, inboxVars
  <2>2. AfterReceipt(sent.action) = "pulling" <=> sent.action = "pull"
    BY <2>1 DEF TypeOK, LoopInv, Decisions, AfterReceipt
  <2>3. \A k \in Ranks \ {r} : Applied(k)' = Applied(k) /\ Reaches(k)' = Reaches(k)
    BY <2>1 DEF Applied, Reaches
  <2>4. Reaches(r)' = Reaches(r) /\ Applied(r)' = Reaches(r)
    BY <2>1, <2>2 DEF Applied, Reaches
  <2>5. rankVersion[r] <= Reaches(r)
    <3>1. rankVersion[r] <= Applied(r) /\ Applied(r) <= Reaches(r)
      BY DEF VersionInv
    <3> QED BY <3>1, VersionTypes
  <2>6. loopPc'[0] = loopPc[0] /\ decision'[0] = decision[0]
    BY <2>1
  <2>7. Reaches(r) <= Reaches(r)
    BY VersionTypes
  <2>8. Reaches(0)' = Reaches(0)
    BY <2>1, <2>3
  <2>9. \A k \in Ranks : Reaches(k)' = Reaches(k) /\ rankVersion[k] <= Applied(k)'
                         /\ Applied(k)' <= Reaches(k)
    BY <2>3, <2>4, <2>5, <2>7 DEF VersionInv
  <2> QED BY <2>1, <2>6, <2>8, <2>9 DEF VersionInv
<1>2. CASE Pulled(r)
  <2>1. /\ loopPc[r] = "pulling" /\ loopPc'[r] \in {"deciding", "receiving"}
        /\ rankVersion'[r] = decision[r].version
        /\ \A k \in Ranks \ {r} : rankVersion'[k] = rankVersion[k] /\ loopPc'[k] = loopPc[k]
        /\ UNCHANGED <<decision, sent, delivered, pulls>>
    BY <1>2 DEF Pulled, TypeOK, NextPc
  <2>2. \A k \in Ranks : Applied(k)' = Applied(k) /\ Reaches(k)' = Reaches(k)
    BY <2>1 DEF Applied, Reaches
  <2>3. \A k \in Ranks : rankVersion'[k] <= Applied(k)
    <3>1. rankVersion'[r] = Applied(r) /\ Applied(r) <= Applied(r)
      BY <2>1, VersionTypes DEF Applied
    <3> QED BY <2>1, <3>1 DEF VersionInv
  <2>4. Reaches(0)' = Reaches(0)
    BY <2>2
  <2>5. CASE r = 0
    <3>1. pullPc' = "done" /\ pullRequest' = NoVersion /\ loopPc'[0] = "deciding"
      BY <1>2, <2>5 DEF Pulled, TypeOK, NextPc
    <3>2. NoVersion <= pulls
      BY VersionTypes DEF NoVersion
    <3> QED BY <2>1, <2>2, <2>3, <2>4, <3>1, <3>2 DEF VersionInv
  <2>6. CASE r # 0
    BY <1>2, <2>1, <2>2, <2>3, <2>4, <2>6 DEF Pulled, VersionInv
  <2> QED BY <2>5, <2>6
<1>3. CASE BurstEnds(r)
  <2>1. \A k \in Ranks : /\ rankVersion'[k] = rankVersion[k]
                         /\ Applied(k)' = Applied(k)
                         /\ Reaches(k)' = Reaches(k)
    BY <1>3 DEF BurstEnds, Applied, Reaches, TypeOK, NextPc
  <2> QED BY <1>3, <2>1, VersionFrame DEF BurstEnds, VersionInv, TypeOK, NextPc, inboxVars
<1> QED BY <1>1, <1>2, <1>3

(* Crash of rank 0 and close(): rank 0 may fall back to the version it     *)
(* has, and no request is pending.                                         *)
LEMMA VersionTeardown ==
  ASSUME TypeOK, LoopInv, VersionInv, Crash \/ CloseReturns
  PROVE  VersionInv'
<1> USE RankTypes
<1>1. FailFutures /\ UNCHANGED <<decision, sent, delivered, rankVersion, pulls>>
  BY DEF Crash, CloseReturns, rankVars
<1>2. pullRequest' = NoVersion /\ pullPc' # "waiting"
  BY <1>1 DEF FailFutures, VersionInv
<1>3. /\ loopPc'[0] \in {"crashed", "stopped"}
      /\ \A k \in Ranks \ {0} : loopPc'[k] = loopPc[k]
  BY DEF Crash, CloseReturns, LoopInv, TypeOK, rankVars
<1>4. \A k \in Ranks \ {0} : Applied(k)' = Applied(k) /\ Reaches(k)' = Reaches(k)
  BY <1>1, <1>3 DEF Applied, Reaches
<1>5. /\ Applied(0)' = rankVersion[0] /\ Reaches(0)' = rankVersion[0]
      /\ rankVersion[0] <= rankVersion[0]
      /\ rankVersion[0] <= Reaches(0)
      /\ \A k \in Ranks : rankVersion[0] <= Reaches(k)
      /\ rankVersion[0] <= pulls
  <2>1. Applied(0)' = rankVersion[0] /\ Reaches(0)' = rankVersion[0]
    BY <1>1, <1>3 DEF Applied, Reaches, LoopInv
  <2>2. rankVersion[0] <= Applied(0) /\ Applied(0) <= Reaches(0) /\ Reaches(0) <= pulls
    BY DEF VersionInv
  <2>3. ASSUME NEW k \in Ranks PROVE rankVersion[0] <= Reaches(k)
    <3>1. Reaches(0) <= Reaches(k)
      BY DEF VersionInv
    <3> QED BY <2>2, <3>1, VersionTypes
  <2>4. rankVersion[0] \in Nat /\ Applied(0) \in Nat /\ Reaches(0) \in Nat /\ pulls \in Nat
    BY VersionTypes
  <2> QED BY <2>1, <2>2, <2>3, <2>4
<1>6. NoVersion <= pulls /\ loopPc'[0] \notin {"broadcasting", "pulling"}
  BY <1>3, VersionTypes DEF NoVersion
<1> QED BY <1>1, <1>2, <1>4, <1>5, <1>6 DEF VersionInv

(* Every step keeps the versions in order.                                 *)
LEMMA VersionStep == TypeOK /\ LoopInv /\ VersionInv /\ [Next]_vars => VersionInv'
<1> SUFFICES ASSUME TypeOK, LoopInv, VersionInv, [Next]_vars PROVE VersionInv'
  OBVIOUS
<1> USE RankTypes
<1>1. ASSUME UNCHANGED <<loopPc, decision, sent, delivered, rankVersion, pulls, pullPc, pullRequest>>
      PROVE  VersionInv'
  BY <1>1 DEF VersionInv, Applied, Reaches
<1>2. CASE (\E q \in Requests : Generate(q)) \/ CloseRequested \/ LoopEnded
  BY <1>1, <1>2 DEF Generate, CloseRequested, LoopEnded, rankVars, portVars
<1>3. CASE PullModelStateDict
  <2>1. \A r \in Ranks : /\ rankVersion'[r] = rankVersion[r] /\ Applied(r)' = Applied(r)
                         /\ Reaches(r)' = Reaches(r)
                         /\ Reaches(r) \in Nat /\ Reaches(r) <= pulls
    BY <1>3, VersionTypes DEF PullModelStateDict, rankVars, Applied, Reaches, VersionInv
  <2>2. pulls \in Nat /\ pullRequest = NoVersion /\ pulls' = pulls + 1
    BY <1>3, VersionTypes DEF PullModelStateDict, VersionInv
  <2>3. pullRequest' \in {NoVersion, pulls + 1} /\ pulls + 1 # NoVersion
        /\ (pullRequest' = pulls + 1 <=> pullPc' = "waiting")
    BY <1>3, <2>2 DEF PullModelStateDict, NoVersion
  <2>4. \A r \in Ranks : Reaches(r) <= pulls + 1
    BY <2>1, <2>2
  <2>5. loopPc[0] \in {"broadcasting", "pulling"} => decision[0].action # "pull"
    BY <2>2 DEF VersionInv, LoopInv, WellFormed
  <2>6. Reaches(0)' = Reaches(0) /\ NoVersion <= pulls + 1 /\ pulls + 1 <= pulls + 1
    BY <2>1, <2>2 DEF NoVersion
  <2> QED BY <1>3, <2>1, <2>2, <2>3, <2>4, <2>5, <2>6
          DEF VersionInv, PullModelStateDict, rankVars
<1>4. CASE DecideToClose \/ DecideToPull \/ DecideToStep
  BY <1>4, VersionDecide
<1>5. CASE Broadcast
  BY <1>5, VersionBroadcast
<1>6. ASSUME NEW r \in Ranks, Receive(r) \/ Pulled(r) \/ BurstEnds(r) PROVE VersionInv'
  BY <1>6, VersionApply
<1>7. CASE (\E r \in Ranks : EngineStep(r)) \/ DrainResult
  BY <1>1, <1>7 DEF EngineStep, DrainResult, inboxVars, rankVars
<1>8. CASE Crash \/ CloseReturns
  BY <1>8, VersionTeardown
<1>9. CASE UNCHANGED vars
  BY <1>1, <1>9 DEF vars, inboxVars, rankVars
<1> QED BY <1>2, <1>3, <1>4, <1>5, <1>6, <1>7, <1>8, <1>9 DEF Next, Quiet

-------------------------------------------------------------------------------
(* Copies.                                                                 *)

(* There are no requests at the start.                                     *)
LEMMA CopiesInit == Init => CopiesInv
<1> SUFFICES ASSUME Init PROVE CopiesInv
  OBVIOUS
<1> USE RankTypes
<1>1. \A q \in Requests : Unheld(q)
  BY DEF Init, Unheld, OnPort, OnRank, Decided, Sent
<1> QED BY <1>1 DEF Init, CopiesInv, OutsideInv, QueueInv, RankInv, PortInv, FutureInv, Unheld

(* Steps that move copies from place to place on a rank, or fail futures.  *)
LEMMA CopiesFrame ==
  ASSUME TypeOK, CopiesInv, UNCHANGED <<queued, reservation, port>>,
         futures' \subseteq futures, \A q \in futures' : callPc'[q] = callPc[q],
         \A q \in Requests :
           callPc'[q] \in {"new", "rejected", "answered"} => callPc'[q] = callPc[q],
         \A q \in Requests, r \in Ranks : OnRank(q, r)' => OnRank(q, r) /\ OnRankOnce(q, r)',
         Serving' => /\ Serving /\ UNCHANGED <<callPc, futures>>
                     /\ \A q \in Requests, r \in Ranks : OnRank(q, r) => OnRank(q, r)'
  PROVE  CopiesInv'
<1>1. \A q \in Requests : OnPort(q)' <=> OnPort(q)
  BY DEF OnPort
<1>2. \A q \in Requests : Unheld(q) => Unheld(q)'
  BY <1>1 DEF Unheld
<1>3. OutsideInv'
  BY <1>2 DEF CopiesInv, OutsideInv
<1>4. QueueInv'
  BY <1>1 DEF CopiesInv, QueueInv, TypeOK
<1>5. RankInv'
  BY <1>1 DEF CopiesInv, RankInv
<1>6. PortInv'
  BY DEF CopiesInv, PortInv
<1>7. FutureInv'
  <2> SUFFICES ASSUME Serving' PROVE FutureInv'
    BY DEF FutureInv
  <2>1. \A q \in Requests : Unheld(q)' <=> Unheld(q)
    BY <1>1 DEF Unheld
  <2> QED BY <2>1 DEF CopiesInv, FutureInv
<1> QED BY <1>3, <1>4, <1>5, <1>6, <1>7 DEF CopiesInv

(* A call brings one copy, in the queue.                                   *)
LEMMA CopiesGenerate ==
  ASSUME TypeOK, CopiesInv, NEW p \in Requests, Generate(p)
  PROVE  CopiesInv'
<1>1. Unheld(p) /\ p \notin futures
  BY DEF Generate, CopiesInv, OutsideInv
<1>2. /\ UNCHANGED <<port, reservation>> /\ (Serving' <=> Serving)
      /\ \A q \in Requests : OnPort(q)' <=> OnPort(q)
      /\ \A q \in Requests, r \in Ranks :
           (OnRank(q, r)' <=> OnRank(q, r)) /\ (OnRankOnce(q, r)' <=> OnRankOnce(q, r))
  BY DEF Generate, rankVars, portVars, Serving, OnPort, OnRank, OnRankOnce, Decided, Sent
<1>3. /\ \A q \in Requests \ {p} :
           callPc'[q] = callPc[q] /\ (q \in queued' <=> q \in queued) /\ (q \in futures' <=> q \in futures)
      /\ \/ callPc'[p] = "waiting" /\ p \in queued' /\ p \in futures'
         \/ callPc'[p] = "rejected" /\ UNCHANGED <<queued, futures>>
      /\ queued' \subseteq queued \union {p} /\ futures' \subseteq futures \union {p}
  BY DEF Generate, TypeOK
<1>4. \A q \in Requests \ {p} : Unheld(q)' <=> Unheld(q)
  BY <1>2, <1>3 DEF Unheld
<1>5. OutsideInv'
  <2>1. ASSUME NEW q \in futures' PROVE callPc'[q] = "waiting"
    <3>1. q \in Requests /\ (q # p => q \in futures)
      BY <1>3, <2>1 DEF TypeOK
    <3> QED BY <1>1, <1>3, <2>1, <3>1 DEF CopiesInv, OutsideInv
  <2>2. callPc'[p] \in {"new", "rejected", "answered"} => Unheld(p)'
    BY <1>1, <1>2, <1>3 DEF Unheld
  <2> QED BY <1>3, <1>4, <2>1, <2>2 DEF CopiesInv, OutsideInv
<1>6. QueueInv'
  BY <1>1, <1>2, <1>3 DEF CopiesInv, QueueInv, Unheld, TypeOK
<1>7. RankInv' /\ PortInv'
  BY <1>2 DEF CopiesInv, RankInv, PortInv
<1>8. FutureInv'
  <2> SUFFICES ASSUME Serving PROVE FutureInv'
    BY <1>2 DEF FutureInv
  <2>1. reservation[p] = NoRank
    BY <1>1 DEF CopiesInv, FutureInv
  <2>2. p \in queued' <=> p \in futures'
    BY <1>1, <1>3 DEF Unheld
  <2>3. p \in futures' <=> ~Unheld(p)'
    BY <1>1, <1>2, <2>2 DEF Unheld
  <2>4. callPc'[p] = "waiting" => p \in futures'
    BY <1>3
  <2>5. ASSUME NEW q \in Requests \ {p}
        PROVE  /\ callPc'[q] = "waiting" => q \in futures'
               /\ q \in futures' <=> ~Unheld(q)'
               /\ reservation'[q] # NoRank <=> q \in futures' \ queued'
    BY <1>2, <1>3, <1>4 DEF CopiesInv, FutureInv
  <2> QED BY <1>2, <2>1, <2>2, <2>3, <2>4, <2>5 DEF FutureInv
<1> QED BY <1>5, <1>6, <1>7, <1>8 DEF CopiesInv

(* Routing moves every copy of the queue into the decision of its rank.    *)
LEMMA CopiesRouted ==
  ASSUME TypeOK, CopiesInv, DecideToStep
  PROVE  CopiesInv'
<1> USE RankTypes
<1>1. PICK rankOf \in [queued -> Ranks] :
        /\ DecideWith([NoDecision EXCEPT
             !.action = "step",
             !.admit = [r \in Ranks |-> {q \in queued : rankOf[q] = r}]])
        /\ Reserve(rankOf)
  BY DEF DecideToStep
<1>2. /\ decision'[0].admit = [r \in Ranks |-> {q \in queued : rankOf[q] = r}]
      /\ loopPc[0] = "deciding" /\ loopPc'[0] = "broadcasting" /\ queued' = {}
      /\ UNCHANGED <<sent, delivered, engine, port, futures, callPc, closePc>>
  BY <1>1 DEF DecideWith, DecideToStep, TypeOK, NoDecision, callVars, portVars
<1>3. /\ \A q \in queued : reservation'[q] = rankOf[q]
      /\ \A q \in Requests \ queued : reservation'[q] = reservation[q]
  BY <1>1 DEF Reserve, TypeOK
<1>4. \A q \in Requests, r \in Ranks :
        /\ ~Decided(q, r)
        /\ Decided(q, r)' <=> q \in queued /\ rankOf[q] = r
        /\ Sent(q, r)' <=> Sent(q, r)
  BY <1>2 DEF Decided, Sent
<1>5. \A q \in Requests : OnPort(q)' <=> OnPort(q)
  BY <1>2 DEF OnPort
<1>6. \A q \in Requests : Unheld(q)' <=> Unheld(q)
  BY <1>2, <1>4, <1>5 DEF Unheld, OnRank
<1>7. Serving' <=> Serving
  BY <1>2 DEF Serving
<1>8. OutsideInv' /\ QueueInv' /\ PortInv'
  BY <1>2, <1>6 DEF CopiesInv, OutsideInv, QueueInv, PortInv
<1>9. RankInv'
  <2> SUFFICES ASSUME NEW q \in Requests, NEW r \in Ranks, OnRank(q, r)'
               PROVE  ~OnPort(q)' /\ reservation'[q] = r /\ OnRankOnce(q, r)'
    BY DEF RankInv
  <2>1. CASE q \in queued
    <3>1. ~OnPort(q) /\ ~OnRank(q, r)
      BY <2>1 DEF CopiesInv, QueueInv
    <3> QED BY <1>2, <1>3, <1>4, <1>5, <2>1, <3>1 DEF OnRank, OnRankOnce
  <2>2. CASE q \notin queued
    <3>1. OnRank(q, r)
      BY <1>2, <1>4, <2>2 DEF OnRank
    <3>2. ~OnPort(q) /\ reservation[q] = r /\ OnRankOnce(q, r)
      BY <3>1 DEF CopiesInv, RankInv
    <3> QED BY <1>2, <1>3, <1>4, <1>5, <2>2, <3>2 DEF OnRankOnce
  <2> QED BY <2>1, <2>2
<1>10. FutureInv'
  <2> SUFFICES ASSUME Serving PROVE FutureInv'
    BY <1>7 DEF FutureInv
  <2>1. queued \subseteq futures
    BY DEF CopiesInv, FutureInv, Unheld, TypeOK
  <2>2. \A q \in Requests : reservation'[q] # NoRank <=> q \in futures
    BY <1>3, <2>1 DEF CopiesInv, FutureInv, TypeOK
  <2> QED BY <1>2, <1>6, <2>2 DEF CopiesInv, FutureInv
<1> QED BY <1>8, <1>9, <1>10 DEF CopiesInv

(* Answering the requests of done, whose copies are gone.                  *)
LEMMA CopiesResolve ==
  ASSUME TypeOK, CopiesInv, NEW done, Resolve(done),
         UNCHANGED queued, Serving' => Serving,
         DOMAIN done \subseteq Requests,
         port' \subseteq port,
         \A q \in Requests : q \in DOMAIN done => Unheld(q)' /\ ~(q \in queued),
         \A q \in Requests \ DOMAIN done : OnPort(q)' <=> OnPort(q),
         \A q \in Requests \ DOMAIN done, r \in Ranks :
           (OnRank(q, r)' <=> OnRank(q, r)) /\ (OnRankOnce(q, r)' <=> OnRankOnce(q, r))
  PROVE  CopiesInv'
<1>1. /\ futures' = futures \ DOMAIN done
      /\ \A q \in Requests : q \in DOMAIN done =>
           callPc'[q] = "answered" /\ reservation'[q] = NoRank
      /\ \A q \in Requests \ DOMAIN done :
           callPc'[q] = callPc[q] /\ reservation'[q] = reservation[q]
  BY DEF Resolve, Release
<1>2. \A q \in Requests \ DOMAIN done : Unheld(q)' <=> Unheld(q)
  BY DEF Unheld
<1>3. OutsideInv'
  BY <1>1, <1>2 DEF CopiesInv, OutsideInv, TypeOK
<1>4. QueueInv'
  BY DEF CopiesInv, QueueInv, TypeOK
<1>5. RankInv'
  <2> SUFFICES ASSUME NEW q \in Requests, NEW r \in Ranks, OnRank(q, r)'
               PROVE  ~OnPort(q)' /\ reservation'[q] = r /\ OnRankOnce(q, r)'
    BY DEF RankInv
  <2>1. q \notin DOMAIN done
    BY DEF Unheld
  <2> QED BY <1>1, <2>1 DEF CopiesInv, RankInv
<1>6. PortInv'
  BY DEF CopiesInv, PortInv
<1>7. FutureInv'
  <2> SUFFICES ASSUME Serving', NEW q \in Requests
               PROVE  /\ callPc'[q] = "waiting" => q \in futures'
                      /\ q \in futures' <=> ~Unheld(q)'
                      /\ reservation'[q] # NoRank <=> q \in futures' \ queued'
    BY DEF FutureInv
  <2>1. CASE q \in DOMAIN done
    BY <1>1, <2>1
  <2>2. CASE q \notin DOMAIN done
    BY <1>1, <1>2, <2>2 DEF CopiesInv, FutureInv
  <2> QED BY <2>1, <2>2
<1> QED BY <1>3, <1>4, <1>5, <1>6, <1>7 DEF CopiesInv

(* A step of an engine turns the copies it finishes into answers on rank   *)
(* 0 and into a list on the port elsewhere.                                *)
LEMMA CopiesEngineStep ==
  ASSUME TypeOK, LoopInv, CopiesInv, NEW r \in Ranks, EngineStep(r)
  PROVE  CopiesInv'
<1> USE RankTypes
<1>1. PICK batch \in SUBSET engine[r], done \in SUBSET engine[r] : EngineEffect(r, batch, done)
  BY StepEffect
<1>2. /\ UNCHANGED <<queued, loopPc, decision, sent, delivered, closePc>>
      /\ (Serving' <=> Serving)
      /\ loopPc[r] = "stepping"
  BY DEF EngineStep, inboxVars, Serving
<1>3. /\ done \subseteq Requests
      /\ engine'[r] = engine[r] \ done /\ \A k \in Ranks \ {r} : engine'[k] = engine[k]
  BY <1>1 DEF EngineEffect, TypeOK
<1>4. ASSUME NEW q \in Requests, q \in done
      PROVE  /\ q \in engine[r] /\ OnRank(q, r) /\ ~OnPort(q) /\ reservation[q] = r
             /\ q \notin queued
             /\ \A k \in Ranks : ~OnRank(q, k)'
  <2>1. OnRank(q, r)
    BY <1>4 DEF OnRank
  <2>2. ~OnPort(q) /\ reservation[q] = r /\ OnRankOnce(q, r)
    BY <2>1 DEF CopiesInv, RankInv
  <2>3. \A k \in Ranks \ {r} : ~OnRank(q, k)
    BY <2>2 DEF CopiesInv, RankInv
  <2>4. q \notin queued
    BY <2>1 DEF CopiesInv, QueueInv
  <2>5. \A k \in Ranks : Decided(q, k)' = Decided(q, k) /\ Sent(q, k)' = Sent(q, k)
    BY <1>2 DEF Decided, Sent
  <2>6. ~OnRank(q, r)'
    BY <1>3, <1>4, <2>2, <2>5 DEF OnRank, OnRankOnce
  <2>7. \A k \in Ranks \ {r} : ~OnRank(q, k)'
    BY <1>3, <2>3, <2>5 DEF OnRank
  <2> QED BY <1>4, <2>1, <2>2, <2>4, <2>6, <2>7
<1>5. \A q \in Requests \ done, k \in Ranks :
        (OnRank(q, k)' <=> OnRank(q, k)) /\ (OnRankOnce(q, k)' <=> OnRankOnce(q, k))
  BY <1>2, <1>3 DEF OnRank, OnRankOnce, Decided, Sent
<1>6. CASE r = 0
  <2> DEFINE completions == [q \in done |-> rankVersion[r]]
  <2>1. Resolve(completions) /\ port' = port
    BY <1>1, <1>6 DEF EngineEffect
  <2>2. DOMAIN completions = done
    OBVIOUS
  <2> HIDE DEF completions
  <2>3. \A q \in Requests : OnPort(q)' <=> OnPort(q)
    BY <2>1 DEF OnPort
  <2>4. \A q \in Requests : q \in done => Unheld(q)'
    BY <1>2, <1>4, <2>3 DEF Unheld
  <2> QED BY <1>2, <1>3, <1>4, <1>5, <2>1, <2>2, <2>3, <2>4, CopiesResolve
<1>7. CASE r # 0
  <2>1. /\ port' = IF done = {} THEN port ELSE port \union {[q \in done |-> rankVersion[r]]}
        /\ UNCHANGED <<callPc, futures, reservation>>
    BY <1>1, <1>7 DEF EngineEffect, callVars, futureVars
  <2>2. \A q \in Requests : OnPort(q)' <=> OnPort(q) \/ q \in done
    <3> DEFINE completions == [q \in done |-> rankVersion[r]]
    <3>1. DOMAIN completions = done
      OBVIOUS
    <3>2. port' = IF done = {} THEN port ELSE port \union {completions}
      BY <2>1
    <3> HIDE DEF completions
    <3> QED BY <3>1, <3>2 DEF OnPort
  <2>3. \A q \in Requests : Unheld(q)' <=> Unheld(q)
    <3>1. \A q \in Requests \ done : Unheld(q)' <=> Unheld(q)
      BY <1>2, <1>5, <2>2 DEF Unheld
    <3>2. \A q \in Requests : q \in done => ~Unheld(q) /\ ~Unheld(q)'
      BY <1>4, <2>2 DEF Unheld
    <3> QED BY <3>1, <3>2
  <2>4. OutsideInv'
    BY <2>1, <2>3 DEF CopiesInv, OutsideInv
  <2>5. QueueInv'
    BY <1>2, <1>4, <1>5, <2>2 DEF CopiesInv, QueueInv, TypeOK
  <2>6. RankInv'
    BY <1>4, <1>5, <2>1, <2>2 DEF CopiesInv, RankInv
  <2>7. PortInv'
    <3>1. ASSUME NEW a \in port PROVE DOMAIN a \intersect done = {}
      BY <1>3, <1>4, <3>1 DEF OnPort
    <3> QED BY <2>1, <3>1 DEF CopiesInv, PortInv
  <2>8. FutureInv'
    BY <1>2, <2>1, <2>3 DEF CopiesInv, FutureInv
  <2> QED BY <2>4, <2>5, <2>6, <2>7, <2>8 DEF CopiesInv
<1> QED BY <1>6, <1>7

(* Taking a list off the port answers its requests; that they have futures *)
(* is certain as long as rank 0 serves.                                    *)
LEMMA CopiesDrain ==
  ASSUME TypeOK, LoopInv, CopiesInv, DrainResult
  PROVE  CopiesInv' /\ (drain' = "failed" => loopPc[0] = "crashed")
<1> USE RankTypes
<1>1. PICK done \in port :
        /\ port' = port \ {done}
        /\ IF DOMAIN done \subseteq futures
           THEN Resolve(done) /\ UNCHANGED drain
           ELSE drain' = "failed" /\ UNCHANGED <<callVars, futureVars>>
  BY DEF DrainResult
<1>2. /\ drain = "running"
      /\ UNCHANGED <<queued, loopPc, decision, sent, delivered, engine, closePc>>
  BY DEF DrainResult, inboxVars, rankVars
<1>3. DOMAIN done \subseteq Requests
  BY DEF TypeOK
<1>4. \A q \in Requests, r \in Ranks :
        (OnRank(q, r)' <=> OnRank(q, r)) /\ (OnRankOnce(q, r)' <=> OnRankOnce(q, r))
  BY <1>2 DEF OnRank, OnRankOnce, Decided, Sent
<1>5. \A q \in Requests : q \in DOMAIN done =>
        OnPort(q) /\ ~OnPort(q)' /\ q \notin queued /\ \A r \in Ranks : ~OnRank(q, r)
  BY <1>1 DEF OnPort, CopiesInv, PortInv, QueueInv, RankInv
<1>6. \A q \in Requests \ DOMAIN done : OnPort(q)' <=> OnPort(q)
  BY <1>1 DEF OnPort
<1>7. CASE DOMAIN done \subseteq futures
  <2>1. Resolve(done) /\ drain' = drain
    BY <1>1, <1>7
  <2>2. Serving' <=> Serving
    BY <1>2 DEF Serving
  <2>3. \A q \in Requests : q \in DOMAIN done => Unheld(q)' /\ ~(q \in queued)
    BY <1>2, <1>4, <1>5 DEF Unheld
  <2>4. CopiesInv'
    BY <1>1, <1>2, <1>3, <1>4, <1>6, <2>1, <2>2, <2>3, CopiesResolve
  <2> QED BY <1>2, <2>1, <2>4
<1>8. CASE ~(DOMAIN done \subseteq futures)
  <2>1. UNCHANGED <<callPc, futures, reservation>>
    BY <1>1, <1>8 DEF callVars, futureVars
  <2>2. ~Serving
    BY <1>3, <1>5, <1>8 DEF CopiesInv, FutureInv, Unheld
  <2>3. loopPc[0] = "crashed"
    BY <1>2, <2>2 DEF Serving, LoopInv
  <2>4. ~Serving'
    BY <1>2, <2>3 DEF Serving
  <2>5. \A q \in Requests : Unheld(q) => Unheld(q)'
    BY <1>2, <1>4, <1>5, <1>6 DEF Unheld
  <2>6. \A q \in Requests : OnPort(q)' => OnPort(q)
    BY <1>5, <1>6
  <2>7. OutsideInv'
    BY <2>1, <2>5 DEF CopiesInv, OutsideInv
  <2>8. QueueInv'
    BY <1>2, <1>4, <2>6 DEF CopiesInv, QueueInv, TypeOK
  <2>9. RankInv'
    BY <1>4, <2>1, <2>6 DEF CopiesInv, RankInv
  <2>10. PortInv'
    BY <1>1 DEF CopiesInv, PortInv
  <2> QED BY <2>3, <2>4, <2>7, <2>8, <2>9, <2>10 DEF CopiesInv, FutureInv
<1> QED BY <1>7, <1>8

(* A decision that admits nobody moves no copy.                            *)
LEMMA CopiesDecide ==
  ASSUME TypeOK, LoopInv, CopiesInv, DecideToClose \/ DecideToPull
  PROVE  CopiesInv'
<1> USE RankTypes
<1>1. /\ loopPc[0] = "deciding" /\ loopPc'[0] = "broadcasting"
      /\ decision'[0].admit = NoDecision.admit
      /\ UNCHANGED <<queued, reservation, port, futures, callPc, sent, delivered, engine, closePc>>
  <2>1. PICK d : d.admit = NoDecision.admit /\ DecideWith(d)
    <3>1. /\ [NoDecision EXCEPT !.action = "close"].admit = NoDecision.admit
          /\ [NoDecision EXCEPT !.action = "pull", !.version = pullRequest].admit = NoDecision.admit
      BY DEF NoDecision
    <3> QED BY <3>1 DEF DecideToClose, DecideToPull
  <2>2. loopPc[0] = "deciding" /\ UNCHANGED <<queued, reservation>>
    BY DEF DecideToClose, DecideToPull
  <2> QED BY <2>1, <2>2 DEF DecideWith, TypeOK, callVars, portVars
<1>2. \A q \in Requests, r \in Ranks : ~Decided(q, r) /\ ~Decided(q, r)'
  BY <1>1 DEF Decided, NoDecision
<1>3. Serving' <=> Serving
  BY <1>1 DEF Serving
<1>4. \A q \in Requests, r \in Ranks :
        (OnRank(q, r)' <=> OnRank(q, r)) /\ (OnRankOnce(q, r)' <=> OnRankOnce(q, r))
  BY <1>1, <1>2 DEF OnRank, OnRankOnce, Sent
<1>5. \A q \in Requests, r \in Ranks : OnRank(q, r) => OnRankOnce(q, r)
  BY DEF CopiesInv, RankInv
<1> QED BY <1>1, <1>3, <1>4, <1>5, CopiesFrame

(* A broadcast turns the copies of the decision into copies on their way,  *)
(* those of rank 0 into requests of its engine.                            *)
LEMMA CopiesBroadcast ==
  ASSUME TypeOK, LoopInv, CopiesInv, Broadcast
  PROVE  CopiesInv'
<1> USE RankTypes
<1>1. /\ loopPc[0] = "broadcasting" /\ \A r \in Ranks : delivered[r]
      /\ loopPc'[0] = AfterReceipt(decision[0].action)
      /\ sent' = decision[0] /\ delivered' = [r \in Ranks |-> r = 0]
      /\ engine'[0] = engine[0] \union decision[0].admit[0]
      /\ \A r \in Ranks \ {0} : engine'[r] = engine[r]
      /\ UNCHANGED <<queued, reservation, port, futures, callPc, closePc>>
  BY DEF Broadcast, TypeOK, LoopInv, Followers, callVars, inboxVars, portVars
<1>2. loopPc'[0] \in {"stopped", "pulling", "stepping"}
  BY <1>1 DEF TypeOK, LoopInv, Decisions, AfterReceipt
<1>3. \A q \in Requests, r \in Ranks :
        /\ ~Sent(q, r) /\ ~Decided(q, r)'
        /\ Decided(q, r) <=> q \in decision[0].admit[r]
  BY <1>1, <1>2 DEF Sent, Decided
<1>4. \A q \in Requests, r \in Ranks : OnRank(q, r) => OnRankOnce(q, r)
  BY DEF CopiesInv, RankInv
<1>5. ASSUME NEW q \in Requests, NEW r \in Ranks
      PROVE  (OnRank(q, r)' <=> OnRank(q, r)) /\ (OnRank(q, r)' => OnRankOnce(q, r)')
  <2>1. CASE r = 0
    <3>1. ~Sent(q, r)' /\ (q \in engine'[r] <=> Decided(q, r) \/ q \in engine[r])
      BY <1>1, <1>3, <2>1 DEF Sent
    <3> QED BY <1>3, <3>1 DEF OnRank, OnRankOnce
  <2>2. CASE r # 0
    <3>1. (Sent(q, r)' <=> Decided(q, r)) /\ (q \in engine'[r] <=> q \in engine[r])
      BY <1>1, <1>3, <2>2 DEF Sent
    <3> QED BY <1>3, <1>4, <3>1 DEF OnRank, OnRankOnce
  <2> QED BY <2>1, <2>2
<1>6. Serving' <=> Serving
  BY <1>1, <1>2 DEF Serving
<1> QED BY <1>1, <1>5, <1>6, CopiesFrame

(* A rank admits what was on its way to it.                                *)
LEMMA CopiesReceive ==
  ASSUME TypeOK, LoopInv, CopiesInv, NEW k \in Ranks, Receive(k)
  PROVE  CopiesInv'
<1> USE RankTypes
<1>1. /\ k # 0 /\ ~delivered[k] /\ delivered'[k]
      /\ engine'[k] = engine[k] \union sent.admit[k]
      /\ \A r \in Ranks \ {k} : engine'[r] = engine[r] /\ delivered'[r] = delivered[r]
      /\ loopPc'[0] = loopPc[0] /\ decision'[0] = decision[0] /\ sent' = sent
      /\ UNCHANGED <<queued, reservation, port, futures, callPc, closePc>>
  BY DEF Receive, TypeOK, LoopInv, callVars, inboxVars, futureVars, portVars
<1>2. \A q \in Requests, r \in Ranks : OnRank(q, r) => OnRankOnce(q, r)
  BY DEF CopiesInv, RankInv
<1>3. ASSUME NEW q \in Requests, NEW r \in Ranks
      PROVE  (OnRank(q, r)' <=> OnRank(q, r)) /\ (OnRank(q, r)' => OnRankOnce(q, r)')
  <2>1. Decided(q, r)' <=> Decided(q, r)
    BY <1>1 DEF Decided
  <2>2. CASE r = k
    <3>1. ~Sent(q, r)' /\ (q \in engine'[r] <=> Sent(q, r) \/ q \in engine[r])
      BY <1>1, <2>2 DEF Sent
    <3> QED BY <1>2, <2>1, <3>1 DEF OnRank, OnRankOnce
  <2>3. CASE r # k
    <3>1. (Sent(q, r)' <=> Sent(q, r)) /\ (q \in engine'[r] <=> q \in engine[r])
      BY <1>1, <2>3 DEF Sent
    <3> QED BY <1>2, <2>1, <3>1 DEF OnRank, OnRankOnce
  <2> QED BY <2>2, <2>3
<1>4. Serving' <=> Serving
  BY <1>1 DEF Serving
<1> QED BY <1>1, <1>3, <1>4, CopiesFrame

(* The end of a pull or of a burst, and the end of the generator.          *)
LEMMA CopiesRest ==
  ASSUME TypeOK, LoopInv, CopiesInv,
         \/ \E k \in Ranks : Pulled(k) \/ BurstEnds(k)
         \/ PullModelStateDict \/ CloseRequested \/ Crash \/ LoopEnded \/ CloseReturns
         \/ UNCHANGED vars
  PROVE  CopiesInv'
<1> USE RankTypes
<1>1. UNCHANGED <<queued, reservation, port, sent, delivered, engine, decision>>
  BY DEF Pulled, BurstEnds, PullModelStateDict, CloseRequested, Crash, LoopEnded, CloseReturns, vars,
         callVars, inboxVars, futureVars, rankVars, portVars
<1>2. loopPc'[0] = "broadcasting" <=> loopPc[0] = "broadcasting" /\ ~Crash
  BY DEF Pulled, BurstEnds, PullModelStateDict, CloseRequested, Crash, LoopEnded, CloseReturns, vars,
         rankVars, TypeOK, NextPc
<1>3. \A q \in Requests, r \in Ranks : OnRank(q, r) => OnRankOnce(q, r)
  BY DEF CopiesInv, RankInv
<1>4. ASSUME NEW q \in Requests, NEW r \in Ranks
      PROVE  OnRank(q, r)' => OnRank(q, r) /\ OnRankOnce(q, r)'
  BY <1>1, <1>2, <1>3 DEF OnRank, OnRankOnce, Decided, Sent
<1>5. /\ futures' \subseteq futures /\ \A q \in futures' : callPc'[q] = callPc[q]
      /\ \A q \in Requests :
           callPc'[q] \in {"new", "rejected", "answered"} => callPc'[q] = callPc[q]
  BY DEF Pulled, BurstEnds, PullModelStateDict, CloseRequested, Crash, LoopEnded, CloseReturns, vars,
         FailFutures, callVars, futureVars
<1>6. ASSUME Serving'
      PROVE  /\ Serving /\ UNCHANGED <<callPc, futures>>
             /\ \A q \in Requests, r \in Ranks : OnRank(q, r) => OnRank(q, r)'
  <2>1. ~Crash /\ ~CloseReturns
    BY <1>6 DEF Crash, CloseReturns, Serving, TypeOK
  <2>2. UNCHANGED <<callPc, futures>>
    BY <2>1 DEF Pulled, BurstEnds, PullModelStateDict, CloseRequested, LoopEnded, vars,
           callVars, futureVars
  <2>3. Serving
    BY <1>6, <2>1 DEF Pulled, BurstEnds, PullModelStateDict, CloseRequested, LoopEnded, vars,
           callVars, inboxVars, rankVars, Serving, TypeOK
  <2>4. \A q \in Requests, r \in Ranks : Decided(q, r)' <=> Decided(q, r)
    BY <1>1, <1>2, <2>1 DEF Decided
  <2> QED BY <1>1, <2>2, <2>3, <2>4 DEF OnRank, Sent
<1> QED BY <1>1, <1>4, <1>5, <1>6, CopiesFrame

(* Every step keeps each request in one place.                             *)
LEMMA CopiesStep == TypeOK /\ LoopInv /\ CopiesInv /\ [Next]_vars => CopiesInv'
BY CopiesGenerate, CopiesDecide, CopiesRouted, CopiesBroadcast, CopiesReceive,
   CopiesEngineStep, CopiesDrain, CopiesRest DEF Next, Quiet

-------------------------------------------------------------------------------
(* Stamps.                                                                 *)

(* Nothing is sampled at the start.                                        *)
LEMMA StampInit == Init => StampInv /\ VersionsBounded /\ PullPrecedesCalls
<1> SUFFICES ASSUME Init PROVE StampInv /\ VersionsBounded /\ PullPrecedesCalls
  OBVIOUS
<1>1. \A q \in Requests, r \in Ranks : ~Decided(q, r) /\ ~Sent(q, r) /\ q \notin engine[r]
  BY RankTypes DEF Init, Decided, Sent
<1>2. queued = {} /\ port = {} /\ \A q \in Requests : callPc[q] = "new" /\ sampled[q] = {}
  BY DEF Init
<1> QED BY <1>1, <1>2 DEF StampInv, VersionsBounded, PullPrecedesCalls

(* The version stamps are integers, so they can be compared.               *)
LEMMA StampTypes ==
  ASSUME TypeOK
  PROVE  /\ \A q \in Requests : calledAt[q] \in Int /\ stamp[q] \in Int /\ sampled[q] \subseteq Int
         /\ \A r \in Ranks : rankVersion[r] \in Int
<1>1. Versions \subseteq Int /\ Versions \union {NoVersion} \subseteq Int
  BY RankTypes
<1>2. \A v \in Versions \union {NoVersion} : v \in Int
  BY <1>1
<1>3. \A q \in Requests : calledAt[q] \in Versions \union {NoVersion}
                          /\ stamp[q] \in Versions \union {NoVersion}
  BY DEF TypeOK
<1>4. \A q \in Requests : sampled[q] \subseteq Versions
  BY DEF TypeOK
<1>5. \A r \in Ranks : rankVersion[r] \in Versions
  BY DEF TypeOK
<1> QED BY <1>1, <1>2, <1>3, <1>4, <1>5

(* A step that samples and stamps nothing and brings no copy anywhere,     *)
(* while ranks may move to newer versions.                                 *)
LEMMA StampFrame ==
  ASSUME TypeOK, TypeOK', StampInv, UNCHANGED <<sampled, calledAt, stamp>>,
         queued' \subseteq queued, port' \subseteq port,
         \A q \in Requests : callPc'[q] = "new" => callPc[q] = "new",
         \A r \in Ranks : rankVersion[r] <= rankVersion'[r],
         \A q \in Requests, r \in Ranks :
           /\ Decided(q, r)' => Decided(q, r) \/ q \in queued
           /\ Sent(q, r)' => Sent(q, r) /\ Reaches(r)' = Reaches(r)
           /\ q \in engine'[r] => q \in engine[r]
  PROVE  StampInv'
<1> USE RankTypes, StampTypes
<1>1. \A r \in Ranks : rankVersion'[r] \in Int
  <2>1. \A r \in Ranks : rankVersion'[r] \in Versions
    BY DEF TypeOK
  <2>2. \A v \in Versions : v \in Int
    OBVIOUS
  <2> QED BY <2>1, <2>2
<1>2. \A q \in Requests : Untouched(q) => Untouched(q)'
  BY <1>1 DEF Untouched
<1>3. \A q \in Requests, r \in Ranks :
        StampedBelow(q, rankVersion[r]) => StampedBelow(q, rankVersion[r])'
  BY <1>1 DEF StampedBelow
<1>4. \A q \in Requests, r \in Ranks : Sent(q, r)' => sampled'[q] = {} /\ StampedBelow(q, Reaches(r))'
  BY DEF StampInv, StampedBelow
<1>5. \A done \in port' : \A q \in DOMAIN done :
        done[q] \in sampled'[q] /\ StampedBelow(q, done[q])'
  BY DEF StampInv, StampedBelow
<1>6. queued \subseteq Requests /\ queued' \subseteq Requests
  BY DEF TypeOK
<1> QED BY <1>2, <1>3, <1>4, <1>5, <1>6 DEF StampInv

(* A new call is stamped by nobody; rank 0's version then is a lower bound. *)
LEMMA StampGenerate ==
  ASSUME TypeOK, CopiesInv, StampInv, PullPrecedesCalls, NEW p \in Requests, Generate(p)
  PROVE  StampInv' /\ PullPrecedesCalls'
<1> USE RankTypes, StampTypes
<1>1. Unheld(p) /\ sampled[p] = {} /\ callPc[p] = "new"
  BY DEF Generate, CopiesInv, OutsideInv, StampInv
<1>2. /\ UNCHANGED <<port, sampled, stamp, rankVersion, engine>>
      /\ \A q \in Requests, r \in Ranks :
           /\ Decided(q, r)' <=> Decided(q, r)
           /\ Sent(q, r)' <=> Sent(q, r)
           /\ Reaches(r)' = Reaches(r)
  BY DEF Generate, rankVars, portVars, Decided, Sent, Reaches, Applied
<1>3. /\ \A q \in Requests \ {p} : callPc'[q] = callPc[q] /\ calledAt'[q] = calledAt[q]
      /\ callPc'[p] # "new" /\ queued' \subseteq queued \union {p}
      /\ p \in queued' => calledAt'[p] = rankVersion[0]
  BY <1>1 DEF Generate, TypeOK, Unheld
<1>4. \A q \in Requests \ {p} : Untouched(q)' <=> Untouched(q)
  BY <1>2, <1>3 DEF Untouched
<1>5. p \in queued' => Untouched(p)'
  <2>1. rankVersion[0] <= rankVersion[0]
    OBVIOUS
  <2> QED BY <1>1, <1>2, <1>3, <2>1 DEF Untouched
<1>6. \A q \in Requests \ {p} : \A v : StampedBelow(q, v)' <=> StampedBelow(q, v)
  BY <1>2, <1>3 DEF StampedBelow
<1>7. /\ \A r \in Ranks : ~Decided(p, r) /\ ~Sent(p, r) /\ p \notin engine[r]
      /\ \A done \in port : p \notin DOMAIN done
  BY <1>1 DEF Unheld, OnRank, OnPort
<1>8. \A q \in Requests : callPc'[q] = "new" => sampled'[q] = {}
  BY <1>2, <1>3 DEF StampInv
<1>9. \A q \in queued' : Untouched(q)'
  <2>1. queued' \subseteq Requests
    BY <1>3 DEF TypeOK
  <2> QED BY <1>3, <1>4, <1>5, <2>1 DEF StampInv
<1>10. ASSUME NEW q \in Requests, NEW r \in Ranks
       PROVE  /\ Decided(q, r)' => Untouched(q)'
              /\ Sent(q, r)' => sampled'[q] = {} /\ StampedBelow(q, Reaches(r))'
              /\ q \in engine'[r] => StampedBelow(q, rankVersion[r])'
  <2>1. CASE q = p
    BY <1>2, <1>7, <2>1
  <2>2. CASE q # p
    <3>1. Decided(q, r)' => Untouched(q)'
      BY <1>2, <1>4, <2>2 DEF StampInv
    <3>2. Sent(q, r)' => sampled'[q] = {} /\ StampedBelow(q, Reaches(r))'
      BY <1>2, <1>3, <2>2 DEF StampInv, StampedBelow
    <3>3. q \in engine'[r] => StampedBelow(q, rankVersion[r])'
      BY <1>2, <1>3, <2>2 DEF StampInv, StampedBelow
    <3> QED BY <3>1, <3>2, <3>3
  <2> QED BY <2>1, <2>2
<1>11. ASSUME NEW done \in port', NEW q \in DOMAIN done
       PROVE  done[q] \in sampled'[q] /\ StampedBelow(q, done[q])'
  <2>1. q # p /\ q \in Requests /\ done \in port
    BY <1>2, <1>7 DEF TypeOK
  <2> QED BY <1>2, <1>3, <2>1 DEF StampInv, StampedBelow
<1>12. PullPrecedesCalls'
  BY <1>1, <1>2, <1>3 DEF PullPrecedesCalls
<1> QED BY <1>8, <1>9, <1>10, <1>11, <1>12 DEF StampInv

(* A broadcast stamps what it admits with rank 0's version, which no rank  *)
(* that receives it will be behind.                                        *)
LEMMA StampBroadcast ==
  ASSUME TypeOK, LoopInv, CopiesInv, VersionInv, StampInv, Broadcast
  PROVE  StampInv'
<1> USE RankTypes, StampTypes
<1> DEFINE admitted == UNION {decision[0].admit[r] : r \in Ranks}
<1>1. /\ loopPc[0] = "broadcasting" /\ \A r \in Ranks : delivered[r]
      /\ loopPc'[0] = AfterReceipt(decision[0].action)
      /\ \A r \in Ranks \ {0} : loopPc'[r] = loopPc[r]
      /\ sent' = decision[0] /\ delivered' = [r \in Ranks |-> r = 0]
      /\ engine'[0] = engine[0] \union decision[0].admit[0]
      /\ \A r \in Ranks \ {0} : engine'[r] = engine[r]
      /\ \A q \in Requests : stamp'[q] = IF q \in admitted THEN rankVersion[0] ELSE stamp[q]
      /\ UNCHANGED <<queued, port, callPc, rankVersion, sampled, calledAt, decision>>
  BY DEF Broadcast, TypeOK, LoopInv, Followers, callVars, inboxVars, portVars
<1>2. loopPc'[0] # "broadcasting"
  BY <1>1 DEF TypeOK, LoopInv, Decisions, AfterReceipt
<1>3. \A q \in Requests : q \in admitted <=> \E r \in Ranks : Decided(q, r)
  <2>1. loopPc[0] = "broadcasting"
    BY <1>1
  <2>2. \A q : q \in admitted <=> \E r \in Ranks : q \in decision[0].admit[r]
    BY ONLY TRUE
  <2> QED BY ONLY <2>1, <2>2 DEF Decided
<1> HIDE DEF admitted
<1>4. ASSUME NEW q \in Requests, q \in admitted
      PROVE  /\ Untouched(q) /\ q \notin queued /\ ~OnPort(q)
             /\ \A r \in Ranks : q \notin engine[r]
             /\ stamp'[q] = rankVersion[0]
  <2>1. PICK k \in Ranks : Decided(q, k)
    BY <1>3, <1>4
  <2>2. OnRank(q, k)
    BY <2>1 DEF OnRank
  <2>3. ~OnPort(q) /\ reservation[q] = k /\ OnRankOnce(q, k) /\ q \notin queued
    BY <2>2 DEF CopiesInv, RankInv, QueueInv
  <2>4. ASSUME NEW r \in Ranks, q \in engine[r] PROVE FALSE
    <3>1. OnRank(q, r)
      BY <2>4 DEF OnRank
    <3>2. r = k
      BY <2>3, <3>1 DEF CopiesInv, RankInv
    <3> QED BY <2>1, <2>3, <2>4, <3>2 DEF OnRankOnce
  <2>5. Untouched(q)
    BY <2>1 DEF StampInv
  <2> QED BY <1>1, <1>4, <2>3, <2>4, <2>5
<1>5. \A q \in Requests : q \notin admitted => stamp'[q] = stamp[q]
  BY <1>1
<1>6. \A q \in queued : Untouched(q)'
  BY <1>1 DEF StampInv, Untouched
<1>7. ASSUME NEW q \in Requests, NEW r \in Ranks, Sent(q, r)'
      PROVE  sampled'[q] = {} /\ StampedBelow(q, Reaches(r))'
  <2>1. q \in admitted /\ r # 0
    BY <1>1, <1>3, <1>7 DEF Sent, Decided
  <2>2. decision[0].action # "pull"
    BY <1>1, <1>7 DEF Sent, LoopInv, WellFormed
  <2>3. Reaches(r)' = Reaches(r)
    BY <1>1, <2>1, <2>2 DEF Reaches, Applied
  <2>4. rankVersion[0] <= Reaches(r)
    <3>1. rankVersion[0] <= Applied(0) /\ Applied(0) <= Reaches(0) /\ Reaches(0) <= Reaches(r)
      BY DEF VersionInv
    <3> QED BY <3>1, VersionTypes
  <2> QED BY <1>1, <1>4, <2>1, <2>3, <2>4 DEF StampedBelow, Untouched
<1>8. ASSUME NEW q \in Requests, NEW r \in Ranks, q \in engine'[r]
      PROVE  StampedBelow(q, rankVersion[r])'
  <2>1. CASE q \in admitted
    <3>1. r = 0
      BY <1>1, <1>4, <1>8, <2>1
    <3> QED BY <1>1, <1>4, <2>1, <3>1 DEF StampedBelow, Untouched
  <2>2. CASE q \notin admitted
    <3>1. q \in engine[r]
      BY <1>1, <1>3, <1>8, <2>2 DEF Decided
    <3> QED BY <1>1, <1>5, <2>2, <3>1 DEF StampInv, StampedBelow
  <2> QED BY <2>1, <2>2
<1>9. ASSUME NEW done \in port, NEW q \in DOMAIN done
      PROVE  done[q] \in sampled'[q] /\ StampedBelow(q, done[q])'
  <2>1. q \in Requests /\ OnPort(q)
    BY DEF TypeOK, OnPort
  <2>2. q \notin admitted
    BY <1>4, <2>1
  <2> QED BY <1>1, <1>5, <2>1, <2>2 DEF StampInv, StampedBelow
<1>10. \A q \in Requests, r \in Ranks : ~Decided(q, r)'
  BY <1>2 DEF Decided
<1> QED BY <1>1, <1>6, <1>7, <1>8, <1>9, <1>10 DEF StampInv

(* A rank that admits requests has caught up with rank 0.                  *)
LEMMA StampReceive ==
  ASSUME TypeOK, LoopInv, StampInv, NEW k \in Ranks, Receive(k)
  PROVE  StampInv'
<1> USE RankTypes, StampTypes
<1>1. /\ k # 0 /\ ~delivered[k] /\ delivered'[k] /\ loopPc[k] = "receiving"
      /\ engine'[k] = engine[k] \union sent.admit[k]
      /\ \A r \in Ranks \ {k} : /\ engine'[r] = engine[r] /\ delivered'[r] = delivered[r]
                                /\ loopPc'[r] = loopPc[r] /\ decision'[r] = decision[r]
      /\ UNCHANGED <<queued, port, callPc, stamp, sent, rankVersion, sampled, calledAt>>
  BY DEF Receive, TypeOK, LoopInv, callVars, inboxVars, futureVars, portVars
<1>2. \A q \in Requests, r \in Ranks :
        /\ Decided(q, r)' <=> Decided(q, r)
        /\ Sent(q, r)' => Sent(q, r) /\ r # k
  BY <1>1 DEF Decided, Sent
<1>3. \A r \in Ranks \ {k} : Reaches(r)' = Reaches(r)
  BY <1>1 DEF Reaches, Applied
<1>4. \A q \in Requests : \A v : StampedBelow(q, v)' <=> StampedBelow(q, v)
  BY <1>1 DEF StampedBelow
<1>5. ASSUME NEW q \in Requests, NEW r \in Ranks, q \in engine'[r]
      PROVE  StampedBelow(q, rankVersion[r])
  <2>1. CASE q \in engine[r]
    BY <2>1 DEF StampInv
  <2>2. CASE q \notin engine[r]
    <3>1. r = k /\ Sent(q, k)
      BY <1>1, <1>5, <2>2 DEF Sent
    <3>2. sent.action # "pull"
      BY <3>1 DEF Sent, LoopInv, WellFormed
    <3>3. Reaches(k) = rankVersion[k]
      BY <1>1, <3>2 DEF Reaches, Applied
    <3> QED BY <3>1, <3>3 DEF StampInv
  <2> QED BY <2>1, <2>2
<1>6. ASSUME NEW q \in Requests, NEW r \in Ranks
      PROVE  /\ Decided(q, r)' => Untouched(q)'
             /\ Sent(q, r)' => sampled'[q] = {} /\ StampedBelow(q, Reaches(r))'
             /\ q \in engine'[r] => StampedBelow(q, rankVersion[r])'
  <2>1. Decided(q, r)' => Untouched(q)'
    BY <1>1, <1>2 DEF StampInv, Untouched
  <2>2. Sent(q, r)' => sampled'[q] = {} /\ StampedBelow(q, Reaches(r))'
    BY <1>1, <1>2, <1>3 DEF StampInv, StampedBelow
  <2>3. q \in engine'[r] => StampedBelow(q, rankVersion[r])'
    BY <1>1, <1>5 DEF StampedBelow
  <2> QED BY <2>1, <2>2, <2>3
<1>7. ASSUME NEW done \in port, NEW q \in DOMAIN done
      PROVE  done[q] \in sampled'[q] /\ StampedBelow(q, done[q])'
  BY <1>1 DEF StampInv, StampedBelow
<1>8. \A q \in queued : Untouched(q)'
  BY <1>1 DEF StampInv, Untouched
<1> QED BY <1>1, <1>6, <1>7, <1>8 DEF StampInv

(* A step samples under the rank's version, the newest so far of each of   *)
(* its requests, and finishes them with it.                                *)
LEMMA StampEngineStep ==
  ASSUME TypeOK, LoopInv, CopiesInv, StampInv, VersionsBounded, PullPrecedesCalls,
         NEW r \in Ranks, EngineStep(r)
  PROVE  StampInv' /\ VersionsBounded' /\ PullPrecedesCalls'
<1> USE RankTypes, StampTypes
<1>1. PICK batch \in SUBSET engine[r], done \in SUBSET engine[r] : EngineEffect(r, batch, done)
  BY StepEffect
<1>0. rankVersion[r] \in Int
  BY StampTypes
<1> PICK v0 \in Int : v0 = rankVersion[r]
  BY <1>0
<1>2. UNCHANGED <<queued, loopPc, decision, sent, delivered, rankVersion>>
  BY DEF EngineStep, inboxVars
<1>3. /\ batch \subseteq Requests /\ done \subseteq batch
      /\ engine'[r] = engine[r] \ done /\ \A k \in Ranks \ {r} : engine'[k] = engine[k]
      /\ \A q \in Requests : sampled'[q] = IF q \in batch THEN sampled[q] \union {v0} ELSE sampled[q]
  BY <1>1 DEF EngineEffect, TypeOK
<1>4. UNCHANGED <<stamp, calledAt>>
  BY <1>1 DEF EngineEffect, Resolve, callVars, futureVars
<1>5. v0 <= v0
  OBVIOUS
<1>6. ASSUME NEW q \in Requests, q \in batch
      PROVE  /\ q \notin queued /\ ~OnPort(q) /\ callPc[q] \notin {"new", "answered"}
             /\ \A k \in Ranks : ~Decided(q, k) /\ ~Sent(q, k)
             /\ \A k \in Ranks \ {r} : q \notin engine[k]
             /\ StampedBelow(q, v0)
  <2>1. OnRank(q, r) /\ StampedBelow(q, v0)
    BY <1>6 DEF OnRank, StampInv
  <2>2. ~OnPort(q) /\ reservation[q] = r /\ OnRankOnce(q, r)
    BY <2>1 DEF CopiesInv, RankInv
  <2>3. \A k \in Ranks \ {r} : ~OnRank(q, k)
    BY <2>2 DEF CopiesInv, RankInv
  <2>4. q \notin queued /\ callPc[q] \notin {"new", "answered"}
    BY <2>1 DEF CopiesInv, QueueInv, OutsideInv, Unheld
  <2> QED BY <1>6, <2>1, <2>2, <2>3, <2>4 DEF OnRank, OnRankOnce
<1>7. \A q \in Requests, k \in Ranks :
        /\ Decided(q, k)' <=> Decided(q, k)
        /\ Sent(q, k)' <=> Sent(q, k)
        /\ Reaches(k)' = Reaches(k)
  BY <1>2 DEF Decided, Sent, Reaches, Applied
<1>8. ASSUME NEW q \in Requests, q \in batch
      PROVE  StampedBelow(q, v0)' /\ v0 \in sampled'[q]
  <2>1. StampedBelow(q, v0) /\ v0 <= v0 /\ sampled'[q] = sampled[q] \union {v0}
    BY <1>3, <1>5, <1>6, <1>8
  <2> QED BY <1>2, <1>4, <2>1 DEF StampedBelow
<1>9. \A q \in Requests \ batch : sampled'[q] = sampled[q]
  BY <1>3
<1>10. \A q \in Requests \ batch : \A v : StampedBelow(q, v)' <=> StampedBelow(q, v)
  BY <1>4, <1>9 DEF StampedBelow
<1>11. \A q \in Requests \ batch : Untouched(q)' <=> Untouched(q)
  BY <1>2, <1>4, <1>9 DEF Untouched
<1>12. ASSUME NEW q \in Requests, NEW k \in Ranks
       PROVE  /\ Decided(q, k)' => Untouched(q)'
              /\ Sent(q, k)' => sampled'[q] = {} /\ StampedBelow(q, Reaches(k))'
              /\ q \in engine'[k] => StampedBelow(q, rankVersion[k])'
  <2>1. CASE q \in batch
    <3>1. q \in engine'[k] => k = r
      BY <1>3, <1>6, <2>1
    <3>2. rankVersion'[r] = v0
      BY <1>2
    <3>3. StampedBelow(q, rankVersion[r])'
      BY <1>8, <2>1, <3>2 DEF StampedBelow
    <3> QED BY <1>6, <1>7, <2>1, <3>1, <3>3
  <2>2. CASE q \notin batch
    <3>1. q \in engine'[k] => q \in engine[k]
      BY <1>3
    <3>2. Decided(q, k)' => Untouched(q)'
      BY <1>7, <1>11, <2>2 DEF StampInv
    <3>3. Sent(q, k)' => sampled'[q] = {} /\ StampedBelow(q, Reaches(k))'
      BY <1>4, <1>7, <1>9, <2>2 DEF StampInv, StampedBelow
    <3>4. q \in engine'[k] => StampedBelow(q, rankVersion[k])'
      BY <1>2, <1>4, <1>9, <2>2, <3>1 DEF StampInv, StampedBelow
    <3> QED BY <3>2, <3>3, <3>4
  <2> QED BY <2>1, <2>2
<1>13. \A q \in queued' : Untouched(q)'
  BY <1>2, <1>6, <1>11 DEF StampInv, TypeOK
<1>14. \A q \in Requests : callPc'[q] = "new" => callPc[q] = "new"
  BY <1>1 DEF EngineEffect, Resolve, callVars
<1>15. \A q \in Requests : callPc'[q] = "new" => sampled'[q] = {}
  BY <1>6, <1>9, <1>14 DEF StampInv
<1>16. ASSUME NEW a \in port', NEW q \in DOMAIN a
       PROVE  a[q] \in sampled'[q] /\ StampedBelow(q, a[q])'
  <2>1. CASE a \in port
    <3>1. q \in Requests /\ OnPort(q)
      BY <2>1 DEF TypeOK, OnPort
    <3>2. q \notin batch
      BY <1>6, <3>1
    <3> QED BY <1>4, <1>9, <2>1, <3>1, <3>2 DEF StampInv, StampedBelow
  <2>2. CASE a \notin port
    <3>1. a = [p \in done |-> v0]
      BY <1>1, <2>2 DEF EngineEffect
    <3>2. q \in batch /\ a[q] = v0
      BY <1>3, <3>1
    <3> QED BY <1>3, <1>8, <3>2 DEF StampedBelow
  <2> QED BY <2>1, <2>2
<1>17. VersionsBounded'
  <2> SUFFICES ASSUME NEW q \in Requests, callPc'[q] = "answered"
               PROVE  /\ completion'[q].max \in sampled'[q]
                      /\ \A v \in sampled'[q] : completion'[q].min <= v /\ v <= completion'[q].max
    BY DEF VersionsBounded
  <2>1. CASE callPc[q] = "answered"
    <3>1. q \notin batch
      BY <1>6, <2>1
    <3>2. completion'[q] = completion[q]
      BY <1>1, <1>3, <3>1 DEF EngineEffect, Resolve, callVars
    <3> QED BY <1>9, <2>1, <3>1, <3>2 DEF VersionsBounded
  <2>2. CASE callPc[q] # "answered"
    <3> DEFINE completions == [p \in done |-> rankVersion[r]]
    <3>1. r = 0
      BY <1>1, <2>2 DEF EngineEffect, callVars
    <3>2. Resolve(completions) /\ DOMAIN completions = done
      BY <1>1, <3>1 DEF EngineEffect
    <3>3. \A p \in done : completions[p] = v0
      OBVIOUS
    <3> HIDE DEF completions
    <3>4. q \in done
      BY <2>2, <3>2 DEF Resolve
    <3>5. completion'[q].min = stamp[q] /\ completion'[q].max = v0
      BY <3>2, <3>3, <3>4 DEF Resolve
    <3> QED BY <1>3, <1>4, <1>8, <3>4, <3>5 DEF StampedBelow
  <2> QED BY <2>1, <2>2
<1>18. PullPrecedesCalls'
  <2> SUFFICES ASSUME NEW q \in Requests, NEW v \in sampled'[q] PROVE v >= calledAt'[q]
    BY DEF PullPrecedesCalls
  <2>1. CASE v \in sampled[q]
    BY <1>4, <2>1 DEF PullPrecedesCalls
  <2>2. CASE v \notin sampled[q]
    <3>1. q \in batch /\ v = v0
      BY <1>3, <2>2
    <3>2. calledAt[q] <= stamp[q] /\ stamp[q] <= v0
      BY <1>6, <3>1 DEF StampedBelow
    <3> QED BY <1>4, <1>5, <3>1, <3>2
  <2> QED BY <2>1, <2>2
<1> QED BY <1>12, <1>13, <1>15, <1>16, <1>17, <1>18 DEF StampInv

(* An answer of another rank carries the newest version of its request.    *)
LEMMA StampDrain ==
  ASSUME TypeOK, TypeOK', CopiesInv, StampInv, VersionsBounded, PullPrecedesCalls, DrainResult
  PROVE  StampInv' /\ VersionsBounded' /\ PullPrecedesCalls'
<1> USE RankTypes, StampTypes
<1>1. PICK done \in port :
        /\ port' = port \ {done}
        /\ \/ Resolve(done)
           \/ UNCHANGED <<callVars, futureVars>>
  BY DEF DrainResult
<1>2. /\ UNCHANGED <<queued, loopPc, decision, sent, delivered, engine, rankVersion, sampled>>
      /\ UNCHANGED <<stamp, calledAt>>
  BY <1>1 DEF DrainResult, inboxVars, rankVars, Resolve, callVars, futureVars
<1>3. \A q \in Requests : callPc'[q] = "new" => callPc[q] = "new"
  BY <1>1 DEF Resolve, callVars
<1>4. \A q \in Requests, r \in Ranks :
        /\ Decided(q, r)' <=> Decided(q, r)
        /\ Sent(q, r)' <=> Sent(q, r)
        /\ Reaches(r)' = Reaches(r)
  BY <1>2 DEF Decided, Sent, Reaches, Applied
<1>5. \A r \in Ranks : rankVersion[r] <= rankVersion'[r]
  <2>1. \A r \in Ranks : rankVersion[r] \in Int
    BY StampTypes
  <2> QED BY <1>2, <2>1
<1>6. StampInv'
  BY <1>1, <1>2, <1>3, <1>4, <1>5, StampFrame
<1>7. VersionsBounded'
  <2> SUFFICES ASSUME NEW q \in Requests, callPc'[q] = "answered"
               PROVE  /\ completion'[q].max \in sampled[q]
                      /\ \A v \in sampled[q] : completion'[q].min <= v /\ v <= completion'[q].max
    BY <1>2 DEF VersionsBounded
  <2>1. CASE callPc[q] = "answered" /\ completion'[q] = completion[q]
    BY <2>1 DEF VersionsBounded
  <2>2. CASE ~(callPc[q] = "answered" /\ completion'[q] = completion[q])
    <3>1. Resolve(done) /\ q \in DOMAIN done
      BY <1>1, <2>2 DEF Resolve, callVars
    <3>2. completion'[q].min = stamp[q] /\ completion'[q].max = done[q]
      BY <3>1 DEF Resolve
    <3> QED BY <3>1, <3>2 DEF StampInv, StampedBelow
  <2> QED BY <2>1, <2>2
<1>8. PullPrecedesCalls'
  BY <1>2 DEF PullPrecedesCalls
<1> QED BY <1>6, <1>7, <1>8

(* All other steps sample and stamp nothing.                               *)
LEMMA StampRest ==
  ASSUME TypeOK, TypeOK', LoopInv, StampInv, VersionInv,
         VersionsBounded, PullPrecedesCalls,
         \/ \E k \in Ranks : Pulled(k) \/ BurstEnds(k)
         \/ DecideToClose \/ DecideToPull \/ DecideToStep
         \/ PullModelStateDict \/ CloseRequested \/ Crash \/ LoopEnded \/ CloseReturns
         \/ UNCHANGED vars
  PROVE  StampInv' /\ VersionsBounded' /\ PullPrecedesCalls'
<1> USE RankTypes
<1>1. /\ UNCHANGED <<sent, delivered, engine, port, completion, sampled, calledAt, stamp>>
      /\ queued' \subseteq queued
  BY DEF Pulled, BurstEnds, DecideToClose, DecideToPull, DecideToStep, DecideWith,
         PullModelStateDict, CloseRequested, Crash, LoopEnded, CloseReturns, vars,
         callVars, inboxVars, futureVars, rankVars, portVars
<1>2. \A q \in Requests : callPc'[q] \in {"new", "answered"} => callPc'[q] = callPc[q]
  BY DEF Pulled, BurstEnds, DecideToClose, DecideToPull, DecideToStep, DecideWith,
         PullModelStateDict, CloseRequested, Crash, LoopEnded, CloseReturns, vars, FailFutures,
         callVars
<1>3. \A r \in Ranks : rankVersion[r] <= rankVersion'[r]
  <2>1. \A r \in Ranks : rankVersion[r] <= rankVersion[r]
    BY StampTypes
  <2>2. ASSUME NEW k \in Ranks, Pulled(k) PROVE \A r \in Ranks : rankVersion[r] <= rankVersion'[r]
    <3>1. rankVersion[k] <= Applied(k) /\ Applied(k) = decision[k].version
      BY <2>2 DEF VersionInv, Applied, Pulled
    <3> QED BY <2>1, <2>2, <3>1 DEF Pulled, TypeOK
  <2>3. CASE UNCHANGED rankVersion
    BY <2>1, <2>3
  <2> QED BY <2>2, <2>3 DEF BurstEnds, DecideToClose, DecideToPull, DecideToStep, DecideWith,
         PullModelStateDict, CloseRequested, Crash, LoopEnded, CloseReturns, vars, rankVars
<1>4. \A q \in Requests, r \in Ranks : Decided(q, r)' => Decided(q, r) \/ q \in queued
  <2>1. CASE DecideToStep
    <3>1. PICK rankOf \in [queued -> Ranks] : DecideWith([NoDecision EXCEPT
            !.action = "step",
            !.admit = [r \in Ranks |-> {q \in queued : rankOf[q] = r}]])
      BY <2>1 DEF DecideToStep
    <3>2. decision'[0].admit = [r \in Ranks |-> {q \in queued : rankOf[q] = r}]
      BY <3>1 DEF DecideWith, NoDecision, TypeOK
    <3> QED BY <3>2 DEF Decided
  <2>2. CASE DecideToClose \/ DecideToPull
    <3>1. PICK d : d.admit = NoDecision.admit /\ DecideWith(d)
      <4>1. /\ [NoDecision EXCEPT !.action = "close"].admit = NoDecision.admit
            /\ [NoDecision EXCEPT !.action = "pull", !.version = pullRequest].admit
                 = NoDecision.admit
        BY DEF NoDecision
      <4> QED BY <2>2, <4>1 DEF DecideToClose, DecideToPull
    <3>2. \A r \in Ranks : decision'[0].admit[r] = {}
      BY <3>1 DEF DecideWith, NoDecision, TypeOK
    <3> QED BY <3>2 DEF Decided
  <2>3. CASE ~(DecideToStep \/ DecideToClose \/ DecideToPull)
    <3>1. UNCHANGED decision
      BY <2>3 DEF Pulled, BurstEnds, PullModelStateDict, CloseRequested, Crash, LoopEnded,
             CloseReturns, vars, rankVars
    <3>2. loopPc'[0] = "broadcasting" => loopPc[0] = "broadcasting"
      BY <2>3 DEF Pulled, BurstEnds, PullModelStateDict, CloseRequested, Crash, LoopEnded,
             CloseReturns, vars, rankVars, TypeOK, NextPc
    <3> QED BY <3>1, <3>2 DEF Decided
  <2> QED BY <2>1, <2>2, <2>3
<1>5. ASSUME NEW r \in Followers PROVE Reaches(r)' = Reaches(r)
  <2>1. r # 0 /\ r \in Ranks
    BY DEF Followers
  <2>2. Applied(r)' = Applied(r)
    <3>1. ASSUME NEW k \in Ranks, Pulled(k) \/ BurstEnds(k) PROVE Applied(r)' = Applied(r)
      BY <2>1, <3>1 DEF Pulled, BurstEnds, Applied, TypeOK, NextPc
    <3>2. CASE DecideToClose \/ DecideToPull \/ DecideToStep
      BY <2>1, <3>2 DEF DecideToClose, DecideToPull, DecideToStep, DecideWith, Applied, TypeOK
    <3>3. CASE PullModelStateDict \/ CloseRequested \/ Crash \/ LoopEnded \/ CloseReturns
               \/ UNCHANGED vars
      BY <2>1, <3>3 DEF PullModelStateDict, CloseRequested, Crash, LoopEnded, CloseReturns, vars,
         rankVars, Applied, TypeOK
    <3> QED BY <3>1, <3>2, <3>3
  <2> QED BY <1>1, <2>2 DEF Reaches
<1>6. \A q \in Requests, r \in Ranks :
        /\ Sent(q, r)' => Sent(q, r) /\ Reaches(r)' = Reaches(r)
        /\ q \in engine'[r] => q \in engine[r]
  BY <1>1, <1>5 DEF Sent, LoopInv, Followers
<1>7. StampInv'
  BY <1>1, <1>2, <1>3, <1>4, <1>6, StampFrame
<1> QED BY <1>1, <1>2, <1>7 DEF VersionsBounded, PullPrecedesCalls

(* Every step keeps the version stamps of requests and completions in      *)
(* order.                                                                  *)
LEMMA StampStep ==
  ASSUME TypeOK, TypeOK', LoopInv, CopiesInv, VersionInv, StampInv,
         VersionsBounded, PullPrecedesCalls, [Next]_vars
  PROVE  StampInv' /\ VersionsBounded' /\ PullPrecedesCalls'
<1>1. ASSUME NEW p \in Requests, Generate(p) PROVE StampInv' /\ VersionsBounded' /\ PullPrecedesCalls'
  <2>1. VersionsBounded'
    BY <1>1 DEF Generate, rankVars, VersionsBounded, TypeOK
  <2> QED BY <1>1, <2>1, StampGenerate
<1>2. CASE Broadcast
  BY <1>2, StampBroadcast DEF Broadcast, callVars, VersionsBounded, PullPrecedesCalls
<1>3. ASSUME NEW k \in Ranks, Receive(k) PROVE StampInv' /\ VersionsBounded' /\ PullPrecedesCalls'
  BY <1>3, StampReceive DEF Receive, callVars, VersionsBounded, PullPrecedesCalls
<1>4. ASSUME NEW k \in Ranks, EngineStep(k) PROVE StampInv' /\ VersionsBounded' /\ PullPrecedesCalls'
  BY <1>4, StampEngineStep
<1>5. CASE DrainResult
  BY <1>5, StampDrain
<1> QED BY <1>1, <1>2, <1>3, <1>4, <1>5, StampRest DEF Next, Quiet

-------------------------------------------------------------------------------
(* The theorems.                                                           *)

(* The drain task meets only answers that somebody waits for, unless the   *)
(* loop crashed.                                                           *)
LEMMA DrainStep == TypeOK /\ LoopInv /\ CopiesInv /\ DrainSurvives /\ [Next]_vars => DrainSurvives'
<1> SUFFICES ASSUME TypeOK, LoopInv, CopiesInv, DrainSurvives, [Next]_vars PROVE DrainSurvives'
  OBVIOUS
<1>1. loopPc[0] = "crashed" => loopPc'[0] = "crashed"
  BY RankTypes DEF Next, vars, Generate, PullModelStateDict, CloseRequested, DecideToClose,
     DecideToPull, DecideToStep, DecideWith, Broadcast, Receive, Pulled, EngineStep, BurstEnds,
     DrainResult, Crash, LoopEnded, CloseReturns, Quiet, rankVars, TypeOK, LoopInv
<1>2. drain' = "failed" => drain = "failed" \/ DrainResult
  BY DEF Next, vars, Generate, PullModelStateDict, CloseRequested, DecideToClose,
     DecideToPull, DecideToStep, DecideWith, Broadcast, Receive, Pulled, EngineStep, BurstEnds,
     Crash, LoopEnded, CloseReturns, Quiet, portVars
<1> QED BY <1>1, <1>2, CopiesDrain DEF DrainSurvives

(* EngineInv is inductive: types, decisions, copies, versions and stamps   *)
(* hold together, whatever the number of ranks, calls and pulls.           *)
THEOREM EngineInvariant == Spec => []EngineInv
<1>1. Init => EngineInv
  BY TypeInit, LoopInit, CopiesInit, VersionInit, StampInit DEF EngineInv, DrainSurvives, Init
<1>2. EngineInv /\ [Next]_vars => EngineInv'
  <2> SUFFICES ASSUME EngineInv, [Next]_vars PROVE EngineInv'
    OBVIOUS
  <2>1. TypeOK /\ LoopInv /\ CopiesInv /\ VersionInv /\ StampInv
        /\ VersionsBounded /\ PullPrecedesCalls /\ DrainSurvives
    BY DEF EngineInv
  <2>2. TypeOK' /\ LoopInv' /\ CopiesInv' /\ VersionInv' /\ DrainSurvives'
    BY <2>1, TypeStep, LoopStep, CopiesStep, VersionStep, DrainStep
  <2> QED BY <2>1, <2>2, StampStep DEF EngineInv
<1> QED BY <1>1, <1>2, PTL DEF Spec

(* The policy versions of an answer bound those of its tokens.             *)
THEOREM AnswersBounded == Spec => []VersionsBounded
BY EngineInvariant, PTL DEF EngineInv

(* No request is sampled under weights older than those rank 0 had at the  *)
(* call.                                                                   *)
THEOREM CallsSeePulls == Spec => []PullPrecedesCalls
BY EngineInvariant, PTL DEF EngineInv

(* Only a crash can make the drain task meet an answer without a future.   *)
THEOREM DrainLives == Spec => []DrainSurvives
BY EngineInvariant, PTL DEF EngineInv

(* A set of ranks with at most one member.                                 *)
LEMMA OneRank ==
  ASSUME NEW S \in SUBSET Ranks, NEW k, S \subseteq {k}
  PROVE  Cardinality(S) = IF S = {} THEN 0 ELSE 1
<1>1. CASE S = {}
  BY <1>1, FS_EmptySet
<1>2. CASE S # {}
  <2>1. S = {k}
    BY <1>2
  <2> QED BY <1>2, <2>1, FS_Singleton
<1> QED BY <1>1, <1>2

(* The count of the copies of a request follows from where they can be.    *)
LEMMA CountCopies ==
  ASSUME EngineInv, Serving, NEW q \in Requests
  PROVE  Copies(q) = IF q \in futures THEN 1 ELSE 0
<1> DEFINE AtDecision == {r \in Ranks : loopPc[0] = "broadcasting" /\ q \in decision[0].admit[r]}
           Underway == {r \in Ranks : ~delivered[r] /\ q \in sent.admit[r]}
           Serves == {r \in Ranks : q \in engine[r]}
           Lists == {done \in port : q \in DOMAIN done}
           k == reservation[q]
<1>1. TypeOK /\ CopiesInv
  BY DEF EngineInv
<1>2. AtDecision = {r \in Ranks : Decided(q, r)} /\ Underway = {r \in Ranks : Sent(q, r)}
  BY DEF Decided, Sent
<1>3. AtDecision \subseteq {k} /\ Underway \subseteq {k} /\ Serves \subseteq {k}
  BY <1>1, <1>2 DEF CopiesInv, RankInv, OnRank
<1>4. /\ Cardinality(AtDecision) = IF AtDecision = {} THEN 0 ELSE 1
      /\ Cardinality(Underway) = IF Underway = {} THEN 0 ELSE 1
      /\ Cardinality(Serves) = IF Serves = {} THEN 0 ELSE 1
  BY <1>3, OneRank
<1>5. Cardinality(Lists) = IF Lists = {} THEN 0 ELSE 1
  <2>1. CASE Lists = {}
    BY <2>1, FS_EmptySet
  <2>2. CASE Lists # {}
    <3>1. PICK done : done \in Lists
      BY <2>2
    <3>2. Lists = {done}
      BY <1>1, <3>1 DEF CopiesInv, PortInv
    <3> QED BY <2>2, <3>2, FS_Singleton
  <2> QED BY <2>1, <2>2
<1>6. Lists # {} <=> OnPort(q)
  BY DEF OnPort
<1>7. OnPort(q) => q \notin queued /\ \A r \in Ranks : ~OnRank(q, r)
  BY <1>1 DEF CopiesInv, QueueInv, RankInv
<1>8. \A r \in Ranks : OnRank(q, r) => q \notin queued /\ r = k /\ OnRankOnce(q, r)
  BY <1>1 DEF CopiesInv, QueueInv, RankInv
<1>9. AtDecision # {} => Underway = {} /\ Serves = {} /\ Lists = {} /\ q \notin queued
  BY <1>2, <1>3, <1>6, <1>7, <1>8 DEF OnRank, OnRankOnce
<1>10. Underway # {} => AtDecision = {} /\ Serves = {} /\ Lists = {} /\ q \notin queued
  BY <1>2, <1>3, <1>6, <1>7, <1>8 DEF OnRank, OnRankOnce
<1>11. Serves # {} => AtDecision = {} /\ Underway = {} /\ Lists = {} /\ q \notin queued
  BY <1>2, <1>3, <1>6, <1>7, <1>8 DEF OnRank, OnRankOnce
<1>12. Lists # {} => AtDecision = {} /\ Underway = {} /\ Serves = {} /\ q \notin queued
  BY <1>2, <1>6, <1>7 DEF OnRank
<1>13. q \in futures <=> q \in queued \/ Lists # {} \/ AtDecision # {} \/ Underway # {} \/ Serves # {}
  BY <1>1, <1>2, <1>6 DEF CopiesInv, FutureInv, Unheld, OnRank
<1>14. Copies(q) = (IF q \in queued THEN 1 ELSE 0) + Cardinality(AtDecision)
                   + Cardinality(Underway) + Cardinality(Serves) + Cardinality(Lists)
  BY DEF Copies
<1> HIDE DEF AtDecision, Underway, Serves, Lists, k
<1> QED BY <1>4, <1>5, <1>9, <1>10, <1>11, <1>12, <1>13, <1>14

(* While rank 0 serves, a call that waits has one copy of its request in   *)
(* the system, on the rank that is reserved for it, and any other none.    *)
THEOREM RequestsHeldOnce == Spec => []RequestHeldOnce
<1>1. EngineInv => RequestHeldOnce
  <2> SUFFICES ASSUME EngineInv, Serving, NEW q \in Requests
               PROVE  /\ callPc[q] = "waiting" <=> q \in futures
                      /\ Copies(q) = IF callPc[q] = "waiting" THEN 1 ELSE 0
                      /\ reservation[q] # NoRank <=> q \in futures \ queued
                      /\ \A r \in Ranks : q \in engine[r] => reservation[q] = r
    BY DEF RequestHeldOnce
  <2>1. TypeOK /\ CopiesInv
    BY DEF EngineInv
  <2>2. callPc[q] = "waiting" <=> q \in futures
    BY <2>1 DEF CopiesInv, OutsideInv, FutureInv
  <2>3. reservation[q] # NoRank <=> q \in futures \ queued
    BY <2>1 DEF CopiesInv, FutureInv
  <2>4. \A r \in Ranks : q \in engine[r] => reservation[q] = r
    BY <2>1 DEF CopiesInv, RankInv, OnRank
  <2> QED BY <2>2, <2>3, <2>4, CountCopies
<1> QED BY <1>1, EngineInvariant, PTL
================================================================================
