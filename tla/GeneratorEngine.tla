---------------------------- MODULE GeneratorEngine ----------------------------
(***************************************************************************)
(* One generator (actors/generator.py): a background engine loop on every  *)
(* data-parallel rank, driven by rank 0.  Rank 0 takes the generate, pull  *)
(* and close calls, decides the next action of all ranks, broadcasts the   *)
(* decision and resolves the callers' futures; completions of the other    *)
(* ranks reach it over a port.                                             *)
(*                                                                         *)
(* The tensor-parallel ranks of a replica do the same as their first one,  *)
(* so a rank stands for a replica.  A decision may reach a rank after rank *)
(* 0 went on, but before rank 0 broadcasts the next.  Which rank a request *)
(* goes to is the routing strategy's choice; here it is any rank.          *)
(***************************************************************************)
EXTENDS Integers, FiniteSets

CONSTANTS
  DpDegree,    \* data-parallel ranks
  Requests,    \* generate calls, by request_id
  MaxPulls,    \* bound: pull_model_state_dict calls
  Setups       \* the runs: requests called, steps of a burst, what may end it

ASSUME EngineAssumption ==
  /\ DpDegree \in Nat \ {0}
  /\ IsFiniteSet(Requests)
  /\ MaxPulls \in Nat
  /\ Setups \subseteq [called : SUBSET Requests, burst : Nat \ {0},
                      mayClose : BOOLEAN, mayCrash : BOOLEAN]

VARIABLES
  setup,          \* which of the Setups this is
  callPc,         \* where each generate call is
  queued,         \* _queued_generation_requests
  futures,        \* request ids in _rank0_generation_futures
  stamp,          \* min_policy_version of each future
  reservation,    \* the rank the router reserved for a request
  completion,     \* [min, max] policy versions of the returned Completion
  pulls,          \* pull calls so far; the k-th pulls version k
  pullPc,         \* the outstanding pull call
  pullRequest,    \* version in _model_state_dict_pull_request, or none
  closePc,        \* the close endpoint on rank 0
  loopPc,         \* where each rank's engine loop is
  decision,       \* the decision each rank applies
  sent,           \* the last decision broadcast
  delivered,      \* whether it has reached each rank
  stepsLeft,      \* of each rank's burst
  engine,         \* unfinished requests in each rank's vLLM engine
  rankVersion,    \* each rank's policy_version
  port,           \* lists of completions (request -> version) sent to rank 0
  drain,          \* rank 0's drain task
  sampled,        \* history: versions that sampled tokens of a request
  calledAt        \* history: rank 0's version when a request was made

callVars == <<callPc, completion, calledAt>>
inboxVars == <<queued, pulls, pullPc, pullRequest, closePc>>
futureVars == <<futures, stamp, reservation>>
rankVars == <<loopPc, decision, sent, delivered, stepsLeft, engine, rankVersion, sampled>>
portVars == <<port, drain>>
vars == <<setup, callVars, inboxVars, futureVars, rankVars, portVars>>

Burst == setup.burst        \* max_engine_steps_between_decisions
MayClose == setup.mayClose  \* whether the generator is closed
MayCrash == setup.mayCrash  \* whether the loop of rank 0 may raise

Ranks == 0..(DpDegree - 1)
NoRank == -1
NoVersion == -1
NoDecision == [action |-> "none", admit |-> [r \in Ranks |-> {}], version |-> NoVersion]
Followers == Ranks \ {0}

Init ==
  /\ setup \in Setups
  /\ callPc = [q \in Requests |-> "new"]
  /\ completion = [q \in Requests |-> [min |-> NoVersion, max |-> NoVersion]]
  /\ queued = {} /\ futures = {}
  /\ stamp = [q \in Requests |-> NoVersion]
  /\ reservation = [q \in Requests |-> NoRank]
  /\ pulls = 0 /\ pullPc = "idle" /\ pullRequest = NoVersion
  /\ closePc = "open"
  /\ loopPc = [r \in Ranks |-> IF r = 0 THEN "deciding" ELSE "receiving"]
  /\ decision = [r \in Ranks |-> NoDecision]
  /\ sent = NoDecision
  /\ delivered = [r \in Ranks |-> TRUE]
  /\ stepsLeft = [r \in Ranks |-> 0]
  /\ engine = [r \in Ranks |-> {}]
  /\ rankVersion = [r \in Ranks |-> 0]
  /\ port = {} /\ drain = "running"
  /\ sampled = [q \in Requests |-> {}]
  /\ calledAt = [q \in Requests |-> NoVersion]

-------------------------------------------------------------------------------
(* The endpoints of rank 0.                                                *)

(* The running check only asks whether the loop's task exists: a loop that *)
(* crashed still passes it, a generator whose close() dropped the task     *)
(* does not.                                                               *)
LoopStarted_NeverReset == TRUE
LoopStarted == closePc \in {"open", "closing"}

Generate(q) ==
  /\ q \in setup.called
  /\ callPc[q] = "new"
  /\ IF LoopStarted
     THEN /\ callPc' = [callPc EXCEPT ![q] = "waiting"]
          /\ futures' = futures \union {q}
          /\ queued' = queued \union {q}
          /\ calledAt' = [calledAt EXCEPT ![q] = rankVersion[0]]
     ELSE /\ callPc' = [callPc EXCEPT ![q] = "rejected"]
          /\ UNCHANGED <<futures, queued, calledAt>>
  /\ UNCHANGED <<setup, completion, pulls, pullPc, pullRequest, closePc, stamp,
                 reservation, rankVars, portVars>>

(* The router asks for one pull at a time.                                 *)
PullModelStateDict ==
  /\ pullPc # "waiting"
  /\ pulls < MaxPulls
  /\ pulls' = pulls + 1
  /\ IF LoopStarted
     THEN pullPc' = "waiting" /\ pullRequest' = pulls + 1
     ELSE pullPc' = "rejected" /\ UNCHANGED pullRequest
  /\ UNCHANGED <<setup, callVars, queued, closePc, futureVars, rankVars, portVars>>

CloseRequested ==
  /\ MayClose
  /\ closePc = "open"
  /\ closePc' = "closing"
  /\ UNCHANGED <<setup, callVars, queued, pulls, pullPc, pullRequest, futureVars,
                 rankVars, portVars>>

-------------------------------------------------------------------------------
(* Rank 0 decides (_decide_next_action) and broadcasts.                    *)

HasWork_QueueOnly ==
  \/ closePc = "closing"
  \/ pullRequest # NoVersion
  \/ queued # {}

(* Unanswered calls keep the loop awake, whichever rank serves them.       *)
HasWork ==
  \/ closePc = "closing"
  \/ pullRequest # NoVersion
  \/ queued # {}
  \/ futures # {}

DecideWith(d) ==
  /\ decision' = [decision EXCEPT ![0] = d]
  /\ loopPc' = [loopPc EXCEPT ![0] = "broadcasting"]
  /\ UNCHANGED <<setup, callVars, pulls, pullPc, pullRequest, closePc, futures, stamp,
                 sent, delivered, stepsLeft, engine, rankVersion, sampled, portVars>>

DecideToClose ==
  /\ loopPc[0] = "deciding"
  /\ HasWork
  /\ closePc = "closing"
  /\ DecideWith([NoDecision EXCEPT !.action = "close"])
  /\ UNCHANGED <<queued, reservation>>

DecideToPull ==
  /\ loopPc[0] = "deciding"
  /\ HasWork
  /\ closePc # "closing"
  /\ pullRequest # NoVersion
  /\ DecideWith([NoDecision EXCEPT !.action = "pull", !.version = pullRequest])
  /\ UNCHANGED <<queued, reservation>>

(* IntraGeneratorRouter: the load of a rank is its number of reservations. *)
Reserve(rankOf) ==
  reservation' = [q \in Requests |->
    IF q \in DOMAIN rankOf THEN rankOf[q] ELSE reservation[q]]

Release(requests) ==
  reservation' = [q \in Requests |-> IF q \in requests THEN NoRank ELSE reservation[q]]

DecideToStep ==
  /\ loopPc[0] = "deciding"
  /\ HasWork
  /\ closePc # "closing"
  /\ pullRequest = NoVersion
  /\ \E rankOf \in [queued -> Ranks] :
       /\ DecideWith([NoDecision EXCEPT
            !.action = "step",
            !.admit = [r \in Ranks |-> {q \in queued : rankOf[q] = r}]])
       /\ Reserve(rankOf)
  /\ queued' = {}

-------------------------------------------------------------------------------
(* A rank applies a decision, rank 0 as soon as it has sent it.            *)

AfterReceipt(action) ==
  CASE action = "close" -> "stopped"
    [] action = "pull" -> "pulling"
    [] action = "step" -> "stepping"

Broadcast ==
  /\ loopPc[0] = "broadcasting"
  /\ \A r \in Followers : delivered[r]
  /\ LET d == decision[0]
         admitted == UNION {d.admit[r] : r \in Ranks}
     IN /\ sent' = d
        /\ delivered' = [r \in Ranks |-> r = 0]
        /\ loopPc' = [loopPc EXCEPT ![0] = AfterReceipt(d.action)]
        /\ stepsLeft' = [stepsLeft EXCEPT ![0] = Burst]
        /\ engine' = [engine EXCEPT ![0] = @ \union d.admit[0]]
        /\ stamp' = [q \in Requests |->
             IF q \in admitted THEN rankVersion[0] ELSE stamp[q]]
  /\ UNCHANGED <<setup, callVars, inboxVars, futures, reservation, decision, rankVersion,
                 sampled, portVars>>

Receive_AdmitsAll(r) ==
  /\ loopPc[r] = "receiving"
  /\ ~delivered[r]
  /\ delivered' = [delivered EXCEPT ![r] = TRUE]
  /\ decision' = [decision EXCEPT ![r] = sent]
  /\ loopPc' = [loopPc EXCEPT ![r] = AfterReceipt(sent.action)]
  /\ stepsLeft' = [stepsLeft EXCEPT ![r] = Burst]
  /\ engine' = [engine EXCEPT ![r] = @ \union UNION {sent.admit[k] : k \in Ranks}]
  /\ UNCHANGED <<setup, callVars, inboxVars, futureVars, sent, rankVersion, sampled,
                 portVars>>

Receive(r) ==
  /\ loopPc[r] = "receiving"
  /\ ~delivered[r]
  /\ delivered' = [delivered EXCEPT ![r] = TRUE]
  /\ decision' = [decision EXCEPT ![r] = sent]
  /\ loopPc' = [loopPc EXCEPT ![r] = AfterReceipt(sent.action)]
  /\ stepsLeft' = [stepsLeft EXCEPT ![r] = Burst]
  /\ engine' = [engine EXCEPT ![r] = @ \union sent.admit[r]]
  /\ UNCHANGED <<setup, callVars, inboxVars, futureVars, sent, rankVersion, sampled,
                 portVars>>

NextPc(r) == IF r = 0 THEN "deciding" ELSE "receiving"

Pulled_OnlyRank0(r) ==
  /\ loopPc[r] = "pulling"
  /\ rankVersion' = [rankVersion EXCEPT ![0] = IF r = 0 THEN decision[0].version ELSE @]
  /\ loopPc' = [loopPc EXCEPT ![r] = NextPc(r)]
  /\ IF r = 0 THEN pullPc' = "done" /\ pullRequest' = NoVersion
              ELSE UNCHANGED <<pullPc, pullRequest>>
  /\ UNCHANGED <<setup, callVars, queued, pulls, closePc, futureVars, decision,
                 sent, delivered, stepsLeft, engine, sampled, portVars>>

(* The rank holds the new weights; rank 0 answers the pull call.           *)
Pulled(r) ==
  /\ loopPc[r] = "pulling"
  /\ rankVersion' = [rankVersion EXCEPT ![r] = decision[r].version]
  /\ loopPc' = [loopPc EXCEPT ![r] = NextPc(r)]
  /\ IF r = 0 THEN pullPc' = "done" /\ pullRequest' = NoVersion
              ELSE UNCHANGED <<pullPc, pullRequest>>
  /\ UNCHANGED <<setup, callVars, queued, pulls, closePc, futureVars, decision,
                 sent, delivered, stepsLeft, engine, sampled, portVars>>

-------------------------------------------------------------------------------
(* A step of the burst: the engine samples tokens of some of its requests, *)
(* of none while it reads a long prompt, and finishes some of those.       *)

(* _rank0_resolve_futures: the true minimum version replaces the finish    *)
(* version the serving rank put there; done maps requests to that version. *)
Resolve_KeepsPlaceholder(done) ==
  /\ futures' = futures \ DOMAIN done
  /\ callPc' = [q \in Requests |-> IF q \in DOMAIN done THEN "answered" ELSE callPc[q]]
  /\ completion' = [q \in Requests |->
       IF q \in DOMAIN done THEN [min |-> done[q], max |-> done[q]] ELSE completion[q]]
  /\ Release(DOMAIN done)
  /\ UNCHANGED <<stamp, calledAt>>

Resolve(done) ==
  /\ futures' = futures \ DOMAIN done
  /\ callPc' = [q \in Requests |-> IF q \in DOMAIN done THEN "answered" ELSE callPc[q]]
  /\ completion' = [q \in Requests |->
       IF q \in DOMAIN done THEN [min |-> stamp[q], max |-> done[q]] ELSE completion[q]]
  /\ Release(DOMAIN done)
  /\ UNCHANGED <<stamp, calledAt>>

EngineStep(r) ==
  /\ loopPc[r] = "stepping"
  /\ stepsLeft[r] > 0
  /\ engine[r] # {}
  /\ \E batch \in SUBSET engine[r] : \E done \in SUBSET batch :
       LET completions == [q \in done |-> rankVersion[r]] IN
       /\ sampled' = [q \in Requests |->
            IF q \in batch THEN sampled[q] \union {rankVersion[r]} ELSE sampled[q]]
       /\ engine' = [engine EXCEPT ![r] = @ \ done]
       /\ IF r = 0
          THEN Resolve(completions) /\ UNCHANGED port
          ELSE /\ port' = IF done = {} THEN port ELSE port \union {completions}
               /\ UNCHANGED <<callVars, futureVars>>
  /\ stepsLeft' = [stepsLeft EXCEPT ![r] = @ - 1]
  /\ UNCHANGED <<setup, inboxVars, loopPc, decision, sent, delivered, rankVersion, drain>>

BurstEnds(r) ==
  /\ loopPc[r] = "stepping"
  /\ stepsLeft[r] = 0 \/ engine[r] = {}
  /\ loopPc' = [loopPc EXCEPT ![r] = NextPc(r)]
  /\ UNCHANGED <<setup, callVars, inboxVars, futureVars, decision, sent, delivered, stepsLeft,
                 engine, rankVersion, sampled, portVars>>

(* A completion whose future is gone ends the drain task with a KeyError.  *)
DrainResult ==
  /\ drain = "running"
  /\ \E done \in port :
       /\ port' = port \ {done}
       /\ IF DOMAIN done \subseteq futures
          THEN Resolve(done) /\ UNCHANGED drain
          ELSE drain' = "failed" /\ UNCHANGED <<callVars, futureVars>>
  /\ UNCHANGED <<setup, inboxVars, rankVars>>

-------------------------------------------------------------------------------
(* Crash of rank 0's loop, and close().                                    *)

FailFutures ==
  /\ callPc' = [q \in Requests |-> IF q \in futures THEN "failed" ELSE callPc[q]]
  /\ futures' = {}
  /\ pullPc' = IF pullPc = "waiting" THEN "failed" ELSE pullPc
  /\ pullRequest' = IF pullPc = "waiting" THEN NoVersion ELSE pullRequest

Crash ==
  /\ MayCrash
  /\ loopPc[0] \in {"broadcasting", "pulling", "stepping"}
  /\ loopPc' = [loopPc EXCEPT ![0] = "crashed"]
  /\ FailFutures
  /\ UNCHANGED <<setup, completion, calledAt, queued, pulls, closePc, stamp, reservation,
                 decision, sent, delivered, stepsLeft, engine, rankVersion, sampled, portVars>>

(* close() awaits the loop, drops the task and cancels the drain task, and *)
(* when that has ended fails what is left.                                 *)
LoopEnded_DrainsOn ==
  /\ closePc = "closing"
  /\ loopPc[0] \in {"stopped", "crashed"}
  /\ closePc' = "draining"
  /\ UNCHANGED <<setup, callVars, queued, pulls, pullPc, pullRequest, futureVars,
                 rankVars, portVars>>

LoopEnded ==
  /\ closePc = "closing"
  /\ loopPc[0] \in {"stopped", "crashed"}
  /\ closePc' = "draining"
  /\ drain' = "cancelled"
  /\ UNCHANGED <<setup, callVars, queued, pulls, pullPc, pullRequest, futureVars,
                 rankVars, port>>

CloseReturns ==
  /\ closePc = "draining"
  /\ closePc' = "closed"
  /\ FailFutures
  /\ UNCHANGED <<setup, completion, calledAt, queued, pulls, stamp, reservation, rankVars,
                 portVars>>

-------------------------------------------------------------------------------

(* Nothing is left to do: every call is over and the loops sleep or ended. *)
Quiet ==
  /\ \A q \in Requests : callPc[q] # "waiting"
  /\ pullPc # "waiting"
  /\ UNCHANGED vars

Next ==
  \/ \E q \in Requests : Generate(q)
  \/ PullModelStateDict
  \/ CloseRequested
  \/ DecideToClose
  \/ DecideToPull
  \/ DecideToStep
  \/ Broadcast
  \/ \E r \in Ranks : Receive(r) \/ Pulled(r) \/ EngineStep(r) \/ BurstEnds(r)
  \/ DrainResult
  \/ Crash
  \/ LoopEnded
  \/ CloseReturns
  \/ Quiet

Spec == Init /\ [][Next]_vars

(* The event loop runs every ready task, broadcasts arrive, TorchStore     *)
(* serves the weights, and max_tokens bounds a request's steps, so that    *)
(* the engine finishes each of its requests.                               *)
Fairness ==
  /\ WF_vars(DecideToClose \/ DecideToPull \/ DecideToStep)
  /\ WF_vars(Broadcast)
  /\ \A r \in Ranks :
       /\ WF_vars(Receive(r))
       /\ WF_vars(Pulled(r))
       /\ WF_vars(EngineStep(r))
       /\ WF_vars(BurstEnds(r))
       /\ \A q \in Requests : SF_vars(EngineStep(r) /\ q \in engine[r] /\ q \notin engine'[r])
  /\ WF_vars(DrainResult)
  /\ WF_vars(LoopEnded)
  /\ WF_vars(CloseReturns)

FairSpec == Spec /\ Fairness

-------------------------------------------------------------------------------
(* Properties.                                                             *)

Versions == 0..MaxPulls
Decisions == [action : {"none", "close", "pull", "step"},
              admit : [Ranks -> SUBSET Requests],
              version : Versions \union {NoVersion}]

(* Every variable has its type, and no burst is longer than                *)
(* max_engine_steps_between_decisions.                                     *)
TypeOK ==
  /\ setup \in Setups
  /\ callPc \in [Requests -> {"new", "waiting", "answered", "failed", "rejected"}]
  /\ queued \subseteq Requests
  /\ futures \subseteq Requests
  /\ stamp \in [Requests -> Versions \union {NoVersion}]
  /\ reservation \in [Requests -> Ranks \union {NoRank}]
  /\ completion \in [Requests -> [min : Versions \union {NoVersion},
                                  max : Versions \union {NoVersion}]]
  /\ pulls \in Versions
  /\ pullPc \in {"idle", "waiting", "done", "failed", "rejected"}
  /\ pullRequest \in Versions \union {NoVersion}
  /\ closePc \in {"open", "closing", "draining", "closed"}
  /\ loopPc \in [Ranks -> {"deciding", "broadcasting", "receiving", "pulling",
                           "stepping", "stopped", "crashed"}]
  /\ decision \in [Ranks -> Decisions]
  /\ sent \in Decisions
  /\ delivered \in [Ranks -> BOOLEAN]
  /\ stepsLeft \in [Ranks -> 0..Burst]
  /\ engine \in [Ranks -> SUBSET Requests]
  /\ rankVersion \in [Ranks -> Versions]
  /\ port \subseteq UNION {[done -> Versions] : done \in SUBSET Requests}
  /\ drain \in {"running", "failed", "cancelled"}
  /\ sampled \in [Requests -> SUBSET Versions]
  /\ calledAt \in [Requests -> Versions \union {NoVersion}]

(* Rank 0's loop and futures are live: no crash, no close() that finished. *)
Serving == loopPc[0] # "crashed" /\ closePc # "closed"

(* The copies of q between the caller and its answer: in the queue, in a   *)
(* decision on its way to a rank, in an engine, in a list on the port.     *)
Copies(q) ==
  (IF q \in queued THEN 1 ELSE 0)
  + Cardinality({r \in Ranks : loopPc[0] = "broadcasting" /\ q \in decision[0].admit[r]})
  + Cardinality({r \in Ranks : ~delivered[r] /\ q \in sent.admit[r]})
  + Cardinality({r \in Ranks : q \in engine[r]})
  + Cardinality({done \in port : q \in DOMAIN done})

(* A call that waits has exactly one copy of its request in the system and *)
(* a call that is over has none: no rank drops a request it was routed,    *)
(* and no two ranks admit the same one (the slices of                      *)
(* requests_per_dp_rank, the swapped queue, the result port).  The         *)
(* router's reservation stands from the routing to the answer and names    *)
(* the rank that holds the request: the loads the strategy compares are    *)
(* the requests each replica has.                                          *)
RequestHeldOnce ==
  Serving => \A q \in Requests :
    /\ callPc[q] = "waiting" <=> q \in futures
    /\ Copies(q) = IF callPc[q] = "waiting" THEN 1 ELSE 0
    /\ reservation[q] # NoRank <=> q \in futures \ queued
    /\ \A r \in Ranks : q \in engine[r] => reservation[q] = r

(* The [min, max] policy versions of a Completion bound the versions of    *)
(* all its tokens, wherever it ran and whatever pulls it lived through:    *)
(* rank 0 stamps min although another rank samples, maybe much later.      *)
VersionsBounded ==
  \A q \in Requests : callPc[q] = "answered" =>
    /\ completion[q].max \in sampled[q]
    /\ \A v \in sampled[q] : completion[q].min <= v /\ v <= completion[q].max

(* No token of a request is older than the last pull answered before the   *)
(* generate call, although rank 0 answers the pull before the other ranks  *)
(* have finished theirs.                                                   *)
PullPrecedesCalls ==
  \A q \in Requests : \A v \in sampled[q] : v >= calledAt[q]

(* The drain task meets a completion without a future only after a crash:  *)
(* close() stops it before it clears the futures.                          *)
DrainSurvives == drain = "failed" => loopPc[0] = "crashed"

(* Every generate call and every pull is answered unless the generator is  *)
(* torn down, from an idle loop and in the middle of requests: rank 0      *)
(* keeps the other ranks stepping after its own engine ran dry.            *)
TornDown == closePc # "open" \/ loopPc[0] = "crashed"
CallersAnswered ==
  /\ \A q \in Requests : callPc[q] = "waiting" ~> callPc[q] = "answered" \/ TornDown
  /\ pullPc = "waiting" ~> pullPc = "done" \/ TornDown

(* close() returns, even after the loop crashed, and from then on nobody   *)
(* waits: callers the crash handler did not see are released, and a call   *)
(* made during the teardown is failed by it or turned away.                *)
CloseReleasesCallers ==
  closePc = "closing" ~> [](closePc = "closed"
                            /\ \A q \in Requests : callPc[q] # "waiting"
                            /\ pullPc # "waiting")
-------------------------------------------------------------------------------
(* The inductive invariant behind the safety properties.                   *)

(* Where a copy of q can be.                                               *)
Decided(q, r) == loopPc[0] = "broadcasting" /\ q \in decision[0].admit[r]
Sent(q, r) == ~delivered[r] /\ q \in sent.admit[r]
OnRank(q, r) == Decided(q, r) \/ Sent(q, r) \/ q \in engine[r]
OnPort(q) == \E done \in port : q \in DOMAIN done

(* The loops follow the decisions of rank 0, which admit requests only to  *)
(* a step and name a version only to pull it.                              *)
WellFormed(d) ==
  /\ d.action # "step" => \A r \in Ranks : d.admit[r] = {}
  /\ d.action = "pull" => d.version # NoVersion

LoopInv ==
  /\ loopPc[0] # "receiving" /\ delivered[0]
  /\ \A r \in Followers : loopPc[r] \in {"receiving", "pulling", "stepping", "stopped"}
  /\ \A r \in Ranks : WellFormed(decision[r])
  /\ \A r \in Ranks : loopPc[r] = "pulling" => decision[r].action = "pull"
  /\ loopPc[0] = "broadcasting" => decision[0].action # "none"
  /\ WellFormed(sent)
  /\ \A r \in Ranks : ~delivered[r] => sent.action # "none"
  /\ closePc \in {"draining", "closed"} =>
       loopPc[0] \in {"stopped", "crashed"} /\ drain # "running"

(* A request has no copy before its call and after its answer, and never   *)
(* two; a copy on a rank is reserved for that rank.                        *)
Unheld(q) == q \notin queued /\ ~OnPort(q) /\ \A r \in Ranks : ~OnRank(q, r)

OutsideInv ==
  /\ \A q \in futures : callPc[q] = "waiting"
  /\ \A q \in Requests : callPc[q] \in {"new", "rejected", "answered"} => Unheld(q)

QueueInv == \A q \in queued : ~OnPort(q) /\ \A r \in Ranks : ~OnRank(q, r)

OnRankOnce(q, r) ==
  /\ ~(Decided(q, r) /\ Sent(q, r))
  /\ ~(Decided(q, r) /\ q \in engine[r])
  /\ ~(Sent(q, r) /\ q \in engine[r])

RankInv ==
  \A q \in Requests, r \in Ranks : OnRank(q, r) =>
    ~OnPort(q) /\ reservation[q] = r /\ OnRankOnce(q, r)

PortInv == \A a, b \in port : a # b => DOMAIN a \intersect DOMAIN b = {}

(* Only a crash or close() separates the copies from the futures.          *)
FutureInv ==
  Serving => \A q \in Requests :
    /\ callPc[q] = "waiting" => q \in futures
    /\ q \in futures <=> ~Unheld(q)
    /\ reservation[q] # NoRank <=> q \in futures \ queued

CopiesInv == OutsideInv /\ QueueInv /\ RankInv /\ PortInv /\ FutureInv

(* The version rank r has once it applied what was sent to it.             *)
Applied(r) == IF loopPc[r] = "pulling" THEN decision[r].version ELSE rankVersion[r]
Reaches(r) == IF ~delivered[r] /\ sent.action = "pull" THEN sent.version ELSE Applied(r)

(* Versions only grow, and no rank will be behind rank 0.                  *)
VersionInv ==
  /\ \A r \in Ranks :
       /\ rankVersion[r] <= Applied(r)
       /\ Applied(r) <= Reaches(r)
       /\ Reaches(r) <= pulls
       /\ Reaches(0) <= Reaches(r)
       /\ pullRequest # NoVersion => Reaches(r) <= pullRequest
  /\ pullRequest # NoVersion <=> pullPc = "waiting"
  /\ pullRequest <= pulls
  /\ loopPc[0] \in {"broadcasting", "pulling"} /\ decision[0].action = "pull" =>
       decision[0].version = pullRequest

(* The stamp of a request is between rank 0's version at its call and the  *)
(* versions that sample it.                                                *)
Untouched(q) == sampled[q] = {} /\ calledAt[q] <= rankVersion[0]

StampedBelow(q, version) ==
  /\ calledAt[q] <= stamp[q] /\ stamp[q] <= version
  /\ \A v \in sampled[q] : stamp[q] <= v /\ v <= version

StampInv ==
  /\ \A q \in Requests : callPc[q] = "new" => sampled[q] = {}
  /\ \A q \in queued : Untouched(q)
  /\ \A q \in Requests, r \in Ranks :
       /\ Decided(q, r) => Untouched(q)
       /\ Sent(q, r) => sampled[q] = {} /\ StampedBelow(q, Reaches(r))
       /\ q \in engine[r] => StampedBelow(q, rankVersion[r])
  /\ \A done \in port : \A q \in DOMAIN done :
       done[q] \in sampled[q] /\ StampedBelow(q, done[q])

EngineInv ==
  /\ TypeOK /\ LoopInv /\ CopiesInv /\ VersionInv /\ StampInv
  /\ VersionsBounded /\ PullPrecedesCalls /\ DrainSurvives
===============================================================================
