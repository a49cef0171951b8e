--------------------------- MODULE RoutingStrategies ---------------------------
(***************************************************************************)
(* The routing strategies (routing/strategies.py) that both layers of      *)
(* routing share: round robin, least loaded and sticky sessions over least *)
(* loaded.                                                                 *)
(*                                                                         *)
(* Selection numbers only order the candidates by their last selection, so *)
(* `recency` keeps the ranks in that order: never chosen candidates come   *)
(* first, in the order of the handle list.  The sticky OrderedDict is      *)
(* `lru` (the order) and `pin` (the assignment).                           *)
(***************************************************************************)
EXTENDS Integers, Sequences, FiniteSets, SequencesExt

CONSTANTS
  NumCandidates,   \* candidates are numbered in the order of the handle list
  Setups,          \* the configurations a deployment may choose: strategy,
                   \* max_sessions of the sticky one, hot_swap of the router
  Sessions,
  NoSession        \* session_id = None

Handles == 1..NumCandidates
NoHandle == 0

ASSUME StrategyAssumption ==
  /\ NumCandidates \in Nat \ {0}
  /\ NoSession \notin Sessions
  /\ \A s \in Setups :
       /\ s.strategy \in {"round_robin", "least_loaded", "sticky"}
       /\ s.maxSessions \in Nat \ {0}

VARIABLES
  setup,        \* the chosen configuration
  counter,      \* round robin's counter, modulo every list length
  recency,      \* rank of each candidate, the least recently chosen has 1
  lru,          \* sessions, least recently used first
  pin,          \* _sessions: the candidate of each remembered session
  passedOver    \* history: selections a tied candidate lost in a row

strategyVars == <<setup, counter, recency, lru, pin, passedOver>>

(* Round robin only looks at its counter modulo a number of candidates.    *)
CounterPeriod == FoldSet(LAMBDA n, m : n * m, 1, Handles)

StrategyInit ==
  /\ setup \in Setups
  /\ counter = 0
  /\ recency = [i \in Handles |-> i]
  /\ lru = <<>>
  /\ pin = [s \in Sessions |-> NoHandle]
  /\ passedOver = [h \in Handles |-> 0]

-------------------------------------------------------------------------------

MovedToEnd(seq, e) == Append(SelectSeq(seq, LAMBDA x : x # e), e)

LeastLoaded(load, candidates) ==
  {h \in candidates : \A k \in candidates : load[h] <= load[k]}

(* The list of candidates keeps the order of the handles.                  *)
RoundRobinChoice(candidates) ==
  CHOOSE h \in candidates :
    Cardinality({k \in candidates : k < h}) = counter % Cardinality(candidates)

LeastLoadedChoice_FirstTied(load, candidates, h) ==
  /\ h \in LeastLoaded(load, candidates)
  /\ \A k \in LeastLoaded(load, candidates) : h <= k

LeastLoadedChoice(load, candidates, h) ==
  /\ h \in LeastLoaded(load, candidates)
  /\ \A k \in LeastLoaded(load, candidates) : recency[h] <= recency[k]

(* h gets the highest selection number of all.                             *)
ChosenLast(h) ==
  [k \in Handles |-> IF k = h THEN NumCandidates
                     ELSE IF recency[k] > recency[h] THEN recency[k] - 1
                     ELSE recency[k]]

ChooseRoundRobin(candidates, h) ==
  /\ h = RoundRobinChoice(candidates)
  /\ counter' = (counter + 1) % CounterPeriod
  /\ UNCHANGED <<recency, passedOver>>

ChooseLeastLoaded(load, candidates, h) ==
  /\ LeastLoadedChoice(load, candidates, h)
  /\ recency' = ChosenLast(h)
  /\ passedOver' = [k \in Handles |->
       IF k = h THEN 0
       ELSE IF k \in LeastLoaded(load, candidates) THEN passedOver[k] + 1
       ELSE passedOver[k]]
  /\ UNCHANGED counter

Remembered == {s \in Sessions : pin[s] # NoHandle}

Pinned(session, candidates) == session \in Sessions /\ pin[session] \in candidates

(* The session becomes the most recently used one, evicting the oldest.    *)
Remember(session, h) ==
  LET used == MovedToEnd(lru, session)
      full == Cardinality(Remembered \union {session}) > setup.maxSessions
  IN /\ lru' = IF full THEN Tail(used) ELSE used
     /\ pin' = [s \in Sessions |->
          IF full /\ s = Head(used) THEN NoHandle
          ELSE IF s = session THEN h
          ELSE pin[s]]

ChooseSticky_Repins(session, load, candidates, h) ==
  /\ ChooseLeastLoaded(load, candidates, h)
  /\ IF session \in Sessions THEN Remember(session, h) ELSE UNCHANGED <<lru, pin>>

ChooseSticky(session, load, candidates, h) ==
  \/ /\ session = NoSession
     /\ ChooseLeastLoaded(load, candidates, h)
     /\ UNCHANGED <<lru, pin>>
  \/ /\ Pinned(session, candidates)
     /\ h = pin[session]
     /\ lru' = MovedToEnd(lru, session)
     /\ UNCHANGED <<counter, recency, pin, passedOver>>
  \/ /\ session \in Sessions
     /\ ~Pinned(session, candidates)
     /\ ChooseLeastLoaded(load, candidates, h)
     /\ Remember(session, h)

(* choose(): one step of the configured strategy, returning h.             *)
ChooseCandidate(session, load, candidates, h) ==
  /\ UNCHANGED setup
  /\ \/ /\ setup.strategy = "round_robin"
        /\ ChooseRoundRobin(candidates, h)
        /\ UNCHANGED <<lru, pin>>
     \/ /\ setup.strategy = "least_loaded"
        /\ ChooseLeastLoaded(load, candidates, h)
        /\ UNCHANGED <<lru, pin>>
     \/ /\ setup.strategy = "sticky"
        /\ ChooseSticky(session, load, candidates, h)

-------------------------------------------------------------------------------

(* Types; the sticky map never outgrows max_sessions and forgets exactly   *)
(* the sessions that left the order.                                       *)
StrategyTypeOK ==
  /\ setup \in Setups
  /\ counter \in Nat
  /\ recency \in [Handles -> Handles]
  /\ lru \in Seq(Sessions)
  /\ Len(lru) <= setup.maxSessions
  /\ pin \in [Sessions -> Handles \union {NoHandle}]
  /\ \A s \in Sessions : pin[s] # NoHandle <=> s \in ToSet(lru)
  /\ passedOver \in [Handles -> Nat]

(* Least loaded starves nobody: a candidate that keeps tying for the       *)
(* lowest load is chosen before every other one had a second turn over it, *)
(* although draining generators leave the list and come back (docstring of *)
(* LeastLoadedRoutingStrategy.choose).                                     *)
NoCandidateStarves == \A h \in Handles : passedOver[h] < NumCandidates

(* The inductive invariant behind it: whoever was preferred to a tied      *)
(* candidate ranks behind it now, and ranks are distinct.                  *)
RecencyInv ==
  /\ recency \in [Handles -> Handles]
  /\ \A h, k \in Handles : recency[h] = recency[k] => h = k
  /\ passedOver \in [Handles -> Nat]
  /\ \A h \in Handles : passedOver[h] + recency[h] <= NumCandidates
===============================================================================
