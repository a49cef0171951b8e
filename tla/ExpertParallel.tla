------------------------------ MODULE ExpertParallel ------------------------------
(***************************************************************************)
(* The dispatchers a model can be configured with, on the same routings:   *)
(* the peer copies of MinimalAsyncEP or the collectives of TokenDispatch.  *)
(***************************************************************************)
EXTENDS MinimalAsyncEP, TokenDispatch

CONSTANT PadMultiples   \* of the padded dispatcher; 0 without padding

VARIABLE dispatcher

allVars == <<vars, dispatchVars, dispatcher>>

(* Expert parallelism over the ranks of the setup, or each on its own.     *)
CollectiveInit(multiple) ==
  LET ids == setup.topkExpertIds[1]
  IN \/ DispatchInit(ids, setup.numLocalExperts, multiple)
     \/ \E r \in Ranks : DispatchInit([zero \in {0} |-> ids[r]], NumExperts, multiple)

ExpertParallelInit ==
  /\ Init
  /\ \/ /\ dispatcher = "minimal_async_ep"
        /\ DispatchInit(setup.topkExpertIds[1], setup.numLocalExperts, 0)
     \/ /\ dispatcher = "collective"
        /\ \E multiple \in PadMultiples : CollectiveInit(multiple)

ForwardDone == dispatcher = "collective" /\ step = "done" /\ UNCHANGED allVars

ExpertParallelNext ==
  \/ dispatcher = "minimal_async_ep" /\ Next /\ UNCHANGED <<dispatchVars, dispatcher>>
  \/ dispatcher = "collective" /\ DispatchNext /\ UNCHANGED <<vars, dispatcher>>
  \/ ForwardDone

ExpertParallelSpec == ExpertParallelInit /\ [][ExpertParallelNext]_allVars

-------------------------------------------------------------------------------

Identity(row) == [src |-> row.src, slot |-> row.slot]

(* Whatever the dispatcher, the group of an expert is the rows of the      *)
(* slots that chose it, by source and by slot, and only sentinels after    *)
(* them: peer copies, all-to-all and permutation, padded or not, with and  *)
(* without expert parallelism are interchangeable, and sum in one order.   *)
(* The collectives' splits match, the groups are aligned, and each slot is *)
(* given its own row, made by the expert that it chose.                    *)
DispatchersAgree ==
  /\ dispatcher = "minimal_async_ep" =>
       \A r \in Ranks : Stands(r, "read") /\ At(r).kind = "dispatch" =>
         \A x \in LocalExperts(r) :
           LET wanted == RoutedTo(setup.topkExpertIds[At(r).layer], x)
               start == ExpertStart(known[r], x)
               buffer == hidden[r][BufferOf(At(r).op)]
           IN /\ Total(known[r], x) = Len(wanted)
              /\ \A k \in DOMAIN wanted : Identity(buffer[start + k - 1]) = wanted[k]
  /\ dispatcher = "collective" =>
       /\ step = "exchange_rows" => SplitsMatch
       /\ step = "experts" =>
            \A r \in EpRanks, l \in 1..routing.experts :
              LET wanted == RoutedTo(routing.ids, r * routing.experts + l - 1)
                  group == Slice(rows[r], groups[r], l)
              IN /\ Pads => groups[r][l] % routing.multiple = 0
                 /\ IsPrefix(wanted, group)
                 /\ \A k \in Len(wanted) + 1..Len(group) : group[k] = SentinelRow
       /\ step = "done" =>
            \A r \in EpRanks :
              scattered[r] = [s \in DOMAIN routing.ids[r] |->
                [src |-> r, slot |-> s, expert |-> routing.ids[r][s]]]
===============================================================================
