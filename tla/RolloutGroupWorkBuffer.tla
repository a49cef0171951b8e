------------------------ MODULE RolloutGroupWorkBuffer ------------------------
(***************************************************************************)
(* The buffer of rollout-group work shared by the data-input, rollout and  *)
(* batcher loops of TitanRL (components/work_buffer.py).                   *)
(*                                                                         *)
(* An entry moves WAITING -> INFLIGHT -> FINALIZED and is then removed by  *)
(* take_finalized.  An entry's state is the set its group id is in; group  *)
(* ids are issued in increasing order by a single producer, so the         *)
(* insertion order of the code's OrderedDict is the order of the ids.      *)
(* Its active slot lives longer than the entry: add_work charges it, only  *)
(* release_active_groups frees it.                                         *)
(*                                                                         *)
(* Every method body runs under one asyncio.Condition and never suspends   *)
(* while it holds the lock except to wait for its own predicate, so each   *)
(* method is one atomic step whose guard is that predicate.                *)
(***************************************************************************)
EXTENDS Integers

CONSTANTS
  MaxActive,    \* max_active_rollout_groups: the slot budget of the pipeline
  WindowSize    \* window_size: how far past the head take_finalized may look

ASSUME BufferAssumption ==
  /\ MaxActive \in Nat
  /\ WindowSize \in 1..MaxActive   \* the constructor's ValueError otherwise

VARIABLES
  active,       \* _active_rollout_groups
  peak,         \* _active_rollout_groups_peak_since_flush
  waiting,      \* ids of the WAITING entries
  inflight,     \* ids of the INFLIGHT entries
  finalized,    \* ids of the FINALIZED entries
  closed        \* _closed

entries == <<waiting, inflight, finalized>>
bufferVars == <<active, peak, waiting, inflight, finalized, closed>>

Buffered == waiting \union inflight \union finalized

IsOldest(g, groups) == g \in groups /\ \A h \in groups : g <= h

BufferInit ==
  /\ active = 0
  /\ peak = 0
  /\ waiting = {}
  /\ inflight = {}
  /\ finalized = {}
  /\ closed = FALSE

-------------------------------------------------------------------------------

HasActiveSlot_OffByOne == active <= MaxActive

HasActiveSlot == active < MaxActive

WaitForSlot_NoWait(open) ==
  /\ open = ~closed
  /\ UNCHANGED bufferVars

(* wait_for_slot returns TRUE when a slot is free and FALSE once closed.   *)
WaitForSlot(open) ==
  /\ closed \/ HasActiveSlot
  /\ open = ~closed
  /\ UNCHANGED bufferVars

(* add_work does not look at _closed: work added after close() is kept.    *)
AddWork(g) ==
  /\ HasActiveSlot
  /\ active' = active + 1
  /\ peak' = IF peak < active + 1 THEN active + 1 ELSE peak
  /\ waiting' = waiting \union {g}
  /\ UNCHANGED <<inflight, finalized, closed>>

ClaimNext(g) ==
  /\ ~closed
  /\ IsOldest(g, waiting)
  /\ waiting' = waiting \ {g}
  /\ inflight' = inflight \union {g}
  /\ UNCHANGED <<active, peak, finalized, closed>>

FinalizeWork_Lost(g) ==
  /\ inflight' = inflight \ {g}
  /\ UNCHANGED <<active, peak, waiting, finalized, closed>>

(* A result whose entry is gone (close() dropped it) is thrown away.       *)
FinalizeWork(g) ==
  IF g \in Buffered
  THEN /\ waiting' = waiting \ {g}
       /\ inflight' = inflight \ {g}
       /\ finalized' = finalized \union {g}
       /\ UNCHANGED <<active, peak, closed>>
  ELSE UNCHANGED bufferVars

InWindow_Head(g) == \A h \in finalized : g <= h + WindowSize - 1

(* The look-ahead window is anchored at the oldest entry, in any state.    *)
InWindow(g) == \A h \in Buffered : g <= h + WindowSize - 1

TakeFinalized(g) ==
  /\ ~closed
  /\ IsOldest(g, finalized)
  /\ InWindow(g)
  /\ finalized' = finalized \ {g}
  /\ UNCHANGED <<active, peak, waiting, inflight, closed>>

(* Releasing more slots than are charged raises in the caller.             *)
CanRelease(count) == count <= active

ReleaseActiveGroups(count) ==
  /\ CanRelease(count)
  /\ active' = active - count
  /\ UNCHANGED <<peak, waiting, inflight, finalized, closed>>

Close ==
  /\ closed' = TRUE
  /\ waiting' = {}
  /\ inflight' = {}
  /\ finalized' = {}
  /\ UNCHANGED <<active, peak>>

(* metrics() reports the peak and restarts it at the current gauge.        *)
FlushMetrics ==
  /\ peak' = active
  /\ UNCHANGED <<active, waiting, inflight, finalized, closed>>
===============================================================================
