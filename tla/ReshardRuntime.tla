----------------------------- MODULE ReshardRuntime -----------------------------
(***************************************************************************)
(* The pipelined optimizer of FlexShard                                    *)
(* (distributed/flex_shard/_optimizer_reshard_runtime.py).  Each rank's    *)
(* host enqueues the buckets of a step on two device streams: the transfer *)
(* stream packs a bucket, exchanges it all-to-all and unpacks the result,  *)
(* the caller stream computes.  Two slots of buffers are reused in turn.   *)
(* The host never waits for the device; only stream order and the events   *)
(* of a slot order the work.                                               *)
(*                                                                         *)
(* An event is the place on its stream where it was last recorded; a wait  *)
(* holds back whatever is enqueued later on the waiting stream until the   *)
(* other stream has come to that place.  A device operation is one step;   *)
(* two operations can overlap on the device exactly when both are ready in *)
(* some state.                                                             *)
(***************************************************************************)
EXTENDS Integers, Sequences, SequencesExt

CONSTANTS
  Ranks,
  NumSlots,     \* _NUM_PIPELINE_SLOTS
  PlanSets,     \* the bucket plans of a model: the ranks that compute each
                \* bucket, {} for a _LocalBucketPlan
  NumSteps,     \* bound: optimizer steps
  MayRaise      \* the ranks on which a callback may raise

ASSUME ReshardAssumption ==
  /\ NumSlots \in Nat \ {0}
  /\ PlanSets \subseteq Seq(SUBSET Ranks)
  /\ NumSteps \in Nat
  /\ MayRaise \subseteq Ranks

VARIABLES
  plans,
  host,         \* per rank: the locals of run()
  streams,      \* per rank: what its streams were given, waits, events
  ended,        \* per rank and stream: how many operations have ended
  storage,      \* contents of each slot's storage_exchange buffer
  compute,      \* contents of each slot's compute_exchange buffer
  backwards,    \* steps whose gradients the rank has computed
  version       \* the step of the last update of each item

deviceVars == <<ended, storage, compute, backwards, version>>
vars == <<plans, host, streams, deviceVars>>

Streams == {"transfer", "caller"}
Other(st) == IF st = "transfer" THEN "caller" ELSE "transfer"
Slots == 0..NumSlots - 1
Events == {"compute_input_ready", "compute_done", "done"}

IsLocal(b) == plans[b] = {}

(* A redistributed bucket may also hold items that are already compute-ready. *)
ItemsOf(p) ==
  {<<b, "ready">> : b \in DOMAIN p}
    \union {<<b, "resharded">> : b \in {c \in DOMAIN p : p[c] # {}}}
Items == ItemsOf(plans)

Empty == <<0, 0, "empty">>
Garbage == <<0, 0, "garbage">>
NoWork == [bucket |-> 0, slot |-> 0]

HostAtEntry(step) ==
  [pc |-> "outside", step |-> step, plan |-> 1, previous |-> NoWork,
   prefetched |-> <<>>, nextPrefetch |-> 1, redistributed |-> 0,
   transferUsed |-> FALSE]

HostsAtStart == [r \in Ranks |-> HostAtEntry(0)]

RuntimeInit ==
  /\ host = HostsAtStart
  /\ streams = [r \in Ranks |->
       [ops |-> [st \in Streams |-> <<>>],
        barrier |-> [st \in Streams |-> 0],
        event |-> [e \in Events \X Slots |-> 0],
        step |-> 0]]
  /\ ended = [r \in Ranks |-> [st \in Streams |-> 0]]
  /\ storage = [r \in Ranks |-> [s \in Slots |-> Empty]]
  /\ compute = [r \in Ranks |-> [s \in Slots |-> Empty]]
  /\ backwards = [r \in Ranks |-> 0]
  /\ version = [r \in Ranks |-> [i \in Items |-> 0]]

Init == plans \in PlanSets /\ RuntimeInit

-------------------------------------------------------------------------------
(* What the host enqueues on the streams q of a rank.  `barrier` is how    *)
(* much of the other stream must have ended before an operation goes on.   *)
(* `step`, the optimizer step an operation is for, is history: no guard    *)
(* looks at it.                                                            *)

Launch(q, st, op, work) ==
  [q EXCEPT !.ops[st] = Append(@,
     [op |-> op, bucket |-> work.bucket, slot |-> work.slot,
      step |-> q.step, after |-> q.barrier[st]])]

Record(q, st, e, work) == [q EXCEPT !.event[<<e, work.slot>>] = Len(q.ops[st])]

HoldBack(q, st, position) ==
  [q EXCEPT !.barrier[st] = IF position > @ THEN position ELSE @]

WaitEvent(q, st, e, work) == HoldBack(q, st, q.event[<<e, work.slot>>])
WaitStream(q, st) == HoldBack(q, st, Len(q.ops[Other(st)]))

StartStep(q) == Launch([q EXCEPT !.step = @ + 1], "caller", "backward", NoWork)

(* The helpers of run(), and how far they get if a callback raises.        *)
PrepareLaunched(q, work) == Launch(q, "transfer", "prepare", work)

StorageToCompute(q, work) ==
  Record(Launch(PrepareLaunched(q, work), "transfer", "scatter", work),
         "transfer", "compute_input_ready", work)

ReadyItems(q, work) == Launch(q, "caller", "ready_items", work)

ComputeBucket_NoReady(q, work) ==
  Record(Launch(ReadyItems(q, work), "caller", "compute", work),
         "caller", "compute_done", work)

ComputeBucket(q, work) ==
  Record(Launch(WaitEvent(ReadyItems(q, work), "caller", "compute_input_ready", work),
                "caller", "compute", work),
         "caller", "compute_done", work)

GatherLaunched(q, work) ==
  Launch(WaitEvent(q, "transfer", "compute_done", work), "transfer", "gather", work)

ComputeToStorage(q, work) ==
  Record(Launch(GatherLaunched(q, work), "transfer", "finalize", work),
         "transfer", "done", work)

Release_Nothing(q, work) == q
Release(q, work) == WaitEvent(q, "caller", "done", work)

-------------------------------------------------------------------------------
(* run(): the host's loop over the plans.                                  *)

CurrentSlot(h) == h.redistributed % NumSlots

(* The work of this bucket: prefetched, or started now.                    *)
WorkOf(h) ==
  IF h.prefetched # <<>> THEN Head(h.prefetched)
  ELSE [bucket |-> h.plan, slot |-> CurrentSlot(h)]

StartTransfer(q, h) == IF h.transferUsed THEN q ELSE WaitStream(q, "transfer")

Fetch(q, h) == IF h.prefetched # <<>> THEN q ELSE StorageToCompute(q, WorkOf(h))
Return(q, h) == IF h.previous = NoWork THEN q ELSE ComputeToStorage(q, h.previous)
ReleasePrevious(q, h) == IF h.previous = NoWork THEN q ELSE Release(q, h.previous)

(* A slot that the previous bucket still holds is emptied first; otherwise *)
(* the transfer of this bucket goes ahead of the previous one's way back.  *)
(* Without a previous bucket both orders are the same.                     *)
ReturnsFirst(h) == WorkOf(h).slot = h.previous.slot

Moved(q, h) ==
  IF ReturnsFirst(h) THEN Fetch(Return(q, h), h) ELSE Return(Fetch(q, h), h)

Computed(q, h) == ComputeBucket(Moved(StartTransfer(q, h), h), WorkOf(h))

BucketEnqueued(q, h) == ReleasePrevious(Computed(q, h), h)
LastEnqueued(q, h) == ReleasePrevious(Return(q, h), h)

(* A local bucket has a slot of its own, which needs no transfer.          *)
LocalWork(h) == [bucket |-> h.plan, slot |-> NumSlots]

(* The while loop takes one more bucket ahead: a redistributed one that    *)
(* follows the others, while all slots but the current one are not taken.  *)
CanPrefetch(h) ==
  /\ Len(h.prefetched) < NumSlots - 1
  /\ h.nextPrefetch \in DOMAIN plans
  /\ ~IsLocal(h.nextPrefetch)

PrefetchWork(h) ==
  [bucket |-> h.nextPrefetch,
   slot |-> (h.redistributed + Len(h.prefetched)) % NumSlots]

ContinuesWith(h) == [h EXCEPT !.pc = IF CanPrefetch(h) THEN "prefetching" ELSE "running"]

AfterBucket(h) ==
  [h EXCEPT !.previous = WorkOf(h),
            !.prefetched = IF @ = <<>> THEN @ ELSE Tail(@),
            !.nextPrefetch = IF h.prefetched = <<>> THEN h.plan + 1 ELSE @,
            !.redistributed = @ + 1,
            !.plan = @ + 1,
            !.transferUsed = TRUE]

AfterPrefetch(h) ==
  [h EXCEPT !.prefetched = Append(@, PrefetchWork(h)), !.nextPrefetch = @ + 1]

(* The assertions of run(): nothing is prefetched across a local bucket or *)
(* past the end, and the prefetched bucket is the next one.                *)
AssertionsHold(h) ==
  IF h.plan > Len(plans) \/ IsLocal(h.plan)
  THEN h.prefetched = <<>>
  ELSE h.prefetched # <<>> =>
         h.previous # NoWork /\ Head(h.prefetched).bucket = h.plan

Enqueue(r, q) == streams' = [streams EXCEPT ![r] = q]

(* The training loop enqueues forward and backward and calls run().        *)
TrainStep(r) ==
  /\ host[r].pc = "outside"
  /\ host[r].step < NumSteps
  /\ Enqueue(r, StartStep(streams[r]))
  /\ host' = [host EXCEPT ![r] = [HostAtEntry(@.step + 1) EXCEPT !.pc = "running"]]
  /\ UNCHANGED <<plans, deviceVars>>

AtLocalBucket(h) == h.pc = "running" /\ h.plan <= Len(plans) /\ IsLocal(h.plan)
AtRedistributedBucket(h) == h.pc = "running" /\ h.plan <= Len(plans) /\ ~IsLocal(h.plan)
AtEnd(h) == h.pc = "running" /\ h.plan > Len(plans)

RunLocalBucket(r) ==
  LET h == host[r]
  IN /\ AtLocalBucket(h)
     /\ AssertionsHold(h)
     /\ Enqueue(r, ReadyItems(streams[r], LocalWork(h)))
     /\ host' = [host EXCEPT ![r].plan = @ + 1, ![r].nextPrefetch = h.plan + 1]
     /\ UNCHANGED <<plans, deviceVars>>

RunRedistributedBucket(r) ==
  LET h == host[r]
  IN /\ AtRedistributedBucket(h)
     /\ AssertionsHold(h)
     /\ Enqueue(r, BucketEnqueued(streams[r], h))
     /\ host' = [host EXCEPT ![r] = ContinuesWith(AfterBucket(h))]
     /\ UNCHANGED <<plans, deviceVars>>

PrefetchNext(r) ==
  LET h == host[r]
  IN /\ h.pc = "prefetching"
     /\ Enqueue(r, StorageToCompute(streams[r], PrefetchWork(h)))
     /\ host' = [host EXCEPT ![r] = ContinuesWith(AfterPrefetch(h))]
     /\ UNCHANGED <<plans, deviceVars>>

RunReturns(r) ==
  LET h == host[r]
  IN /\ AtEnd(h)
     /\ AssertionsHold(h)
     /\ Enqueue(r, LastEnqueued(streams[r], h))
     /\ host' = [host EXCEPT ![r] = HostAtEntry(h.step)]
     /\ UNCHANGED <<plans, deviceVars>>

(* What is on the streams when a callback raises.                          *)
InFetch(q, h) == IF h.prefetched # <<>> THEN {} ELSE {PrepareLaunched(q, WorkOf(h))}
InReturn(q, h) == IF h.previous = NoWork THEN {} ELSE {GatherLaunched(q, h.previous)}

InMove(q, h) ==
  IF ReturnsFirst(h)
  THEN InReturn(q, h) \union {Return(q, h)} \union InFetch(Return(q, h), h)
  ELSE InFetch(q, h) \union {Fetch(q, h)} \union InReturn(Fetch(q, h), h)

InBucket(q, h) ==
  LET started == StartTransfer(q, h)
      moved == Moved(started, h)
  IN {started, moved, ReadyItems(moved, WorkOf(h)), Computed(q, h)}
       \union InMove(started, h)

Interrupted(q, h) ==
  CASE AtLocalBucket(h) -> {q, ReadyItems(q, LocalWork(h))}
    [] AtRedistributedBucket(h) -> InBucket(q, h)
    [] h.pc = "prefetching" -> {q, PrepareLaunched(q, PrefetchWork(h))}
    [] AtEnd(h) -> {q, Return(q, h)} \union InReturn(q, h)

(* The cleanup of `finally`, and the memory the caller then reuses.        *)
Cleanup(q, used) ==
  Launch(IF used THEN WaitStream(WaitStream(q, "transfer"), "caller") ELSE q,
         "caller", "reuse", NoWork)

(* A callback raises while its bucket is enqueued: only a part of the      *)
(* commands went out.  The optimizer is not used again.                    *)
RunRaises(r) ==
  LET h == host[r]
  IN /\ r \in MayRaise
     /\ h.pc \in {"running", "prefetching"}
     /\ \E q \in Interrupted(streams[r], h) :
          Enqueue(r, Cleanup(q, h.transferUsed \/ AtRedistributedBucket(h)))
     /\ host' = [host EXCEPT ![r].pc = "raised"]
     /\ UNCHANGED <<plans, deviceVars>>

-------------------------------------------------------------------------------
(* The device.                                                             *)

NextOp(r, st) == streams[r].ops[st][ended[r][st] + 1]

CanRun(r, st) ==
  /\ ended[r][st] < Len(streams[r].ops[st])
  /\ NextOp(r, st).after <= ended[r][Other(st)]

Runs(r, st, op) == CanRun(r, st) /\ NextOp(r, st).op = op

Done(r, st) == ended' = [ended EXCEPT ![r][st] = @ + 1]

(* The common value of the fragments of an exchange.                       *)
Merge(fragments) ==
  IF \E v \in fragments : fragments = {v}
  THEN CHOOSE v \in fragments : TRUE ELSE Garbage

(* The packed optimizer inputs of a bucket, from the current gradients.    *)
Prepare(r) ==
  /\ Runs(r, "transfer", "prepare")
  /\ LET o == NextOp(r, "transfer")
     IN storage' = [storage EXCEPT ![r][o.slot] = <<o.bucket, backwards[r], "input">>]
  /\ Done(r, "transfer")
  /\ UNCHANGED <<plans, host, streams, compute, backwards, version>>

(* all_to_all_single is a rendezvous of all ranks.  A schedule without     *)
(* remote transfers, which the code copies on each rank alone, is held to  *)
(* the same rendezvous here.                                               *)
Exchange(op) == \A r \in Ranks : Runs(r, "transfer", op)

ExchangeDone ==
  /\ ended' = [r \in Ranks |-> [ended[r] EXCEPT !["transfer"] = @ + 1]]
  /\ UNCHANGED <<plans, host, streams, backwards, version>>

Scatter ==
  /\ Exchange("scatter")
  /\ compute' = [r \in Ranks |->
       LET o == NextOp(r, "transfer")
       IN IF r \in plans[o.bucket]
          THEN [compute[r] EXCEPT ![o.slot] =
                  Merge({storage[q][NextOp(q, "transfer").slot] : q \in Ranks})]
          ELSE compute[r]]
  /\ ExchangeDone
  /\ UNCHANGED storage

Gather ==
  /\ Exchange("gather")
  /\ storage' = [r \in Ranks |->
       LET o == NextOp(r, "transfer")
       IN [storage[r] EXCEPT ![o.slot] =
             Merge({compute[q][NextOp(q, "transfer").slot] : q \in plans[o.bucket]})]]
  /\ ExchangeDone
  /\ UNCHANGED compute

Finalize(r) ==
  /\ Runs(r, "transfer", "finalize")
  /\ LET o == NextOp(r, "transfer")
         value == storage[r][o.slot]
     IN version' = [version EXCEPT ![r][<<o.bucket, "resharded">>] =
          IF value[1] = o.bucket /\ value[3] = "update" THEN value[2] ELSE -1]
  /\ Done(r, "transfer")
  /\ UNCHANGED <<plans, host, streams, storage, compute, backwards>>

(* A rank without a compute partition of the bucket has nothing to do.     *)
Compute(r) ==
  /\ Runs(r, "caller", "compute")
  /\ LET o == NextOp(r, "caller")
         value == compute[r][o.slot]
     IN compute' =
          IF r \in plans[o.bucket]
          THEN [compute EXCEPT ![r][o.slot] =
                  IF value[1] = o.bucket /\ value[3] = "input"
                  THEN <<o.bucket, value[2], "update">> ELSE Garbage]
          ELSE compute
  /\ Done(r, "caller")
  /\ UNCHANGED <<plans, host, streams, storage, backwards, version>>

(* Items that need no transfer: a local bucket, or part of another one.    *)
ComputeReadyItems(r) ==
  /\ Runs(r, "caller", "ready_items")
  /\ version' = [version EXCEPT
       ![r][<<NextOp(r, "caller").bucket, "ready">>] = backwards[r]]
  /\ Done(r, "caller")
  /\ UNCHANGED <<plans, host, streams, storage, compute, backwards>>

ForwardBackward(r) ==
  /\ Runs(r, "caller", "backward")
  /\ backwards' = [backwards EXCEPT ![r] = @ + 1]
  /\ Done(r, "caller")
  /\ UNCHANGED <<plans, host, streams, storage, compute, version>>

(* Whatever runs on the caller's stream after the exception.               *)
ReuseMemory(r) ==
  /\ Runs(r, "caller", "reuse")
  /\ Done(r, "caller")
  /\ UNCHANGED <<plans, host, streams, storage, compute, backwards, version>>

HostNext(r) ==
  \/ TrainStep(r) \/ RunLocalBucket(r) \/ RunRedistributedBucket(r)
  \/ PrefetchNext(r) \/ RunReturns(r)

DeviceNext(r) ==
  \/ Prepare(r) \/ Finalize(r)
  \/ Compute(r) \/ ComputeReadyItems(r) \/ ForwardBackward(r) \/ ReuseMemory(r)

(* Every step is over on every rank, or a callback raised.                 *)
Finished ==
  \/ \E r \in Ranks : host[r].pc = "raised"
  \/ \A r \in Ranks :
       /\ host[r].pc = "outside" /\ host[r].step = NumSteps
       /\ \A i \in Items : version[r][i] = NumSteps

(* Anything but Finished without a next step is a deadlock.                *)
Next ==
  \/ Finished /\ UNCHANGED vars
  \/ \E r \in Ranks : HostNext(r) \/ RunRaises(r) \/ DeviceNext(r)
  \/ Scatter \/ Gather

Spec == Init /\ [][Next]_vars

-------------------------------------------------------------------------------

(* What an operation reads and writes: a slot's buffers, gradients and     *)
(* weights.                                                                *)
Buffer(name, o) == <<name, o.slot>>
AllItems(name) == {<<name, i[1], i[2]>> : i \in Items}
AllMemory ==
  ({"storage_exchange", "compute_exchange", "compute_scratch", "storage_scratch"}
      \X (0..NumSlots))
    \union AllItems("gradient") \union AllItems("weight")

Reads(o) ==
  CASE o.op = "prepare" -> {<<"gradient", o.bucket, "resharded">>}
    [] o.op = "scatter" -> {Buffer("storage_exchange", o)}
    [] o.op = "gather" -> {Buffer("compute_exchange", o)}
    [] o.op = "finalize" -> {Buffer("storage_exchange", o)}
    [] o.op = "ready_items" -> {<<"gradient", o.bucket, "ready">>}
    [] o.op = "backward" -> AllItems("weight")
    [] OTHER -> {}

Writes(r, o) ==
  CASE o.op = "prepare" ->
         {Buffer("storage_scratch", o), Buffer("storage_exchange", o)}
    [] o.op = "scatter" -> {Buffer("compute_exchange", o)}
    [] o.op = "gather" -> {Buffer("storage_exchange", o)}
    [] o.op = "finalize" ->
         {Buffer("storage_scratch", o), <<"weight", o.bucket, "resharded">>}
    [] o.op = "compute" ->
         IF r \in plans[o.bucket]
         THEN {Buffer("compute_exchange", o), Buffer("compute_scratch", o)} ELSE {}
    [] o.op = "ready_items" ->
         {Buffer("compute_scratch", o), <<"weight", o.bucket, "ready">>}
    [] o.op = "backward" -> AllItems("gradient")
    [] o.op = "reuse" -> AllMemory

(* The two streams of a rank never work on the same memory at the same     *)
(* time unless both only read: not on a slot's buffers, gradients or       *)
(* weights during a run, nor on anything after a callback raised.          *)
NoBufferRace ==
  \A r \in Ranks :
    CanRun(r, "transfer") /\ CanRun(r, "caller") =>
      LET t == NextOp(r, "transfer")
          c == NextOp(r, "caller")
      IN /\ Writes(r, t) \intersect (Reads(c) \union Writes(r, c)) = {}
         /\ Writes(r, c) \intersect Reads(t) = {}

Steps == INSTANCE OptimizerSteps WITH
  items <- Items,
  ItemSets <- {ItemsOf(p) : p \in PlanSets}

(* Overlapped or not, the run is an optimizer step: every item is updated  *)
(* once, from this step's gradients of all ranks, before the next forward. *)
ImplementsOptimizerSteps == Steps!StepsSpec

===============================================================================
