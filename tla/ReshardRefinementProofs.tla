------------------------ MODULE ReshardRefinementProofs ------------------------
(***************************************************************************)
(* The pipelined optimizer implements OptimizerSteps, for every number of  *)
(* ranks, slots, buckets and steps and every relative speed of hosts and   *)
(* streams, also when a callback raises: each item is updated once per     *)
(* step from the gradients of that step, a resharded item from those of    *)
(* all ranks, and no forward starts before all items are updated.          *)
(*                                                                         *)
(* The argument has three parts.  The operations that a host has enqueued  *)
(* have the right order and wait for the right ones (Structure).  All      *)
(* ranks enqueue the same transfers, as they run the same program on the   *)
(* same plans (SamePath).  So what is in the buffers and in `version` is   *)
(* determined by which operations have ended (DataInv).                    *)
(***************************************************************************)
EXTENDS ReshardRuntimeProofs

-------------------------------------------------------------------------------
(* The work on the streams of a rank.                                      *)

SameWork(o, p) == o.bucket = p.bucket /\ o.slot = p.slot /\ o.step = p.step
IsOp(o, op, w, step) ==
  o.op = op /\ o.bucket = w.bucket /\ o.slot = w.slot /\ o.step = step

(* The gradients of a step are among the first n operations.               *)
BackwardBy(q, step, n) ==
  \E j \in DOMAIN OnCaller(q) :
    j <= n /\ OnCaller(q)[j].op = "backward" /\ OnCaller(q)[j].step = step

(* Steps follow each other on the caller's stream, each with its backward. *)
StepsFollow(q) ==
  LET c == OnCaller(q)
  IN /\ q.step <= NumSteps
     /\ \A j \in DOMAIN c : c[j].step <= q.step /\ BackwardBy(q, c[j].step, j)
     /\ \A i, j \in DOMAIN c : i < j =>
          c[i].step <= c[j].step /\ (c[j].op = "backward" => c[i].step < c[j].step)
     /\ \A j \in DOMAIN c : c[j].op = "backward" =>
          IF j = 1 THEN c[j].step = 1 ELSE c[j].step = c[j - 1].step + 1
     /\ IF c = <<>> THEN q.step = 0 ELSE c[Len(c)].step = q.step

(* The transfers of a step come after its gradients and before those of    *)
(* the next step.                                                          *)
TransfersInStep(q) ==
  \A i \in DOMAIN OnTransfer(q) :
    LET t == OnTransfer(q)[i]
    IN /\ t.step <= q.step /\ BackwardBy(q, t.step, t.after)
       /\ \A j \in DOMAIN OnCaller(q) :
            OnCaller(q)[j].op = "backward" /\ OnCaller(q)[j].step > t.step =>
              OnCaller(q)[j].after >= i

(* A bucket is packed just before it is exchanged, and unpacked just after *)
(* its way back.                                                           *)
PackedJustBefore(q) ==
  LET t == OnTransfer(q)
  IN \A i \in DOMAIN t :
       /\ t[i].op = "scatter" =>
            i > 1 /\ t[i - 1].op = "prepare" /\ SameWork(t[i - 1], t[i])
       /\ t[i].op = "finalize" =>
            i > 1 /\ t[i - 1].op = "gather" /\ SameWork(t[i - 1], t[i])

(* Nothing is done twice in a step.                                        *)
Once(ops, names) ==
  \A i, j \in DOMAIN ops :
    i < j /\ ops[i].op \in names /\ ops[i].op = ops[j].op /\ ops[i].bucket = ops[j].bucket =>
      ops[i].step < ops[j].step

MovesOnce(q) == Once(OnTransfer(q), {"scatter", "gather", "finalize"})
CallsOnce(q) == Once(OnCaller(q), {"ready_items", "compute"})

(* A bucket is there before it is computed, and computed before it goes    *)
(* back; a slot is given to the next bucket after that.                    *)
Computable(q) ==
  \A j \in DOMAIN OnCaller(q) : OnCaller(q)[j].op = "compute" =>
    \E i \in DOMAIN OnTransfer(q) :
      /\ i <= OnCaller(q)[j].after
      /\ OnTransfer(q)[i].op = "scatter" /\ SameWork(OnTransfer(q)[i], OnCaller(q)[j])

Returnable(q) ==
  \A i \in DOMAIN OnTransfer(q) : OnTransfer(q)[i].op = "gather" =>
    \E j \in DOMAIN OnCaller(q) :
      /\ j <= OnTransfer(q)[i].after
      /\ OnCaller(q)[j].op = "compute" /\ SameWork(OnCaller(q)[j], OnTransfer(q)[i])

SlotsReturned(q) ==
  LET t == OnTransfer(q)
  IN \A i, j \in DOMAIN t :
       i < j /\ t[i].op = "scatter" /\ t[j].op = "scatter" /\ t[i].slot = t[j].slot =>
         \E g \in DOMAIN t : i < g /\ g < j /\ t[g].op = "gather" /\ SameWork(t[g], t[i])

(* A step has updated all items before the next one starts.                *)
ReadyBy(q, b, step, n) ==
  \E j \in DOMAIN OnCaller(q) :
    /\ j <= n /\ OnCaller(q)[j].op = "ready_items"
    /\ OnCaller(q)[j].bucket = b /\ OnCaller(q)[j].step = step

FinalizedBy(q, b, step, n) ==
  \E i \in DOMAIN OnTransfer(q) :
    /\ i <= n /\ OnTransfer(q)[i].op = "finalize"
    /\ OnTransfer(q)[i].bucket = b /\ OnTransfer(q)[i].step = step

StepsComplete(q) ==
  \A j \in DOMAIN OnCaller(q) :
    LET c == OnCaller(q)[j]
    IN c.op = "backward" /\ c.step > 1 =>
         \A b \in DOMAIN plans :
           /\ ReadyBy(q, b, c.step - 1, j)
           /\ ~IsLocal(b) => FinalizedBy(q, b, c.step - 1, c.after)

(* Operations are about buckets of the plan and slots of the pipeline.     *)
Planned(b) == b \in DOMAIN plans /\ ~IsLocal(b)

PlannedWork(q) ==
  /\ \A i \in DOMAIN OnTransfer(q) :
       Planned(OnTransfer(q)[i].bucket) /\ OnTransfer(q)[i].slot \in Slots
  /\ \A j \in DOMAIN OnCaller(q) :
       /\ OnCaller(q)[j].op = "ready_items" => OnCaller(q)[j].bucket \in DOMAIN plans
       /\ OnCaller(q)[j].op = "compute" => Planned(OnCaller(q)[j].bucket)

Structure(q) ==
  /\ StepsFollow(q) /\ TransfersInStep(q) /\ PackedJustBefore(q)
  /\ MovesOnce(q) /\ CallsOnce(q)
  /\ Computable(q) /\ Returnable(q) /\ SlotsReturned(q)
  /\ StepsComplete(q) /\ PlannedWork(q)

-------------------------------------------------------------------------------
(* The host within a step.                                                 *)

(* Only these buckets had this operation in the current step.              *)
Only(q, ops, op, buckets) ==
  \A i \in DOMAIN ops :
    ops[i].op = op /\ ops[i].step = q.step => ops[i].bucket \in buckets

(* Only these works of the current step still hold their slots.            *)
Unreturned(q, works) ==
  LET t == OnTransfer(q)
  IN \A i \in DOMAIN t : t[i].op = "scatter" =>
       \/ \E w \in works : IsOp(t[i], "scatter", w, q.step)
       \/ \E g \in DOMAIN t : i < g /\ t[g].op = "gather" /\ SameWork(t[g], t[i])

Flow(q, fetched, returned, called, works) ==
  /\ StreamTypes(q) /\ Structure(q) /\ q.step > 0
  /\ Only(q, OnTransfer(q), "scatter", fetched)
  /\ Only(q, OnTransfer(q), "gather", returned)
  /\ Only(q, OnTransfer(q), "finalize", returned)
  /\ Only(q, OnCaller(q), "ready_items", called)
  /\ Only(q, OnCaller(q), "compute", called)
  /\ Unreturned(q, works)

GradientsSeen(q) == BackwardBy(q, q.step, q.barrier["transfer"])

Scattered(q, w) ==
  \E i \in DOMAIN OnTransfer(q) :
    /\ IsOp(OnTransfer(q)[i], "scatter", w, q.step)
    /\ i <= q.event[<<"compute_input_ready", w.slot>>]

IsComputed(q, w) ==
  \E j \in DOMAIN OnCaller(q) :
    /\ IsOp(OnCaller(q)[j], "compute", w, q.step)
    /\ j <= q.event[<<"compute_done", w.slot>>]

Ready(q, b) == ReadyBy(q, b, q.step, Len(OnCaller(q)))
Finalized(q, b) == FinalizedBy(q, b, q.step, Len(OnTransfer(q)))

PreviousWork(h) == IF h.transferUsed THEN {h.previous} ELSE {}
PrefetchedWork(h) == {h.prefetched[x] : x \in DOMAIN h.prefetched}
PreviousBucket(h) == {w.bucket : w \in PreviousWork(h)}

Below(b) == 1..b - 1

InPlans(h) ==
  /\ h.plan <= Len(plans) + 1
  /\ h.nextPrefetch = h.plan + Len(h.prefetched)
  /\ \A x \in DOMAIN h.prefetched :
       h.prefetched[x].bucket = h.plan + x - 1 /\ Planned(h.prefetched[x].bucket)
  /\ \A w \in PreviousWork(h) : w.bucket < h.plan /\ Planned(w.bucket)

InRun(q, h) ==
  /\ InPlans(h)
  /\ Flow(q, Below(h.nextPrefetch), Below(h.plan) \ PreviousBucket(h), Below(h.plan),
          PreviousWork(h) \union PrefetchedWork(h))
  /\ h.transferUsed => GradientsSeen(q)
  /\ \A b \in Below(h.plan) :
       Ready(q, b) /\ (b \notin PreviousBucket(h) /\ ~IsLocal(b) => Finalized(q, b))
  /\ \A w \in PreviousWork(h) : IsComputed(q, w)
  /\ \A w \in PrefetchedWork(h) : Scattered(q, w)

AtEntry(q) ==
  /\ Unreturned(q, {})
  /\ q.step > 0 =>
       \A b \in DOMAIN plans : Ready(q, b) /\ (~IsLocal(b) => Finalized(q, b))

RankFlow(q, h) ==
  /\ Structure(q)
  /\ h.pc # "raised" =>
       /\ q.step = h.step
       /\ IF h.pc = "outside" THEN AtEntry(q) ELSE InRun(q, h)

FlowInv == \A r \in Ranks : RankFlow(streams[r], host[r])

-------------------------------------------------------------------------------
(* The ranks run the same program on the same plans: what their hosts have *)
(* been through are parts of one path.                                     *)

Extends(s, t) ==
  /\ DOMAIN s \subseteq DOMAIN t
  /\ \A i \in DOMAIN s : t[i] = s[i]

Advance(x) ==
  LET h == x[1]
      q == x[2]
  IN IF h.pc = "outside"
     THEN <<[HostAtEntry(h.step + 1) EXCEPT !.pc = "running"], StartStep(q)>>
     ELSE IF h.pc = "prefetching"
     THEN <<ContinuesWith(AfterPrefetch(h)), StorageToCompute(q, PrefetchWork(h))>>
     ELSE IF h.plan > Len(plans)
     THEN <<HostAtEntry(h.step), LastEnqueued(q, h)>>
     ELSE IF IsLocal(h.plan)
     THEN <<[h EXCEPT !.plan = @ + 1, !.nextPrefetch = h.plan + 1],
            ReadyItems(q, LocalWork(h))>>
     ELSE <<ContinuesWith(AfterBucket(h)), BucketEnqueued(q, h)>>

StreamsAtStart ==
  [ops |-> [st \in Streams |-> <<>>],
   barrier |-> [st \in Streams |-> 0],
   event |-> [e \in Events \X Slots |-> 0],
   step |-> 0]

Path(g, n) ==
  /\ n \in Nat \ {0}
  /\ DOMAIN g = 1..n
  /\ g[1] = <<HostAtEntry(0), StreamsAtStart>>
  /\ \A m \in 1..n - 1 : g[m + 1] = Advance(g[m])
  /\ \A m, k \in 1..n : m <= k => Extends(OnTransfer(g[m][2]), OnTransfer(g[k][2]))

OnPath(g, n, q, h) ==
  \E m \in 1..n :
    /\ Extends(OnTransfer(q), OnTransfer(g[m][2]))
    /\ h.pc # "raised" => g[m] = <<h, q>>

SamePath ==
  \E n \in Nat : \E g : Path(g, n) /\ \A r \in Ranks : OnPath(g, n, streams[r], host[r])

SameTransfers ==
  \A r, p \in Ranks :
    \A i \in DOMAIN OnTransfer(streams[r]) \intersect DOMAIN OnTransfer(streams[p]) :
      OnTransfer(streams[r])[i] = OnTransfer(streams[p])[i]

-------------------------------------------------------------------------------
(* The data.                                                               *)

EndedInOrder(r) ==
  /\ ended[r]["transfer"] <= Len(OnTransfer(streams[r]))
  /\ ended[r]["caller"] <= Len(OnCaller(streams[r]))
  /\ \A i \in 1..ended[r]["transfer"] : OnTransfer(streams[r])[i].after <= ended[r]["caller"]
  /\ \A j \in 1..ended[r]["caller"] : OnCaller(streams[r])[j].after <= ended[r]["transfer"]

Gradients(r) ==
  backwards[r] = IF ended[r]["caller"] = 0 THEN 0
                 ELSE OnCaller(streams[r])[ended[r]["caller"]].step

(* What was packed, or came back, is still in the storage buffer for the   *)
(* operation that follows.                                                 *)
StorageHolds(r) ==
  LET i == ended[r]["transfer"]
      t == OnTransfer(streams[r])[i]
  IN i > 0 =>
       /\ t.op = "prepare" => storage[r][t.slot] = <<t.bucket, t.step, "input">>
       /\ t.op = "gather" => storage[r][t.slot] = <<t.bucket, t.step, "update">>

ComputeEnded(r, o) ==
  \E j \in 1..ended[r]["caller"] :
    OnCaller(streams[r])[j].op = "compute" /\ SameWork(OnCaller(streams[r])[j], o)

(* Between its two exchanges a bucket has its slot's compute buffer.       *)
Holds(r, i) ==
  LET t == OnTransfer(streams[r])
  IN /\ t[i].op = "scatter" /\ r \in plans[t[i].bucket]
     /\ \A g \in i + 1..ended[r]["transfer"] : ~(t[g].op = "gather" /\ SameWork(t[g], t[i]))

ComputeHolds(r) ==
  LET t == OnTransfer(streams[r])
  IN \A i \in 1..ended[r]["transfer"] : Holds(r, i) =>
       compute[r][t[i].slot] =
         <<t[i].bucket, t[i].step, IF ComputeEnded(r, t[i]) THEN "update" ELSE "input">>

UpdatesEnded(r) ==
  /\ \A j \in 1..ended[r]["caller"] :
       LET c == OnCaller(streams[r])[j]
       IN c.op = "ready_items" => version[r][<<c.bucket, "ready">>] >= c.step
  /\ \A i \in 1..ended[r]["transfer"] :
       LET t == OnTransfer(streams[r])[i]
       IN t.op = "finalize" => version[r][<<t.bucket, "resharded">>] >= t.step

UpdatesOnlyEnded(r) ==
  \A i \in Items :
    /\ version[r][i] \in Nat
    /\ version[r][i] > 0 =>
         IF i[2] = "ready"
         THEN ReadyBy(streams[r], i[1], version[r][i], ended[r]["caller"])
         ELSE FinalizedBy(streams[r], i[1], version[r][i], ended[r]["transfer"])

RankData(r) ==
  /\ EndedInOrder(r) /\ Gradients(r) /\ StorageHolds(r) /\ ComputeHolds(r)
  /\ UpdatesEnded(r) /\ UpdatesOnlyEnded(r)

ExchangedTogether ==
  \A r, p \in Ranks :
    \A i \in 1..ended[r]["transfer"] :
      OnTransfer(streams[r])[i].op \in {"scatter", "gather"} => i <= ended[p]["transfer"]

(* A value for each rank and key.                                          *)
Table(f, keys) == DOMAIN f = Ranks /\ \A r \in Ranks : DOMAIN f[r] = keys

DataTypes ==
  /\ Table(storage, Slots) /\ Table(compute, Slots)
  /\ DOMAIN backwards = Ranks /\ Table(version, Items)

DataInv ==
  /\ DataTypes /\ ExchangedTogether
  /\ \A r \in Ranks : RankData(r)

StepsInv == RaceInv /\ FlowInv /\ SamePath /\ DataInv
-------------------------------------------------------------------------------
(* The host only adds to what it has enqueued, and an event is recorded    *)
(* again only further on its stream.                                       *)

EventOn(e) == IF e = "compute_done" THEN "caller" ELSE "transfer"

Grows(q, n) ==
  /\ StreamTypes(n) /\ n.step = q.step
  /\ Extends(OnTransfer(q), OnTransfer(n)) /\ Extends(OnCaller(q), OnCaller(n))
  /\ \A st \in Streams : n.barrier[st] >= q.barrier[st]
  /\ \A e \in Events, s \in Slots :
       n.event[<<e, s>>] = q.event[<<e, s>>]
         \/ n.event[<<e, s>>] >= Len(q.ops[EventOn(e)])

LEMMA OpsFacts ==
  ASSUME NEW q, StreamTypes(q), NEW st \in Streams
  PROVE  /\ Len(q.ops[st]) \in Nat /\ DOMAIN q.ops[st] = 1..Len(q.ops[st])
         /\ q.barrier[st] \in Nat /\ q.step \in Nat
         /\ \A i \in DOMAIN q.ops[st] : q.ops[st][i] \in Operations(st)
BY DEF StreamTypes

LEMMA ExtendsTransitive ==
  ASSUME NEW s, NEW t, NEW u, Extends(s, t), Extends(t, u)
  PROVE  Extends(s, u)
BY DEF Extends

LEMMA GrowsReflexive ==
  ASSUME NEW q, StreamTypes(q)
  PROVE  Grows(q, q)
BY OpsFacts DEF Grows, Extends

LEMMA GrowsTransitive ==
  ASSUME NEW q, NEW m, NEW n, StreamTypes(q), Grows(q, m), Grows(m, n)
  PROVE  Grows(q, n)
<1>1. StreamTypes(m) /\ StreamTypes(n) /\ n.step = q.step
  BY DEF Grows
<1>2. Extends(OnTransfer(q), OnTransfer(n)) /\ Extends(OnCaller(q), OnCaller(n))
  BY ExtendsTransitive DEF Grows
<1>3. ASSUME NEW st \in Streams
      PROVE  n.barrier[st] >= q.barrier[st] /\ Len(q.ops[st]) <= Len(m.ops[st])
               /\ Len(q.ops[st]) \in Nat /\ Len(m.ops[st]) \in Nat
  <2>1. q.barrier[st] \in Nat /\ m.barrier[st] \in Nat /\ n.barrier[st] \in Nat
    BY <1>1, OpsFacts
  <2>2. n.barrier[st] >= m.barrier[st] /\ m.barrier[st] >= q.barrier[st]
    BY DEF Grows
  <2>3. DOMAIN q.ops[st] \subseteq DOMAIN m.ops[st]
    BY DEF Grows, Extends, OnTransfer, OnCaller, Streams
  <2>4. /\ Len(q.ops[st]) \in Nat /\ DOMAIN q.ops[st] = 1..Len(q.ops[st])
        /\ Len(m.ops[st]) \in Nat /\ DOMAIN m.ops[st] = 1..Len(m.ops[st])
    BY <1>1, OpsFacts
  <2> QED
    BY <2>1, <2>2, <2>3, <2>4
<1>4. ASSUME NEW e \in Events, NEW s \in Slots
      PROVE  n.event[<<e, s>>] = q.event[<<e, s>>]
               \/ n.event[<<e, s>>] >= Len(q.ops[EventOn(e)])
  <2>1. EventOn(e) \in Streams
    BY DEF EventOn, Streams
  <2>2. /\ m.event[<<e, s>>] = q.event[<<e, s>>] \/ m.event[<<e, s>>] >= Len(q.ops[EventOn(e)])
        /\ n.event[<<e, s>>] = m.event[<<e, s>>] \/ n.event[<<e, s>>] >= Len(m.ops[EventOn(e)])
    BY DEF Grows
  <2>3. n.event[<<e, s>>] \in Nat
    BY <1>1, StreamFacts
  <2> QED
    BY <1>3, <2>1, <2>2, <2>3
<1> QED
  BY <1>1, <1>2, <1>3, <1>4 DEF Grows

LEMMA LaunchGrows ==
  ASSUME NEW q, StreamTypes(q), NEW st \in Streams, NEW op \in OpNames[st], NEW w \in AnyWork
  PROVE  Grows(q, Launch(q, st, op, w))
<1> DEFINE n == Launch(q, st, op, w)
<1>1. /\ StreamTypes(n) /\ n.barrier = q.barrier /\ n.event = q.event /\ n.step = q.step
      /\ n.ops[Other(st)] = q.ops[Other(st)] /\ Len(q.ops[st]) \in Nat
      /\ DOMAIN q.ops[st] = 1..Len(q.ops[st]) /\ DOMAIN n.ops[st] = 1..Len(q.ops[st]) + 1
      /\ \A i \in 1..Len(q.ops[st]) : n.ops[st][i] = q.ops[st][i]
  BY LaunchResult
<1> HIDE DEF n
<1>2. \A s \in Streams : Extends(q.ops[s], n.ops[s])
  BY <1>1 DEF Extends, Streams, Other
<1>3. \A s \in Streams : q.barrier[s] \in Nat
  BY OpsFacts
<1> QED
  BY <1>1, <1>2, <1>3 DEF n, Grows, OnTransfer, OnCaller, Streams

LEMMA RecordGrows ==
  ASSUME NEW q, StreamTypes(q), NEW e \in Events, NEW w \in Work
  PROVE  Grows(q, Record(q, EventOn(e), e, w))
<1> DEFINE st == EventOn(e)
           n == Record(q, st, e, w)
<1>1. st \in Streams
  BY DEF EventOn, Streams
<1>2. /\ StreamTypes(n) /\ n.barrier = q.barrier /\ n.ops = q.ops /\ n.step = q.step
      /\ n.event[<<e, w.slot>>] = Len(q.ops[st]) /\ Len(q.ops[st]) \in Nat
      /\ \A x \in Events \X Slots : x # <<e, w.slot>> => n.event[x] = q.event[x]
  BY <1>1, RecordResult, OpsFacts
<1> HIDE DEF n
<1>3. ASSUME NEW f \in Events, NEW s \in Slots
      PROVE  n.event[<<f, s>>] = q.event[<<f, s>>]
               \/ n.event[<<f, s>>] >= Len(q.ops[EventOn(f)])
  <2>1. CASE <<f, s>> = <<e, w.slot>>
    BY <1>2, <2>1
  <2>2. CASE <<f, s>> # <<e, w.slot>>
    BY <1>2, <2>2
  <2> QED
    BY <2>1, <2>2
<1>4. \A s \in Streams : q.barrier[s] \in Nat
  BY OpsFacts
<1> QED
  BY <1>2, <1>3, <1>4 DEF n, Grows, Extends, OnTransfer, OnCaller

LEMMA HoldBackGrows ==
  ASSUME NEW q, StreamTypes(q), NEW st \in Streams, NEW position \in Nat
  PROVE  LET n == HoldBack(q, st, position)
         IN Grows(q, n) /\ n.ops = q.ops /\ n.event = q.event /\ n.barrier[st] >= position
<1> DEFINE n == HoldBack(q, st, position)
<1>1. /\ StreamTypes(n) /\ n.event = q.event /\ n.ops = q.ops /\ n.step = q.step
      /\ n.barrier[st] >= position
      /\ \A s \in Streams : n.barrier[s] >= q.barrier[s]
  BY HoldBackResult
<1> HIDE DEF n
<1> QED
  BY <1>1 DEF n, Grows, Extends, OnTransfer, OnCaller

(* What has been enqueued stays so.                                        *)
LEMMA GrowsKeeps ==
  ASSUME NEW q, NEW n, StreamTypes(q), Grows(q, n)
  PROVE  /\ Len(OnTransfer(q)) <= Len(OnTransfer(n)) /\ Len(OnCaller(q)) <= Len(OnCaller(n))
         /\ GradientsSeen(q) => GradientsSeen(n)
         /\ \A w \in Work : Scattered(q, w) => Scattered(n, w)
         /\ \A w \in Work : IsComputed(q, w) => IsComputed(n, w)
         /\ \A b : Ready(q, b) => Ready(n, b)
         /\ \A b : Finalized(q, b) => Finalized(n, b)
<1>1. StreamTypes(n) /\ n.step = q.step
  BY DEF Grows
<1>2. /\ Len(OnTransfer(q)) \in Nat /\ DOMAIN OnTransfer(q) = 1..Len(OnTransfer(q))
      /\ Len(OnCaller(q)) \in Nat /\ DOMAIN OnCaller(q) = 1..Len(OnCaller(q))
      /\ Len(OnTransfer(n)) \in Nat /\ DOMAIN OnTransfer(n) = 1..Len(OnTransfer(n))
      /\ Len(OnCaller(n)) \in Nat /\ DOMAIN OnCaller(n) = 1..Len(OnCaller(n))
      /\ q.barrier["transfer"] \in Nat /\ n.barrier["transfer"] \in Nat
      /\ n.barrier["transfer"] >= q.barrier["transfer"]
  BY <1>1, StreamFacts DEF Grows, Streams
<1>3. /\ \A i \in DOMAIN OnTransfer(q) :
           i \in DOMAIN OnTransfer(n) /\ OnTransfer(n)[i] = OnTransfer(q)[i]
      /\ \A j \in DOMAIN OnCaller(q) :
           j \in DOMAIN OnCaller(n) /\ OnCaller(n)[j] = OnCaller(q)[j]
  BY DEF Grows, Extends
<1>4. Len(OnTransfer(q)) <= Len(OnTransfer(n)) /\ Len(OnCaller(q)) <= Len(OnCaller(n))
  <2>1. DOMAIN OnTransfer(q) \subseteq DOMAIN OnTransfer(n)
          /\ DOMAIN OnCaller(q) \subseteq DOMAIN OnCaller(n)
    BY <1>3
  <2> QED
    BY <1>2, <2>1
<1>5. GradientsSeen(q) => GradientsSeen(n)
  BY <1>1, <1>2, <1>3 DEF GradientsSeen, BackwardBy
<1>6. ASSUME NEW w \in Work, Scattered(q, w)
      PROVE  Scattered(n, w)
  <2>1. PICK i \in DOMAIN OnTransfer(q) :
          /\ IsOp(OnTransfer(q)[i], "scatter", w, q.step)
          /\ i <= q.event[<<"compute_input_ready", w.slot>>]
    BY <1>6 DEF Scattered
  <2>2. /\ w.slot \in Slots /\ "compute_input_ready" \in Events
        /\ EventOn("compute_input_ready") = "transfer"
    BY DEF Work, Events, EventOn
  <2>3. n.event[<<"compute_input_ready", w.slot>>] \in Nat
    BY <1>1, <2>2, StreamFacts
  <2>4. \/ n.event[<<"compute_input_ready", w.slot>>] = q.event[<<"compute_input_ready", w.slot>>]
        \/ n.event[<<"compute_input_ready", w.slot>>] >= Len(OnTransfer(q))
    BY <2>2 DEF Grows, OnTransfer
  <2>5. i <= n.event[<<"compute_input_ready", w.slot>>]
    BY <1>2, <2>1, <2>3, <2>4
  <2> QED
    BY <1>1, <1>3, <2>1, <2>5 DEF Scattered
<1>7. ASSUME NEW w \in Work, IsComputed(q, w)
      PROVE  IsComputed(n, w)
  <2>1. PICK j \in DOMAIN OnCaller(q) :
          /\ IsOp(OnCaller(q)[j], "compute", w, q.step)
          /\ j <= q.event[<<"compute_done", w.slot>>]
    BY <1>7 DEF IsComputed
  <2>2. /\ w.slot \in Slots /\ "compute_done" \in Events
        /\ EventOn("compute_done") = "caller"
    BY DEF Work, Events, EventOn
  <2>3. n.event[<<"compute_done", w.slot>>] \in Nat
    BY <1>1, <2>2, StreamFacts
  <2>4. \/ n.event[<<"compute_done", w.slot>>] = q.event[<<"compute_done", w.slot>>]
        \/ n.event[<<"compute_done", w.slot>>] >= Len(OnCaller(q))
    BY <2>2 DEF Grows, OnCaller
  <2>5. j <= n.event[<<"compute_done", w.slot>>]
    BY <1>2, <2>1, <2>3, <2>4
  <2> QED
    BY <1>1, <1>3, <2>1, <2>5 DEF IsComputed
<1>8. ASSUME NEW b, Ready(q, b)
      PROVE  Ready(n, b)
  BY <1>1, <1>2, <1>3, <1>4, <1>8 DEF Ready, ReadyBy
<1>9. ASSUME NEW b, Finalized(q, b)
      PROVE  Finalized(n, b)
  BY <1>1, <1>2, <1>3, <1>4, <1>9 DEF Finalized, FinalizedBy
<1> QED
  BY <1>4, <1>5, <1>6, <1>7, <1>8, <1>9
-------------------------------------------------------------------------------
(* What may be enqueued next.                                              *)

NotYet(q, ops, op, b) ==
  \A i \in DOMAIN ops : ~(ops[i].op = op /\ ops[i].bucket = b /\ ops[i].step = q.step)

JustAfter(q, op, w) ==
  OnTransfer(q) # <<>> /\ IsOp(OnTransfer(q)[Len(OnTransfer(q))], op, w, q.step)

SlotFree(q, s) ==
  LET t == OnTransfer(q)
  IN \A i \in DOMAIN t : t[i].op = "scatter" /\ t[i].slot = s =>
       \E g \in DOMAIN t : i < g /\ t[g].op = "gather" /\ SameWork(t[g], t[i])

ComputeAwaited(q, w) ==
  \E j \in DOMAIN OnCaller(q) :
    j <= q.barrier["transfer"] /\ IsOp(OnCaller(q)[j], "compute", w, q.step)

ScatterAwaited(q, w) ==
  \E i \in DOMAIN OnTransfer(q) :
    i <= q.barrier["caller"] /\ IsOp(OnTransfer(q)[i], "scatter", w, q.step)

MayTransfer(q, op, w) ==
  /\ Planned(w.bucket) /\ w.slot \in Slots /\ GradientsSeen(q)
  /\ op \in {"scatter", "gather", "finalize"} => NotYet(q, OnTransfer(q), op, w.bucket)
  /\ op = "scatter" => JustAfter(q, "prepare", w) /\ SlotFree(q, w.slot)
  /\ op = "gather" => ComputeAwaited(q, w)
  /\ op = "finalize" => JustAfter(q, "gather", w)

MayCall(q, op, w) ==
  /\ op # "backward" /\ q.step > 0
  /\ op \in {"ready_items", "compute"} => NotYet(q, OnCaller(q), op, w.bucket)
  /\ op = "ready_items" => w.bucket \in DOMAIN plans
  /\ op = "compute" => Planned(w.bucket) /\ ScatterAwaited(q, w)

(* The order of the enqueued work is about the operations and steps only.  *)
LEMMA StructureOfOps ==
  ASSUME NEW q, NEW n, Structure(q), n.ops = q.ops, n.step = q.step
  PROVE  Structure(n)
<1>1. OnTransfer(n) = OnTransfer(q) /\ OnCaller(n) = OnCaller(q)
  BY DEF OnTransfer, OnCaller
<1>2. /\ \A s, k : BackwardBy(n, s, k) <=> BackwardBy(q, s, k)
      /\ \A b, s, k : ReadyBy(n, b, s, k) <=> ReadyBy(q, b, s, k)
      /\ \A b, s, k : FinalizedBy(n, b, s, k) <=> FinalizedBy(q, b, s, k)
  BY <1>1 DEF BackwardBy, ReadyBy, FinalizedBy
<1>3. StepsFollow(n) /\ TransfersInStep(n) /\ StepsComplete(n)
  BY <1>1, <1>2 DEF Structure, StepsFollow, TransfersInStep, StepsComplete
<1> QED
  BY <1>1, <1>3 DEF Structure, PackedJustBefore, MovesOnce, CallsOnce, Computable,
                    Returnable, SlotsReturned, PlannedWork

LEMMA TransferStructure ==
  ASSUME NEW q, StreamTypes(q), Structure(q), NEW op \in TransferOps, NEW w \in AnyWork,
         MayTransfer(q, op, w)
  PROVE  Structure(Launch(q, "transfer", op, w))
<1> DEFINE n == Launch(q, "transfer", op, w)
           o == OpOf(q, "transfer", op, w)
           t == OnTransfer(q)
           u == OnTransfer(n)
           c == OnCaller(q)
           l == Len(t)
<1>1. "transfer" \in Streams /\ op \in OpNames["transfer"] /\ Other("transfer") = "caller"
  BY DEF Streams, OpNames, Other
<1>2. /\ StreamTypes(n) /\ OnCaller(n) = c /\ n.step = q.step
      /\ DOMAIN t = 1..l /\ DOMAIN u = 1..l + 1 /\ l \in Nat
      /\ \A i \in 1..l : u[i] = t[i]
      /\ u[l + 1] = o
  BY <1>1, LaunchResult DEF OnCaller, OnTransfer
<1>3. /\ o.op = op /\ o.slot = w.slot /\ o.bucket = w.bucket /\ o.step = q.step
      /\ o.after = q.barrier["transfer"]
  BY DEF OpOf
<1>4. /\ DOMAIN c = 1..Len(c) /\ Len(c) \in Nat /\ q.step \in Nat
      /\ \A i \in DOMAIN t : t[i].step \in Nat /\ t[i].op \in TransferOps
      /\ \A j \in DOMAIN c : c[j].step \in Nat /\ c[j].op \in CallerOps
  BY StreamFacts, OpsFacts, <1>1 DEF Operations, OpNames, Streams
<1>5. /\ \A s, k : BackwardBy(n, s, k) <=> BackwardBy(q, s, k)
      /\ \A b, s, k : ReadyBy(n, b, s, k) <=> ReadyBy(q, b, s, k)
  BY <1>2 DEF BackwardBy, ReadyBy
<1> HIDE DEF n, o, t, u, c, l
<1>6. \A b, s, k : FinalizedBy(q, b, s, k) => FinalizedBy(n, b, s, k)
  BY <1>2 DEF FinalizedBy, t, u
<1>7. StepsFollow(n) /\ StepsComplete(n)
  BY <1>2, <1>5, <1>6 DEF Structure, StepsFollow, StepsComplete, c
<1>8. TransfersInStep(n)
  <2> SUFFICES ASSUME NEW i \in 1..l + 1
               PROVE  /\ u[i].step <= q.step /\ BackwardBy(q, u[i].step, u[i].after)
                      /\ \A j \in DOMAIN c : c[j].op = "backward" /\ c[j].step > u[i].step =>
                           c[j].after >= i
    BY <1>2, <1>5 DEF TransfersInStep, u, c
  <2>1. CASE i \in 1..l
    BY <1>2, <2>1 DEF Structure, TransfersInStep, t, c
  <2>2. CASE i = l + 1
    <3>1. \A j \in DOMAIN c : c[j].step <= q.step
      BY DEF Structure, StepsFollow, c
    <3> QED
      BY <1>2, <1>3, <1>4, <2>2, <3>1 DEF MayTransfer, GradientsSeen
  <2> QED
    BY <1>2, <2>1, <2>2
<1>9. PackedJustBefore(n)
  <2> SUFFICES ASSUME NEW i \in 1..l + 1
               PROVE  /\ u[i].op = "scatter" =>
                           i > 1 /\ u[i - 1].op = "prepare" /\ SameWork(u[i - 1], u[i])
                      /\ u[i].op = "finalize" =>
                           i > 1 /\ u[i - 1].op = "gather" /\ SameWork(u[i - 1], u[i])
    BY <1>2 DEF PackedJustBefore, u
  <2>1. CASE i \in 1..l
    <3>1. /\ t[i].op = "scatter" =>
               i > 1 /\ t[i - 1].op = "prepare" /\ SameWork(t[i - 1], t[i])
          /\ t[i].op = "finalize" =>
               i > 1 /\ t[i - 1].op = "gather" /\ SameWork(t[i - 1], t[i])
      BY <1>2, <2>1 DEF Structure, PackedJustBefore, t
    <3>2. i > 1 => i - 1 \in 1..l
      BY <1>2, <2>1
    <3> QED
      BY <1>2, <2>1, <3>1, <3>2
  <2>2. CASE i = l + 1
    <3>1. op = "scatter" => t # <<>> /\ IsOp(t[l], "prepare", w, q.step)
      BY DEF MayTransfer, JustAfter, t, l
    <3>2. op = "finalize" => t # <<>> /\ IsOp(t[l], "gather", w, q.step)
      BY DEF MayTransfer, JustAfter, t, l
    <3>3. t # <<>> => l > 0
      <4>1. t \in Seq(Operations("transfer"))
        BY DEF t, OnTransfer, StreamTypes, Streams
      <4> QED
        BY <4>1 DEF l
    <3>4. l > 0 => i > 1 /\ i - 1 = l /\ u[i - 1] = t[l]
      BY <1>2, <2>2
    <3> QED
      BY <1>2, <1>3, <2>2, <3>1, <3>2, <3>3, <3>4 DEF IsOp, SameWork
  <2> QED
    BY <1>2, <2>1, <2>2
<1>10. MovesOnce(n)
  <2> DEFINE names == {"scatter", "gather", "finalize"}
  <2> SUFFICES ASSUME NEW i \in 1..l + 1, NEW j \in 1..l + 1, i < j, u[i].op \in names,
                      u[i].op = u[j].op, u[i].bucket = u[j].bucket
               PROVE  u[i].step < u[j].step
    BY <1>2 DEF MovesOnce, Once, u
  <2>1. i \in 1..l /\ u[i] = t[i]
    BY <1>2
  <2>2. CASE j \in 1..l
    BY <1>2, <2>1, <2>2 DEF Structure, MovesOnce, Once, t
  <2>3. CASE j = l + 1
    <3>1. t[i].op = op /\ t[i].bucket = w.bucket /\ op \in names
      BY <1>2, <1>3, <2>1, <2>3
    <3>2. t[i].step # q.step
      BY <1>2, <2>1, <3>1 DEF MayTransfer, NotYet, t
    <3>3. t[i].step <= q.step
      BY <1>2, <2>1 DEF Structure, TransfersInStep, t
    <3> QED
      BY <1>2, <1>3, <1>4, <2>1, <2>3, <3>2, <3>3
  <2> QED
    BY <1>2, <2>2, <2>3
<1>11. CallsOnce(n)
  BY <1>2 DEF Structure, CallsOnce, c
<1>12. Computable(n)
  <2> SUFFICES ASSUME NEW j \in DOMAIN c, c[j].op = "compute"
               PROVE  \E i \in DOMAIN u : i <= c[j].after /\ u[i].op = "scatter"
                                            /\ SameWork(u[i], c[j])
    BY <1>2 DEF Computable, c, u
  <2>1. PICK i \in DOMAIN t : i <= c[j].after /\ t[i].op = "scatter" /\ SameWork(t[i], c[j])
    BY DEF Structure, Computable, c, t
  <2> QED
    BY <1>2, <2>1
<1>13. Returnable(n)
  <2> SUFFICES ASSUME NEW i \in 1..l + 1, u[i].op = "gather"
               PROVE  \E j \in DOMAIN c : j <= u[i].after /\ c[j].op = "compute"
                                            /\ SameWork(c[j], u[i])
    BY <1>2 DEF Returnable, c, u
  <2>1. CASE i \in 1..l
    BY <1>2, <2>1 DEF Structure, Returnable, c, t
  <2>2. CASE i = l + 1
    BY <1>2, <1>3, <2>2 DEF MayTransfer, ComputeAwaited, IsOp, SameWork, c
  <2> QED
    BY <1>2, <2>1, <2>2
<1>14. SlotsReturned(n)
  <2> SUFFICES ASSUME NEW i \in 1..l + 1, NEW j \in 1..l + 1, i < j, u[i].op = "scatter",
                      u[j].op = "scatter", u[i].slot = u[j].slot
               PROVE  \E g \in DOMAIN u : i < g /\ g < j /\ u[g].op = "gather"
                                            /\ SameWork(u[g], u[i])
    BY <1>2 DEF SlotsReturned, u
  <2>1. i \in 1..l /\ u[i] = t[i]
    BY <1>2
  <2>2. CASE j \in 1..l
    <3>1. PICK g \in DOMAIN t : i < g /\ g < j /\ t[g].op = "gather" /\ SameWork(t[g], t[i])
      BY <1>2, <2>1, <2>2 DEF Structure, SlotsReturned, t
    <3> QED
      BY <1>2, <2>1, <3>1
  <2>3. CASE j = l + 1
    <3>1. op = "scatter" /\ t[i].op = "scatter" /\ t[i].slot = w.slot
      BY <1>2, <1>3, <2>1, <2>3
    <3>2. PICK g \in DOMAIN t : i < g /\ t[g].op = "gather" /\ SameWork(t[g], t[i])
      BY <1>2, <2>1, <3>1 DEF MayTransfer, SlotFree, t
    <3> QED
      BY <1>2, <2>1, <2>3, <3>2
  <2> QED
    BY <1>2, <2>2, <2>3
<1>15. PlannedWork(n)
  <2>1. \A i \in DOMAIN u : Planned(u[i].bucket) /\ u[i].slot \in Slots
    BY <1>2, <1>3 DEF Structure, PlannedWork, MayTransfer, t
  <2> QED
    BY <1>2, <2>1 DEF Structure, PlannedWork, u, c
<1> QED
  BY <1>7, <1>8, <1>9, <1>10, <1>11, <1>12, <1>13, <1>14, <1>15 DEF n, Structure
LEMMA CallStructure ==
  ASSUME NEW q, StreamTypes(q), Structure(q), NEW op \in CallerOps, NEW w \in AnyWork,
         MayCall(q, op, w)
  PROVE  Structure(Launch(q, "caller", op, w))
<1> DEFINE n == Launch(q, "caller", op, w)
           o == OpOf(q, "caller", op, w)
           t == OnTransfer(q)
           c == OnCaller(q)
           d == OnCaller(n)
           l == Len(c)
<1>1. "caller" \in Streams /\ op \in OpNames["caller"] /\ Other("caller") = "transfer"
  BY DEF Streams, OpNames, Other
<1>2. /\ StreamTypes(n) /\ OnTransfer(n) = t /\ n.step = q.step
      /\ DOMAIN c = 1..l /\ DOMAIN d = 1..l + 1 /\ l \in Nat /\ Len(d) = l + 1
      /\ \A i \in 1..l : d[i] = c[i]
      /\ d[l + 1] = o
  BY <1>1, LaunchResult DEF OnCaller, OnTransfer
<1>3. /\ o.op = op /\ o.slot = w.slot /\ o.bucket = w.bucket /\ o.step = q.step
      /\ o.after = q.barrier["caller"] /\ op # "backward" /\ q.step > 0
  BY DEF OpOf, MayCall
<1>4. /\ DOMAIN t = 1..Len(t) /\ Len(t) \in Nat /\ q.step \in Nat
      /\ \A i \in DOMAIN t : t[i].step \in Nat /\ t[i].op \in TransferOps
      /\ \A j \in DOMAIN c : c[j].step \in Nat /\ c[j].op \in CallerOps
  BY StreamFacts, OpsFacts, <1>1 DEF Operations, OpNames, Streams
<1>5. \A b, s, k : FinalizedBy(n, b, s, k) <=> FinalizedBy(q, b, s, k)
  BY <1>2 DEF FinalizedBy
<1> HIDE DEF n, o, t, d, c, l
<1>6. /\ \A s, k : BackwardBy(q, s, k) => BackwardBy(n, s, k)
      /\ \A b, s, k : ReadyBy(q, b, s, k) => ReadyBy(n, b, s, k)
  BY <1>2 DEF BackwardBy, ReadyBy, c, d
<1>7. l > 0 /\ c[l].step = q.step /\ BackwardBy(q, q.step, l)
  <2>1. c # <<>> /\ c[l].step = q.step
    BY <1>3 DEF Structure, StepsFollow, c, l
  <2>2. l > 0
    <3>1. c \in Seq(Operations("caller"))
      BY DEF c, OnCaller, StreamTypes, Streams
    <3> QED
      BY <2>1, <3>1 DEF l
  <2>3. BackwardBy(q, c[l].step, l)
    BY <1>2, <2>2 DEF Structure, StepsFollow, c
  <2> QED
    BY <2>1, <2>2, <2>3
<1>8. StepsFollow(n)
  <2>1. q.step <= NumSteps
    BY DEF Structure, StepsFollow
  <2>2. ASSUME NEW j \in 1..l + 1
        PROVE  d[j].step <= q.step /\ BackwardBy(n, d[j].step, j)
    <3>1. CASE j \in 1..l
      BY <1>2, <1>6, <3>1 DEF Structure, StepsFollow, c
    <3>2. CASE j = l + 1
      <4>1. BackwardBy(q, q.step, j)
        BY <1>2, <1>7, <3>2 DEF BackwardBy, c
      <4> QED
        BY <1>2, <1>3, <1>4, <1>6, <3>2, <4>1
    <3> QED
      BY <1>2, <3>1, <3>2
  <2>3. ASSUME NEW i \in 1..l + 1, NEW j \in 1..l + 1, i < j
        PROVE  d[i].step <= d[j].step /\ (d[j].op = "backward" => d[i].step < d[j].step)
    <3>1. i \in 1..l /\ d[i] = c[i]
      BY <1>2, <2>3
    <3>2. CASE j \in 1..l
      BY <1>2, <2>3, <3>1, <3>2 DEF Structure, StepsFollow, c
    <3>3. CASE j = l + 1
      <4>1. c[i].step <= q.step
        BY <1>2, <3>1 DEF Structure, StepsFollow, c
      <4> QED
        BY <1>2, <1>3, <3>1, <3>3, <4>1
    <3> QED
      BY <1>2, <3>2, <3>3
  <2>4. ASSUME NEW j \in 1..l + 1, d[j].op = "backward"
        PROVE  IF j = 1 THEN d[j].step = 1 ELSE d[j].step = d[j - 1].step + 1
    <3>1. j \in 1..l /\ d[j] = c[j]
      BY <1>2, <1>3, <2>4
    <3>2. j # 1 => d[j - 1] = c[j - 1]
      BY <1>2, <3>1
    <3> QED
      BY <1>2, <2>4, <3>1, <3>2 DEF Structure, StepsFollow, c
  <2>5. d # <<>> /\ d[Len(d)].step = q.step
    <3>1. d # <<>>
      BY <1>2
    <3> QED
      BY <1>2, <1>3, <3>1
  <2> QED
    BY <1>2, <2>1, <2>2, <2>3, <2>4, <2>5 DEF StepsFollow, d
<1>9. TransfersInStep(n)
  <2> SUFFICES ASSUME NEW i \in DOMAIN t
               PROVE  /\ t[i].step <= q.step /\ BackwardBy(n, t[i].step, t[i].after)
                      /\ \A j \in 1..l + 1 : d[j].op = "backward" /\ d[j].step > t[i].step =>
                           d[j].after >= i
    BY <1>2 DEF TransfersInStep, t, d
  <2>1. /\ t[i].step <= q.step /\ BackwardBy(q, t[i].step, t[i].after)
        /\ \A j \in DOMAIN c : c[j].op = "backward" /\ c[j].step > t[i].step =>
             c[j].after >= i
    BY DEF Structure, TransfersInStep, t, c
  <2> QED
    BY <1>2, <1>3, <1>6, <2>1
<1>10. PackedJustBefore(n) /\ MovesOnce(n) /\ SlotsReturned(n)
  BY <1>2 DEF Structure, PackedJustBefore, MovesOnce, SlotsReturned, t
<1>11. CallsOnce(n)
  <2> DEFINE names == {"ready_items", "compute"}
  <2> SUFFICES ASSUME NEW i \in 1..l + 1, NEW j \in 1..l + 1, i < j, d[i].op \in names,
                      d[i].op = d[j].op, d[i].bucket = d[j].bucket
               PROVE  d[i].step < d[j].step
    BY <1>2 DEF CallsOnce, Once, d
  <2>1. i \in 1..l /\ d[i] = c[i]
    BY <1>2
  <2>2. CASE j \in 1..l
    BY <1>2, <2>1, <2>2 DEF Structure, CallsOnce, Once, c
  <2>3. CASE j = l + 1
    <3>1. c[i].op = op /\ c[i].bucket = w.bucket /\ op \in names
      BY <1>2, <1>3, <2>1, <2>3
    <3>2. c[i].step # q.step
      BY <1>2, <2>1, <3>1 DEF MayCall, NotYet, c
    <3>3. c[i].step <= q.step
      BY <1>2, <2>1 DEF Structure, StepsFollow, c
    <3> QED
      BY <1>2, <1>3, <1>4, <2>1, <2>3, <3>2, <3>3
  <2> QED
    BY <1>2, <2>2, <2>3
<1>12. Computable(n)
  <2> SUFFICES ASSUME NEW j \in 1..l + 1, d[j].op = "compute"
               PROVE  \E i \in DOMAIN t : i <= d[j].after /\ t[i].op = "scatter"
                                            /\ SameWork(t[i], d[j])
    BY <1>2 DEF Computable, d, t
  <2>1. CASE j \in 1..l
    BY <1>2, <2>1 DEF Structure, Computable, c, t
  <2>2. CASE j = l + 1
    BY <1>2, <1>3, <2>2 DEF MayCall, ScatterAwaited, IsOp, SameWork, t
  <2> QED
    BY <1>2, <2>1, <2>2
<1>13. Returnable(n)
  <2> SUFFICES ASSUME NEW i \in DOMAIN t, t[i].op = "gather"
               PROVE  \E j \in DOMAIN d : j <= t[i].after /\ d[j].op = "compute"
                                            /\ SameWork(d[j], t[i])
    BY <1>2 DEF Returnable, d, t
  <2>1. PICK j \in DOMAIN c : j <= t[i].after /\ c[j].op = "compute" /\ SameWork(c[j], t[i])
    BY DEF Structure, Returnable, c, t
  <2> QED
    BY <1>2, <2>1
<1>14. StepsComplete(n)
  <2> SUFFICES ASSUME NEW j \in 1..l + 1, d[j].op = "backward", d[j].step > 1,
                      NEW b \in DOMAIN plans
               PROVE  /\ ReadyBy(n, b, d[j].step - 1, j)
                      /\ ~IsLocal(b) => FinalizedBy(n, b, d[j].step - 1, d[j].after)
    BY <1>2 DEF StepsComplete, d
  <2>1. j \in 1..l /\ d[j] = c[j]
    BY <1>2, <1>3
  <2>2. /\ ReadyBy(q, b, c[j].step - 1, j)
        /\ ~IsLocal(b) => FinalizedBy(q, b, c[j].step - 1, c[j].after)
    BY <1>2, <2>1 DEF Structure, StepsComplete, c
  <2> QED
    BY <1>5, <1>6, <2>1, <2>2
<1>15. PlannedWork(n)
  <2>1. \A j \in DOMAIN d :
          /\ d[j].op = "ready_items" => d[j].bucket \in DOMAIN plans
          /\ d[j].op = "compute" => Planned(d[j].bucket)
    BY <1>2, <1>3 DEF Structure, PlannedWork, MayCall, c
  <2> QED
    BY <1>2, <2>1 DEF Structure, PlannedWork, t, d
<1> QED
  BY <1>8, <1>9, <1>10, <1>11, <1>12, <1>13, <1>14, <1>15 DEF n, Structure

(* A step starts when the last one has updated everything.                 *)
LEMMA StartStructure ==
  ASSUME NEW q, StreamTypes(q), Structure(q), AtEntry(q), TransfersSeen(q),
         q.step < NumSteps
  PROVE  LET n == StartStep(q)
         IN /\ n.step = q.step + 1 /\ Flow(n, {}, {}, {}, {})
            /\ OnTransfer(n) = OnTransfer(q)
<1> DEFINE s == [q EXCEPT !.step = @ + 1]
           n == StartStep(q)
           o == OpOf(s, "caller", "backward", NoWork)
           t == OnTransfer(q)
           c == OnCaller(q)
           d == OnCaller(n)
           l == Len(c)
<1>1. StreamTypes(s) /\ s.ops = q.ops /\ s.barrier = q.barrier /\ s.step = q.step + 1
  <2>1. StreamTypes(q) /\ q.step \in Nat /\ q.step + 1 \in Nat
    BY DEF StreamTypes
  <2>2. s = [q EXCEPT !.step = q.step + 1]
    OBVIOUS
  <2> HIDE DEF s
  <2> QED
    BY <2>1, <2>2, StreamUpdates DEF StreamTypes
<1>2. n = Launch(s, "caller", "backward", NoWork)
  BY DEF StartStep
<1>3. "caller" \in Streams /\ "backward" \in OpNames["caller"] /\ NoWork \in AnyWork
        /\ Other("caller") = "transfer"
  BY Constants DEF Streams, OpNames, CallerOps, NoWork, AnyWork, Other
<1>4. o.op = "backward" /\ o.step = q.step + 1 /\ o.after = q.barrier["caller"]
  BY <1>1 DEF OpOf
<1> HIDE DEF n, s
<1>5. /\ StreamTypes(n) /\ OnTransfer(n) = t /\ n.step = q.step + 1
      /\ DOMAIN c = 1..l /\ DOMAIN d = 1..l + 1 /\ l \in Nat /\ Len(d) = l + 1
      /\ \A i \in 1..l : d[i] = c[i]
      /\ d[l + 1] = o
  <2> DEFINE m == Len(s.ops["caller"])
  <2>1. /\ StreamTypes(n) /\ n.step = s.step /\ n.ops["transfer"] = s.ops["transfer"]
        /\ DOMAIN s.ops["caller"] = 1..m /\ DOMAIN n.ops["caller"] = 1..m + 1
        /\ Len(n.ops["caller"]) = m + 1 /\ m \in Nat
        /\ \A i \in 1..m : n.ops["caller"][i] = s.ops["caller"][i]
        /\ n.ops["caller"][m + 1] = o
    <3> DEFINE k == Launch(s, "caller", "backward", NoWork)
    <3>1. /\ StreamTypes(k) /\ k.step = s.step /\ k.ops["transfer"] = s.ops["transfer"]
          /\ DOMAIN s.ops["caller"] = 1..m /\ DOMAIN k.ops["caller"] = 1..m + 1
          /\ Len(k.ops["caller"]) = m + 1 /\ m \in Nat
          /\ \A i \in 1..m : k.ops["caller"][i] = s.ops["caller"][i]
          /\ k.ops["caller"][m + 1] = o
      BY <1>1, <1>3, LaunchResult
    <3> HIDE DEF k, o, m
    <3> QED
      BY <1>2, <3>1 DEF k
  <2> HIDE DEF o
  <2> QED
    BY <1>1, <2>1 DEF OnCaller, OnTransfer
<1>6. /\ DOMAIN t = 1..Len(t) /\ Len(t) \in Nat /\ q.step \in Nat
      /\ q.barrier["caller"] \in Nat /\ q.barrier["caller"] >= Len(t)
      /\ \A i \in DOMAIN t : t[i].step \in Nat /\ t[i].op \in TransferOps
      /\ \A j \in DOMAIN c : c[j].step \in Nat /\ c[j].op \in CallerOps
  BY StreamFacts, OpsFacts, <1>3 DEF Operations, OpNames, Streams, TransfersSeen
<1>7. /\ \A i \in DOMAIN t : t[i].step <= q.step
      /\ \A j \in DOMAIN c : c[j].step <= q.step
  BY DEF Structure, TransfersInStep, StepsFollow
<1>8. \A b, k, m : FinalizedBy(n, b, k, m) <=> FinalizedBy(q, b, k, m)
  BY <1>5 DEF FinalizedBy
<1> HIDE DEF o, t, d, c, l
<1>9. /\ \A k, m : BackwardBy(q, k, m) => BackwardBy(n, k, m)
      /\ \A b, k, m : ReadyBy(q, b, k, m) => ReadyBy(n, b, k, m)
  BY <1>5 DEF BackwardBy, ReadyBy, c, d
<1>10. BackwardBy(n, q.step + 1, l + 1)
  BY <1>4, <1>5 DEF BackwardBy, d
<1>11. StepsFollow(n)
  <2>1. q.step + 1 <= NumSteps
    BY <1>6, ReshardAssumption
  <2>2. ASSUME NEW j \in 1..l + 1
        PROVE  d[j].step <= q.step + 1 /\ BackwardBy(n, d[j].step, j)
    <3>1. CASE j \in 1..l
      <4>1. BackwardBy(q, c[j].step, j)
        BY <1>5, <3>1 DEF Structure, StepsFollow, c
      <4> QED
        BY <1>5, <1>6, <1>7, <1>9, <3>1, <4>1
    <3>2. CASE j = l + 1
      BY <1>4, <1>5, <1>6, <1>10, <3>2
    <3> QED
      BY <1>5, <3>1, <3>2
  <2>3. ASSUME NEW i \in 1..l + 1, NEW j \in 1..l + 1, i < j
        PROVE  d[i].step <= d[j].step /\ (d[j].op = "backward" => d[i].step < d[j].step)
    <3>1. i \in 1..l /\ d[i] = c[i]
      BY <1>5, <2>3
    <3>2. CASE j \in 1..l
      BY <1>5, <2>3, <3>1, <3>2 DEF Structure, StepsFollow, c
    <3>3. CASE j = l + 1
      BY <1>4, <1>5, <1>6, <1>7, <3>1, <3>3
    <3> QED
      BY <1>5, <3>2, <3>3
  <2>4. ASSUME NEW j \in 1..l + 1, d[j].op = "backward"
        PROVE  IF j = 1 THEN d[j].step = 1 ELSE d[j].step = d[j - 1].step + 1
    <3>1. CASE j \in 1..l
      <4>1. j # 1 => d[j - 1] = c[j - 1]
        BY <1>5, <3>1
      <4> QED
        BY <1>5, <2>4, <3>1, <4>1 DEF Structure, StepsFollow, c
    <3>2. CASE j = l + 1 /\ l > 0
      <4>1. c # <<>>
        <5>1. c \in Seq(Operations("caller"))
          BY DEF c, OnCaller, StreamTypes, Streams
        <5> QED
          BY <3>2, <5>1 DEF l
      <4>2. c[l].step = q.step
        BY <4>1 DEF Structure, StepsFollow, c, l
      <4> QED
        BY <1>4, <1>5, <3>2, <4>2
    <3>3. CASE j = l + 1 /\ l = 0
      <4>1. c = <<>>
        <5>1. c \in Seq(Operations("caller"))
          BY DEF c, OnCaller, StreamTypes, Streams
        <5> QED
          BY <3>3, <5>1 DEF l
      <4>2. q.step = 0
        BY <4>1 DEF Structure, StepsFollow, c
      <4> QED
        BY <1>4, <1>5, <3>3, <4>2
    <3> QED
      BY <1>5, <3>1, <3>2, <3>3
  <2>5. d # <<>> /\ d[Len(d)].step = q.step + 1
    <3>1. d # <<>>
      BY <1>5
    <3> QED
      BY <1>4, <1>5, <3>1
  <2> QED
    BY <1>5, <2>1, <2>2, <2>3, <2>4, <2>5 DEF StepsFollow, d
<1>12. TransfersInStep(n)
  <2> SUFFICES ASSUME NEW i \in DOMAIN t
               PROVE  /\ t[i].step <= q.step + 1 /\ BackwardBy(n, t[i].step, t[i].after)
                      /\ \A j \in 1..l + 1 : d[j].op = "backward" /\ d[j].step > t[i].step =>
                           d[j].after >= i
    BY <1>5 DEF TransfersInStep, t, d
  <2>1. /\ t[i].step <= q.step /\ BackwardBy(q, t[i].step, t[i].after)
        /\ \A j \in DOMAIN c : c[j].op = "backward" /\ c[j].step > t[i].step =>
             c[j].after >= i
    BY DEF Structure, TransfersInStep, t, c
  <2>2. t[i].step <= q.step + 1 /\ BackwardBy(n, t[i].step, t[i].after)
    BY <1>6, <1>9, <2>1
  <2>3. ASSUME NEW j \in 1..l + 1, d[j].op = "backward", d[j].step > t[i].step
        PROVE  d[j].after >= i
    <3>1. CASE j \in 1..l
      BY <1>5, <2>1, <2>3, <3>1
    <3>2. CASE j = l + 1
      BY <1>4, <1>5, <1>6, <3>2
    <3> QED
      BY <1>5, <3>1, <3>2
  <2> QED
    BY <2>2, <2>3
<1>13. PackedJustBefore(n) /\ MovesOnce(n) /\ SlotsReturned(n)
  BY <1>5 DEF Structure, PackedJustBefore, MovesOnce, SlotsReturned, t
<1>14. CallsOnce(n)
  <2> DEFINE names == {"ready_items", "compute"}
  <2> SUFFICES ASSUME NEW i \in 1..l + 1, NEW j \in 1..l + 1, i < j, d[i].op \in names,
                      d[i].op = d[j].op, d[i].bucket = d[j].bucket
               PROVE  d[i].step < d[j].step
    BY <1>5 DEF CallsOnce, Once, d
  <2>1. i \in 1..l /\ d[i] = c[i] /\ j \in 1..l
    BY <1>4, <1>5
  <2> QED
    BY <1>5, <2>1 DEF Structure, CallsOnce, Once, c
<1>15. Computable(n)
  <2> SUFFICES ASSUME NEW j \in 1..l + 1, d[j].op = "compute"
               PROVE  \E i \in DOMAIN t : i <= d[j].after /\ t[i].op = "scatter"
                                            /\ SameWork(t[i], d[j])
    BY <1>5 DEF Computable, d, t
  <2>1. j \in 1..l
    BY <1>4, <1>5
  <2> QED
    BY <1>5, <2>1 DEF Structure, Computable, c, t
<1>16. Returnable(n)
  <2> SUFFICES ASSUME NEW i \in DOMAIN t, t[i].op = "gather"
               PROVE  \E j \in DOMAIN d : j <= t[i].after /\ d[j].op = "compute"
                                            /\ SameWork(d[j], t[i])
    BY <1>5 DEF Returnable, d, t
  <2>1. PICK j \in DOMAIN c : j <= t[i].after /\ c[j].op = "compute" /\ SameWork(c[j], t[i])
    BY DEF Structure, Returnable, c, t
  <2> QED
    BY <1>5, <2>1
<1>17. StepsComplete(n)
  <2> SUFFICES ASSUME NEW j \in 1..l + 1, d[j].op = "backward", d[j].step > 1,
                      NEW b \in DOMAIN plans
               PROVE  /\ ReadyBy(n, b, d[j].step - 1, j)
                      /\ ~IsLocal(b) => FinalizedBy(n, b, d[j].step - 1, d[j].after)
    BY <1>5 DEF StepsComplete, d
  <2>1. CASE j \in 1..l
    <3>1. /\ ReadyBy(q, b, c[j].step - 1, j)
          /\ ~IsLocal(b) => FinalizedBy(q, b, c[j].step - 1, c[j].after)
      BY <1>5, <2>1 DEF Structure, StepsComplete, c
    <3> QED
      BY <1>5, <1>8, <1>9, <2>1, <3>1
  <2>2. CASE j = l + 1
    <3>1. d[j].step - 1 = q.step /\ q.step > 0 /\ d[j].after = q.barrier["caller"]
      BY <1>4, <1>5, <1>6, <2>2
    <3>2. Ready(q, b) /\ (~IsLocal(b) => Finalized(q, b))
      BY <3>1 DEF AtEntry
    <3>3. ReadyBy(q, b, q.step, j)
      BY <1>5, <2>2, <3>2 DEF Ready, ReadyBy, c, l
    <3>4. ~IsLocal(b) => FinalizedBy(q, b, q.step, q.barrier["caller"])
      BY <1>6, <3>2 DEF Finalized, FinalizedBy, t
    <3> QED
      BY <1>8, <1>9, <3>1, <3>3, <3>4
  <2> QED
    BY <1>5, <2>1, <2>2
<1>18. PlannedWork(n)
  <2>1. \A j \in DOMAIN d :
          /\ d[j].op = "ready_items" => d[j].bucket \in DOMAIN plans
          /\ d[j].op = "compute" => Planned(d[j].bucket)
    BY <1>4, <1>5 DEF Structure, PlannedWork, c
  <2> QED
    BY <1>5, <2>1 DEF Structure, PlannedWork, t, d
<1>19. Structure(n)
  BY <1>11, <1>12, <1>13, <1>14, <1>15, <1>16, <1>17, <1>18 DEF Structure
<1>20. /\ \A op : Only(n, t, op, {})
       /\ Only(n, d, "ready_items", {}) /\ Only(n, d, "compute", {})
  <2>1. \A i \in DOMAIN t : t[i].step # n.step
    BY <1>5, <1>6, <1>7
  <2>2. \A j \in DOMAIN d : d[j].op = "backward" \/ d[j].step # n.step
    <3> SUFFICES ASSUME NEW j \in 1..l + 1, d[j].op # "backward" PROVE d[j].step # n.step
      BY <1>5
    <3>1. j \in 1..l
      BY <1>4, <1>5
    <3> QED
      BY <1>5, <1>6, <1>7, <3>1
  <2> QED
    BY <2>1, <2>2 DEF Only
<1>21. Unreturned(n, {})
  BY <1>5 DEF AtEntry, Unreturned, t
<1> QED
  BY <1>5, <1>6, <1>19, <1>20, <1>21 DEF n, Flow, t, d
-------------------------------------------------------------------------------
(* One operation more in a step.                                           *)

LEMMA FlowWeaken ==
  ASSUME NEW q, NEW fetched, NEW returned, NEW called, NEW works,
         Flow(q, fetched, returned, called, works),
         NEW f, NEW b, NEW c, NEW w,
         fetched \subseteq f, returned \subseteq b, called \subseteq c, works \subseteq w
  PROVE  Flow(q, f, b, c, w)
<1>1. /\ Only(q, OnTransfer(q), "scatter", f) /\ Only(q, OnTransfer(q), "gather", b)
      /\ Only(q, OnTransfer(q), "finalize", b)
      /\ Only(q, OnCaller(q), "ready_items", c) /\ Only(q, OnCaller(q), "compute", c)
  BY DEF Flow, Only
<1>2. Unreturned(q, w)
  BY DEF Flow, Unreturned
<1> QED
  BY <1>1, <1>2 DEF Flow

LEMMA FlowOfOps ==
  ASSUME NEW q, NEW n, NEW fetched, NEW returned, NEW called, NEW works,
         Flow(q, fetched, returned, called, works),
         StreamTypes(n), n.ops = q.ops, n.step = q.step
  PROVE  Flow(n, fetched, returned, called, works)
<1>1. OnTransfer(n) = OnTransfer(q) /\ OnCaller(n) = OnCaller(q)
  BY DEF OnTransfer, OnCaller
<1>2. Structure(n)
  BY StructureOfOps DEF Flow
<1> QED
  BY <1>1, <1>2 DEF Flow, Only, Unreturned

LEMMA TransferFlow ==
  ASSUME NEW q, NEW fetched, NEW returned, NEW called, NEW works,
         Flow(q, fetched, returned, called, works),
         NEW op \in TransferOps, NEW w \in AnyWork, MayTransfer(q, op, w)
  PROVE  LET n == Launch(q, "transfer", op, w)
         IN /\ Grows(q, n) /\ JustAfter(n, op, w) /\ GradientsSeen(n)
            /\ op = "prepare" => Flow(n, fetched, returned, called, works)
            /\ op = "scatter" =>
                 Flow(n, fetched \union {w.bucket}, returned, called, works \union {w})
            /\ op = "gather" =>
                 Flow(n, fetched, returned \union {w.bucket}, called, works \ {w})
            /\ op = "finalize" =>
                 /\ Flow(n, fetched, returned \union {w.bucket}, called, works)
                 /\ Finalized(n, w.bucket)
            /\ \A name, b : name # op /\ NotYet(q, OnTransfer(q), name, b) =>
                              NotYet(n, OnTransfer(n), name, b)
<1> DEFINE n == Launch(q, "transfer", op, w)
           o == OpOf(q, "transfer", op, w)
           t == OnTransfer(q)
           u == OnTransfer(n)
           l == Len(t)
<1>1. "transfer" \in Streams /\ op \in OpNames["transfer"] /\ Other("transfer") = "caller"
        /\ StreamTypes(q) /\ Structure(q)
  BY DEF Streams, OpNames, Other, Flow
<1>2. /\ StreamTypes(n) /\ OnCaller(n) = OnCaller(q) /\ n.step = q.step
      /\ DOMAIN t = 1..l /\ DOMAIN u = 1..l + 1 /\ l \in Nat /\ Len(u) = l + 1
      /\ \A i \in 1..l : u[i] = t[i]
      /\ u[l + 1] = o
  BY <1>1, LaunchResult DEF OnCaller, OnTransfer
<1>3. /\ o.op = op /\ o.slot = w.slot /\ o.bucket = w.bucket /\ o.step = q.step
  BY DEF OpOf
<1>4. Grows(q, n) /\ Structure(n)
  BY <1>1, LaunchGrows, TransferStructure
<1> HIDE DEF n, o, t, u, l
<1>5. GradientsSeen(n)
  BY <1>1, <1>4, GrowsKeeps DEF MayTransfer
<1>6. u # <<>> /\ JustAfter(n, op, w)
  <2>1. u # <<>>
    BY <1>2
  <2> QED
    BY <1>2, <1>3, <2>1 DEF JustAfter, IsOp, u
<1>7. /\ Only(n, OnCaller(n), "ready_items", called) /\ Only(n, OnCaller(n), "compute", called)
      /\ n.step > 0
  BY <1>2 DEF Flow, Only
<1>8. \A name, buckets : name # op /\ Only(q, t, name, buckets) => Only(n, u, name, buckets)
  BY <1>2, <1>3 DEF Only
<1>9. \A buckets : Only(q, t, op, buckets) => Only(n, u, op, buckets \union {w.bucket})
  BY <1>2, <1>3 DEF Only
<1>10. \A buckets, name : Only(n, u, name, buckets) =>
                            Only(n, u, name, buckets \union {w.bucket})
  BY DEF Only
<1>11. Only(q, t, "scatter", fetched) /\ Only(q, t, "gather", returned)
         /\ Only(q, t, "finalize", returned) /\ Unreturned(q, works)
  BY DEF Flow, t
<1>12. op \notin {"scatter", "gather"} => Unreturned(n, works)
  <2> SUFFICES ASSUME op \notin {"scatter", "gather"}, NEW i \in 1..l + 1,
                      u[i].op = "scatter"
               PROVE  \/ \E v \in works : IsOp(u[i], "scatter", v, n.step)
                      \/ \E g \in DOMAIN u : i < g /\ u[g].op = "gather" /\ SameWork(u[g], u[i])
    BY <1>2 DEF Unreturned, u
  <2>1. i \in 1..l /\ u[i] = t[i]
    BY <1>2, <1>3
  <2>2. \/ \E v \in works : IsOp(t[i], "scatter", v, q.step)
        \/ \E g \in DOMAIN t : i < g /\ t[g].op = "gather" /\ SameWork(t[g], t[i])
    BY <1>2, <1>11, <2>1 DEF Unreturned, t
  <2> QED
    BY <1>2, <2>1, <2>2
<1>13. op = "scatter" => Unreturned(n, works \union {w})
  <2> SUFFICES ASSUME op = "scatter", NEW i \in 1..l + 1, u[i].op = "scatter"
               PROVE  \/ \E v \in works \union {w} : IsOp(u[i], "scatter", v, n.step)
                      \/ \E g \in DOMAIN u : i < g /\ u[g].op = "gather" /\ SameWork(u[g], u[i])
    BY <1>2 DEF Unreturned, u
  <2>1. CASE i \in 1..l
    <3>1. \/ \E v \in works : IsOp(t[i], "scatter", v, q.step)
          \/ \E g \in DOMAIN t : i < g /\ t[g].op = "gather" /\ SameWork(t[g], t[i])
      BY <1>2, <1>11, <2>1 DEF Unreturned, t
    <3> QED
      BY <1>2, <2>1, <3>1
  <2>2. CASE i = l + 1
    BY <1>2, <1>3, <2>2 DEF IsOp
  <2> QED
    BY <1>2, <2>1, <2>2
<1>14. op = "gather" => Unreturned(n, works \ {w})
  <2> SUFFICES ASSUME op = "gather", NEW i \in 1..l + 1, u[i].op = "scatter"
               PROVE  \/ \E v \in works \ {w} : IsOp(u[i], "scatter", v, n.step)
                      \/ \E g \in DOMAIN u : i < g /\ u[g].op = "gather" /\ SameWork(u[g], u[i])
    BY <1>2 DEF Unreturned, u
  <2>1. i \in 1..l /\ u[i] = t[i]
    BY <1>2, <1>3
  <2>2. \/ \E v \in works : IsOp(t[i], "scatter", v, q.step)
        \/ \E g \in DOMAIN t : i < g /\ t[g].op = "gather" /\ SameWork(t[g], t[i])
    BY <1>2, <1>11, <2>1 DEF Unreturned, t
  <2>3. CASE \E g \in DOMAIN t : i < g /\ t[g].op = "gather" /\ SameWork(t[g], t[i])
    BY <1>2, <2>1, <2>3
  <2>4. CASE IsOp(t[i], "scatter", w, q.step)
    <3>1. i < l + 1 /\ l + 1 \in DOMAIN u
      BY <1>2, <2>1
    <3>2. u[l + 1].op = "gather" /\ SameWork(u[l + 1], u[i])
      BY <1>2, <1>3, <2>1, <2>4 DEF IsOp, SameWork
    <3> QED
      BY <3>1, <3>2
  <2>5. CASE \E v \in works \ {w} : IsOp(t[i], "scatter", v, q.step)
    BY <1>2, <2>1, <2>5
  <2> QED
    BY <2>2, <2>3, <2>4, <2>5
<1>15. op = "finalize" => Finalized(n, w.bucket)
  BY <1>2, <1>3 DEF Finalized, FinalizedBy, u
<1>16. \A name, b : name # op /\ NotYet(q, t, name, b) => NotYet(n, u, name, b)
  BY <1>2, <1>3 DEF NotYet
<1>17. /\ op = "prepare" => Flow(n, fetched, returned, called, works)
       /\ op = "finalize" => Flow(n, fetched, returned \union {w.bucket}, called, works)
  BY <1>2, <1>4, <1>7, <1>8, <1>9, <1>10, <1>11, <1>12 DEF Flow, u
<1>18. op = "scatter" =>
         Flow(n, fetched \union {w.bucket}, returned, called, works \union {w})
  BY <1>2, <1>4, <1>7, <1>8, <1>9, <1>11, <1>13 DEF Flow, u
<1>19. op = "gather" =>
         Flow(n, fetched, returned \union {w.bucket}, called, works \ {w})
  BY <1>2, <1>4, <1>7, <1>8, <1>9, <1>10, <1>11, <1>14 DEF Flow, u
<1> QED
  BY <1>4, <1>5, <1>6, <1>15, <1>16, <1>17, <1>18, <1>19 DEF n, t, u

LEMMA CallFlow ==
  ASSUME NEW q, NEW fetched, NEW returned, NEW called, NEW works,
         Flow(q, fetched, returned, called, works),
         NEW op \in {"ready_items", "compute"}, NEW w \in AnyWork, MayCall(q, op, w)
  PROVE  LET n == Launch(q, "caller", op, w)
         IN /\ Grows(q, n)
            /\ Flow(n, fetched, returned, called \union {w.bucket}, works)
            /\ op = "ready_items" => Ready(n, w.bucket)
            /\ IsOp(OnCaller(n)[Len(OnCaller(n))], op, w, n.step)
            /\ Len(OnCaller(n)) \in DOMAIN OnCaller(n)
            /\ \A name, b : name # op /\ NotYet(q, OnCaller(q), name, b) =>
                              NotYet(n, OnCaller(n), name, b)
<1> DEFINE n == Launch(q, "caller", op, w)
           o == OpOf(q, "caller", op, w)
           c == OnCaller(q)
           d == OnCaller(n)
           l == Len(c)
<1>1. "caller" \in Streams /\ op \in CallerOps /\ op \in OpNames["caller"]
        /\ Other("caller") = "transfer" /\ StreamTypes(q) /\ Structure(q)
  BY DEF Streams, OpNames, CallerOps, Other, Flow
<1>2. /\ StreamTypes(n) /\ OnTransfer(n) = OnTransfer(q) /\ n.step = q.step
      /\ DOMAIN c = 1..l /\ DOMAIN d = 1..l + 1 /\ l \in Nat /\ Len(d) = l + 1
      /\ \A i \in 1..l : d[i] = c[i]
      /\ d[l + 1] = o
  BY <1>1, LaunchResult DEF OnCaller, OnTransfer
<1>3. /\ o.op = op /\ o.slot = w.slot /\ o.bucket = w.bucket /\ o.step = q.step
  BY DEF OpOf
<1>4. Grows(q, n) /\ Structure(n)
  BY <1>1, LaunchGrows, CallStructure
<1> HIDE DEF n, o, c, d, l
<1>5. /\ Only(n, OnTransfer(n), "scatter", fetched)
      /\ Only(n, OnTransfer(n), "gather", returned)
      /\ Only(n, OnTransfer(n), "finalize", returned)
      /\ Unreturned(n, works) /\ n.step > 0
  BY <1>2 DEF Flow, Only, Unreturned
<1>6. \A name : Only(q, c, name, called) => Only(n, d, name, called \union {w.bucket})
  BY <1>2, <1>3 DEF Only
<1>7. Flow(n, fetched, returned, called \union {w.bucket}, works)
  BY <1>2, <1>4, <1>5, <1>6 DEF Flow, c, d
<1>8. op = "ready_items" => Ready(n, w.bucket)
  BY <1>2, <1>3 DEF Ready, ReadyBy, d
<1>9. IsOp(d[Len(d)], op, w, n.step) /\ Len(d) \in DOMAIN d
  BY <1>2, <1>3 DEF IsOp
<1>10. \A name, b : name # op /\ NotYet(q, c, name, b) => NotYet(n, d, name, b)
  BY <1>2, <1>3 DEF NotYet
<1> QED
  BY <1>4, <1>7, <1>8, <1>9, <1>10 DEF n, c, d

LEMMA HoldBackFlow ==
  ASSUME NEW q, NEW fetched, NEW returned, NEW called, NEW works,
         Flow(q, fetched, returned, called, works),
         NEW st \in Streams, NEW position \in Nat
  PROVE  LET n == HoldBack(q, st, position)
         IN /\ Grows(q, n) /\ Flow(n, fetched, returned, called, works)
            /\ n.barrier[st] >= position
            /\ OnTransfer(n) = OnTransfer(q) /\ OnCaller(n) = OnCaller(q)
            /\ n.step = q.step /\ n.event = q.event
<1> DEFINE n == HoldBack(q, st, position)
<1>1. StreamTypes(q)
  BY DEF Flow
<1>2. Grows(q, n) /\ n.ops = q.ops /\ n.event = q.event /\ n.barrier[st] >= position
  BY <1>1, HoldBackGrows
<1> HIDE DEF n
<1>3. StreamTypes(n) /\ n.step = q.step
  BY <1>2 DEF Grows
<1>4. Flow(n, fetched, returned, called, works)
  BY <1>2, <1>3, FlowOfOps
<1> QED
  BY <1>2, <1>3, <1>4 DEF n, OnTransfer, OnCaller

LEMMA RecordFlow ==
  ASSUME NEW q, NEW fetched, NEW returned, NEW called, NEW works,
         Flow(q, fetched, returned, called, works),
         NEW e \in Events, NEW w \in Work
  PROVE  LET n == Record(q, EventOn(e), e, w)
         IN /\ Grows(q, n) /\ Flow(n, fetched, returned, called, works)
            /\ OnTransfer(n) = OnTransfer(q) /\ OnCaller(n) = OnCaller(q)
            /\ n.step = q.step /\ n.event[<<e, w.slot>>] = Len(q.ops[EventOn(e)])
<1> DEFINE n == Record(q, EventOn(e), e, w)
<1>1. StreamTypes(q) /\ EventOn(e) \in Streams
  BY DEF Flow, EventOn, Streams
<1>2. /\ StreamTypes(n) /\ n.ops = q.ops /\ n.step = q.step
      /\ n.event[<<e, w.slot>>] = Len(q.ops[EventOn(e)])
  BY <1>1, RecordResult
<1>3. Grows(q, n)
  BY <1>1, RecordGrows
<1> HIDE DEF n
<1>4. Flow(n, fetched, returned, called, works)
  BY <1>2, FlowOfOps
<1> QED
  BY <1>2, <1>3, <1>4 DEF n, OnTransfer, OnCaller
-------------------------------------------------------------------------------
(* The helpers of run() in a step.                                         *)

LEMMA NotYetInFlow ==
  ASSUME NEW q, NEW fetched, NEW returned, NEW called, NEW works,
         Flow(q, fetched, returned, called, works), NEW b
  PROVE  /\ b \notin fetched => NotYet(q, OnTransfer(q), "scatter", b)
         /\ b \notin returned => /\ NotYet(q, OnTransfer(q), "gather", b)
                                 /\ NotYet(q, OnTransfer(q), "finalize", b)
         /\ b \notin called => /\ NotYet(q, OnCaller(q), "ready_items", b)
                               /\ NotYet(q, OnCaller(q), "compute", b)
BY DEF Flow, Only, NotYet

LEMMA StorageToComputeFlow ==
  ASSUME NEW q, NEW fetched, NEW returned, NEW called, NEW works,
         Flow(q, fetched, returned, called, works), GradientsSeen(q),
         NEW w \in Work, Planned(w.bucket), w.bucket \notin fetched,
         \A v \in works : v.slot # w.slot
  PROVE  LET p == PrepareLaunched(q, w)
             n == StorageToCompute(q, w)
         IN /\ Grows(q, p) /\ Structure(p) /\ Grows(p, n) /\ Grows(q, n)
            /\ Flow(n, fetched \union {w.bucket}, returned, called, works \union {w})
            /\ GradientsSeen(n) /\ Scattered(n, w)
<1> DEFINE p == PrepareLaunched(q, w)
           s == Launch(p, "transfer", "scatter", w)
           n == StorageToCompute(q, w)
           more == fetched \union {w.bucket}
           held == works \union {w}
<1>1. /\ w \in AnyWork /\ w.slot \in Slots
      /\ "prepare" \in TransferOps /\ "scatter" \in TransferOps
      /\ "compute_input_ready" \in Events /\ EventOn("compute_input_ready") = "transfer"
      /\ StreamTypes(q)
  BY Constants DEF Work, TransferOps, Events, EventOn, Flow
<1>2. MayTransfer(q, "prepare", w)
  BY <1>1 DEF MayTransfer
<1>3. /\ Grows(q, p) /\ JustAfter(p, "prepare", w) /\ GradientsSeen(p)
      /\ Flow(p, fetched, returned, called, works)
  BY <1>1, <1>2, TransferFlow DEF PrepareLaunched
<1> HIDE DEF p
<1>4. SlotFree(p, w.slot)
  <2> SUFFICES ASSUME NEW i \in DOMAIN OnTransfer(p), OnTransfer(p)[i].op = "scatter",
                      OnTransfer(p)[i].slot = w.slot
               PROVE  \E g \in DOMAIN OnTransfer(p) :
                        /\ i < g /\ OnTransfer(p)[g].op = "gather"
                        /\ SameWork(OnTransfer(p)[g], OnTransfer(p)[i])
    BY DEF SlotFree
  <2>1. \A v \in works : ~IsOp(OnTransfer(p)[i], "scatter", v, p.step)
    BY DEF IsOp
  <2> QED
    BY <1>3, <2>1 DEF Flow, Unreturned
<1>5. MayTransfer(p, "scatter", w)
  <2>1. NotYet(p, OnTransfer(p), "scatter", w.bucket)
    BY <1>3, NotYetInFlow
  <2> QED
    BY <1>1, <1>3, <1>4, <2>1 DEF MayTransfer
<1>6. /\ Grows(p, s) /\ JustAfter(s, "scatter", w) /\ GradientsSeen(s)
      /\ Flow(s, more, returned, called, held)
  <2> HIDE DEF more, held
  <2> QED
    BY <1>1, <1>3, <1>5, TransferFlow DEF more, held
<1>7. n = Record(s, EventOn("compute_input_ready"), "compute_input_ready", w)
  BY <1>1 DEF n, s, p, StorageToCompute
<1> HIDE DEF s, n
<1>8. /\ Grows(s, n) /\ Flow(n, more, returned, called, held)
      /\ OnTransfer(n) = OnTransfer(s) /\ n.step = s.step
      /\ n.event[<<"compute_input_ready", w.slot>>] = Len(s.ops[EventOn("compute_input_ready")])
  <2> HIDE DEF more, held
  <2> QED
    BY <1>1, <1>6, <1>7, RecordFlow
<1>9. StreamTypes(p) /\ StreamTypes(s) /\ StreamTypes(n) /\ Structure(p)
  BY <1>3, <1>6, <1>8 DEF Flow
<1>10. GradientsSeen(n)
  BY <1>6, <1>8, <1>9, GrowsKeeps
<1>11. Scattered(n, w)
  <2>1. OnTransfer(n) # <<>> /\ IsOp(OnTransfer(n)[Len(OnTransfer(n))], "scatter", w, n.step)
    BY <1>6, <1>8 DEF JustAfter
  <2>2. Len(OnTransfer(n)) \in DOMAIN OnTransfer(n)
    <3>1. OnTransfer(n) \in Seq(Operations("transfer"))
      BY <1>9 DEF OnTransfer, StreamTypes, Streams
    <3> QED
      BY <2>1, <3>1
  <2>3. n.event[<<"compute_input_ready", w.slot>>] = Len(OnTransfer(n))
    BY <1>1, <1>8 DEF OnTransfer
  <2> QED
    BY <1>9, <2>1, <2>2, <2>3, StreamFacts DEF Scattered
<1>12. Grows(p, n) /\ Grows(q, n)
  BY <1>1, <1>3, <1>6, <1>8, <1>9, GrowsTransitive
<1> QED
  BY <1>3, <1>8, <1>9, <1>10, <1>11, <1>12 DEF p, n

LEMMA ComputeToStorageFlow ==
  ASSUME NEW q, NEW fetched, NEW returned, NEW called, NEW works,
         Flow(q, fetched, returned, called, works), GradientsSeen(q),
         NEW w \in Work, Planned(w.bucket), w.bucket \notin returned, IsComputed(q, w)
  PROVE  LET g == GatherLaunched(q, w)
             n == ComputeToStorage(q, w)
         IN /\ Grows(q, g) /\ Structure(g) /\ Grows(g, n) /\ Grows(q, n)
            /\ Flow(n, fetched, returned \union {w.bucket}, called, works \ {w})
            /\ GradientsSeen(n) /\ Finalized(n, w.bucket)
<1> DEFINE v == WaitEvent(q, "transfer", "compute_done", w)
           g == GatherLaunched(q, w)
           f == Launch(g, "transfer", "finalize", w)
           n == ComputeToStorage(q, w)
           back == returned \union {w.bucket}
           held == works \ {w}
           position == q.event[<<"compute_done", w.slot>>]
<1>1. /\ w \in AnyWork /\ w.slot \in Slots /\ "transfer" \in Streams
      /\ "gather" \in TransferOps /\ "finalize" \in TransferOps
      /\ "done" \in Events /\ EventOn("done") = "transfer" /\ "compute_done" \in Events
      /\ StreamTypes(q)
  BY Constants DEF Work, Streams, TransferOps, Events, EventOn, Flow
<1>2. /\ Grows(q, v) /\ Flow(v, fetched, returned, called, works)
      /\ v.barrier["transfer"] >= position /\ position \in Nat
      /\ OnTransfer(v) = OnTransfer(q) /\ OnCaller(v) = OnCaller(q) /\ v.step = q.step
  <2>1. position \in Nat
    BY <1>1, StreamFacts
  <2>2. v = HoldBack(q, "transfer", position)
    BY DEF WaitEvent
  <2> HIDE DEF v, position
  <2> QED
    BY <1>1, <2>1, <2>2, HoldBackFlow
<1>3. g = Launch(v, "transfer", "gather", w)
  BY DEF GatherLaunched
<1> HIDE DEF v, g, position
<1>4. StreamTypes(v) /\ GradientsSeen(v)
  BY <1>1, <1>2, GrowsKeeps DEF Flow
<1>5. MayTransfer(v, "gather", w)
  <2>1. ComputeAwaited(v, w)
    <3>1. PICK j \in DOMAIN OnCaller(q) :
            IsOp(OnCaller(q)[j], "compute", w, q.step) /\ j <= position
      BY DEF IsComputed, position
    <3>2. j \in Nat /\ v.barrier["transfer"] \in Nat
      BY <1>1, <1>4, StreamFacts
    <3> QED
      BY <1>2, <3>1, <3>2 DEF ComputeAwaited
  <2>2. NotYet(v, OnTransfer(v), "gather", w.bucket)
    BY <1>2, NotYetInFlow
  <2> QED
    BY <1>1, <1>4, <2>1, <2>2 DEF MayTransfer
<1>6. /\ Grows(v, g) /\ JustAfter(g, "gather", w) /\ GradientsSeen(g)
      /\ Flow(g, fetched, back, called, held)
      /\ NotYet(g, OnTransfer(g), "finalize", w.bucket)
  <2>1. NotYet(v, OnTransfer(v), "finalize", w.bucket)
    BY <1>2, NotYetInFlow
  <2> HIDE DEF back, held
  <2> QED
    BY <1>1, <1>2, <1>3, <1>5, <2>1, TransferFlow DEF back, held
<1>7. MayTransfer(g, "finalize", w)
  BY <1>1, <1>6 DEF MayTransfer
<1>8. /\ Grows(g, f) /\ GradientsSeen(f) /\ Flow(f, fetched, back, called, held)
      /\ Finalized(f, w.bucket)
  <2>1. back \union {w.bucket} = back
    OBVIOUS
  <2> HIDE DEF back, held
  <2> QED
    BY <1>1, <1>6, <1>7, <2>1, TransferFlow
<1>9. n = Record(f, EventOn("done"), "done", w)
  BY <1>1 DEF n, f, g, ComputeToStorage
<1> HIDE DEF f, n
<1>10. Grows(f, n) /\ Flow(n, fetched, back, called, held)
  <2> HIDE DEF back, held
  <2> QED
    BY <1>1, <1>8, <1>9, RecordFlow
<1>11. StreamTypes(g) /\ StreamTypes(f) /\ StreamTypes(n) /\ Structure(g)
  BY <1>6, <1>8, <1>10 DEF Flow
<1>12. GradientsSeen(n) /\ Finalized(n, w.bucket)
  BY <1>8, <1>10, <1>11, GrowsKeeps
<1>13. Grows(q, g)
  BY <1>1, <1>2, <1>6, GrowsTransitive
<1>14. Grows(g, n) /\ Grows(q, n)
  BY <1>1, <1>8, <1>10, <1>11, <1>13, GrowsTransitive
<1> QED
  BY <1>10, <1>11, <1>12, <1>13, <1>14 DEF g, n

LEMMA ReadyItemsFlow ==
  ASSUME NEW q, NEW fetched, NEW returned, NEW called, NEW works,
         Flow(q, fetched, returned, called, works),
         NEW w \in AnyWork, w.bucket \in DOMAIN plans, w.bucket \notin called
  PROVE  LET n == ReadyItems(q, w)
         IN /\ Grows(q, n) /\ Structure(n)
            /\ Flow(n, fetched, returned, called \union {w.bucket}, works)
            /\ Ready(n, w.bucket)
            /\ NotYet(n, OnCaller(n), "compute", w.bucket)
<1> DEFINE n == ReadyItems(q, w)
<1>1. /\ NotYet(q, OnCaller(q), "ready_items", w.bucket)
      /\ NotYet(q, OnCaller(q), "compute", w.bucket)
  BY NotYetInFlow
<1>2. MayCall(q, "ready_items", w)
  BY <1>1 DEF MayCall, Flow
<1>3. n = Launch(q, "caller", "ready_items", w)
  BY DEF ReadyItems
<1> HIDE DEF n
<1>4. /\ Grows(q, n) /\ Flow(n, fetched, returned, called \union {w.bucket}, works)
      /\ Ready(n, w.bucket) /\ NotYet(n, OnCaller(n), "compute", w.bucket)
  BY <1>1, <1>2, <1>3, CallFlow
<1> QED
  BY <1>4 DEF n, Flow

LEMMA ComputeBucketFlow ==
  ASSUME NEW q, NEW fetched, NEW returned, NEW called, NEW works,
         Flow(q, fetched, returned, called, works),
         NEW w \in Work, Planned(w.bucket), w.bucket \notin called, Scattered(q, w)
  PROVE  LET i == ReadyItems(q, w)
             n == ComputeBucket(q, w)
         IN /\ Grows(q, i) /\ Structure(i) /\ Grows(i, n) /\ Grows(q, n)
            /\ Flow(n, fetched, returned, called \union {w.bucket}, works)
            /\ Ready(n, w.bucket) /\ IsComputed(n, w)
<1> DEFINE i == ReadyItems(q, w)
           v == WaitEvent(i, "caller", "compute_input_ready", w)
           c == Launch(v, "caller", "compute", w)
           n == ComputeBucket(q, w)
           done == called \union {w.bucket}
           position == i.event[<<"compute_input_ready", w.slot>>]
<1>1. /\ w \in AnyWork /\ w.slot \in Slots /\ "caller" \in Streams
      /\ "compute_input_ready" \in Events /\ "compute_done" \in Events
      /\ EventOn("compute_done") = "caller"
      /\ StreamTypes(q) /\ w.bucket \in DOMAIN plans
  BY Constants DEF Work, Streams, Events, EventOn, Flow, Planned
<1>2. /\ Grows(q, i) /\ Structure(i) /\ Flow(i, fetched, returned, done, works)
      /\ Ready(i, w.bucket) /\ NotYet(i, OnCaller(i), "compute", w.bucket)
  BY <1>1, ReadyItemsFlow
<1> HIDE DEF i, done
<1>3. StreamTypes(i) /\ Scattered(i, w)
  BY <1>1, <1>2, GrowsKeeps DEF Flow
<1>4. /\ Grows(i, v) /\ Flow(v, fetched, returned, done, works)
      /\ v.barrier["caller"] >= position /\ position \in Nat
      /\ OnTransfer(v) = OnTransfer(i) /\ OnCaller(v) = OnCaller(i) /\ v.step = i.step
  <2>1. position \in Nat
    BY <1>1, <1>3, StreamFacts
  <2>2. v = HoldBack(i, "caller", position)
    BY DEF WaitEvent
  <2> HIDE DEF v, position
  <2> QED
    BY <1>1, <1>2, <2>1, <2>2, HoldBackFlow
<1> HIDE DEF v, position
<1>5. StreamTypes(v)
  BY <1>4 DEF Flow
<1>6. MayCall(v, "compute", w)
  <2>1. ScatterAwaited(v, w)
    <3>1. PICK k \in DOMAIN OnTransfer(i) :
            IsOp(OnTransfer(i)[k], "scatter", w, i.step) /\ k <= position
      BY <1>3 DEF Scattered, position
    <3>2. k \in Nat /\ v.barrier["caller"] \in Nat
      BY <1>3, <1>5, StreamFacts
    <3> QED
      BY <1>4, <3>1, <3>2 DEF ScatterAwaited
  <2>2. NotYet(v, OnCaller(v), "compute", w.bucket)
    BY <1>2, <1>4 DEF NotYet
  <2> QED
    BY <1>4, <2>1, <2>2 DEF MayCall, Flow
<1>7. /\ Grows(v, c) /\ Flow(c, fetched, returned, done, works)
      /\ IsOp(OnCaller(c)[Len(OnCaller(c))], "compute", w, c.step)
      /\ Len(OnCaller(c)) \in DOMAIN OnCaller(c)
  <2>1. done \union {w.bucket} = done
    BY DEF done
  <2>2. /\ Grows(v, c) /\ Flow(c, fetched, returned, done \union {w.bucket}, works)
        /\ IsOp(OnCaller(c)[Len(OnCaller(c))], "compute", w, c.step)
        /\ Len(OnCaller(c)) \in DOMAIN OnCaller(c)
    BY <1>1, <1>4, <1>6, CallFlow
  <2> HIDE DEF c
  <2> QED
    BY <2>1, <2>2
<1>8. n = Record(c, EventOn("compute_done"), "compute_done", w)
  BY <1>1 DEF n, c, v, i, ComputeBucket
<1> HIDE DEF c, n
<1>9. /\ Grows(c, n) /\ Flow(n, fetched, returned, done, works)
      /\ OnCaller(n) = OnCaller(c) /\ n.step = c.step
      /\ n.event[<<"compute_done", w.slot>>] = Len(c.ops[EventOn("compute_done")])
  BY <1>1, <1>7, <1>8, RecordFlow
<1>10. StreamTypes(c) /\ StreamTypes(n)
  BY <1>7, <1>9 DEF Flow
<1>11. Grows(i, n) /\ Grows(q, n)
  BY <1>1, <1>2, <1>3, <1>4, <1>5, <1>7, <1>9, <1>10, GrowsTransitive
<1>12. Ready(n, w.bucket)
  BY <1>2, <1>3, <1>11, GrowsKeeps
<1>13. IsComputed(n, w)
  <2>1. n.event[<<"compute_done", w.slot>>] = Len(OnCaller(n)) /\ Len(OnCaller(n)) \in Nat
    BY <1>1, <1>9, <1>10, StreamFacts DEF OnCaller
  <2> QED
    BY <1>7, <1>9, <2>1 DEF IsComputed
<1> QED
  BY <1>2, <1>9, <1>11, <1>12, <1>13 DEF i, n, done

(* The first transfer of a step waits for its gradients.                   *)
LEMMA WaitStreamFlow ==
  ASSUME NEW q, NEW fetched, NEW returned, NEW called, NEW works,
         Flow(q, fetched, returned, called, works)
  PROVE  LET n == WaitStream(q, "transfer")
         IN /\ Grows(q, n) /\ Flow(n, fetched, returned, called, works)
            /\ GradientsSeen(n) /\ OnTransfer(n) = OnTransfer(q)
<1> DEFINE n == WaitStream(q, "transfer")
           c == OnCaller(q)
           position == Len(c)
<1>1. StreamTypes(q) /\ Structure(q) /\ q.step > 0 /\ "transfer" \in Streams
  BY DEF Flow, Streams
<1>2. position \in Nat /\ DOMAIN c = 1..position /\ c \in Seq(Operations("caller"))
        /\ q.step \in Nat
  BY <1>1, StreamFacts, OpsFacts DEF OnCaller, StreamTypes, Streams
<1>3. n = HoldBack(q, "transfer", position)
  BY DEF WaitStream, Other, OnCaller
<1> HIDE DEF n, c
<1>4. /\ Grows(q, n) /\ Flow(n, fetched, returned, called, works)
      /\ n.barrier["transfer"] >= position
      /\ OnTransfer(n) = OnTransfer(q) /\ OnCaller(n) = c /\ n.step = q.step
  <2> HIDE DEF position
  <2> QED
    BY <1>1, <1>2, <1>3, HoldBackFlow DEF c
<1>5. BackwardBy(q, q.step, position)
  <2>1. c # <<>> /\ c[position].step = q.step
    BY <1>1, <1>2 DEF Structure, StepsFollow, c
  <2>2. position \in DOMAIN c
    BY <1>2, <2>1
  <2>3. BackwardBy(q, c[position].step, position)
    BY <1>1, <2>2 DEF Structure, StepsFollow, c
  <2> QED
    BY <2>1, <2>3
<1>6. GradientsSeen(n)
  <2>1. n.barrier["transfer"] \in Nat
    BY <1>4, StreamFacts DEF Flow
  <2>2. PICK j \in DOMAIN c : j <= position /\ c[j].op = "backward" /\ c[j].step = q.step
    BY <1>5 DEF BackwardBy, c
  <2>3. j \in Nat /\ j <= n.barrier["transfer"]
    BY <1>2, <1>4, <2>1, <2>2
  <2> QED
    BY <1>4, <2>2, <2>3 DEF GradientsSeen, BackwardBy
<1> QED
  BY <1>4, <1>6 DEF n

LEMMA ReleaseFlow ==
  ASSUME NEW q, NEW fetched, NEW returned, NEW called, NEW works,
         Flow(q, fetched, returned, called, works), NEW w \in Work
  PROVE  LET n == Release(q, w)
         IN /\ Grows(q, n) /\ Flow(n, fetched, returned, called, works)
            /\ OnTransfer(n) = OnTransfer(q)
<1> DEFINE n == Release(q, w)
           position == q.event[<<"done", w.slot>>]
<1>1. "caller" \in Streams /\ position \in Nat
  <2>1. "done" \in Events /\ w.slot \in Slots /\ StreamTypes(q)
    BY DEF Events, Work, Flow
  <2> QED
    BY <2>1, StreamFacts DEF Streams
<1>2. n = HoldBack(q, "caller", position)
  BY DEF Release, WaitEvent
<1> HIDE DEF n, position
<1> QED
  BY <1>1, <1>2, HoldBackFlow DEF n

(* The cleanup adds nothing that moves or updates.                         *)
LEMMA CleanupFlow ==
  ASSUME NEW q, StreamTypes(q), Structure(q), q.step > 0, NEW used \in BOOLEAN
  PROVE  Structure(Cleanup(q, used)) /\ OnTransfer(Cleanup(q, used)) = OnTransfer(q)
<1> DEFINE v == IF used THEN WaitStream(WaitStream(q, "transfer"), "caller") ELSE q
<1>1. StreamTypes(v) /\ v.ops = q.ops /\ v.step = q.step
  <2>1. CASE ~used
    BY <2>1
  <2>2. CASE used
    <3> DEFINE u == WaitStream(q, "transfer")
    <3>1. "transfer" \in Streams /\ "caller" \in Streams
            /\ Other("transfer") = "caller" /\ Other("caller") = "transfer"
      BY DEF Streams, Other
    <3>2. Len(OnCaller(q)) \in Nat /\ u = HoldBack(q, "transfer", Len(OnCaller(q)))
      BY <3>1, StreamFacts DEF WaitStream, OnCaller
    <3> HIDE DEF u
    <3>3. StreamTypes(u) /\ u.ops = q.ops /\ u.step = q.step
      BY <3>1, <3>2, HoldBackResult
    <3>4. Len(OnTransfer(u)) \in Nat
            /\ WaitStream(u, "caller") = HoldBack(u, "caller", Len(OnTransfer(u)))
      BY <3>1, <3>3, StreamFacts DEF WaitStream, OnTransfer
    <3> DEFINE x == HoldBack(u, "caller", Len(OnTransfer(u)))
    <3>5. StreamTypes(x) /\ x.ops = u.ops /\ x.step = u.step
      BY <3>1, <3>3, <3>4, HoldBackResult
    <3>6. v = x
      BY <2>2, <3>4 DEF u, v
    <3> HIDE DEF x
    <3> QED
      BY <3>3, <3>5, <3>6
  <2> QED
    BY <2>1, <2>2
<1> HIDE DEF v
<1>2. Structure(v)
  BY <1>1, StructureOfOps
<1>3. NoWork \in AnyWork /\ "reuse" \in CallerOps /\ "caller" \in Streams
        /\ "reuse" \in OpNames["caller"] /\ Other("caller") = "transfer"
  BY Constants DEF NoWork, AnyWork, CallerOps, Streams, OpNames, Other
<1>4. MayCall(v, "reuse", NoWork)
  BY <1>1 DEF MayCall
<1>5. Cleanup(q, used) = Launch(v, "caller", "reuse", NoWork)
  BY DEF Cleanup, v
<1>6. Structure(Launch(v, "caller", "reuse", NoWork))
  BY <1>1, <1>2, <1>3, <1>4, CallStructure
<1>7. Launch(v, "caller", "reuse", NoWork).ops["transfer"] = v.ops["transfer"]
  BY <1>1, <1>3, LaunchResult
<1> QED
  BY <1>1, <1>5, <1>6, <1>7 DEF OnTransfer
-------------------------------------------------------------------------------
(* A bucket of run() in a step.                                            *)

(* What a command that is on the way to n leaves if it raises.             *)
PartOf(i, q, n) ==
  Structure(i) /\ Grows(q, i) /\ Extends(OnTransfer(i), OnTransfer(n))

LEMMA PartOfGrows ==
  ASSUME NEW q, NEW m, NEW n, NEW u, StreamTypes(q), Grows(q, m), Grows(n, u)
  PROVE  \A i : PartOf(i, m, n) => PartOf(i, q, u)
<1> SUFFICES ASSUME NEW i, PartOf(i, m, n) PROVE PartOf(i, q, u)
  OBVIOUS
<1>1. Grows(q, i)
  BY GrowsTransitive DEF PartOf
<1>2. Extends(OnTransfer(i), OnTransfer(u))
  BY ExtendsTransitive DEF PartOf, Grows
<1> QED
  BY <1>1, <1>2 DEF PartOf

LEMMA ReturnFlow ==
  ASSUME NEW q, NEW fetched, NEW returned, NEW called, NEW works,
         Flow(q, fetched, returned, called, works), GradientsSeen(q),
         NEW h, HostTypes(h), SlotsInTurn(h),
         \A w \in PreviousWork(h) :
           Planned(w.bucket) /\ w.bucket \notin returned /\ IsComputed(q, w)
  PROVE  LET n == Return(q, h)
         IN /\ Grows(q, n) /\ GradientsSeen(n)
            /\ Flow(n, fetched, returned \union PreviousBucket(h), called,
                    works \ PreviousWork(h))
            /\ \A b \in PreviousBucket(h) : Finalized(n, b)
            /\ \A i \in InReturn(q, h) : PartOf(i, q, n)
<1> DEFINE n == Return(q, h)
           w == h.previous
<1>1. CASE h.transferUsed
  <2>1. /\ w \in Work /\ w # NoWork /\ PreviousWork(h) = {w}
        /\ PreviousBucket(h) = {w.bucket}
    BY <1>1, PreviousSlot DEF PreviousWork, PreviousBucket
  <2>2. n = ComputeToStorage(q, w) /\ InReturn(q, h) = {GatherLaunched(q, w)}
    BY <2>1 DEF Return, InReturn
  <2> HIDE DEF n, w
  <2>3. /\ Grows(q, GatherLaunched(q, w)) /\ Structure(GatherLaunched(q, w))
        /\ Grows(GatherLaunched(q, w), n) /\ Grows(q, n)
        /\ Flow(n, fetched, returned \union {w.bucket}, called, works \ {w})
        /\ GradientsSeen(n) /\ Finalized(n, w.bucket)
    BY <2>1, <2>2, ComputeToStorageFlow
  <2> QED
    BY <2>1, <2>2, <2>3 DEF n, PartOf, Grows
<1>2. CASE ~h.transferUsed
  <2>1. n = q /\ InReturn(q, h) = {} /\ PreviousWork(h) = {} /\ PreviousBucket(h) = {}
    BY <1>2, NoTransferYet DEF Return, InReturn, PreviousWork, PreviousBucket
  <2>2. Grows(q, q) /\ returned \union {} = returned /\ works \ {} = works
    BY GrowsReflexive DEF Flow
  <2> QED
    BY <2>1, <2>2
<1> QED
  BY <1>1, <1>2 DEF HostTypes

LEMMA FetchFlow ==
  ASSUME NEW q, NEW fetched, NEW returned, NEW called, NEW works,
         Flow(q, fetched, returned, called, works), GradientsSeen(q),
         NEW h, WorkOf(h) \in Work, Planned(WorkOf(h).bucket),
         h.prefetched = <<>> =>
           /\ WorkOf(h).bucket \notin fetched
           /\ \A v \in works : v.slot # WorkOf(h).slot,
         h.prefetched # <<>> =>
           WorkOf(h).bucket \in fetched /\ WorkOf(h) \in works /\ Scattered(q, WorkOf(h))
  PROVE  LET n == Fetch(q, h)
         IN /\ Grows(q, n) /\ GradientsSeen(n) /\ Scattered(n, WorkOf(h))
            /\ Flow(n, fetched \union {WorkOf(h).bucket}, returned, called,
                    works \union {WorkOf(h)})
            /\ \A i \in InFetch(q, h) : PartOf(i, q, n)
<1> DEFINE n == Fetch(q, h)
           w == WorkOf(h)
           p == PrepareLaunched(q, w)
<1>1. CASE h.prefetched = <<>>
  <2>1. n = StorageToCompute(q, w) /\ InFetch(q, h) = {p}
    BY <1>1 DEF Fetch, InFetch
  <2> HIDE DEF n, w
  <2>2. /\ Grows(q, p) /\ Structure(p) /\ Grows(p, n) /\ Grows(q, n)
        /\ Flow(n, fetched \union {w.bucket}, returned, called, works \union {w})
        /\ GradientsSeen(n) /\ Scattered(n, w)
    BY <1>1, <2>1, StorageToComputeFlow DEF w
  <2> QED
    BY <2>1, <2>2 DEF n, w, PartOf, Grows
<1>2. CASE h.prefetched # <<>>
  <2>1. n = q /\ InFetch(q, h) = {}
    BY <1>2 DEF Fetch, InFetch
  <2>2. Grows(q, q) /\ fetched \union {w.bucket} = fetched /\ works \union {w} = works
    BY <1>2, GrowsReflexive DEF Flow
  <2> QED
    BY <1>2, <2>1, <2>2
<1> QED
  BY <1>1, <1>2

(* The bucket at hand, prefetched or not.                                  *)
LEMMA BucketAtHand ==
  ASSUME plans \in PlanSets, NEW h, HostTypes(h), SlotsInTurn(h), InPlans(h),
         AtRedistributedBucket(h)
  PROVE  /\ WorkOf(h) \in Work /\ WorkOf(h).bucket = h.plan /\ Planned(h.plan)
         /\ h.plan \in Nat \ {0} /\ h.nextPrefetch \in Nat \ {0}
         /\ h.nextPrefetch >= h.plan
         /\ h.prefetched = <<>> => h.nextPrefetch = h.plan /\ PrefetchedWork(h) = {}
         /\ h.prefetched # <<>> => h.nextPrefetch > h.plan /\ WorkOf(h) \in PrefetchedWork(h)
         /\ PrefetchedWork(h) \subseteq Work
         /\ \A w \in PreviousWork(h) : w \in Work /\ w.bucket < h.plan /\ Planned(w.bucket)
         /\ PreviousBucket(h) \subseteq Below(h.plan)
<1>1. /\ h.prefetched \in Seq(Work) /\ h.plan \in Nat \ {0} /\ h.nextPrefetch \in Nat \ {0}
      /\ Len(h.prefetched) \in Nat /\ DOMAIN h.prefetched = 1..Len(h.prefetched)
      /\ h.nextPrefetch = h.plan + Len(h.prefetched)
  BY DEF HostTypes, InPlans
<1>2. WorkOf(h) \in Work
  BY <1>1, WorkTypes
<1>3. Planned(h.plan)
  BY <1>1, PlanFacts DEF AtRedistributedBucket, Planned
<1>4. ASSUME h.prefetched = <<>>
      PROVE  PrefetchedWork(h) = {} /\ h.nextPrefetch = h.plan /\ WorkOf(h).bucket = h.plan
  BY <1>1, <1>4 DEF PrefetchedWork, WorkOf
<1>5. ASSUME h.prefetched # <<>>
      PROVE  /\ WorkOf(h).bucket = h.plan /\ h.nextPrefetch > h.plan
             /\ WorkOf(h) \in PrefetchedWork(h)
  <2>1. 1 \in DOMAIN h.prefetched /\ Len(h.prefetched) > 0 /\ WorkOf(h) = h.prefetched[1]
    BY <1>1, <1>5, HostFacts DEF WorkOf
  <2>2. h.prefetched[1].bucket = h.plan + 1 - 1
    BY <2>1 DEF InPlans
  <2> QED
    BY <1>1, <2>1, <2>2 DEF PrefetchedWork
<1>6. PrefetchedWork(h) \subseteq Work
  BY <1>1 DEF PrefetchedWork
<1>7. \A w \in PreviousWork(h) : w \in Work /\ w.bucket < h.plan /\ Planned(w.bucket)
  BY PreviousSlot DEF InPlans, PreviousWork
<1>8. PreviousBucket(h) \subseteq Below(h.plan)
  BY <1>1, <1>7 DEF PreviousBucket, Below, Work
<1>9. h.nextPrefetch >= h.plan
  BY <1>1
<1> QED
  BY <1>1, <1>2, <1>3, <1>4, <1>5, <1>6, <1>7, <1>8, <1>9

(* What holds in the middle of a bucket.                                   *)
HeldBy(h) == PreviousWork(h) \union PrefetchedWork(h)
Back(h) == Below(h.plan) \ PreviousBucket(h)

LEMMA MoveFlow ==
  ASSUME plans \in PlanSets, NEW q, NEW h, HostTypes(h), SlotsInTurn(h), InRun(q, h),
         GradientsSeen(q), AtRedistributedBucket(h)
  PROVE  LET n == Moved(q, h)
             w == WorkOf(h)
         IN /\ Grows(q, n) /\ GradientsSeen(n) /\ Scattered(n, w)
            /\ Flow(n, Below(h.nextPrefetch) \union {h.plan}, Below(h.plan), Below(h.plan),
                    PrefetchedWork(h) \union {w})
            /\ \A b \in PreviousBucket(h) : Finalized(n, b)
            /\ \A i \in InMove(q, h) : PartOf(i, q, n)
<1> DEFINE n == Moved(q, h)
           w == WorkOf(h)
           F == Below(h.nextPrefetch)
           C == Below(h.plan)
           more == F \union {h.plan}
<1>1. /\ w \in Work /\ w.bucket = h.plan /\ Planned(h.plan)
      /\ h.plan \in Nat \ {0} /\ h.nextPrefetch \in Nat \ {0}
      /\ h.nextPrefetch >= h.plan
      /\ h.prefetched = <<>> => h.nextPrefetch = h.plan /\ PrefetchedWork(h) = {}
      /\ h.prefetched # <<>> => h.nextPrefetch > h.plan /\ w \in PrefetchedWork(h)
      /\ PrefetchedWork(h) \subseteq Work
      /\ \A v \in PreviousWork(h) : v \in Work /\ v.bucket < h.plan /\ Planned(v.bucket)
      /\ PreviousBucket(h) \subseteq C
  BY BucketAtHand DEF InRun
<1>2. /\ Flow(q, F, Back(h), C, HeldBy(h)) /\ StreamTypes(q)
      /\ \A v \in PreviousWork(h) : IsComputed(q, v)
      /\ \A v \in PrefetchedWork(h) : Scattered(q, v)
  BY DEF InRun, Back, HeldBy, Flow
<1>3. \A v \in PreviousWork(h) : v.bucket \notin Back(h) /\ v.bucket \in PreviousBucket(h)
  BY DEF Back, PreviousBucket
<1>4. /\ Back(h) \union PreviousBucket(h) = C
      /\ HeldBy(h) \ PreviousWork(h) \subseteq PrefetchedWork(h)
  BY <1>1 DEF Back, HeldBy
<1>5. h.prefetched = <<>> => h.plan \notin F
  BY <1>1 DEF Below
<1>6. h.prefetched # <<>> => h.plan \in F
  BY <1>1 DEF Below
<1> HIDE DEF w, F, C
<1>7. CASE ReturnsFirst(h)
  <2> DEFINE m == Return(q, h)
             u == Fetch(m, h)
  <2>1. /\ Grows(q, m) /\ GradientsSeen(m)
        /\ Flow(m, F, Back(h) \union PreviousBucket(h), C, HeldBy(h) \ PreviousWork(h))
        /\ \A b \in PreviousBucket(h) : Finalized(m, b)
        /\ \A i \in InReturn(q, h) : PartOf(i, q, m)
    BY <1>1, <1>2, <1>3, ReturnFlow
  <2> HIDE DEF m
  <2>2. Flow(m, F, C, C, PrefetchedWork(h)) /\ StreamTypes(m) /\ Structure(m)
    <3>1. /\ F \subseteq F /\ C \subseteq C /\ Back(h) \union PreviousBucket(h) \subseteq C
      BY <1>4
    <3>2. Flow(m, F, C, C, PrefetchedWork(h))
      BY <1>4, <2>1, <3>1, FlowWeaken
    <3> QED
      BY <3>2 DEF Flow
  <2>3. \A v \in PrefetchedWork(h) : Scattered(m, v)
    BY <1>1, <1>2, <2>1, GrowsKeeps
  <2>4. /\ Grows(m, u) /\ GradientsSeen(u) /\ Scattered(u, w)
        /\ Flow(u, F \union {w.bucket}, C, C, PrefetchedWork(h) \union {w})
        /\ \A i \in InFetch(m, h) : PartOf(i, m, u)
    <3>1. h.prefetched = <<>> =>
            w.bucket \notin F /\ \A v \in PrefetchedWork(h) : v.slot # w.slot
      BY <1>1, <1>5
    <3>2. h.prefetched # <<>> =>
            w.bucket \in F /\ w \in PrefetchedWork(h) /\ Scattered(m, w)
      BY <1>1, <1>6, <2>3
    <3> QED
      BY <1>1, <2>1, <2>2, <3>1, <3>2, FetchFlow DEF w
  <2>5. n = u /\ InMove(q, h) = InReturn(q, h) \union {m} \union InFetch(m, h)
    BY <1>7 DEF Moved, InMove, m
  <2> HIDE DEF u, n
  <2>6. Grows(q, u)
    BY <1>2, <2>1, <2>2, <2>4, GrowsTransitive
  <2>7. \A b \in PreviousBucket(h) : Finalized(u, b)
    BY <2>1, <2>2, <2>4, GrowsKeeps
  <2>8. ASSUME NEW i \in InMove(q, h) PROVE PartOf(i, q, n)
    <3>1. CASE i \in InReturn(q, h)
      <4>1. Grows(q, q) /\ PartOf(i, q, m)
        BY <1>2, <2>1, <3>1, GrowsReflexive
      <4> QED
        BY <1>2, <2>4, <2>5, <4>1, PartOfGrows
    <3>2. CASE i = m
      BY <2>1, <2>2, <2>4, <2>5, <3>2 DEF PartOf, Grows
    <3>3. CASE i \in InFetch(m, h)
      <4>1. Grows(u, u) /\ PartOf(i, m, u)
        BY <2>4, <3>3, GrowsReflexive DEF Flow
      <4> QED
        BY <1>2, <2>1, <2>5, <4>1, PartOfGrows
    <3> QED
      BY <2>5, <3>1, <3>2, <3>3
  <2> QED
    BY <1>1, <2>4, <2>5, <2>6, <2>7, <2>8 DEF n, w, F, C
<1>8. CASE ~ReturnsFirst(h)
  <2> DEFINE m == Fetch(q, h)
             u == Return(m, h)
             held == HeldBy(h) \union {w}
  <2>1. /\ Grows(q, m) /\ GradientsSeen(m) /\ Scattered(m, w)
        /\ Flow(m, F \union {w.bucket}, Back(h), C, held)
        /\ \A i \in InFetch(q, h) : PartOf(i, q, m)
    <3>1. ASSUME h.prefetched = <<>>
          PROVE  w.bucket \notin F /\ \A v \in HeldBy(h) : v.slot # w.slot
      <4>1. \A v \in HeldBy(h) : v = h.previous
        BY <1>1, <3>1 DEF HeldBy, PreviousWork
      <4>2. w.slot # h.previous.slot
        BY <1>8 DEF ReturnsFirst, w
      <4> QED
        BY <1>1, <1>5, <3>1, <4>1, <4>2
    <3>2. h.prefetched # <<>> =>
            w.bucket \in F /\ w \in HeldBy(h) /\ Scattered(q, w)
      BY <1>1, <1>2, <1>6 DEF HeldBy
    <3> QED
      BY <1>1, <1>2, <3>1, <3>2, FetchFlow DEF w
  <2> HIDE DEF m, held
  <2>2. StreamTypes(m) /\ Structure(m)
    BY <2>1 DEF Flow
  <2>3. \A v \in PreviousWork(h) :
          Planned(v.bucket) /\ v.bucket \notin Back(h) /\ IsComputed(m, v)
    BY <1>1, <1>2, <1>3, <2>1, GrowsKeeps
  <2>4. /\ Grows(m, u) /\ GradientsSeen(u)
        /\ Flow(u, F \union {w.bucket}, Back(h) \union PreviousBucket(h), C,
                held \ PreviousWork(h))
        /\ \A b \in PreviousBucket(h) : Finalized(u, b)
        /\ \A i \in InReturn(m, h) : PartOf(i, m, u)
    BY <2>1, <2>3, ReturnFlow
  <2>5. n = u /\ InMove(q, h) = InFetch(q, h) \union {m} \union InReturn(m, h)
    BY <1>8 DEF Moved, InMove, m
  <2> HIDE DEF u, n
  <2>6. Grows(q, u) /\ StreamTypes(u)
    BY <1>2, <2>1, <2>2, <2>4, GrowsTransitive DEF Flow
  <2>7. Scattered(u, w)
    BY <1>1, <2>1, <2>2, <2>4, GrowsKeeps
  <2>8. Flow(u, F \union {w.bucket}, C, C, PrefetchedWork(h) \union {w})
    <3>1. held \ PreviousWork(h) \subseteq PrefetchedWork(h) \union {w}
      BY <1>4 DEF held
    <3>2. /\ F \union {w.bucket} \subseteq F \union {w.bucket} /\ C \subseteq C
          /\ Back(h) \union PreviousBucket(h) \subseteq C
      BY <1>4
    <3> QED
      BY <2>4, <3>1, <3>2, FlowWeaken
  <2>9. ASSUME NEW i \in InMove(q, h) PROVE PartOf(i, q, n)
    <3>1. CASE i \in InFetch(q, h)
      <4>1. Grows(q, q) /\ PartOf(i, q, m)
        BY <1>2, <2>1, <3>1, GrowsReflexive
      <4> QED
        BY <1>2, <2>4, <2>5, <4>1, PartOfGrows
    <3>2. CASE i = m
      BY <2>1, <2>2, <2>4, <2>5, <3>2 DEF PartOf, Grows
    <3>3. CASE i \in InReturn(m, h)
      <4>1. Grows(u, u) /\ PartOf(i, m, u)
        BY <2>4, <2>6, <3>3, GrowsReflexive
      <4> QED
        BY <1>2, <2>1, <2>5, <4>1, PartOfGrows
    <3> QED
      BY <2>5, <3>1, <3>2, <3>3
  <2> QED
    BY <1>1, <2>4, <2>5, <2>6, <2>7, <2>8, <2>9 DEF n, w, F, C
<1> QED
  BY <1>7, <1>8
-------------------------------------------------------------------------------
(* A step of the host, and what is left of it when a callback raises.      *)

FlowOfRun(q, h) == Flow(q, Below(h.nextPrefetch), Back(h), Below(h.plan), HeldBy(h))

LEMMA RunFacts ==
  ASSUME plans \in PlanSets, NEW h, HostTypes(h), SlotsInTurn(h), InPlans(h)
  PROVE  /\ PreviousWork(h) \subseteq Work /\ PrefetchedWork(h) \subseteq Work
         /\ h.plan \in Nat \ {0} /\ h.plan + 1 \in Nat \ {0}
         /\ Len(plans) \in Nat /\ DOMAIN plans = 1..Len(plans)
         /\ h.plan <= Len(plans) + 1
<1>1. PreviousWork(h) \subseteq Work
  BY PreviousSlot DEF PreviousWork
<1>2. PrefetchedWork(h) \subseteq Work
  BY DEF PrefetchedWork, HostTypes
<1> QED
  BY <1>1, <1>2, PlanFacts DEF HostTypes, InPlans

(* More on the streams does not disturb the run.                           *)
LEMMA RunGrows ==
  ASSUME plans \in PlanSets, NEW h, HostTypes(h), SlotsInTurn(h),
         NEW q, InRun(q, h), NEW n, Grows(q, n), FlowOfRun(n, h)
  PROVE  InRun(n, h)
<1>1. /\ PreviousWork(h) \subseteq Work /\ PrefetchedWork(h) \subseteq Work
      /\ StreamTypes(q) /\ InPlans(h)
  BY RunFacts DEF InRun, Flow
<1>2. h.transferUsed => GradientsSeen(n)
  BY <1>1, GrowsKeeps DEF InRun
<1>3. \A b \in Below(h.plan) :
        Ready(n, b) /\ (b \notin PreviousBucket(h) /\ ~IsLocal(b) => Finalized(n, b))
  BY <1>1, GrowsKeeps DEF InRun
<1>4. \A w \in PreviousWork(h) : IsComputed(n, w)
  BY <1>1, GrowsKeeps DEF InRun
<1>5. \A w \in PrefetchedWork(h) : Scattered(n, w)
  BY <1>1, GrowsKeeps DEF InRun
<1> QED
  BY <1>1, <1>2, <1>3, <1>4, <1>5 DEF InRun, FlowOfRun, Back, HeldBy

LEMMA StartFlow ==
  ASSUME plans \in PlanSets, NEW h, HostTypes(h), SlotsInTurn(h),
         NEW q, InRun(q, h)
  PROVE  LET n == StartTransfer(q, h)
         IN Grows(q, n) /\ InRun(n, h) /\ GradientsSeen(n)
<1> DEFINE n == StartTransfer(q, h)
<1>1. FlowOfRun(q, h) /\ StreamTypes(q)
  BY DEF InRun, FlowOfRun, Back, HeldBy, Flow
<1>2. CASE h.transferUsed
  <2>1. n = q
    BY <1>2 DEF StartTransfer
  <2> QED
    BY <1>1, <1>2, <2>1, GrowsReflexive DEF InRun
<1>3. CASE ~h.transferUsed
  <2>1. n = WaitStream(q, "transfer")
    BY <1>3 DEF StartTransfer
  <2> HIDE DEF n
  <2>2. Grows(q, n) /\ FlowOfRun(n, h) /\ GradientsSeen(n)
    BY <1>1, <2>1, WaitStreamFlow DEF FlowOfRun
  <2>3. InRun(n, h)
    BY <2>2, RunGrows
  <2> QED
    BY <2>2, <2>3 DEF n
<1> QED
  BY <1>2, <1>3

(* The host after a bucket.                                                *)
LEMMA AfterBucketPlans ==
  ASSUME plans \in PlanSets, NEW h, HostTypes(h), SlotsInTurn(h), InPlans(h),
         AtRedistributedBucket(h)
  PROVE  LET k == ContinuesWith(AfterBucket(h))
         IN /\ InPlans(k) /\ k.pc \in {"running", "prefetching"} /\ k.step = h.step
            /\ k.plan = h.plan + 1 /\ k.transferUsed
            /\ PreviousWork(k) = {WorkOf(h)} /\ PreviousBucket(k) = {h.plan}
            /\ PrefetchedWork(k) \subseteq PrefetchedWork(h)
            /\ PrefetchedWork(h) \subseteq PrefetchedWork(k) \union {WorkOf(h)}
            /\ Below(h.nextPrefetch) \union {h.plan} \subseteq Below(k.nextPrefetch)
            /\ Below(k.plan) = Below(h.plan) \union {h.plan}
<1> DEFINE k == ContinuesWith(AfterBucket(h))
           w == WorkOf(h)
           rest == IF h.prefetched = <<>> THEN <<>> ELSE Tail(h.prefetched)
<1>1. /\ k.transferUsed /\ k.pc \in {"running", "prefetching"} /\ k.step = h.step
      /\ k.plan = h.plan + 1 /\ k.previous = w /\ k.prefetched = rest
      /\ k.nextPrefetch = IF h.prefetched = <<>> THEN h.plan + 1 ELSE h.nextPrefetch
  BY AfterBucketTypes
<1>2. /\ w \in Work /\ w.bucket = h.plan /\ Planned(h.plan)
      /\ h.plan \in Nat \ {0} /\ h.nextPrefetch \in Nat \ {0}
      /\ h.nextPrefetch >= h.plan
      /\ h.prefetched = <<>> => h.nextPrefetch = h.plan
      /\ h.prefetched # <<>> => h.nextPrefetch > h.plan
  BY BucketAtHand
<1>3. /\ h.prefetched \in Seq(Work) /\ Len(h.prefetched) \in Nat
      /\ DOMAIN h.prefetched = 1..Len(h.prefetched)
      /\ h.nextPrefetch = h.plan + Len(h.prefetched)
      /\ \A x \in DOMAIN h.prefetched :
           h.prefetched[x].bucket = h.plan + x - 1 /\ Planned(h.prefetched[x].bucket)
  BY DEF HostTypes, InPlans
<1> HIDE DEF k, w
<1>4. ASSUME h.prefetched = <<>>
      PROVE  rest = <<>> /\ DOMAIN rest = {} /\ Len(rest) = 0
  BY <1>4
<1>5. ASSUME h.prefetched # <<>>
      PROVE  /\ Len(rest) = Len(h.prefetched) - 1 /\ DOMAIN rest = 1..Len(h.prefetched) - 1
             /\ \A x \in DOMAIN rest : rest[x] = h.prefetched[x + 1]
             /\ h.prefetched[1] = w /\ Len(h.prefetched) > 0
  <2>1. /\ Tail(h.prefetched) \in Seq(Work)
        /\ Len(Tail(h.prefetched)) = Len(h.prefetched) - 1
        /\ \A x \in 1..Len(Tail(h.prefetched)) :
             Tail(h.prefetched)[x] = h.prefetched[x + 1]
    BY <1>3, <1>5, HeadTailProperties
  <2>2. rest = Tail(h.prefetched)
    BY <1>5
  <2>3. h.prefetched[1] = w
    BY <1>5, HostFacts DEF w, WorkOf
  <2>4. Len(h.prefetched) > 0
    BY <1>3, <1>5
  <2>5. DOMAIN rest = 1..Len(rest)
    BY <2>1, <2>2
  <2> HIDE DEF rest
  <2> QED
    BY <2>1, <2>2, <2>3, <2>4, <2>5
<1> HIDE DEF rest
<1>6. k.nextPrefetch = k.plan + Len(rest)
  <2>1. CASE h.prefetched = <<>>
    BY <1>1, <1>2, <1>4, <2>1
  <2>2. CASE h.prefetched # <<>>
    <3>1. k.nextPrefetch = h.nextPrefetch /\ k.plan = h.plan + 1
      BY <1>1, <2>2
    <3>2. Len(rest) = Len(h.prefetched) - 1
      BY <1>5, <2>2
    <3>3. h.nextPrefetch = h.plan + Len(h.prefetched) /\ Len(h.prefetched) \in Nat
            /\ h.plan \in Nat
      BY <1>2, <1>3
    <3> QED
      BY <3>1, <3>2, <3>3
  <2> QED
    BY <2>1, <2>2
<1>7. ASSUME NEW x \in DOMAIN rest
      PROVE  /\ rest[x].bucket = k.plan + x - 1 /\ Planned(rest[x].bucket)
             /\ rest[x] \in PrefetchedWork(h)
  <2>1. h.prefetched # <<>>
    BY <1>4
  <2>2. /\ x + 1 \in DOMAIN h.prefetched /\ x \in Nat /\ rest[x] = h.prefetched[x + 1]
    BY <1>3, <1>5, <2>1
  <2>3. h.plan + (x + 1) - 1 = k.plan + x - 1
    BY <1>1, <1>2, <2>2
  <2> QED
    BY <1>3, <2>2, <2>3 DEF PrefetchedWork
<1>8. PreviousWork(k) = {w} /\ PreviousBucket(k) = {h.plan}
  BY <1>1, <1>2 DEF PreviousWork, PreviousBucket
<1>9. InPlans(k)
  <2>1. k.plan <= Len(plans) + 1
    BY <1>1, <1>2, PlanFacts DEF Planned
  <2>2. h.plan < k.plan
    BY <1>1, <1>2
  <2>3. \A x \in DOMAIN rest : rest[x].bucket = k.plan + x - 1 /\ Planned(rest[x].bucket)
    BY <1>7
  <2>4. \A v \in PreviousWork(k) : v.bucket < k.plan /\ Planned(v.bucket)
    BY <1>2, <1>8, <2>2
  <2>5. k.prefetched = rest
    BY <1>1
  <2> HIDE DEF rest
  <2> QED
    BY <1>6, <2>1, <2>3, <2>4, <2>5 DEF InPlans
<1>10. PrefetchedWork(k) \subseteq PrefetchedWork(h)
  <2>1. PrefetchedWork(k) = {rest[x] : x \in DOMAIN rest}
    BY <1>1 DEF PrefetchedWork
  <2> QED
    BY <1>7, <2>1
<1>11. PrefetchedWork(h) \subseteq PrefetchedWork(k) \union {w}
  <2>1. CASE h.prefetched = <<>>
    BY <2>1 DEF PrefetchedWork
  <2>2. CASE h.prefetched # <<>>
    <3> SUFFICES ASSUME NEW x \in DOMAIN h.prefetched
                 PROVE  h.prefetched[x] \in PrefetchedWork(k) \union {w}
      BY DEF PrefetchedWork
    <3>1. CASE x = 1
      BY <1>5, <2>2, <3>1
    <3>2. CASE x # 1
      <4>1. x - 1 \in DOMAIN rest /\ (x - 1) + 1 = x
        BY <1>3, <1>5, <2>2, <3>2
      <4>2. rest[x - 1] = h.prefetched[x]
        BY <1>5, <2>2, <4>1
      <4> QED
        BY <1>1, <4>1, <4>2 DEF PrefetchedWork
    <3> QED
      BY <3>1, <3>2
  <2> QED
    BY <2>1, <2>2
<1>12. /\ Below(h.nextPrefetch) \union {h.plan} \subseteq Below(k.nextPrefetch)
       /\ Below(k.plan) = Below(h.plan) \union {h.plan}
  BY <1>1, <1>2 DEF Below
<1> QED
  BY <1>1, <1>8, <1>9, <1>10, <1>11, <1>12 DEF k, w

LEMMA BucketFlow ==
  ASSUME plans \in PlanSets, NEW h, HostTypes(h), SlotsInTurn(h),
         NEW q, InRun(q, h), AtRedistributedBucket(h)
  PROVE  LET n == BucketEnqueued(q, h)
         IN /\ Grows(q, n) /\ InRun(n, ContinuesWith(AfterBucket(h)))
            /\ \A i \in InBucket(q, h) : PartOf(i, q, n)
<1> DEFINE n == BucketEnqueued(q, h)
           k == ContinuesWith(AfterBucket(h))
           w == WorkOf(h)
           s == StartTransfer(q, h)
           m == Moved(s, h)
           i == ReadyItems(m, w)
           c == Computed(q, h)
           more == Below(h.nextPrefetch) \union {h.plan}
           held == PrefetchedWork(h) \union {w}
<1>1. Grows(q, s) /\ InRun(s, h) /\ GradientsSeen(s) /\ StreamTypes(q) /\ InPlans(h)
  BY StartFlow DEF InRun, Flow
<1>2. /\ w \in Work /\ w.bucket = h.plan /\ Planned(h.plan) /\ h.plan \in Nat \ {0}
      /\ PrefetchedWork(h) \subseteq Work
      /\ PreviousBucket(h) \subseteq Below(h.plan)
  BY <1>1, BucketAtHand
<1>3. /\ InPlans(k) /\ k.plan = h.plan + 1 /\ k.transferUsed
      /\ PreviousWork(k) = {w} /\ PreviousBucket(k) = {h.plan}
      /\ PrefetchedWork(k) \subseteq PrefetchedWork(h)
      /\ PrefetchedWork(h) \subseteq PrefetchedWork(k) \union {w}
      /\ more \subseteq Below(k.nextPrefetch)
      /\ Below(k.plan) = Below(h.plan) \union {h.plan}
  BY <1>1, AfterBucketPlans
<1>4. c = ComputeBucket(m, w)
  BY DEF Computed
<1>5. n = c \/ \E v \in Work : n = Release(c, v)
  BY NoTransferYet, PreviousSlot DEF BucketEnqueued, ReleasePrevious
<1>6. InBucket(q, h) = {s, m, i, c} \union InMove(s, h)
  BY DEF InBucket
<1> HIDE DEF s
<1>7. /\ Grows(s, m) /\ GradientsSeen(m) /\ Scattered(m, w)
      /\ Flow(m, more, Below(h.plan), Below(h.plan), held)
      /\ \A b \in PreviousBucket(h) : Finalized(m, b)
      /\ \A x \in InMove(s, h) : PartOf(x, s, m)
  BY <1>1, MoveFlow
<1> HIDE DEF m, more, held, k, w
<1>8. /\ Grows(m, i) /\ Structure(i) /\ Grows(i, c) /\ Grows(m, c)
      /\ Flow(c, more, Below(h.plan), Below(h.plan) \union {w.bucket}, held)
      /\ Ready(c, w.bucket) /\ IsComputed(c, w)
  <2>1. w.bucket \notin Below(h.plan)
    BY <1>2 DEF Below
  <2> HIDE DEF c
  <2> QED
    BY <1>2, <1>4, <1>7, <2>1, ComputeBucketFlow
<1> HIDE DEF c, i, n
<1>9. /\ Grows(c, n)
      /\ Flow(n, more, Below(h.plan), Below(h.plan) \union {w.bucket}, held)
  <2>1. CASE n = c
    BY <1>8, <2>1, GrowsReflexive DEF Flow
  <2>2. CASE \E v \in Work : n = Release(c, v)
    BY <1>8, <2>2, ReleaseFlow
  <2> QED
    BY <1>5, <2>1, <2>2
<1>10. StreamTypes(s) /\ StreamTypes(m) /\ StreamTypes(c) /\ StreamTypes(n) /\ StreamTypes(i)
  BY <1>1, <1>7, <1>8, <1>9 DEF Flow, InRun, Grows
<1>11. Grows(i, n) /\ Grows(m, n) /\ Grows(s, n) /\ Grows(q, n)
         /\ Grows(q, m) /\ Grows(q, i) /\ Grows(q, c)
  <2>1. Grows(i, n) /\ Grows(m, n)
    BY <1>8, <1>9, <1>10, GrowsTransitive
  <2>2. Grows(s, n) /\ Grows(q, m)
    BY <1>1, <1>7, <1>10, <2>1, GrowsTransitive
  <2> QED
    BY <1>1, <1>8, <1>10, <2>1, <2>2, GrowsTransitive
<1>12. InRun(n, k)
  <2>1. Flow(n, Below(k.nextPrefetch), Below(k.plan) \ PreviousBucket(k), Below(k.plan),
             PreviousWork(k) \union PrefetchedWork(k))
    <3>1. Below(h.plan) \subseteq Below(k.plan) \ PreviousBucket(k)
      BY <1>2, <1>3 DEF Below
    <3>2. /\ Below(h.plan) \union {w.bucket} \subseteq Below(k.plan)
          /\ held \subseteq PreviousWork(k) \union PrefetchedWork(k)
      BY <1>2, <1>3 DEF held
    <3> QED
      BY <1>3, <1>9, <3>1, <3>2, FlowWeaken
  <2>2. GradientsSeen(n)
    BY <1>7, <1>10, <1>11, GrowsKeeps
  <2>3. ASSUME NEW b \in Below(k.plan)
        PROVE  Ready(n, b) /\ (b \notin PreviousBucket(k) /\ ~IsLocal(b) => Finalized(n, b))
    <3>1. CASE b = h.plan
      BY <1>2, <1>3, <1>8, <1>9, <1>10, <3>1, GrowsKeeps
    <3>2. CASE b \in Below(h.plan)
      <4>1. /\ Ready(s, b)
            /\ b \notin PreviousBucket(h) /\ ~IsLocal(b) => Finalized(s, b)
        BY <1>1, <3>2 DEF InRun
      <4>2. Ready(n, b) /\ (Finalized(s, b) => Finalized(n, b))
              /\ (Finalized(m, b) => Finalized(n, b))
        BY <1>10, <1>11, <4>1, GrowsKeeps
      <4> QED
        BY <1>7, <4>1, <4>2
    <3> QED
      BY <1>3, <3>1, <3>2
  <2>4. IsComputed(n, w)
    BY <1>2, <1>8, <1>9, <1>10, GrowsKeeps
  <2>5. \A v \in PrefetchedWork(k) : Scattered(n, v)
    <3>1. \A v \in PrefetchedWork(k) : v \in Work /\ Scattered(s, v)
      BY <1>1, <1>2, <1>3 DEF InRun
    <3> QED
      BY <1>10, <1>11, <3>1, GrowsKeeps
  <2> QED
    BY <1>3, <2>1, <2>2, <2>3, <2>4, <2>5 DEF InRun
<1>13. ASSUME NEW x \in InBucket(q, h) PROVE PartOf(x, q, n)
  <2>1. Structure(s) /\ Structure(m) /\ Structure(c)
    BY <1>1, <1>7, <1>8 DEF InRun, Flow
  <2>2. CASE x \in {s, m, i, c}
    BY <1>1, <1>8, <1>9, <1>11, <2>1, <2>2 DEF PartOf, Grows
  <2>3. CASE x \in InMove(s, h)
    BY <1>1, <1>7, <1>11, <2>3, PartOfGrows
  <2> QED
    BY <1>6, <2>2, <2>3
<1> QED
  BY <1>11, <1>12, <1>13 DEF n, k

(* Nothing is prefetched across a local bucket or past the end.            *)
LEMMA NothingAhead ==
  ASSUME plans \in PlanSets, NEW h, HostTypes(h), SlotsInTurn(h), InPlans(h),
         ~Planned(h.plan)
  PROVE  h.prefetched = <<>> /\ PrefetchedWork(h) = {} /\ h.nextPrefetch = h.plan
<1>1. h.prefetched \in Seq(Work) /\ h.plan \in Nat /\ h.nextPrefetch = h.plan + Len(h.prefetched)
  BY DEF HostTypes, InPlans
<1>2. h.prefetched = <<>>
  <2> SUFFICES ASSUME h.prefetched # <<>> PROVE FALSE
    OBVIOUS
  <2>1. 1 \in DOMAIN h.prefetched
    BY <1>1
  <2>2. h.prefetched[1].bucket = h.plan + 1 - 1 /\ Planned(h.prefetched[1].bucket)
    BY <2>1 DEF InPlans
  <2> QED
    BY <1>1, <2>2
<1>3. Len(h.prefetched) = 0 /\ DOMAIN h.prefetched = {}
  BY <1>2
<1> QED
  BY <1>1, <1>2, <1>3 DEF PrefetchedWork

LEMMA LocalFlow ==
  ASSUME plans \in PlanSets, NEW h, HostTypes(h), SlotsInTurn(h),
         NEW q, InRun(q, h), AtLocalBucket(h)
  PROVE  LET n == ReadyItems(q, LocalWork(h))
             k == [h EXCEPT !.plan = @ + 1, !.nextPrefetch = h.plan + 1]
         IN /\ Grows(q, n) /\ Structure(n) /\ InRun(n, k)
            /\ k.pc = "running" /\ k.step = h.step
<1> DEFINE w == LocalWork(h)
           n == ReadyItems(q, w)
           k == [h EXCEPT !.plan = @ + 1, !.nextPrefetch = h.plan + 1]
<1>1. /\ PreviousWork(h) \subseteq Work /\ h.plan \in Nat \ {0} /\ h.plan + 1 \in Nat \ {0}
      /\ Len(plans) \in Nat /\ DOMAIN plans = 1..Len(plans) /\ h.pc = "running"
      /\ h.plan \in DOMAIN plans /\ h.plan <= Len(plans) /\ IsLocal(h.plan) /\ InPlans(h)
  BY RunFacts DEF AtLocalBucket, InRun
<1>2. h.prefetched = <<>> /\ PrefetchedWork(h) = {} /\ h.nextPrefetch = h.plan
  BY <1>1, NothingAhead DEF Planned
<1>3. /\ k.plan = h.plan + 1 /\ k.nextPrefetch = h.plan + 1 /\ k.prefetched = h.prefetched
      /\ k.previous = h.previous /\ k.transferUsed = h.transferUsed
      /\ k.pc = h.pc /\ k.step = h.step
  BY DEF HostTypes
<1>4. w \in AnyWork /\ w.bucket = h.plan
  BY <1>1, Constants DEF LocalWork, AnyWork
<1>5. FlowOfRun(q, h) /\ StreamTypes(q)
  BY DEF InRun, FlowOfRun, Back, HeldBy, Flow
<1> HIDE DEF k, w
<1>6. /\ Grows(q, n) /\ Structure(n) /\ Ready(n, h.plan)
      /\ Flow(n, Below(h.nextPrefetch), Back(h), Below(h.plan) \union {h.plan}, HeldBy(h))
  <2>1. h.plan \notin Below(h.plan)
    BY <1>1 DEF Below
  <2> QED
    BY <1>1, <1>4, <1>5, <2>1, ReadyItemsFlow DEF FlowOfRun
<1> HIDE DEF n
<1>7. PreviousWork(k) = PreviousWork(h) /\ PrefetchedWork(k) = {}
        /\ PreviousBucket(k) = PreviousBucket(h)
  BY <1>2, <1>3 DEF PreviousWork, PrefetchedWork, PreviousBucket
<1>8. /\ Below(h.nextPrefetch) \subseteq Below(k.nextPrefetch)
      /\ Below(k.plan) = Below(h.plan) \union {h.plan}
  BY <1>1, <1>2, <1>3 DEF Below
<1>9. InPlans(k)
  <2>1. /\ Len(k.prefetched) = 0 /\ DOMAIN k.prefetched = {} /\ k.plan <= Len(plans) + 1
        /\ k.nextPrefetch = k.plan + 0
    BY <1>1, <1>2, <1>3
  <2>2. \A v \in PreviousWork(k) : v.bucket < k.plan /\ Planned(v.bucket)
    <3> SUFFICES ASSUME NEW v \in PreviousWork(h) PROVE v.bucket < h.plan + 1 /\ Planned(v.bucket)
      BY <1>3, <1>7
    <3>1. v.bucket < h.plan /\ Planned(v.bucket) /\ v.bucket \in Nat
      BY <1>1 DEF InPlans, Work
    <3> QED
      BY <1>1, <3>1
  <2> QED
    BY <2>1, <2>2 DEF InPlans
<1>10. InRun(n, k)
  <2>1. Flow(n, Below(k.nextPrefetch), Below(k.plan) \ PreviousBucket(k), Below(k.plan),
             PreviousWork(k) \union PrefetchedWork(k))
    <3>1. /\ Back(h) \subseteq Below(k.plan) \ PreviousBucket(k)
          /\ Below(h.plan) \union {h.plan} \subseteq Below(k.plan)
          /\ HeldBy(h) \subseteq PreviousWork(k) \union PrefetchedWork(k)
      BY <1>2, <1>7, <1>8 DEF Back, HeldBy
    <3> QED
      BY <1>6, <1>8, <3>1, FlowWeaken
  <2>2. k.transferUsed => GradientsSeen(n)
    BY <1>3, <1>5, <1>6, GrowsKeeps DEF InRun
  <2>3. ASSUME NEW b \in Below(k.plan)
        PROVE  Ready(n, b) /\ (b \notin PreviousBucket(k) /\ ~IsLocal(b) => Finalized(n, b))
    <3>1. CASE b = h.plan
      BY <1>1, <1>6, <3>1
    <3>2. CASE b \in Below(h.plan)
      BY <1>5, <1>6, <1>7, <3>2, GrowsKeeps DEF InRun
    <3> QED
      BY <1>8, <3>1, <3>2
  <2>4. \A v \in PreviousWork(k) : IsComputed(n, v)
    BY <1>1, <1>5, <1>6, <1>7, GrowsKeeps DEF InRun
  <2> QED
    BY <1>7, <1>9, <2>1, <2>2, <2>3, <2>4 DEF InRun
<1> QED
  BY <1>1, <1>3, <1>6, <1>10 DEF n, k, w

LEMMA PrefetchFlow ==
  ASSUME plans \in PlanSets, NEW h, HostTypes(h), SlotsInTurn(h),
         NEW q, InRun(q, h), h.pc = "prefetching"
  PROVE  LET n == StorageToCompute(q, PrefetchWork(h))
             k == ContinuesWith(AfterPrefetch(h))
         IN /\ Grows(q, n) /\ InRun(n, k)
            /\ k.pc \in {"running", "prefetching"} /\ k.step = h.step
            /\ PartOf(PrepareLaunched(q, PrefetchWork(h)), q, n)
<1> DEFINE w == PrefetchWork(h)
           n == StorageToCompute(q, w)
           k == ContinuesWith(AfterPrefetch(h))
           all == Append(h.prefetched, w)
<1>1. /\ k.transferUsed /\ h.transferUsed /\ w \in Work /\ w.slot \notin BusySlots(h)
      /\ k.pc \in {"running", "prefetching"} /\ k.step = h.step
      /\ k.plan = h.plan /\ k.previous = h.previous /\ k.prefetched = all
      /\ k.nextPrefetch = h.nextPrefetch + 1
  BY AfterPrefetchTypes
<1>2. /\ CanPrefetch(h) /\ w.bucket = h.nextPrefetch
      /\ w.slot = (h.redistributed + Len(h.prefetched)) % NumSlots
  BY DEF SlotsInTurn, PrefetchWork
<1>3. /\ h.prefetched \in Seq(Work) /\ Len(h.prefetched) \in Nat
      /\ DOMAIN h.prefetched = 1..Len(h.prefetched) /\ h.redistributed \in Nat
      /\ h.plan \in Nat \ {0} /\ h.nextPrefetch \in Nat \ {0}
      /\ PreviousWork(h) \subseteq Work /\ PrefetchedWork(h) \subseteq Work /\ InPlans(h)
  BY RunFacts DEF HostTypes, InRun
<1>4. Planned(w.bucket) /\ Len(h.prefetched) < NumSlots - 1 /\ NumSlots \in Nat \ {0}
  BY <1>2, Constants DEF CanPrefetch, Planned
<1> HIDE DEF k, w
<1>5. FlowOfRun(q, h) /\ StreamTypes(q) /\ GradientsSeen(q)
  BY <1>1 DEF InRun, FlowOfRun, Back, HeldBy, Flow
<1>6. \A v \in HeldBy(h) : v.slot # w.slot
  <2>1. ASSUME NEW x \in DOMAIN h.prefetched
        PROVE  h.prefetched[x].slot # w.slot
    <3>1. h.prefetched[x].slot = (h.redistributed + x - 1) % NumSlots
      BY DEF SlotsInTurn
    <3>2. /\ h.redistributed + x - 1 \in Nat
          /\ Len(h.prefetched) - x + 1 \in 1..NumSlots - 1
          /\ (h.redistributed + x - 1) + (Len(h.prefetched) - x + 1)
               = h.redistributed + Len(h.prefetched)
      <4> DEFINE l == Len(h.prefetched)
                 d == h.redistributed
      <4>1. l \in Nat /\ x \in 1..l /\ l < NumSlots - 1 /\ d \in Nat /\ NumSlots \in Nat
        BY <1>3, <1>4
      <4> HIDE DEF l, d
      <4>2. /\ d + x - 1 \in Nat /\ l - x + 1 \in 1..NumSlots - 1
            /\ (d + x - 1) + (l - x + 1) = d + l
        BY <4>1
      <4> QED
        BY <4>2 DEF l, d
    <3> QED
      BY <1>2, <3>1, <3>2, SlotsDiffer
  <2>2. \A v \in PreviousWork(h) : v.slot # w.slot
    BY <1>1 DEF PreviousWork, BusySlots
  <2> QED
    BY <2>1, <2>2 DEF HeldBy, PrefetchedWork
<1>7. /\ Grows(q, PrepareLaunched(q, w)) /\ Structure(PrepareLaunched(q, w))
      /\ Grows(PrepareLaunched(q, w), n) /\ Grows(q, n)
      /\ Flow(n, Below(h.nextPrefetch) \union {w.bucket}, Back(h), Below(h.plan),
              HeldBy(h) \union {w})
      /\ GradientsSeen(n) /\ Scattered(n, w)
  <2>1. w.bucket \notin Below(h.nextPrefetch)
    BY <1>2, <1>3 DEF Below
  <2> QED
    BY <1>1, <1>4, <1>5, <1>6, <2>1, StorageToComputeFlow DEF FlowOfRun
<1> HIDE DEF n
<1>8. /\ Len(all) = Len(h.prefetched) + 1 /\ DOMAIN all = 1..Len(h.prefetched) + 1
      /\ \A x \in 1..Len(h.prefetched) : all[x] = h.prefetched[x]
      /\ all[Len(h.prefetched) + 1] = w
  BY <1>1, <1>3, AppendProperties
<1> HIDE DEF all
<1>9. /\ PreviousWork(k) = PreviousWork(h) /\ PreviousBucket(k) = PreviousBucket(h)
      /\ PrefetchedWork(k) = PrefetchedWork(h) \union {w}
  <2>1. PreviousWork(k) = PreviousWork(h) /\ PreviousBucket(k) = PreviousBucket(h)
    BY <1>1 DEF PreviousWork, PreviousBucket
  <2>2. PrefetchedWork(k) \subseteq PrefetchedWork(h) \union {w}
    <3> SUFFICES ASSUME NEW x \in DOMAIN all PROVE all[x] \in PrefetchedWork(h) \union {w}
      BY <1>1 DEF PrefetchedWork
    <3>1. CASE x \in 1..Len(h.prefetched)
      BY <1>3, <1>8, <3>1 DEF PrefetchedWork
    <3>2. CASE x = Len(h.prefetched) + 1
      BY <1>8, <3>2
    <3> QED
      BY <1>3, <1>8, <3>1, <3>2
  <2>3. w \in PrefetchedWork(k)
    <3>1. Len(h.prefetched) + 1 \in DOMAIN k.prefetched
      BY <1>1, <1>3, <1>8
    <3> QED
      BY <1>1, <1>8, <3>1 DEF PrefetchedWork
  <2>4. PrefetchedWork(h) \subseteq PrefetchedWork(k)
    <3> SUFFICES ASSUME NEW x \in DOMAIN h.prefetched
                 PROVE  h.prefetched[x] \in PrefetchedWork(k)
      BY DEF PrefetchedWork
    <3>1. x \in DOMAIN k.prefetched /\ k.prefetched[x] = h.prefetched[x]
      BY <1>1, <1>3, <1>8
    <3> QED
      BY <3>1 DEF PrefetchedWork
  <2> QED
    BY <2>1, <2>2, <2>3, <2>4
<1>10. InPlans(k)
  <2>1. k.plan <= Len(plans) + 1 /\ k.nextPrefetch = k.plan + Len(k.prefetched)
    BY <1>1, <1>3, <1>8 DEF InPlans
  <2>2. ASSUME NEW x \in DOMAIN k.prefetched
        PROVE  /\ k.prefetched[x].bucket = k.plan + x - 1
               /\ Planned(k.prefetched[x].bucket)
    <3>1. CASE x \in 1..Len(h.prefetched)
      BY <1>1, <1>3, <1>8, <3>1 DEF InPlans
    <3>2. CASE x = Len(h.prefetched) + 1
      <4>1. k.prefetched[x] = w
        BY <1>1, <1>8, <3>2
      <4>2. k.plan + x - 1 = h.plan + Len(h.prefetched)
        BY <1>1, <1>3, <3>2
      <4> QED
        BY <1>2, <1>3, <1>4, <4>1, <4>2 DEF InPlans
    <3> QED
      BY <1>1, <1>3, <1>8, <3>1, <3>2
  <2>3. \A v \in PreviousWork(k) : v.bucket < k.plan /\ Planned(v.bucket)
    BY <1>1, <1>3, <1>9 DEF InPlans
  <2> QED
    BY <2>1, <2>2, <2>3 DEF InPlans
<1>11. InRun(n, k)
  <2>1. Flow(n, Below(k.nextPrefetch), Below(k.plan) \ PreviousBucket(k), Below(k.plan),
             PreviousWork(k) \union PrefetchedWork(k))
    <3>1. Below(h.nextPrefetch) \union {w.bucket} \subseteq Below(k.nextPrefetch)
      BY <1>1, <1>2, <1>3 DEF Below
    <3>2. /\ Back(h) \subseteq Below(k.plan) \ PreviousBucket(k)
          /\ Below(h.plan) \subseteq Below(k.plan)
          /\ HeldBy(h) \union {w} \subseteq PreviousWork(k) \union PrefetchedWork(k)
      BY <1>1, <1>9 DEF Back, HeldBy
    <3> QED
      BY <1>7, <3>1, <3>2, FlowWeaken
  <2>2. \A b \in Below(k.plan) :
          Ready(n, b) /\ (b \notin PreviousBucket(k) /\ ~IsLocal(b) => Finalized(n, b))
    BY <1>1, <1>5, <1>7, <1>9, GrowsKeeps DEF InRun
  <2>3. \A v \in PreviousWork(k) : IsComputed(n, v)
    BY <1>3, <1>5, <1>7, <1>9, GrowsKeeps DEF InRun
  <2>4. \A v \in PrefetchedWork(k) : Scattered(n, v)
    BY <1>3, <1>5, <1>7, <1>9, GrowsKeeps DEF InRun
  <2> QED
    BY <1>7, <1>10, <2>1, <2>2, <2>3, <2>4 DEF InRun
<1> QED
  BY <1>1, <1>7, <1>11 DEF n, k, w, PartOf, Grows

LEMMA LastFlow ==
  ASSUME plans \in PlanSets, NEW h, HostTypes(h), SlotsInTurn(h),
         NEW q, InRun(q, h), AtEnd(h)
  PROVE  LET n == LastEnqueued(q, h)
         IN /\ Grows(q, n) /\ Structure(n) /\ AtEntry(n)
            /\ PartOf(Return(q, h), q, n) /\ \A i \in InReturn(q, h) : PartOf(i, q, n)
<1> DEFINE m == Return(q, h)
           n == LastEnqueued(q, h)
<1>1. /\ PreviousWork(h) \subseteq Work /\ h.plan \in Nat \ {0}
      /\ Len(plans) \in Nat /\ DOMAIN plans = 1..Len(plans)
      /\ h.plan = Len(plans) + 1 /\ InPlans(h)
  <2>1. h.plan > Len(plans)
    BY DEF AtEnd
  <2> QED
    BY <2>1, RunFacts DEF InRun
<1>2. PrefetchedWork(h) = {} /\ HeldBy(h) \ PreviousWork(h) = {}
  <2>1. ~Planned(h.plan)
    BY <1>1 DEF Planned
  <2> QED
    BY <1>1, <2>1, NothingAhead DEF HeldBy
<1>3. Below(h.plan) = DOMAIN plans
  BY <1>1 DEF Below
<1>4. FlowOfRun(q, h) /\ StreamTypes(q) /\ Structure(q)
  BY DEF InRun, FlowOfRun, Back, HeldBy, Flow
<1>5. /\ Grows(q, m) /\ \A b \in PreviousBucket(h) : Finalized(m, b)
      /\ Flow(m, Below(h.nextPrefetch), Back(h) \union PreviousBucket(h), Below(h.plan), {})
      /\ \A i \in InReturn(q, h) : PartOf(i, q, m)
  <2>1. CASE h.transferUsed
    <3>1. \A v \in PreviousWork(h) :
            Planned(v.bucket) /\ v.bucket \notin Back(h) /\ IsComputed(q, v)
      BY <1>1 DEF InRun, InPlans, Back, PreviousBucket
    <3>2. GradientsSeen(q)
      BY <2>1 DEF InRun
    <3>3. /\ Grows(q, m) /\ \A b \in PreviousBucket(h) : Finalized(m, b)
          /\ Flow(m, Below(h.nextPrefetch), Back(h) \union PreviousBucket(h), Below(h.plan),
                  HeldBy(h) \ PreviousWork(h))
          /\ \A i \in InReturn(q, h) : PartOf(i, q, m)
      BY <1>4, <3>1, <3>2, ReturnFlow DEF FlowOfRun
    <3> HIDE DEF m
    <3> QED
      BY <1>2, <3>3
  <2>2. CASE ~h.transferUsed
    <3>1. m = q /\ InReturn(q, h) = {} /\ PreviousWork(h) = {} /\ PreviousBucket(h) = {}
      BY <2>2, NoTransferYet DEF Return, InReturn, PreviousWork, PreviousBucket
    <3>2. Back(h) \union PreviousBucket(h) = Back(h) /\ HeldBy(h) = {}
      BY <1>2, <3>1 DEF HeldBy
    <3> QED
      BY <1>4, <3>1, <3>2, GrowsReflexive DEF FlowOfRun
  <2> QED
    BY <2>1, <2>2
<1>6. n = m \/ \E v \in Work : n = Release(m, v)
  BY NoTransferYet, PreviousSlot DEF LastEnqueued, ReleasePrevious
<1> HIDE DEF m, n
<1>7. /\ Grows(m, n)
      /\ Flow(n, Below(h.nextPrefetch), Back(h) \union PreviousBucket(h), Below(h.plan), {})
  <2>1. CASE n = m
    BY <1>5, <2>1, GrowsReflexive DEF Flow
  <2>2. CASE \E v \in Work : n = Release(m, v)
    BY <1>5, <2>2, ReleaseFlow
  <2> QED
    BY <1>6, <2>1, <2>2
<1>8. Grows(q, n) /\ StreamTypes(m) /\ Structure(m) /\ StreamTypes(n) /\ Structure(n)
        /\ Unreturned(n, {})
  BY <1>4, <1>5, <1>7, GrowsTransitive DEF Flow
<1>9. ASSUME NEW b \in DOMAIN plans
      PROVE  Ready(n, b) /\ (~IsLocal(b) => Finalized(n, b))
  <2>1. Ready(q, b) /\ (b \notin PreviousBucket(h) /\ ~IsLocal(b) => Finalized(q, b))
    BY <1>3 DEF InRun
  <2>2. Ready(n, b) /\ (Finalized(q, b) => Finalized(n, b))
          /\ (Finalized(m, b) => Finalized(n, b))
    BY <1>4, <1>7, <1>8, <2>1, GrowsKeeps
  <2> QED
    BY <1>5, <2>1, <2>2
<1>10. PartOf(m, q, n)
  BY <1>5, <1>7, <1>8 DEF PartOf, Grows
<1>11. \A i \in InReturn(q, h) : PartOf(i, q, n)
  <2>1. Grows(q, q)
    BY <1>4, GrowsReflexive
  <2> QED
    BY <1>4, <1>5, <1>7, <2>1, PartOfGrows
<1> QED
  BY <1>8, <1>9, <1>10, <1>11 DEF n, m, AtEntry
-------------------------------------------------------------------------------
(* The steps of a host.                                                    *)

LEMMA AdvanceEntry ==
  ASSUME plans \in PlanSets, NEW h, NEW q, StreamTypes(q), Structure(q), AtEntry(q),
         TransfersSeen(q), h.pc = "outside", q.step = h.step, h.step < NumSteps
  PROVE  LET a == Advance(<<h, q>>)
         IN RankFlow(a[2], a[1]) /\ OnTransfer(a[2]) = OnTransfer(q)
<1> DEFINE k == [HostAtEntry(h.step + 1) EXCEPT !.pc = "running"]
           n == StartStep(q)
           a == Advance(<<h, q>>)
<1>1. a[1] = k /\ a[2] = n
  BY DEF Advance
<1>2. /\ k.pc = "running" /\ k.step = h.step + 1 /\ k.plan = 1 /\ k.nextPrefetch = 1
      /\ k.prefetched = <<>> /\ k.transferUsed = FALSE
  BY DEF HostAtEntry
<1>3. n.step = h.step + 1 /\ Flow(n, {}, {}, {}, {}) /\ OnTransfer(n) = OnTransfer(q)
  <2>1. q.step < NumSteps
    OBVIOUS
  <2> HIDE DEF n
  <2> QED
    BY <2>1, StartStructure DEF n
<1> HIDE DEF k, n, a
<1>4. /\ PreviousWork(k) = {} /\ PreviousBucket(k) = {} /\ PrefetchedWork(k) = {}
      /\ Below(k.plan) = {} /\ Below(k.nextPrefetch) = {}
  BY <1>2 DEF PreviousWork, PreviousBucket, PrefetchedWork, Below
<1>5. InPlans(k)
  <2>1. Len(k.prefetched) = 0 /\ DOMAIN k.prefetched = {} /\ Len(plans) \in Nat
    BY <1>2, PlanFacts
  <2> QED
    BY <1>2, <1>4, <2>1 DEF InPlans
<1>6. InRun(n, k)
  BY <1>2, <1>3, <1>4, <1>5 DEF InRun
<1>7. Structure(n)
  BY <1>3 DEF Flow
<1> QED
  BY <1>1, <1>2, <1>3, <1>6, <1>7 DEF RankFlow, a

LEMMA AdvanceFlow ==
  ASSUME plans \in PlanSets, NEW h, HostTypes(h), SlotsInTurn(h), NEW q, InRun(q, h),
         h.pc \in {"running", "prefetching"}, q.step = h.step
  PROVE  LET a == Advance(<<h, q>>)
         IN /\ Grows(q, a[2]) /\ RankFlow(a[2], a[1])
            /\ \A i \in Interrupted(q, h) : PartOf(i, q, a[2])
<1> DEFINE a == Advance(<<h, q>>)
<1>1. /\ Len(plans) \in Nat /\ h.plan \in Nat \ {0} /\ Grows(q, q)
      /\ StreamTypes(q) /\ Structure(q)
  BY RunFacts, GrowsReflexive DEF InRun, Flow
<1>2. \A n : Grows(q, n) => n.step = h.step
  BY DEF Grows
<1>3. \A n : Grows(q, n) => PartOf(q, q, n)
  BY <1>1 DEF PartOf, Grows
<1>4. CASE AtLocalBucket(h)
  <2> DEFINE n == ReadyItems(q, LocalWork(h))
             k == [h EXCEPT !.plan = @ + 1, !.nextPrefetch = h.plan + 1]
  <2>1. /\ Grows(q, n) /\ Structure(n) /\ InRun(n, k)
        /\ k.pc = "running" /\ k.step = h.step
    BY <1>4, LocalFlow
  <2>2. a = <<k, n>> /\ Interrupted(q, h) = {q, n}
    BY <1>1, <1>4 DEF Advance, AtLocalBucket, Interrupted, AtRedistributedBucket, AtEnd
  <2> HIDE DEF a, n, k
  <2>3. a[1] = k /\ a[2] = n
    BY <2>2
  <2>4. PartOf(n, q, n)
    BY <2>1 DEF PartOf, Grows, Extends
  <2> QED
    BY <1>2, <1>3, <2>1, <2>2, <2>3, <2>4 DEF RankFlow, a
<1>5. CASE AtRedistributedBucket(h)
  <2> DEFINE n == BucketEnqueued(q, h)
             k == ContinuesWith(AfterBucket(h))
  <2>1. /\ Grows(q, n) /\ InRun(n, k) /\ \A i \in InBucket(q, h) : PartOf(i, q, n)
    BY <1>5, BucketFlow
  <2>2. k.pc \in {"running", "prefetching"} /\ k.step = h.step
    BY AfterBucketTypes
  <2>3. a = <<k, n>> /\ Interrupted(q, h) = InBucket(q, h)
    BY <1>1, <1>5 DEF Advance, AtLocalBucket, Interrupted, AtRedistributedBucket, AtEnd
  <2> HIDE DEF a, n, k
  <2>4. a[1] = k /\ a[2] = n /\ Structure(n)
    BY <2>1, <2>3 DEF InRun, Flow
  <2> QED
    BY <1>2, <2>1, <2>2, <2>3, <2>4 DEF RankFlow, a
<1>6. CASE h.pc = "prefetching"
  <2> DEFINE n == StorageToCompute(q, PrefetchWork(h))
             k == ContinuesWith(AfterPrefetch(h))
  <2>1. /\ Grows(q, n) /\ InRun(n, k)
        /\ k.pc \in {"running", "prefetching"} /\ k.step = h.step
        /\ PartOf(PrepareLaunched(q, PrefetchWork(h)), q, n)
    BY <1>6, PrefetchFlow
  <2>2. a = <<k, n>> /\ Interrupted(q, h) = {q, PrepareLaunched(q, PrefetchWork(h))}
    BY <1>1, <1>6 DEF Advance, AtLocalBucket, Interrupted, AtRedistributedBucket, AtEnd
  <2> HIDE DEF a, n, k
  <2>3. a[1] = k /\ a[2] = n /\ Structure(n)
    BY <2>1, <2>2 DEF InRun, Flow
  <2> QED
    BY <1>2, <1>3, <2>1, <2>2, <2>3 DEF RankFlow, a
<1>7. CASE AtEnd(h)
  <2> DEFINE n == LastEnqueued(q, h)
             k == HostAtEntry(h.step)
  <2>1. /\ Grows(q, n) /\ Structure(n) /\ AtEntry(n)
        /\ PartOf(Return(q, h), q, n) /\ \A i \in InReturn(q, h) : PartOf(i, q, n)
    BY <1>7, LastFlow
  <2>2. a = <<k, n>> /\ Interrupted(q, h) = {q, Return(q, h)} \union InReturn(q, h)
    BY <1>1, <1>7 DEF Advance, AtLocalBucket, Interrupted, AtRedistributedBucket, AtEnd
  <2>3. k.pc = "outside" /\ k.step = h.step
    BY DEF HostAtEntry
  <2> HIDE DEF a, n, k
  <2>4. a[1] = k /\ a[2] = n
    BY <2>2
  <2> QED
    BY <1>2, <1>3, <2>1, <2>2, <2>3, <2>4 DEF RankFlow, a
<1> QED
  BY <1>1, <1>4, <1>5, <1>6, <1>7 DEF AtLocalBucket, AtRedistributedBucket, AtEnd

(* A step of the host is the step of its path.                             *)
HostMoves(r, a) ==
  /\ host' = [host EXCEPT ![r] = a[1]] /\ streams' = [streams EXCEPT ![r] = a[2]]
  /\ UNCHANGED <<plans, deviceVars>>

LEMMA HostAdvances ==
  ASSUME RaceInv, NEW r \in Ranks, HostNext(r)
  PROVE  /\ HostMoves(r, Advance(<<host[r], streams[r]>>))
         /\ host[r].pc \in {"outside", "running", "prefetching"}
         /\ host[r].pc = "outside" => host[r].step < NumSteps
<1> DEFINE h == host[r]
           q == streams[r]
           a == Advance(<<h, q>>)
<1>1. DOMAIN host = Ranks /\ Len(plans) \in Nat /\ h.plan \in Nat
  BY PlanFacts DEF RaceInv, RankInv, HostTypes
<1>2. CASE TrainStep(r)
  <2>1. a = <<[HostAtEntry(h.step + 1) EXCEPT !.pc = "running"], StartStep(q)>>
    BY <1>2 DEF TrainStep, Advance
  <2> HIDE DEF a
  <2>2. /\ host' = [host EXCEPT ![r] = a[1]] /\ streams' = [streams EXCEPT ![r] = a[2]]
        /\ UNCHANGED <<plans, deviceVars>>
    BY <1>1, <1>2, <2>1 DEF TrainStep, Enqueue
  <2> QED
    BY <1>1, <1>2, <2>2 DEF HostMoves, a, TrainStep
<1>3. CASE RunLocalBucket(r)
  <2>1. a = <<[h EXCEPT !.plan = @ + 1, !.nextPrefetch = h.plan + 1],
              ReadyItems(q, LocalWork(h))>>
    BY <1>1, <1>3 DEF RunLocalBucket, AtLocalBucket, Advance
  <2> HIDE DEF a
  <2>2. /\ host' = [host EXCEPT ![r] = a[1]] /\ streams' = [streams EXCEPT ![r] = a[2]]
        /\ UNCHANGED <<plans, deviceVars>>
    BY <1>1, <1>3, <2>1 DEF RunLocalBucket, AtLocalBucket, Enqueue
  <2> QED
    BY <1>1, <1>3, <2>2 DEF HostMoves, a, RunLocalBucket, AtLocalBucket
<1>4. CASE RunRedistributedBucket(r)
  <2>1. a = <<ContinuesWith(AfterBucket(h)), BucketEnqueued(q, h)>>
    BY <1>1, <1>4 DEF RunRedistributedBucket, AtRedistributedBucket, Advance
  <2> HIDE DEF a
  <2>2. /\ host' = [host EXCEPT ![r] = a[1]] /\ streams' = [streams EXCEPT ![r] = a[2]]
        /\ UNCHANGED <<plans, deviceVars>>
    BY <1>1, <1>4, <2>1 DEF RunRedistributedBucket, AtRedistributedBucket, Enqueue
  <2> QED
    BY <1>1, <1>4, <2>2 DEF HostMoves, a, RunRedistributedBucket, AtRedistributedBucket
<1>5. CASE PrefetchNext(r)
  <2>1. a = <<ContinuesWith(AfterPrefetch(h)), StorageToCompute(q, PrefetchWork(h))>>
    BY <1>1, <1>5 DEF PrefetchNext, Advance
  <2> HIDE DEF a
  <2>2. /\ host' = [host EXCEPT ![r] = a[1]] /\ streams' = [streams EXCEPT ![r] = a[2]]
        /\ UNCHANGED <<plans, deviceVars>>
    BY <1>1, <1>5, <2>1 DEF PrefetchNext, Enqueue
  <2> QED
    BY <1>1, <1>5, <2>2 DEF HostMoves, a, PrefetchNext
<1>6. CASE RunReturns(r)
  <2>1. a = <<HostAtEntry(h.step), LastEnqueued(q, h)>>
    BY <1>1, <1>6 DEF RunReturns, AtEnd, Advance
  <2> HIDE DEF a
  <2>2. /\ host' = [host EXCEPT ![r] = a[1]] /\ streams' = [streams EXCEPT ![r] = a[2]]
        /\ UNCHANGED <<plans, deviceVars>>
    BY <1>1, <1>6, <2>1 DEF RunReturns, AtEnd, Enqueue
  <2> QED
    BY <1>1, <1>6, <2>2 DEF HostMoves, a, RunReturns, AtEnd
<1> QED
  BY <1>2, <1>3, <1>4, <1>5, <1>6 DEF HostNext

(* What a rank's host does next, or leaves when it raises.                 *)
LEMMA AdvanceRank ==
  ASSUME RaceInv, FlowInv, NEW r \in Ranks,
         host[r].pc \in {"outside", "running", "prefetching"},
         host[r].pc = "outside" => host[r].step < NumSteps
  PROVE  LET q == streams[r]
             a == Advance(<<host[r], q>>)
         IN /\ RankFlow(a[2], a[1])
            /\ Extends(OnTransfer(q), OnTransfer(a[2])) /\ Extends(OnCaller(q), OnCaller(a[2]))
            /\ host[r].pc # "outside" =>
                 q.step > 0 /\ \A i \in Interrupted(q, host[r]) : PartOf(i, q, a[2])
<1> DEFINE h == host[r]
           q == streams[r]
           a == Advance(<<h, q>>)
<1>1. /\ plans \in PlanSets /\ HostTypes(h) /\ SlotsInTurn(h) /\ StreamTypes(q)
      /\ InStep(q, h) /\ RankFlow(q, h) /\ Structure(q) /\ q.step = h.step
  BY DEF RaceInv, RankInv, FlowInv, RankFlow
<1>2. CASE h.pc = "outside"
  <2>1. AtEntry(q) /\ TransfersSeen(q)
    BY <1>1, <1>2 DEF RankFlow, InStep, SlotsInTurn
  <2>2. RankFlow(a[2], a[1]) /\ OnTransfer(a[2]) = OnTransfer(q)
    BY <1>1, <1>2, <2>1, AdvanceEntry
  <2>3. a[2] = StartStep(q)
    BY <1>2 DEF Advance
  <2>4. Extends(OnCaller(q), OnCaller(a[2]))
    <3> DEFINE s == [q EXCEPT !.step = @ + 1]
    <3>1. StreamTypes(s) /\ s.ops = q.ops
      <4>1. q.step + 1 \in Nat /\ s = [q EXCEPT !.step = q.step + 1]
        BY <1>1 DEF StreamTypes
      <4> HIDE DEF s, q
      <4> QED
        BY <1>1, <4>1, StreamUpdates DEF StreamTypes
    <3>2. StartStep(q) = Launch(s, "caller", "backward", NoWork)
      BY DEF StartStep
    <3>3. NoWork \in AnyWork /\ "backward" \in OpNames["caller"] /\ "caller" \in Streams
      BY Constants DEF NoWork, AnyWork, OpNames, CallerOps, Streams
    <3> HIDE DEF s, q, a
    <3>4. Grows(s, Launch(s, "caller", "backward", NoWork))
      BY <3>1, <3>3, LaunchGrows
    <3> QED
      BY <2>3, <3>1, <3>2, <3>4 DEF Grows, OnCaller
  <2>5. Extends(OnTransfer(q), OnTransfer(a[2]))
    BY <2>2 DEF Extends
  <2> QED
    BY <1>2, <2>2, <2>4, <2>5
<1>3. CASE h.pc # "outside"
  <2>1. InRun(q, h) /\ h.pc \in {"running", "prefetching"}
    BY <1>1, <1>3 DEF RankFlow
  <2>2. /\ Grows(q, a[2]) /\ RankFlow(a[2], a[1])
        /\ \A i \in Interrupted(q, h) : PartOf(i, q, a[2])
    BY <1>1, <2>1, AdvanceFlow
  <2>3. q.step > 0
    BY <2>1 DEF InRun, Flow
  <2> QED
    BY <2>2, <2>3 DEF Grows
<1> QED
  BY <1>2, <1>3

(* The streams of one rank get longer, those of the others do not change.  *)
Enqueued(r, q, h) ==
  /\ streams' = [streams EXCEPT ![r] = q] /\ host' = [host EXCEPT ![r] = h]
  /\ UNCHANGED <<plans, deviceVars>>
  /\ RankFlow(q, h)
  /\ Extends(OnTransfer(streams[r]), OnTransfer(q))
  /\ Extends(OnCaller(streams[r]), OnCaller(q))

LEMMA HostEnqueues ==
  ASSUME RaceInv, FlowInv, NEW r \in Ranks, HostNext(r)
  PROVE  LET a == Advance(<<host[r], streams[r]>>) IN Enqueued(r, a[2], a[1])
<1> DEFINE a == Advance(<<host[r], streams[r]>>)
<1>1. /\ HostMoves(r, a)
      /\ host[r].pc \in {"outside", "running", "prefetching"}
      /\ host[r].pc = "outside" => host[r].step < NumSteps
  BY HostAdvances
<1>2. /\ RankFlow(a[2], a[1])
      /\ Extends(OnTransfer(streams[r]), OnTransfer(a[2]))
      /\ Extends(OnCaller(streams[r]), OnCaller(a[2]))
  BY <1>1, AdvanceRank
<1> HIDE DEF a
<1>3. Enqueued(r, a[2], a[1])
  BY <1>1, <1>2 DEF HostMoves, Enqueued
<1> QED
  BY <1>3 DEF a

LEMMA RaiseEnqueues ==
  ASSUME RaceInv, FlowInv, NEW r \in Ranks, RunRaises(r)
  PROVE  \E q, h :
           /\ Enqueued(r, q, h) /\ h.pc = "raised"
           /\ Extends(OnTransfer(q), OnTransfer(Advance(<<host[r], streams[r]>>)[2]))
<1> DEFINE q == streams[r]
           h == host[r]
           a == Advance(<<h, q>>)
           used == h.transferUsed \/ AtRedistributedBucket(h)
           k == [h EXCEPT !.pc = "raised"]
<1>1. HostTypes(h) /\ StreamTypes(q) /\ h.pc \in {"running", "prefetching"}
        /\ DOMAIN host = Ranks
  BY DEF RunRaises, RaceInv, RankInv
<1>2. PICK i \in Interrupted(q, h) :
        /\ streams' = [streams EXCEPT ![r] = Cleanup(i, used)]
        /\ host' = [host EXCEPT ![r] = k] /\ UNCHANGED <<plans, deviceVars>>
  BY DEF RunRaises, Enqueue
<1>3. q.step > 0 /\ PartOf(i, q, a[2])
  BY <1>1, AdvanceRank
<1>4. k.pc = "raised" /\ used \in BOOLEAN
  BY <1>1 DEF HostTypes, AtRedistributedBucket
<1> DEFINE n == Cleanup(i, used)
<1>5. StreamTypes(i) /\ Structure(i) /\ i.step > 0
  BY <1>3 DEF PartOf, Grows
<1> HIDE DEF a, used, k, q, h
<1>6. Structure(n) /\ OnTransfer(n) = OnTransfer(i)
  BY <1>4, <1>5, CleanupFlow
<1>7. Extends(OnCaller(i), OnCaller(n))
  <2> DEFINE v == IF used THEN WaitStream(WaitStream(i, "transfer"), "caller") ELSE i
  <2>1. StreamTypes(v) /\ v.ops = i.ops
    <3>1. "transfer" \in Streams /\ "caller" \in Streams
      BY DEF Streams
    <3>2. ASSUME NEW x, StreamTypes(x), NEW st \in Streams
          PROVE  StreamTypes(WaitStream(x, st)) /\ WaitStream(x, st).ops = x.ops
      <4>1. Other(st) \in Streams
        BY DEF Streams, Other
      <4>2. Len(x.ops[Other(st)]) \in Nat
        BY <3>2, <4>1, OpsFacts
      <4> QED
        BY <3>2, <4>2, HoldBackResult DEF WaitStream
    <3> QED
      BY <1>5, <3>1, <3>2
  <2>2. NoWork \in AnyWork /\ "reuse" \in OpNames["caller"] /\ "caller" \in Streams
    BY Constants DEF NoWork, AnyWork, OpNames, CallerOps, Streams
  <2>3. n = Launch(v, "caller", "reuse", NoWork)
    BY DEF Cleanup
  <2> HIDE DEF v
  <2>4. Grows(v, Launch(v, "caller", "reuse", NoWork))
    BY <2>1, <2>2, LaunchGrows
  <2> QED
    BY <2>1, <2>3, <2>4 DEF Grows, OnCaller
<1>8. Extends(OnTransfer(q), OnTransfer(n)) /\ Extends(OnCaller(q), OnCaller(n))
        /\ Extends(OnTransfer(n), OnTransfer(a[2]))
  BY <1>3, <1>6, <1>7, ExtendsTransitive DEF PartOf, Grows
<1>9. Enqueued(r, n, k)
  <2>1. RankFlow(n, k)
    BY <1>4, <1>6 DEF RankFlow
  <2> HIDE DEF n
  <2> QED
    BY <1>2, <1>8, <2>1 DEF Enqueued, n, q
<1> QED
  BY <1>4, <1>8, <1>9 DEF a, q, h

LEMMA FlowOfRank ==
  ASSUME RaceInv, FlowInv, NEW r \in Ranks, NEW q, NEW h, Enqueued(r, q, h)
  PROVE  FlowInv'
<1>1. /\ plans' = plans /\ DOMAIN host = Ranks /\ DOMAIN streams = Ranks
      /\ streams' = [streams EXCEPT ![r] = q] /\ host' = [host EXCEPT ![r] = h]
      /\ RankFlow(q, h)
  BY DEF RaceInv, Enqueued
<1>2. ASSUME NEW p \in Ranks
      PROVE  RankFlow(streams[p], host[p])'
  <2>1. RankFlow(streams'[p], host'[p])
    BY <1>1 DEF FlowInv
  <2> QED
    BY <1>1, <2>1
      DEF RankFlow, Structure, StepsComplete, PlannedWork, Planned, IsLocal, InRun, InPlans,
          Flow, AtEntry
<1> QED
  BY <1>2 DEF FlowInv

LEMMA FlowUnchanged ==
  ASSUME FlowInv, UNCHANGED <<plans, host, streams>>
  PROVE  FlowInv'
<1>1. ASSUME NEW p \in Ranks
      PROVE  RankFlow(streams[p], host[p])'
  <2>1. RankFlow(streams[p], host[p])
    BY DEF FlowInv
  <2> QED
    BY <2>1
      DEF RankFlow, Structure, StepsComplete, PlannedWork, Planned, IsLocal, InRun, InPlans,
          Flow, AtEntry
<1> QED
  BY <1>1 DEF FlowInv

LEMMA InitFlow == Init => FlowInv
<1> SUFFICES ASSUME Init, NEW r \in Ranks PROVE RankFlow(streams[r], host[r])
  BY DEF FlowInv
<1> DEFINE q == StreamsAtStart
           h == HostAtEntry(0)
<1>1. streams[r] = q /\ host[r] = h
  BY DEF Init, RuntimeInit, HostsAtStart, StreamsAtStart
<1>2. OnTransfer(q) = <<>> /\ OnCaller(q) = <<>> /\ q.step = 0 /\ 0 <= NumSteps
  BY ReshardAssumption DEF StreamsAtStart, OnTransfer, OnCaller, Streams
<1>3. h.pc = "outside" /\ h.step = 0
  BY DEF HostAtEntry
<1> HIDE DEF q, h
<1>4. DOMAIN OnTransfer(q) = {} /\ DOMAIN OnCaller(q) = {}
  BY <1>2
<1>5. StepsFollow(q) /\ TransfersInStep(q) /\ PackedJustBefore(q)
  BY <1>2, <1>4 DEF StepsFollow, TransfersInStep, PackedJustBefore
<1>6. MovesOnce(q) /\ CallsOnce(q) /\ Computable(q) /\ Returnable(q) /\ SlotsReturned(q)
  BY <1>4 DEF MovesOnce, CallsOnce, Once, Computable, Returnable, SlotsReturned
<1>7. StepsComplete(q) /\ PlannedWork(q) /\ AtEntry(q)
  BY <1>2, <1>4 DEF StepsComplete, PlannedWork, AtEntry, Unreturned
<1> QED
  BY <1>1, <1>2, <1>3, <1>5, <1>6, <1>7 DEF RankFlow, Structure

LEMMA FlowStep == RaceInv /\ FlowInv /\ [Next]_vars => FlowInv'
<1> SUFFICES ASSUME RaceInv, FlowInv, [Next]_vars PROVE FlowInv'
  OBVIOUS
<1>1. ASSUME NEW r \in Ranks, HostNext(r)
      PROVE  FlowInv'
  BY <1>1, HostEnqueues, FlowOfRank
<1>2. ASSUME NEW r \in Ranks, RunRaises(r)
      PROVE  FlowInv'
  BY <1>2, RaiseEnqueues, FlowOfRank
<1>3. ASSUME NEW r \in Ranks, DeviceNext(r)
      PROVE  FlowInv'
  <2>1. UNCHANGED <<plans, host, streams>>
    BY <1>3 DEF DeviceNext, Prepare, Finalize, Compute, ComputeReadyItems,
                ForwardBackward, ReuseMemory
  <2> QED
    BY <2>1, FlowUnchanged
<1>4. CASE Scatter \/ Gather
  BY <1>4, FlowUnchanged DEF Scatter, Gather, ExchangeDone
<1>5. CASE UNCHANGED vars
  BY <1>5, FlowUnchanged DEF vars
<1> QED
  BY <1>1, <1>2, <1>3, <1>4, <1>5 DEF Next

LEMMA AssertionsOfRun ==
  ASSUME RaceInv, FlowInv, NEW r \in Ranks, host[r].pc = "running"
  PROVE  AssertionsHold(host[r])
<1> DEFINE h == host[r]
<1>1. plans \in PlanSets /\ HostTypes(h) /\ SlotsInTurn(h) /\ InPlans(h)
  BY DEF RaceInv, RankInv, FlowInv, RankFlow, InRun
<1> HIDE DEF h
<1>2. CASE h.plan > Len(plans) \/ IsLocal(h.plan)
  <2>1. ~Planned(h.plan)
    BY <1>1, <1>2, PlanFacts DEF Planned, HostTypes
  <2> QED
    BY <1>1, <1>2, <2>1, NothingAhead DEF AssertionsHold, h
<1>3. CASE ~(h.plan > Len(plans) \/ IsLocal(h.plan))
  <2>1. ASSUME h.prefetched # <<>>
        PROVE  h.previous # NoWork /\ Head(h.prefetched).bucket = h.plan
    <3>1. h.transferUsed /\ h.previous # NoWork
      BY <1>1, <2>1, NoTransferYet, PreviousSlot
    <3>2. 1 \in DOMAIN h.prefetched /\ h.prefetched[1] = Head(h.prefetched)
      BY <1>1, <2>1, HostFacts DEF HostTypes
    <3>3. h.prefetched[1].bucket = h.plan + 1 - 1 /\ h.plan \in Nat
      BY <1>1, <3>2 DEF InPlans, HostTypes
    <3> QED
      BY <3>1, <3>2, <3>3
  <2> QED
    BY <1>3, <2>1 DEF AssertionsHold, h
<1> QED
  BY <1>2, <1>3

(* The assertions of run() never fail: nothing is prefetched across a      *)
(* local bucket or past the end, and the prefetched bucket is the next     *)
(* one.                                                                    *)
THEOREM AssertionsNeverFail ==
  Spec => [](\A r \in Ranks : host[r].pc = "running" => AssertionsHold(host[r]))
<1> DEFINE Inv == RaceInv /\ FlowInv
           Safe == \A r \in Ranks : host[r].pc = "running" => AssertionsHold(host[r])
<1>1. Init => Inv
  BY InitRace, InitFlow
<1>2. Inv /\ [Next]_vars => Inv'
  BY RaceStep, FlowStep
<1>3. Inv => Safe
  BY AssertionsOfRun
<1> QED
  BY <1>1, <1>2, <1>3, PTL DEF Spec

-------------------------------------------------------------------------------
(* All ranks are on one path.                                              *)

LEMMA AdvancePair ==
  ASSUME NEW x
  PROVE  Advance(x) = <<Advance(x)[1], Advance(x)[2]>>
BY DEF Advance

LEMMA ExtendsReflexive ==
  ASSUME NEW s
  PROVE  Extends(s, s)
BY DEF Extends

LEMMA PathUnchanged ==
  ASSUME plans' = plans, NEW g, NEW n, Path(g, n)
  PROVE  Path(g, n)'
<1>1. ASSUME NEW x
      PROVE  Advance(x)' = Advance(x)
  BY DEF Advance, ContinuesWith, CanPrefetch, IsLocal
<1>2. \A m \in 1..n - 1 : g[m + 1] = Advance(g[m])'
  <2> SUFFICES ASSUME NEW m \in 1..n - 1 PROVE g[m + 1] = Advance(g[m])'
    OBVIOUS
  <2>1. g[m + 1] = Advance(g[m])
    BY DEF Path
  <2> QED
    BY <1>1, <2>1
<1> QED
  BY <1>2 DEF Path

(* Where a path ends it can go on.                                         *)
LEMMA PathExtended ==
  ASSUME NEW g, NEW n, Path(g, n), NEW m \in 1..n,
         Extends(OnTransfer(g[m][2]), OnTransfer(Advance(g[m])[2]))
  PROVE  \E f : \E l \in Nat :
           /\ Path(f, l) /\ n <= l /\ m + 1 <= l
           /\ \A k \in 1..n : f[k] = g[k]
           /\ f[m + 1] = Advance(g[m])
<1>1. n \in Nat \ {0} /\ DOMAIN g = 1..n /\ m \in Nat
  BY DEF Path
<1>2. CASE m < n
  <2>1. m \in 1..n - 1 /\ m + 1 <= n
    BY <1>1, <1>2
  <2> QED
    BY <1>1, <2>1 DEF Path
<1>3. CASE m = n
  <2> DEFINE x == Advance(g[n])
             f == [k \in 1..n + 1 |-> IF k <= n THEN g[k] ELSE x]
             l == n + 1
  <2>1. /\ l \in Nat \ {0} /\ DOMAIN f = 1..l /\ \A k \in 1..n : f[k] = g[k]
        /\ f[n + 1] = x
    BY <1>1
  <2> HIDE DEF f
  <2>2. f[1] = <<HostAtEntry(0), StreamsAtStart>>
    BY <1>1, <2>1 DEF Path
  <2>3. ASSUME NEW k \in 1..l - 1 PROVE f[k + 1] = Advance(f[k])
    <3>1. CASE k < n
      <4>1. k \in 1..n - 1 /\ k \in 1..n /\ k + 1 \in 1..n
        BY <1>1, <3>1
      <4> QED
        BY <2>1, <4>1 DEF Path
    <3>2. CASE k = n
      BY <1>1, <2>1, <3>2
    <3> QED
      BY <1>1, <3>1, <3>2
  <2>4. ASSUME NEW j \in 1..l, NEW k \in 1..l, j <= k
        PROVE  Extends(OnTransfer(f[j][2]), OnTransfer(f[k][2]))
    <3>1. CASE k <= n
      <4>1. j \in 1..n /\ k \in 1..n
        BY <1>1, <2>4, <3>1
      <4> QED
        BY <2>1, <2>4, <4>1 DEF Path
    <3>2. CASE j = n + 1
      <4>1. k = n + 1
        BY <1>1, <2>4, <3>2
      <4> QED
        BY <3>2, <4>1, ExtendsReflexive
    <3>3. CASE k = n + 1 /\ j <= n
      <4>1. j \in 1..n /\ n \in 1..n
        BY <1>1, <3>3
      <4>2. Extends(OnTransfer(g[j][2]), OnTransfer(g[n][2]))
        BY <3>3, <4>1 DEF Path
      <4>3. Extends(OnTransfer(g[n][2]), OnTransfer(f[k][2]))
        BY <1>3, <2>1, <3>3
      <4>4. f[j] = g[j]
        BY <2>1, <4>1
      <4> QED
        BY <4>2, <4>3, <4>4, ExtendsTransitive
    <3> QED
      BY <1>1, <2>4, <3>1, <3>2, <3>3
  <2>5. Path(f, l)
    BY <2>1, <2>2, <2>3, <2>4 DEF Path
  <2> QED
    BY <1>1, <1>3, <2>1, <2>5
<1> QED
  BY <1>1, <1>2, <1>3

LEMMA PathOfRank ==
  ASSUME RaceInv, SamePath, NEW r \in Ranks, NEW q, NEW h,
         Enqueued(r, q, h), host[r].pc # "raised",
         LET a == Advance(<<host[r], streams[r]>>)
         IN /\ Extends(OnTransfer(streams[r]), OnTransfer(a[2]))
            /\ Extends(OnTransfer(q), OnTransfer(a[2]))
            /\ h.pc = "raised" \/ a = <<h, q>>
  PROVE  SamePath'
<1> DEFINE a == Advance(<<host[r], streams[r]>>)
<1>1. PICK n \in Nat : \E g : Path(g, n) /\ \A p \in Ranks : OnPath(g, n, streams[p], host[p])
  BY DEF SamePath
<1>2. PICK g : Path(g, n) /\ \A p \in Ranks : OnPath(g, n, streams[p], host[p])
  BY <1>1
<1>3. PICK m \in 1..n : g[m] = <<host[r], streams[r]>>
  BY <1>2 DEF OnPath
<1>4. g[m][2] = streams[r] /\ Advance(g[m]) = a
  BY <1>3
<1>5. PICK f : \E l \in Nat :
         /\ Path(f, l) /\ n <= l /\ m + 1 <= l
         /\ \A k \in 1..n : f[k] = g[k]
         /\ f[m + 1] = Advance(g[m])
  BY <1>2, <1>4, PathExtended
<1>6. PICK l \in Nat :
         /\ Path(f, l) /\ n <= l /\ m + 1 <= l
         /\ \A k \in 1..n : f[k] = g[k]
         /\ f[m + 1] = Advance(g[m])
  BY <1>5
<1>7. m + 1 \in 1..l /\ \A k \in 1..n : k \in 1..l
  BY <1>6
<1>8. OnPath(f, l, q, h)
  <2>1. Extends(OnTransfer(q), OnTransfer(f[m + 1][2]))
    BY <1>4, <1>6
  <2>2. h.pc # "raised" => f[m + 1] = <<h, q>>
    BY <1>4, <1>6
  <2> QED
    BY <1>7, <2>1, <2>2 DEF OnPath
<1>9. \A p \in Ranks : OnPath(f, l, streams[p], host[p])
  BY <1>2, <1>6, <1>7 DEF OnPath
<1>10. /\ plans' = plans /\ DOMAIN host = Ranks /\ DOMAIN streams = Ranks
       /\ streams' = [streams EXCEPT ![r] = q] /\ host' = [host EXCEPT ![r] = h]
  BY DEF RaceInv, Enqueued
<1>11. ASSUME NEW p \in Ranks PROVE OnPath(f, l, streams'[p], host'[p])
  BY <1>8, <1>9, <1>10
<1>12. Path(f, l)'
  BY <1>6, <1>10, PathUnchanged
<1> QED
  BY <1>6, <1>11, <1>12 DEF SamePath

LEMMA PathStep == RaceInv /\ FlowInv /\ SamePath /\ [Next]_vars => SamePath'
<1> SUFFICES ASSUME RaceInv, FlowInv, SamePath, [Next]_vars PROVE SamePath'
  OBVIOUS
<1>1. ASSUME NEW r \in Ranks, HostNext(r)
      PROVE  SamePath'
  <2> DEFINE a == Advance(<<host[r], streams[r]>>)
  <2>1. Enqueued(r, a[2], a[1])
    BY <1>1, HostEnqueues
  <2>2. host[r].pc \in {"outside", "running", "prefetching"}
    BY <1>1, HostAdvances
  <2>3. a = <<a[1], a[2]>>
    BY AdvancePair
  <2>4. Extends(OnTransfer(a[2]), OnTransfer(a[2]))
    BY ExtendsReflexive
  <2> QED
    BY <2>1, <2>2, <2>3, <2>4, PathOfRank DEF Enqueued
<1>2. ASSUME NEW r \in Ranks, RunRaises(r)
      PROVE  SamePath'
  <2>1. PICK q, h :
          /\ Enqueued(r, q, h) /\ h.pc = "raised"
          /\ Extends(OnTransfer(q), OnTransfer(Advance(<<host[r], streams[r]>>)[2]))
    BY <1>2, RaiseEnqueues
  <2>2. host[r].pc \in {"running", "prefetching"}
    BY <1>2 DEF RunRaises
  <2>3. Extends(OnTransfer(streams[r]), OnTransfer(Advance(<<host[r], streams[r]>>)[2]))
    BY <2>1, ExtendsTransitive DEF Enqueued
  <2> QED
    BY <2>1, <2>2, <2>3, PathOfRank
<1>3. ASSUME UNCHANGED <<plans, host, streams>> PROVE SamePath'
  <2>1. PICK n \in Nat :
          \E g : Path(g, n) /\ \A p \in Ranks : OnPath(g, n, streams[p], host[p])
    BY DEF SamePath
  <2>2. PICK g : Path(g, n) /\ \A p \in Ranks : OnPath(g, n, streams[p], host[p])
    BY <2>1
  <2>3. Path(g, n)'
    BY <1>3, <2>2, PathUnchanged
  <2> QED
    BY <1>3, <2>2, <2>3 DEF SamePath
<1>4. ASSUME NEW r \in Ranks, DeviceNext(r) PROVE SamePath'
  BY <1>3, <1>4 DEF DeviceNext, Prepare, Finalize, Compute, ComputeReadyItems,
                    ForwardBackward, ReuseMemory
<1>5. CASE Scatter \/ Gather
  BY <1>3, <1>5 DEF Scatter, Gather, ExchangeDone
<1>6. CASE UNCHANGED vars
  BY <1>3, <1>6 DEF vars
<1> QED
  BY <1>1, <1>2, <1>4, <1>5, <1>6 DEF Next

LEMMA InitPath == Init => SamePath
<1> SUFFICES ASSUME Init PROVE SamePath
  OBVIOUS
<1> DEFINE x == <<HostAtEntry(0), StreamsAtStart>>
           g == [m \in 1..1 |-> x]
<1>1. \A r \in Ranks : streams[r] = StreamsAtStart /\ host[r] = HostAtEntry(0)
  BY DEF Init, RuntimeInit, HostsAtStart, StreamsAtStart
<1>2. DOMAIN g = 1..1 /\ g[1] = x /\ \A m \in 1..1 : m = 1
  OBVIOUS
<1> HIDE DEF g
<1>3. Path(g, 1)
  BY <1>2, ExtendsReflexive DEF Path
<1>4. ASSUME NEW r \in Ranks PROVE OnPath(g, 1, streams[r], host[r])
  <2>1. g[1] = <<host[r], streams[r]>> /\ g[1][2] = streams[r] /\ 1 \in 1..1
    BY <1>1, <1>2
  <2>2. Extends(OnTransfer(streams[r]), OnTransfer(g[1][2]))
    BY <2>1, ExtendsReflexive
  <2> QED
    BY <2>1, <2>2 DEF OnPath
<1> QED
  BY <1>3, <1>4 DEF SamePath

(* So where two ranks both have a transfer, it is the same.                *)
LEMMA TransfersAgree == SamePath => SameTransfers
<1> SUFFICES ASSUME SamePath, NEW r \in Ranks, NEW p \in Ranks,
                    NEW i \in DOMAIN OnTransfer(streams[r])
                                \intersect DOMAIN OnTransfer(streams[p])
             PROVE  OnTransfer(streams[r])[i] = OnTransfer(streams[p])[i]
  BY DEF SameTransfers
<1>1. PICK n \in Nat : \E g : Path(g, n) /\ \A x \in Ranks : OnPath(g, n, streams[x], host[x])
  BY DEF SamePath
<1>2. PICK g : Path(g, n) /\ \A x \in Ranks : OnPath(g, n, streams[x], host[x])
  BY <1>1
<1>3. PICK m \in 1..n : Extends(OnTransfer(streams[r]), OnTransfer(g[m][2]))
  BY <1>2 DEF OnPath
<1>4. PICK k \in 1..n : Extends(OnTransfer(streams[p]), OnTransfer(g[k][2]))
  BY <1>2 DEF OnPath
<1>5. m <= k \/ k <= m
  OBVIOUS
<1>6. \/ Extends(OnTransfer(g[m][2]), OnTransfer(g[k][2]))
      \/ Extends(OnTransfer(g[k][2]), OnTransfer(g[m][2]))
  BY <1>2, <1>5 DEF Path
<1> QED
  BY <1>3, <1>4, <1>6 DEF Extends
-------------------------------------------------------------------------------
(* The place of a step on the device in the order of the enqueued work.    *)

LEMMA RankTypes ==
  ASSUME RaceInv, NEW r \in Ranks
  PROVE  LET t == OnTransfer(streams[r])
             c == OnCaller(streams[r])
         IN /\ DOMAIN t = 1..Len(t) /\ Len(t) \in Nat
            /\ DOMAIN c = 1..Len(c) /\ Len(c) \in Nat
            /\ \A i \in DOMAIN t : t[i].step \in Nat /\ t[i].after \in Nat
                                     /\ t[i].op \in TransferOps
            /\ \A j \in DOMAIN c : c[j].step \in Nat /\ c[j].after \in Nat
                                     /\ c[j].op \in CallerOps
            /\ ended[r]["transfer"] \in Nat /\ ended[r]["caller"] \in Nat
<1> DEFINE q == streams[r]
<1>1. StreamTypes(q) /\ ended[r]["transfer"] \in Nat /\ ended[r]["caller"] \in Nat
  BY DEF RaceInv, RankInv, Streams
<1>2. "transfer" \in Streams /\ "caller" \in Streams
  BY DEF Streams
<1> HIDE DEF q
<1>3. \A st \in Streams : Len(q.ops[st]) \in Nat /\ DOMAIN q.ops[st] = 1..Len(q.ops[st])
        /\ \A i \in DOMAIN q.ops[st] : q.ops[st][i] \in Operations(st)
  BY <1>1, OpsFacts
<1> QED
  BY <1>1, <1>2, <1>3 DEF q, OnTransfer, OnCaller, Operations, OpNames

(* What has ended is of the step whose gradients are there, or an earlier. *)
LEMMA EndedSteps ==
  ASSUME RaceInv, NEW r \in Ranks, Structure(streams[r]), EndedInOrder(r), Gradients(r)
  PROVE  /\ backwards[r] \in Nat
         /\ \A j \in 1..ended[r]["caller"] : OnCaller(streams[r])[j].step <= backwards[r]
         /\ \A i \in 1..ended[r]["transfer"] : OnTransfer(streams[r])[i].step <= backwards[r]
<1> DEFINE q == streams[r]
           t == OnTransfer(q)
           c == OnCaller(q)
           x == ended[r]["transfer"]
           y == ended[r]["caller"]
           l == Len(t)
           d == Len(c)
<1>1. /\ DOMAIN t = 1..l /\ l \in Nat /\ DOMAIN c = 1..d /\ d \in Nat
      /\ \A i \in DOMAIN t : t[i].step \in Nat /\ t[i].after \in Nat
      /\ \A j \in DOMAIN c : c[j].step \in Nat
      /\ x \in Nat /\ y \in Nat /\ x <= l /\ y <= d
  BY RankTypes DEF EndedInOrder
<1>2. /\ \A i, j \in DOMAIN c : i < j => c[i].step <= c[j].step
      /\ \A i \in DOMAIN t : BackwardBy(q, t[i].step, t[i].after)
      /\ \A i \in 1..x : t[i].after <= y
      /\ backwards[r] = IF y = 0 THEN 0 ELSE c[y].step
  BY DEF Structure, StepsFollow, TransfersInStep, EndedInOrder, Gradients
<1>3. \A s, k : BackwardBy(q, s, k) => \E j \in DOMAIN c : j <= k /\ c[j].step = s
  BY DEF BackwardBy
<1> HIDE DEF q, t, c, x, y, l, d
<1>4. backwards[r] \in Nat
  BY <1>1, <1>2
<1>5. \A j \in 1..y : c[j].step <= backwards[r]
  BY <1>1, <1>2
<1>6. ASSUME NEW i \in 1..x PROVE t[i].step <= backwards[r]
  <2>1. i \in DOMAIN t
    BY <1>1
  <2>2. PICK j \in DOMAIN c : j <= t[i].after /\ c[j].step = t[i].step
    BY <1>2, <1>3, <2>1
  <2>3. j \in 1..y
    BY <1>1, <1>2, <2>1, <2>2
  <2> QED
    BY <1>5, <2>2, <2>3
<1> QED
  BY <1>4, <1>5, <1>6 DEF q, t, c, x, y

(* The gradients that the next operation finds are those of its step; a    *)
(* backward makes those of the next step.                                  *)
LEMMA CallIsOfStep ==
  ASSUME RaceInv, NEW r \in Ranks, Structure(streams[r]), EndedInOrder(r), Gradients(r),
         CanRun(r, "caller")
  PROVE  LET o == NextOp(r, "caller")
         IN o.step = IF o.op = "backward" THEN backwards[r] + 1 ELSE backwards[r]
<1> DEFINE q == streams[r]
           c == OnCaller(q)
           y == ended[r]["caller"]
           d == Len(c)
           o == NextOp(r, "caller")
<1>1. DOMAIN c = 1..d /\ d \in Nat /\ y \in Nat /\ \A j \in DOMAIN c : c[j].step \in Nat
  BY RankTypes
<1>2. y < d /\ o = c[y + 1]
  BY DEF CanRun, NextOp, OnCaller
<1>3. /\ \A i, j \in DOMAIN c : i < j => c[i].step <= c[j].step
      /\ \A j \in DOMAIN c : c[j].op = "backward" =>
           IF j = 1 THEN c[j].step = 1 ELSE c[j].step = c[j - 1].step + 1
      /\ \A j \in DOMAIN c : BackwardBy(q, c[j].step, j)
      /\ backwards[r] = IF y = 0 THEN 0 ELSE c[y].step
  BY DEF Structure, StepsFollow, Gradients
<1>4. \A s, k : BackwardBy(q, s, k) =>
        \E j \in DOMAIN c : j <= k /\ c[j].op = "backward" /\ c[j].step = s
  BY DEF BackwardBy
<1> HIDE DEF q, c, y, d, o
<1>5. y + 1 \in DOMAIN c /\ (y > 0 => y \in DOMAIN c)
  BY <1>1, <1>2
<1>6. CASE o.op = "backward"
  <2>1. CASE y = 0
    <3>1. c[1].op = "backward" /\ 1 \in DOMAIN c /\ o = c[1]
      BY <1>2, <1>5, <1>6, <2>1
    <3> QED
      BY <1>3, <1>6, <2>1, <3>1 DEF o
  <2>2. CASE y > 0
    <3>1. c[y + 1].step = c[y + 1 - 1].step + 1
      BY <1>1, <1>2, <1>3, <1>5, <1>6, <2>2
    <3>2. y + 1 - 1 = y
      BY <1>1
    <3> QED
      BY <1>2, <1>3, <1>6, <2>2, <3>1, <3>2 DEF o
  <2> QED
    BY <1>1, <2>1, <2>2
<1>7. CASE o.op # "backward"
  <2>1. PICK j \in DOMAIN c : j <= y + 1 /\ c[j].op = "backward" /\ c[j].step = o.step
    BY <1>2, <1>3, <1>4, <1>5
  <2>2. j # y + 1
    BY <1>2, <1>7, <2>1
  <2>3. j <= y /\ y > 0 /\ j < y + 1
    BY <1>1, <2>1, <2>2
  <2>4. c[j].step <= c[y].step /\ c[y].step <= c[y + 1].step
    BY <1>1, <1>3, <1>5, <2>3
  <2>5. c[y].step = o.step
    BY <1>1, <1>2, <1>5, <2>1, <2>3, <2>4
  <2> QED
    BY <1>3, <1>7, <2>3, <2>5 DEF o
<1> QED
  BY <1>6, <1>7

LEMMA TransferIsOfStep ==
  ASSUME RaceInv, NEW r \in Ranks, Structure(streams[r]), EndedInOrder(r), Gradients(r),
         CanRun(r, "transfer")
  PROVE  NextOp(r, "transfer").step = backwards[r]
<1> DEFINE q == streams[r]
           t == OnTransfer(q)
           c == OnCaller(q)
           x == ended[r]["transfer"]
           y == ended[r]["caller"]
           l == Len(t)
           d == Len(c)
           o == NextOp(r, "transfer")
<1>1. /\ DOMAIN t = 1..l /\ l \in Nat /\ DOMAIN c = 1..d /\ d \in Nat
      /\ x \in Nat /\ y \in Nat /\ y <= d
      /\ \A i \in DOMAIN t : t[i].step \in Nat /\ t[i].after \in Nat
      /\ \A j \in DOMAIN c : c[j].step \in Nat /\ c[j].after \in Nat
  BY RankTypes DEF EndedInOrder
<1>2. x < l /\ o = t[x + 1] /\ o.after <= y
  BY DEF CanRun, NextOp, OnTransfer, Other
<1>3. /\ \A i, j \in DOMAIN c : i < j => c[i].step <= c[j].step
      /\ \A j \in DOMAIN c : BackwardBy(q, c[j].step, j)
      /\ \A i \in DOMAIN t : BackwardBy(q, t[i].step, t[i].after)
      /\ \A i \in DOMAIN t : \A j \in DOMAIN c :
           c[j].op = "backward" /\ c[j].step > t[i].step => c[j].after >= i
      /\ \A j \in 1..y : c[j].after <= x
      /\ backwards[r] = IF y = 0 THEN 0 ELSE c[y].step
  BY DEF Structure, StepsFollow, TransfersInStep, EndedInOrder, Gradients
<1>4. \A s, k : BackwardBy(q, s, k) =>
        \E j \in DOMAIN c : j <= k /\ c[j].op = "backward" /\ c[j].step = s
  BY DEF BackwardBy
<1> HIDE DEF q, t, c, x, y, l, d, o
<1>5. x + 1 \in DOMAIN t /\ o.step \in Nat /\ o.after \in Nat
  BY <1>1, <1>2
<1>6. PICK j \in DOMAIN c : j <= o.after /\ c[j].op = "backward" /\ c[j].step = o.step
  BY <1>2, <1>3, <1>4, <1>5
<1>7. j <= y /\ y > 0 /\ y \in DOMAIN c
  BY <1>1, <1>2, <1>5, <1>6
<1>8. c[y].step >= o.step
  BY <1>1, <1>3, <1>6, <1>7
<1>9. ASSUME c[y].step > o.step PROVE FALSE
  <2>1. PICK k \in DOMAIN c : k <= y /\ c[k].op = "backward" /\ c[k].step = c[y].step
    BY <1>3, <1>4, <1>7
  <2>2. c[k].after >= x + 1
    BY <1>2, <1>3, <1>5, <1>9, <2>1
  <2>3. k \in 1..y
    BY <1>1, <2>1
  <2> QED
    BY <1>1, <1>3, <2>1, <2>2, <2>3
<1>10. c[y].step = o.step
  BY <1>1, <1>5, <1>7, <1>8, <1>9
<1> QED
  BY <1>3, <1>7, <1>10 DEF o
-------------------------------------------------------------------------------
(* What a step does not touch.                                             *)

(* What the host enqueues changes nothing of what has ended.               *)
LEMMA RankKeeps ==
  ASSUME RaceInv, RaceInv', NEW r \in Ranks, RankData(r), plans' = plans,
         Extends(OnTransfer(streams[r]), OnTransfer(streams'[r])),
         Extends(OnCaller(streams[r]), OnCaller(streams'[r])),
         ended'[r] = ended[r], storage'[r] = storage[r], compute'[r] = compute[r],
         backwards'[r] = backwards[r], version'[r] = version[r]
  PROVE  RankData(r)'
<1> DEFINE t == OnTransfer(streams[r])
           c == OnCaller(streams[r])
           u == OnTransfer(streams'[r])
           d == OnCaller(streams'[r])
           x == ended[r]["transfer"]
           y == ended[r]["caller"]
<1>1. /\ DOMAIN t = 1..Len(t) /\ Len(t) \in Nat /\ DOMAIN c = 1..Len(c) /\ Len(c) \in Nat
      /\ x \in Nat /\ y \in Nat /\ x <= Len(t) /\ y <= Len(c)
  BY RankTypes DEF RankData, EndedInOrder
<1>2. /\ DOMAIN u = 1..Len(u) /\ Len(u) \in Nat
      /\ DOMAIN d = 1..Len(d) /\ Len(d) \in Nat
  <2>1. StreamTypes(streams'[r])
    BY DEF RaceInv, RankInv
  <2> QED
    BY <2>1, StreamFacts
<1>3. /\ DOMAIN t \subseteq DOMAIN u /\ DOMAIN c \subseteq DOMAIN d
      /\ \A i \in DOMAIN t : u[i] = t[i]
      /\ \A j \in DOMAIN c : d[j] = c[j]
  BY DEF Extends
<1>4. /\ ended'[r]["transfer"] = x /\ ended'[r]["caller"] = y
      /\ 1..x \subseteq DOMAIN t /\ 1..y \subseteq DOMAIN c
      /\ \A i \in 1..x : u[i] = t[i]
      /\ \A j \in 1..y : d[j] = c[j]
  BY <1>1, <1>3
<1>5. Len(t) <= Len(u) /\ Len(c) <= Len(d)
  <2> HIDE DEF t, c, u, d
  <2> QED
    BY <1>1, <1>2, <1>3
<1> HIDE DEF t, c, u, d, x, y
<1>6. EndedInOrder(r)'
  <2>1. /\ \A i \in 1..x : t[i].after <= y
        /\ \A j \in 1..y : c[j].after <= x
    BY DEF RankData, EndedInOrder, t, c, x, y
  <2>2. /\ x <= Len(u) /\ y <= Len(d)
        /\ \A i \in 1..x : u[i].after <= y
        /\ \A j \in 1..y : d[j].after <= x
    BY <1>1, <1>2, <1>4, <1>5, <2>1
  <2> QED
    BY <1>4, <2>2 DEF EndedInOrder, u, d
<1>7. Gradients(r)'
  <2>1. backwards[r] = IF y = 0 THEN 0 ELSE c[y].step
    BY DEF RankData, Gradients, c, y
  <2>2. y # 0 => d[y] = c[y]
    BY <1>1, <1>4
  <2>3. backwards[r] = IF y = 0 THEN 0 ELSE d[y].step
    BY <2>1, <2>2
  <2> QED
    BY <1>4, <2>3 DEF Gradients, d
<1>8. StorageHolds(r)'
  <2>1. x > 0 => u[x] = t[x]
    BY <1>1, <1>4
  <2>2. x > 0 =>
          /\ t[x].op = "prepare" =>
               storage[r][t[x].slot] = <<t[x].bucket, t[x].step, "input">>
          /\ t[x].op = "gather" =>
               storage[r][t[x].slot] = <<t[x].bucket, t[x].step, "update">>
    BY DEF RankData, StorageHolds, t, x
  <2>3. x > 0 =>
          /\ u[x].op = "prepare" =>
               storage[r][u[x].slot] = <<u[x].bucket, u[x].step, "input">>
          /\ u[x].op = "gather" =>
               storage[r][u[x].slot] = <<u[x].bucket, u[x].step, "update">>
    BY <2>1, <2>2
  <2> QED
    BY <1>4, <2>3 DEF StorageHolds, u
<1>9. \A i \in 1..x : Holds(r, i)' <=> Holds(r, i)
  <2> SUFFICES ASSUME NEW i \in 1..x PROVE Holds(r, i)' <=> Holds(r, i)
    OBVIOUS
  <2>1. u[i] = t[i] /\ \A g \in i + 1..x : u[g] = t[g]
    BY <1>1, <1>4
  <2> QED
    BY <1>4, <2>1 DEF Holds, SameWork, t, u, x
<1>10. ComputeHolds(r)'
  <2> DEFINE Updated(ops, o) ==
               \E j \in 1..y : ops[j].op = "compute" /\ SameWork(ops[j], o)
  <2> SUFFICES ASSUME NEW i \in 1..x, Holds(r, i)'
               PROVE  compute[r][u[i].slot] =
                        <<u[i].bucket, u[i].step,
                          IF Updated(d, u[i]) THEN "update" ELSE "input">>
    BY <1>4 DEF ComputeHolds, ComputeEnded, SameWork, u, d
  <2>1. u[i] = t[i] /\ Holds(r, i)
    BY <1>4, <1>9
  <2>2. Updated(d, u[i]) <=> Updated(c, t[i])
    BY <1>4, <2>1
  <2>3. compute[r][t[i].slot] =
          <<t[i].bucket, t[i].step, IF Updated(c, t[i]) THEN "update" ELSE "input">>
    BY <2>1 DEF RankData, ComputeHolds, ComputeEnded, t, c, x, y
  <2> HIDE DEF Updated
  <2> QED
    BY <2>1, <2>2, <2>3
<1>11. UpdatesEnded(r)'
  <2>1. /\ \A j \in 1..y : c[j].op = "ready_items" =>
             version[r][<<c[j].bucket, "ready">>] >= c[j].step
        /\ \A i \in 1..x : t[i].op = "finalize" =>
             version[r][<<t[i].bucket, "resharded">>] >= t[i].step
    BY DEF RankData, UpdatesEnded, t, c, x, y
  <2>2. /\ \A j \in 1..y : d[j].op = "ready_items" =>
             version[r][<<d[j].bucket, "ready">>] >= d[j].step
        /\ \A i \in 1..x : u[i].op = "finalize" =>
             version[r][<<u[i].bucket, "resharded">>] >= u[i].step
    BY <1>4, <2>1
  <2> QED
    BY <1>4, <2>2 DEF UpdatesEnded, u, d
<1>12. UpdatesOnlyEnded(r)'
  <2>1. Items' = Items
    BY DEF Items, ItemsOf
  <2>2. /\ \A b, s, k : ReadyBy(streams[r], b, s, k) => ReadyBy(streams'[r], b, s, k)
        /\ \A b, s, k : FinalizedBy(streams[r], b, s, k) => FinalizedBy(streams'[r], b, s, k)
    BY <1>3 DEF ReadyBy, FinalizedBy, t, c, u, d
  <2>3. \A i \in Items :
          /\ version[r][i] \in Nat
          /\ version[r][i] > 0 =>
               IF i[2] = "ready"
               THEN ReadyBy(streams[r], i[1], version[r][i], y)
               ELSE FinalizedBy(streams[r], i[1], version[r][i], x)
    BY DEF RankData, UpdatesOnlyEnded, x, y
  <2>4. \A i \in Items :
          /\ version[r][i] \in Nat
          /\ version[r][i] > 0 =>
               IF i[2] = "ready"
               THEN ReadyBy(streams'[r], i[1], version[r][i], y)
               ELSE FinalizedBy(streams'[r], i[1], version[r][i], x)
    BY <2>2, <2>3
  <2> QED
    BY <1>4, <2>1, <2>4 DEF UpdatesOnlyEnded
<1> QED
  BY <1>6, <1>7, <1>8, <1>10, <1>11, <1>12 DEF RankData

LEMMA HostKeepsData ==
  ASSUME RaceInv, RaceInv', DataInv, UNCHANGED <<plans, deviceVars>>,
         \A r \in Ranks : /\ Extends(OnTransfer(streams[r]), OnTransfer(streams'[r]))
                          /\ Extends(OnCaller(streams[r]), OnCaller(streams'[r]))
  PROVE  DataInv'
<1>1. /\ plans' = plans /\ ended' = ended /\ storage' = storage /\ compute' = compute
      /\ backwards' = backwards /\ version' = version
  BY DEF deviceVars
<1>2. \A r \in Ranks : RankData(r)'
  BY <1>1, RankKeeps DEF DataInv
<1>3. DataTypes'
  BY <1>1 DEF DataInv, DataTypes, Table, Items, ItemsOf
<1>4. ExchangedTogether'
  <2> SUFFICES ASSUME NEW r \in Ranks, NEW p \in Ranks, NEW i \in 1..ended[r]["transfer"],
                      OnTransfer(streams'[r])[i].op \in {"scatter", "gather"}
               PROVE  i <= ended[p]["transfer"]
    BY <1>1 DEF ExchangedTogether
  <2>1. i \in DOMAIN OnTransfer(streams[r])
    BY RankTypes DEF DataInv, RankData, EndedInOrder
  <2>2. OnTransfer(streams'[r])[i] = OnTransfer(streams[r])[i]
    BY <2>1 DEF Extends
  <2> QED
    BY <2>2 DEF DataInv, ExchangedTogether
<1> QED
  BY <1>2, <1>3, <1>4 DEF DataInv

(* A rank of which nothing changes.                                        *)
LEMMA OtherRank ==
  ASSUME NEW r \in Ranks, RankData(r), plans' = plans, streams' = streams,
         ended'[r] = ended[r], storage'[r] = storage[r], compute'[r] = compute[r],
         backwards'[r] = backwards[r], version'[r] = version[r]
  PROVE  RankData(r)'
<1>1. EndedInOrder(r)' /\ Gradients(r)' /\ StorageHolds(r)' /\ UpdatesEnded(r)'
  BY DEF RankData, EndedInOrder, Gradients, StorageHolds, UpdatesEnded
<1>2. \A o : ComputeEnded(r, o)' <=> ComputeEnded(r, o)
  BY DEF ComputeEnded
<1>3. \A i : Holds(r, i)' <=> Holds(r, i)
  BY DEF Holds
<1>4. ComputeHolds(r)'
  BY <1>2, <1>3 DEF RankData, ComputeHolds
<1>5. UpdatesOnlyEnded(r)'
  BY DEF RankData, UpdatesOnlyEnded, Items, ItemsOf
<1> QED
  BY <1>1, <1>4, <1>5 DEF RankData

LEMMA DoneFacts ==
  ASSUME RaceInv, NEW r \in Ranks, NEW st \in Streams, Done(r, st)
  PROVE  /\ ended'[r][st] = ended[r][st] + 1
         /\ ended'[r][Other(st)] = ended[r][Other(st)]
         /\ \A p \in Ranks : p # r => ended'[p] = ended[p]
BY DEF RaceInv, Done, Streams, Other
-------------------------------------------------------------------------------
(* A step of the device.                                                   *)

LEMMA CallStep ==
  ASSUME RaceInv, NEW r \in Ranks, Structure(streams[r]), RankData(r), CanRun(r, "caller"),
         plans' = plans, streams' = streams,
         ended'[r]["caller"] = ended[r]["caller"] + 1,
         ended'[r]["transfer"] = ended[r]["transfer"],
         storage'[r] = storage[r], ComputeHolds(r)', NEW o, o = NextOp(r, "caller"),
         backwards'[r] = IF o.op = "backward" THEN backwards[r] + 1 ELSE backwards[r],
         \A i \in Items : version'[r][i] =
           IF o.op = "ready_items" /\ i = <<o.bucket, "ready">> THEN backwards[r]
           ELSE version[r][i]
  PROVE  RankData(r)'
<1> DEFINE q == streams[r]
           t == OnTransfer(q)
           c == OnCaller(q)
           x == ended[r]["transfer"]
           y == ended[r]["caller"]
<1>1. /\ DOMAIN t = 1..Len(t) /\ Len(t) \in Nat /\ DOMAIN c = 1..Len(c) /\ Len(c) \in Nat
      /\ x \in Nat /\ y \in Nat /\ x <= Len(t) /\ y < Len(c)
      /\ \A j \in DOMAIN c : c[j].step \in Nat
      /\ o = c[y + 1] /\ o.after <= x /\ y + 1 \in DOMAIN c
  <2>1. y < Len(c) /\ o = c[y + 1] /\ o.after <= x
    BY DEF CanRun, NextOp, OnCaller, Other
  <2>2. x <= Len(t) /\ y <= Len(c)
    BY DEF RankData, EndedInOrder
  <2>3. /\ DOMAIN t = 1..Len(t) /\ Len(t) \in Nat /\ DOMAIN c = 1..Len(c) /\ Len(c) \in Nat
        /\ x \in Nat /\ y \in Nat
        /\ \A j \in DOMAIN c : c[j].step \in Nat
    BY RankTypes
  <2> HIDE DEF t, c, x, y
  <2> QED
    BY <2>1, <2>2, <2>3
<1>2. /\ EndedInOrder(r) /\ Gradients(r) /\ StorageHolds(r) /\ UpdatesEnded(r)
      /\ UpdatesOnlyEnded(r)
  BY DEF RankData
<1>3. /\ backwards[r] \in Nat
      /\ \A j \in 1..y : c[j].step <= backwards[r]
      /\ \A i \in 1..x : t[i].step <= backwards[r]
      /\ o.step = IF o.op = "backward" THEN backwards[r] + 1 ELSE backwards[r]
  BY <1>2, EndedSteps, CallIsOfStep
<1>4. ended'[r]["caller"] = y + 1 /\ ended'[r]["transfer"] = x
  OBVIOUS
<1> HIDE DEF q, t, c, x, y
<1>5. EndedInOrder(r)'
  <2>1. /\ \A i \in 1..x : t[i].after <= y
        /\ \A j \in 1..y : c[j].after <= x
    BY <1>2 DEF EndedInOrder, q, t, c, x, y
  <2>2. \A i \in 1..x : t[i].after \in Nat
    <3>1. \A i \in DOMAIN t : t[i].after \in Nat
      BY RankTypes DEF q, t
    <3> QED
      BY <1>1, <3>1
  <2>3. /\ x <= Len(t) /\ y + 1 <= Len(c)
        /\ \A i \in 1..x : t[i].after <= y + 1
        /\ \A j \in 1..y + 1 : c[j].after <= x
    BY <1>1, <2>1, <2>2
  <2> QED
    BY <1>4, <2>3 DEF EndedInOrder, q, t, c
<1>6. Gradients(r)'
  <2>1. backwards'[r] = c[y + 1].step /\ y + 1 # 0
    BY <1>1, <1>3
  <2> QED
    BY <1>4, <2>1 DEF Gradients, q, c
<1>7. StorageHolds(r)'
  BY <1>2, <1>4 DEF StorageHolds, x
<1>8. \A i \in Items : version[r][i] \in Nat
  BY <1>2 DEF UpdatesOnlyEnded
<1>9. UpdatesEnded(r)'
  <2>1. ASSUME NEW j \in 1..y + 1, c[j].op = "ready_items"
        PROVE  version'[r][<<c[j].bucket, "ready">>] >= c[j].step
    <3>1. j \in DOMAIN c
      BY <1>1
    <3>2. c[j].bucket \in DOMAIN plans
      BY <2>1, <3>1 DEF Structure, PlannedWork, q, c
    <3> DEFINE k == <<c[j].bucket, "ready">>
    <3>3. k \in Items
      BY <3>2 DEF Items, ItemsOf
    <3>4. version'[r][k] = IF o.op = "ready_items" /\ k = <<o.bucket, "ready">>
                           THEN backwards[r] ELSE version[r][k]
      BY <3>3
    <3>5. c[j].step <= backwards[r] /\ c[j].step \in Nat
      <4>1. CASE j = y + 1
        BY <1>1, <1>3, <2>1, <4>1
      <4>2. CASE j \in 1..y
        BY <1>3, <3>1, <1>1, <4>2
      <4> QED
        BY <1>1, <4>1, <4>2
    <3>6. CASE o.op = "ready_items" /\ k = <<o.bucket, "ready">>
      BY <1>3, <3>4, <3>5, <3>6
    <3>7. CASE ~(o.op = "ready_items" /\ k = <<o.bucket, "ready">>)
      <4>1. j \in 1..y
        BY <1>1, <2>1, <3>7
      <4>2. version[r][k] >= c[j].step
        BY <1>2, <2>1, <4>1 DEF UpdatesEnded, q, c, y
      <4> QED
        BY <3>4, <3>7, <4>2
    <3> QED
      BY <3>6, <3>7
  <2>2. ASSUME NEW i \in 1..x, t[i].op = "finalize"
        PROVE  version'[r][<<t[i].bucket, "resharded">>] >= t[i].step
    <3>1. i \in DOMAIN t
      BY <1>1
    <3>2. Planned(t[i].bucket)
      BY <3>1 DEF Structure, PlannedWork, q, t
    <3>3. <<t[i].bucket, "resharded">> \in Items
      BY <3>2 DEF Items, ItemsOf, Planned, IsLocal
    <3>4. version[r][<<t[i].bucket, "resharded">>] >= t[i].step
      BY <1>2, <2>2 DEF UpdatesEnded, q, t, x
    <3> QED
      BY <3>3, <3>4
  <2> QED
    BY <1>4, <2>1, <2>2 DEF UpdatesEnded, q, t, c
<1>10. UpdatesOnlyEnded(r)'
  <2> SUFFICES ASSUME NEW i \in Items
               PROVE  /\ version'[r][i] \in Nat
                      /\ version'[r][i] > 0 =>
                           IF i[2] = "ready"
                           THEN ReadyBy(q, i[1], version'[r][i], y + 1)
                           ELSE FinalizedBy(q, i[1], version'[r][i], x)
    BY <1>4 DEF UpdatesOnlyEnded, Items, ItemsOf, ReadyBy, FinalizedBy, q
  <2>1. version'[r][i] = IF o.op = "ready_items" /\ i = <<o.bucket, "ready">>
                         THEN backwards[r] ELSE version[r][i]
    OBVIOUS
  <2>2. CASE o.op = "ready_items" /\ i = <<o.bucket, "ready">>
    <3>1. i[1] = o.bucket /\ i[2] = "ready" /\ version'[r][i] = o.step
      BY <1>3, <2>1, <2>2
    <3>2. ReadyBy(q, o.bucket, o.step, y + 1)
      BY <1>1, <2>2 DEF ReadyBy, c
    <3> QED
      BY <1>3, <2>1, <2>2, <3>1, <3>2
  <2>3. CASE ~(o.op = "ready_items" /\ i = <<o.bucket, "ready">>)
    <3>1. version'[r][i] = version[r][i]
      BY <2>1, <2>3
    <3>2. version[r][i] > 0 =>
            IF i[2] = "ready" THEN ReadyBy(q, i[1], version[r][i], y)
            ELSE FinalizedBy(q, i[1], version[r][i], x)
      BY <1>2 DEF UpdatesOnlyEnded, q, x, y
    <3>3. \A b, s : ReadyBy(q, b, s, y) => ReadyBy(q, b, s, y + 1)
      BY <1>1 DEF ReadyBy, c
    <3> QED
      BY <1>8, <3>1, <3>2, <3>3
  <2> QED
    BY <2>2, <2>3
<1> QED
  BY <1>5, <1>6, <1>7, <1>9, <1>10 DEF RankData

LEMMA TransferStep ==
  ASSUME RaceInv, NEW r \in Ranks, Structure(streams[r]), RankData(r), CanRun(r, "transfer"),
         plans' = plans, streams' = streams,
         ended'[r]["transfer"] = ended[r]["transfer"] + 1,
         ended'[r]["caller"] = ended[r]["caller"],
         StorageHolds(r)', ComputeHolds(r)', NEW o, o = NextOp(r, "transfer"),
         backwards'[r] = backwards[r],
         \A i \in Items : version'[r][i] =
           IF o.op = "finalize" /\ i = <<o.bucket, "resharded">> THEN backwards[r]
           ELSE version[r][i]
  PROVE  RankData(r)'
<1> DEFINE q == streams[r]
           t == OnTransfer(q)
           c == OnCaller(q)
           x == ended[r]["transfer"]
           y == ended[r]["caller"]
<1>1. /\ DOMAIN t = 1..Len(t) /\ Len(t) \in Nat /\ DOMAIN c = 1..Len(c) /\ Len(c) \in Nat
      /\ x \in Nat /\ y \in Nat /\ x < Len(t) /\ y <= Len(c)
      /\ \A i \in DOMAIN t : t[i].step \in Nat
      /\ o = t[x + 1] /\ o.after <= y /\ x + 1 \in DOMAIN t
  <2>1. x < Len(t) /\ o = t[x + 1] /\ o.after <= y
    BY DEF CanRun, NextOp, OnTransfer, Other
  <2>2. x <= Len(t) /\ y <= Len(c)
    BY DEF RankData, EndedInOrder
  <2>3. /\ DOMAIN t = 1..Len(t) /\ Len(t) \in Nat /\ DOMAIN c = 1..Len(c) /\ Len(c) \in Nat
        /\ x \in Nat /\ y \in Nat
        /\ \A j \in DOMAIN t : t[j].step \in Nat
    BY RankTypes
  <2> HIDE DEF t, c, x, y
  <2> QED
    BY <2>1, <2>2, <2>3
<1>2. EndedInOrder(r) /\ Gradients(r) /\ UpdatesEnded(r) /\ UpdatesOnlyEnded(r)
  BY DEF RankData
<1>3. /\ backwards[r] \in Nat
      /\ \A j \in 1..y : c[j].step <= backwards[r]
      /\ \A i \in 1..x : t[i].step <= backwards[r]
      /\ o.step = backwards[r]
  BY <1>2, EndedSteps, TransferIsOfStep
<1>4. ended'[r]["caller"] = y /\ ended'[r]["transfer"] = x + 1
  OBVIOUS
<1> HIDE DEF q, t, c, x, y
<1>5. EndedInOrder(r)'
  <2>1. /\ \A i \in 1..x : t[i].after <= y
        /\ \A j \in 1..y : c[j].after <= x
    BY <1>2 DEF EndedInOrder, q, t, c, x, y
  <2>2. \A j \in 1..y : c[j].after \in Nat
    <3>1. \A j \in DOMAIN c : c[j].after \in Nat
      BY RankTypes DEF q, c
    <3> QED
      BY <1>1, <3>1
  <2>3. /\ x + 1 <= Len(t) /\ y <= Len(c)
        /\ \A i \in 1..x + 1 : t[i].after <= y
        /\ \A j \in 1..y : c[j].after <= x + 1
    BY <1>1, <2>1, <2>2
  <2> QED
    BY <1>4, <2>3 DEF EndedInOrder, q, t, c
<1>6. Gradients(r)'
  BY <1>2, <1>4 DEF Gradients, y
<1>7. \A i \in Items : version[r][i] \in Nat
  BY <1>2 DEF UpdatesOnlyEnded
<1>8. UpdatesEnded(r)'
  <2>1. ASSUME NEW i \in 1..x + 1, t[i].op = "finalize"
        PROVE  version'[r][<<t[i].bucket, "resharded">>] >= t[i].step
    <3>1. i \in DOMAIN t
      BY <1>1
    <3>2. Planned(t[i].bucket)
      BY <3>1 DEF Structure, PlannedWork, q, t
    <3> DEFINE k == <<t[i].bucket, "resharded">>
    <3>3. k \in Items
      BY <3>2 DEF Items, ItemsOf, Planned, IsLocal
    <3>4. version'[r][k] = IF o.op = "finalize" /\ k = <<o.bucket, "resharded">>
                           THEN backwards[r] ELSE version[r][k]
      BY <3>3
    <3>5. t[i].step <= backwards[r] /\ t[i].step \in Nat
      <4>1. CASE i = x + 1
        BY <1>1, <1>3, <4>1
      <4>2. CASE i \in 1..x
        BY <1>1, <1>3, <3>1, <4>2
      <4> QED
        BY <1>1, <4>1, <4>2
    <3>6. CASE o.op = "finalize" /\ k = <<o.bucket, "resharded">>
      BY <1>3, <3>4, <3>5, <3>6
    <3>7. CASE ~(o.op = "finalize" /\ k = <<o.bucket, "resharded">>)
      <4>1. i \in 1..x
        BY <1>1, <2>1, <3>7
      <4>2. version[r][k] >= t[i].step
        BY <1>2, <2>1, <4>1 DEF UpdatesEnded, q, t, x
      <4> QED
        BY <3>4, <3>7, <4>2
    <3> QED
      BY <3>6, <3>7
  <2>2. ASSUME NEW j \in 1..y, c[j].op = "ready_items"
        PROVE  version'[r][<<c[j].bucket, "ready">>] >= c[j].step
    <3>1. j \in DOMAIN c
      BY <1>1
    <3>2. c[j].bucket \in DOMAIN plans
      BY <2>2, <3>1 DEF Structure, PlannedWork, q, c
    <3>3. <<c[j].bucket, "ready">> \in Items
      BY <3>2 DEF Items, ItemsOf
    <3>4. version[r][<<c[j].bucket, "ready">>] >= c[j].step
      BY <1>2, <2>2 DEF UpdatesEnded, q, c, y
    <3> QED
      BY <3>3, <3>4
  <2> QED
    BY <1>4, <2>1, <2>2 DEF UpdatesEnded, q, t, c
<1>9. UpdatesOnlyEnded(r)'
  <2> SUFFICES ASSUME NEW i \in Items
               PROVE  /\ version'[r][i] \in Nat
                      /\ version'[r][i] > 0 =>
                           IF i[2] = "ready"
                           THEN ReadyBy(q, i[1], version'[r][i], y)
                           ELSE FinalizedBy(q, i[1], version'[r][i], x + 1)
    BY <1>4 DEF UpdatesOnlyEnded, Items, ItemsOf, ReadyBy, FinalizedBy, q
  <2>1. version'[r][i] = IF o.op = "finalize" /\ i = <<o.bucket, "resharded">>
                         THEN backwards[r] ELSE version[r][i]
    OBVIOUS
  <2>2. CASE o.op = "finalize" /\ i = <<o.bucket, "resharded">>
    <3>1. i[1] = o.bucket /\ i[2] # "ready" /\ version'[r][i] = o.step
      BY <1>3, <2>1, <2>2
    <3>2. FinalizedBy(q, o.bucket, o.step, x + 1)
      BY <1>1, <2>2 DEF FinalizedBy, t
    <3> QED
      BY <1>3, <2>1, <2>2, <3>1, <3>2
  <2>3. CASE ~(o.op = "finalize" /\ i = <<o.bucket, "resharded">>)
    <3>1. version'[r][i] = version[r][i]
      BY <2>1, <2>3
    <3>2. version[r][i] > 0 =>
            IF i[2] = "ready" THEN ReadyBy(q, i[1], version[r][i], y)
            ELSE FinalizedBy(q, i[1], version[r][i], x)
      BY <1>2 DEF UpdatesOnlyEnded, q, x, y
    <3>3. \A b, s : FinalizedBy(q, b, s, x) => FinalizedBy(q, b, s, x + 1)
      BY <1>1 DEF FinalizedBy, t
    <3> QED
      BY <1>7, <3>1, <3>2, <3>3
  <2> QED
    BY <2>2, <2>3
<1> QED
  BY <1>5, <1>6, <1>8, <1>9 DEF RankData
-------------------------------------------------------------------------------
(* What an operation finds in the buffers.                                 *)

LEMMA NextTransfer ==
  ASSUME RaceInv, NEW r \in Ranks, Structure(streams[r]), EndedInOrder(r),
         CanRun(r, "transfer")
  PROVE  LET t == OnTransfer(streams[r])
             x == ended[r]["transfer"]
         IN /\ x + 1 \in DOMAIN t /\ x \in Nat /\ DOMAIN t = 1..Len(t) /\ Len(t) \in Nat
            /\ NextOp(r, "transfer") = t[x + 1] /\ x < Len(t)
            /\ t[x + 1].after <= ended[r]["caller"]
            /\ t[x + 1].slot \in Slots /\ Planned(t[x + 1].bucket)
<1> DEFINE t == OnTransfer(streams[r])
           x == ended[r]["transfer"]
<1>1. x < Len(t) /\ NextOp(r, "transfer") = t[x + 1] /\ t[x + 1].after <= ended[r]["caller"]
  BY DEF CanRun, NextOp, OnTransfer, Other
<1>2. x \in Nat /\ Len(t) \in Nat /\ DOMAIN t = 1..Len(t)
  BY RankTypes
<1>3. \A i \in DOMAIN t : t[i].slot \in Slots /\ Planned(t[i].bucket)
  BY DEF Structure, PlannedWork
<1> HIDE DEF t, x
<1>4. x + 1 \in DOMAIN t
  BY <1>1, <1>2
<1> QED
  BY <1>1, <1>2, <1>3, <1>4 DEF t, x

LEMMA NextCall ==
  ASSUME RaceInv, NEW r \in Ranks, CanRun(r, "caller")
  PROVE  LET c == OnCaller(streams[r])
             y == ended[r]["caller"]
         IN /\ y + 1 \in DOMAIN c /\ y \in Nat /\ DOMAIN c = 1..Len(c) /\ Len(c) \in Nat
            /\ NextOp(r, "caller") = c[y + 1] /\ y < Len(c)
            /\ c[y + 1].after <= ended[r]["transfer"]
<1> DEFINE c == OnCaller(streams[r])
           y == ended[r]["caller"]
<1>1. y < Len(c) /\ NextOp(r, "caller") = c[y + 1] /\ c[y + 1].after <= ended[r]["transfer"]
  BY DEF CanRun, NextOp, OnCaller, Other
<1>2. y \in Nat /\ Len(c) \in Nat /\ DOMAIN c = 1..Len(c)
  BY RankTypes
<1> HIDE DEF c, y
<1>3. y + 1 \in DOMAIN c
  BY <1>1, <1>2
<1> QED
  BY <1>1, <1>2, <1>3 DEF c, y

(* What is exchanged or unpacked is what the operation before left.        *)
LEMMA StorageFound ==
  ASSUME RaceInv, NEW r \in Ranks, Structure(streams[r]), EndedInOrder(r), StorageHolds(r),
         CanRun(r, "transfer"), NEW o, o = NextOp(r, "transfer")
  PROVE  /\ o.op = "scatter" => storage[r][o.slot] = <<o.bucket, o.step, "input">>
         /\ o.op = "finalize" =>
              /\ storage[r][o.slot] = <<o.bucket, o.step, "update">>
              /\ ended[r]["transfer"] > 0
              /\ OnTransfer(streams[r])[ended[r]["transfer"]].op = "gather"
              /\ OnTransfer(streams[r])[ended[r]["transfer"]].step = o.step
<1> DEFINE t == OnTransfer(streams[r])
           x == ended[r]["transfer"]
<1>1. x + 1 \in DOMAIN t /\ x \in Nat /\ o = t[x + 1]
  BY NextTransfer
<1>2. /\ t[x + 1].op = "scatter" =>
           x + 1 > 1 /\ t[x + 1 - 1].op = "prepare" /\ SameWork(t[x + 1 - 1], t[x + 1])
      /\ t[x + 1].op = "finalize" =>
           x + 1 > 1 /\ t[x + 1 - 1].op = "gather" /\ SameWork(t[x + 1 - 1], t[x + 1])
  BY <1>1 DEF Structure, PackedJustBefore
<1>3. x > 0 =>
        /\ t[x].op = "prepare" =>
             storage[r][t[x].slot] = <<t[x].bucket, t[x].step, "input">>
        /\ t[x].op = "gather" =>
             storage[r][t[x].slot] = <<t[x].bucket, t[x].step, "update">>
  BY DEF StorageHolds
<1> HIDE DEF t, x
<1>4. x + 1 - 1 = x /\ (x + 1 > 1 => x > 0)
  BY <1>1
<1>5. /\ o.op = "scatter" => x > 0 /\ t[x].op = "prepare" /\ SameWork(t[x], o)
      /\ o.op = "finalize" => x > 0 /\ t[x].op = "gather" /\ SameWork(t[x], o)
  BY <1>1, <1>2, <1>4
<1> QED
  BY <1>3, <1>5 DEF SameWork, t, x

(* A bucket that arrives has not been computed, and no other bucket is in  *)
(* its slot.                                                               *)
LEMMA SlotEmpty ==
  ASSUME RaceInv, NEW r \in Ranks, Structure(streams[r]), EndedInOrder(r),
         CanRun(r, "transfer"), NEW o, o = NextOp(r, "transfer"), o.op = "scatter"
  PROVE  /\ ~ComputeEnded(r, o)
         /\ \A i \in 1..ended[r]["transfer"] :
              Holds(r, i) => OnTransfer(streams[r])[i].slot # o.slot
<1> DEFINE q == streams[r]
           t == OnTransfer(q)
           c == OnCaller(q)
           x == ended[r]["transfer"]
           y == ended[r]["caller"]
<1>1. /\ x + 1 \in DOMAIN t /\ x \in Nat /\ o = t[x + 1] /\ DOMAIN t = 1..Len(t)
      /\ Len(t) \in Nat
  BY NextTransfer
<1>2. /\ DOMAIN c = 1..Len(c) /\ Len(c) \in Nat /\ y \in Nat /\ y <= Len(c)
      /\ \A i \in DOMAIN t : t[i].step \in Nat
      /\ \A j \in 1..y : c[j].after <= x
      /\ \A j \in DOMAIN c : c[j].after \in Nat
  BY RankTypes DEF EndedInOrder
<1> HIDE DEF q, t, c, x, y
<1>3. ASSUME NEW j \in 1..y, c[j].op = "compute", SameWork(c[j], o)
      PROVE  FALSE
  <2>1. j \in DOMAIN c
    BY <1>2
  <2>2. PICK i \in DOMAIN t : /\ i <= c[j].after /\ t[i].op = "scatter"
                              /\ SameWork(t[i], c[j])
    BY <1>3, <2>1 DEF Structure, Computable, q, t, c
  <2>3. i < x + 1
    BY <1>1, <1>2, <2>1, <2>2
  <2>4. t[i].bucket = t[x + 1].bucket /\ t[i].step = t[x + 1].step
    BY <1>1, <1>3, <2>2 DEF SameWork
  <2>5. t[i].step < t[x + 1].step
    BY <1>1, <2>2, <2>3, <2>4 DEF Structure, MovesOnce, Once, q, t
  <2> QED
    BY <1>1, <1>2, <2>4, <2>5
<1>4. ASSUME NEW i \in 1..x, Holds(r, i), t[i].slot = o.slot
      PROVE  FALSE
  <2>1. i \in DOMAIN t /\ i < x + 1 /\ t[i].op = "scatter"
    BY <1>1, <1>4 DEF Holds, q, t
  <2>2. PICK g \in DOMAIN t : /\ i < g /\ g < x + 1 /\ t[g].op = "gather"
                              /\ SameWork(t[g], t[i])
    BY <1>1, <1>4, <2>1 DEF Structure, SlotsReturned, q, t
  <2>3. g \in i + 1..x
    BY <1>1, <2>1, <2>2
  <2> QED
    BY <1>4, <2>2, <2>3 DEF Holds, q, t, x
<1> QED
  BY <1>3, <1>4 DEF ComputeEnded, q, t, c, x, y

(* A bucket that goes back has been computed on its ranks.                 *)
LEMMA UpdateFound ==
  ASSUME RaceInv, NEW r \in Ranks, Structure(streams[r]), EndedInOrder(r), ComputeHolds(r),
         CanRun(r, "transfer"), NEW o, o = NextOp(r, "transfer"), o.op = "gather",
         r \in plans[o.bucket]
  PROVE  compute[r][o.slot] = <<o.bucket, o.step, "update">>
<1> DEFINE q == streams[r]
           t == OnTransfer(q)
           c == OnCaller(q)
           x == ended[r]["transfer"]
           y == ended[r]["caller"]
<1>1. /\ x + 1 \in DOMAIN t /\ x \in Nat /\ o = t[x + 1] /\ DOMAIN t = 1..Len(t)
      /\ Len(t) \in Nat /\ o.after <= y
  BY NextTransfer
<1>2. /\ DOMAIN c = 1..Len(c) /\ Len(c) \in Nat /\ y \in Nat /\ y <= Len(c)
      /\ \A i \in DOMAIN t : t[i].step \in Nat /\ t[i].after \in Nat
      /\ \A j \in 1..y : c[j].after <= x
      /\ \A j \in DOMAIN c : c[j].after \in Nat
  BY RankTypes DEF EndedInOrder
<1> HIDE DEF q, t, c, x, y
<1>3. PICK j \in DOMAIN c : j <= o.after /\ c[j].op = "compute" /\ SameWork(c[j], o)
  BY <1>1 DEF Structure, Returnable, q, t, c
<1>4. j \in 1..y
  BY <1>1, <1>2, <1>3
<1>5. PICK i \in DOMAIN t : i <= c[j].after /\ t[i].op = "scatter" /\ SameWork(t[i], c[j])
  BY <1>3 DEF Structure, Computable, q, t, c
<1>6. i \in 1..x /\ SameWork(t[i], o) /\ SameWork(c[j], t[i])
  BY <1>1, <1>2, <1>3, <1>4, <1>5 DEF SameWork
<1>7. ASSUME NEW g \in i + 1..x, t[g].op = "gather", SameWork(t[g], t[i])
      PROVE  FALSE
  <2>1. g \in DOMAIN t /\ g < x + 1
    BY <1>1, <1>6
  <2>2. t[g].bucket = t[x + 1].bucket /\ t[g].step = t[x + 1].step
    BY <1>1, <1>6, <1>7 DEF SameWork
  <2>3. t[g].step < t[x + 1].step
    BY <1>1, <1>7, <2>1, <2>2 DEF Structure, MovesOnce, Once, q, t
  <2> QED
    BY <1>1, <1>2, <2>2, <2>3
<1>8. Holds(r, i)
  BY <1>5, <1>6, <1>7 DEF Holds, SameWork, q, t, x
<1>9. ComputeEnded(r, t[i])
  BY <1>3, <1>4, <1>6 DEF ComputeEnded, q, c, y
<1>10. compute[r][t[i].slot] =
         <<t[i].bucket, t[i].step, IF ComputeEnded(r, t[i]) THEN "update" ELSE "input">>
  BY <1>6, <1>8 DEF ComputeHolds, q, t, x
<1> QED
  BY <1>6, <1>9, <1>10 DEF SameWork

(* A bucket that is computed has arrived and is the only one in its slot.  *)
LEMMA InputFound ==
  ASSUME RaceInv, NEW r \in Ranks, Structure(streams[r]), EndedInOrder(r), ComputeHolds(r),
         CanRun(r, "caller"), NEW o, o = NextOp(r, "caller"), o.op = "compute"
  PROVE  /\ o.slot \in Slots
         /\ r \in plans[o.bucket] =>
              /\ compute[r][o.slot] = <<o.bucket, o.step, "input">>
              /\ \A k \in 1..ended[r]["transfer"] :
                   Holds(r, k) /\ OnTransfer(streams[r])[k].slot = o.slot =>
                     SameWork(OnTransfer(streams[r])[k], o)
<1> DEFINE q == streams[r]
           t == OnTransfer(q)
           c == OnCaller(q)
           x == ended[r]["transfer"]
           y == ended[r]["caller"]
<1>1. /\ y + 1 \in DOMAIN c /\ y \in Nat /\ o = c[y + 1] /\ DOMAIN c = 1..Len(c)
      /\ Len(c) \in Nat /\ o.after <= x
  BY NextCall
<1>2. /\ DOMAIN t = 1..Len(t) /\ Len(t) \in Nat /\ x \in Nat /\ x <= Len(t)
      /\ \A j \in DOMAIN c : c[j].step \in Nat /\ c[j].after \in Nat
      /\ \A i \in 1..x : t[i].after <= y
      /\ \A i \in DOMAIN t : t[i].after \in Nat
  BY RankTypes DEF EndedInOrder
<1> HIDE DEF q, t, c, x, y
<1>3. PICK i \in DOMAIN t : i <= o.after /\ t[i].op = "scatter" /\ SameWork(t[i], o)
  BY <1>1 DEF Structure, Computable, q, t, c
<1>4. o.slot \in Slots
  BY <1>3 DEF Structure, PlannedWork, SameWork, q, t
<1>5. i \in 1..x
  BY <1>1, <1>2, <1>3
<1>6. ASSUME NEW j \in 1..y, c[j].op = "compute", SameWork(c[j], o)
      PROVE  FALSE
  <2>1. j \in DOMAIN c /\ j < y + 1
    BY <1>1
  <2>2. c[j].bucket = c[y + 1].bucket /\ c[j].step = c[y + 1].step
    BY <1>1, <1>6 DEF SameWork
  <2>3. c[j].step < c[y + 1].step
    BY <1>1, <1>6, <2>1, <2>2 DEF Structure, CallsOnce, Once, q, c
  <2> QED
    BY <1>1, <1>2, <2>2, <2>3
<1>7. ASSUME NEW g \in i + 1..x, t[g].op = "gather", SameWork(t[g], t[i])
      PROVE  FALSE
  <2>1. g \in DOMAIN t /\ t[g].after <= y
    BY <1>2, <1>5
  <2>2. PICK j \in DOMAIN c : /\ j <= t[g].after /\ c[j].op = "compute"
                              /\ SameWork(c[j], t[g])
    BY <1>7, <2>1 DEF Structure, Returnable, q, t, c
  <2>3. j \in 1..y /\ SameWork(c[j], o)
    BY <1>1, <1>2, <1>3, <1>7, <2>1, <2>2 DEF SameWork
  <2> QED
    BY <1>6, <2>2, <2>3
<1>8. ASSUME r \in plans[o.bucket]
      PROVE  /\ compute[r][o.slot] = <<o.bucket, o.step, "input">>
             /\ \A k \in 1..x : Holds(r, k) /\ t[k].slot = o.slot => SameWork(t[k], o)
  <2>1. Holds(r, i)
    BY <1>3, <1>7, <1>8 DEF Holds, SameWork, q, t, x
  <2>2. ~ComputeEnded(r, t[i])
    BY <1>3, <1>6 DEF ComputeEnded, SameWork, q, c, y
  <2>3. compute[r][t[i].slot] =
          <<t[i].bucket, t[i].step, IF ComputeEnded(r, t[i]) THEN "update" ELSE "input">>
    BY <1>5, <2>1 DEF ComputeHolds, q, t, x
  <2>4. compute[r][o.slot] = <<o.bucket, o.step, "input">>
    BY <1>3, <2>2, <2>3 DEF SameWork
  <2>5. ASSUME NEW e \in 1..x, NEW f \in 1..x, e < f, Holds(r, e), Holds(r, f),
               t[e].slot = t[f].slot
        PROVE  FALSE
    <3>1. e \in DOMAIN t /\ f \in DOMAIN t
      BY <1>2
    <3>2. t[e].op = "scatter" /\ t[f].op = "scatter"
      BY <2>5 DEF Holds, q, t
    <3>3. PICK g \in DOMAIN t : /\ e < g /\ g < f /\ t[g].op = "gather"
                                /\ SameWork(t[g], t[e])
      BY <2>5, <3>1, <3>2 DEF Structure, SlotsReturned, q, t
    <3>4. g \in e + 1..x
      BY <1>2, <3>3
    <3> QED
      BY <2>5, <3>3, <3>4 DEF Holds, q, t, x
  <2>6. ASSUME NEW k \in 1..x, Holds(r, k), t[k].slot = o.slot
        PROVE  SameWork(t[k], o)
    <3>1. t[k].slot = t[i].slot
      BY <1>3, <2>6 DEF SameWork
    <3>2. k = i
      BY <1>2, <1>5, <2>1, <2>5, <2>6, <3>1
    <3> QED
      BY <1>3, <3>2
  <2> QED
    BY <2>4, <2>6
<1> QED
  BY <1>4, <1>8 DEF q, t, x
-------------------------------------------------------------------------------
(* The compute buffers after a step.                                       *)

LEMMA ComputeStays ==
  ASSUME RaceInv, NEW r \in Ranks, ComputeHolds(r), plans' = plans, streams' = streams,
         compute'[r] = compute[r],
         \/ ended'[r]["transfer"] = ended[r]["transfer"]
         \/ /\ ended'[r]["transfer"] = ended[r]["transfer"] + 1
            /\ NextOp(r, "transfer").op # "scatter",
         \/ ended'[r]["caller"] = ended[r]["caller"]
         \/ /\ ended'[r]["caller"] = ended[r]["caller"] + 1
            /\ NextOp(r, "caller").op # "compute"
  PROVE  ComputeHolds(r)'
<1> DEFINE q == streams[r]
           t == OnTransfer(q)
           c == OnCaller(q)
           x == ended[r]["transfer"]
           y == ended[r]["caller"]
           Updated(n, o) == \E j \in 1..n : c[j].op = "compute" /\ SameWork(c[j], o)
           Held(n, i) ==
             /\ t[i].op = "scatter" /\ r \in plans[t[i].bucket]
             /\ \A g \in i + 1..n : ~(t[g].op = "gather" /\ SameWork(t[g], t[i]))
           Content(n, i) ==
             <<t[i].bucket, t[i].step, IF Updated(n, t[i]) THEN "update" ELSE "input">>
<1> DEFINE m == ended'[r]["transfer"]
           n == ended'[r]["caller"]
<1>1. /\ x \in Nat /\ y \in Nat
      /\ m = x \/ (m = x + 1 /\ t[x + 1].op # "scatter")
      /\ n = y \/ (n = y + 1 /\ c[y + 1].op # "compute")
  BY RankTypes DEF NextOp, OnTransfer, OnCaller
<1>2. \A i \in 1..x : Held(x, i) => compute[r][t[i].slot] = Content(y, i)
  BY DEF ComputeHolds, Holds, ComputeEnded
<1>3. SUFFICES ASSUME NEW i \in 1..m, Held(m, i) PROVE compute[r][t[i].slot] = Content(n, i)
  BY DEF ComputeHolds, Holds, ComputeEnded, SameWork
<1> HIDE DEF q, t, c, x, y, m, n
<1>4. i \in 1..x
  BY <1>1, <1>3
<1>5. Held(x, i)
  BY <1>1, <1>3, <1>4
<1>6. Updated(n, t[i]) <=> Updated(y, t[i])
  BY <1>1
<1> HIDE DEF Held, Updated
<1> QED
  BY <1>2, <1>4, <1>5, <1>6

LEMMA ComputeArrives ==
  ASSUME RaceInv, NEW r \in Ranks, Structure(streams[r]), EndedInOrder(r), ComputeHolds(r),
         CanRun(r, "transfer"), NEW o, o = NextOp(r, "transfer"), o.op = "scatter",
         plans' = plans, streams' = streams,
         ended'[r]["transfer"] = ended[r]["transfer"] + 1,
         ended'[r]["caller"] = ended[r]["caller"],
         r \in plans[o.bucket] => compute'[r][o.slot] = <<o.bucket, o.step, "input">>,
         \A s \in Slots : s # o.slot => compute'[r][s] = compute[r][s]
  PROVE  ComputeHolds(r)'
<1> DEFINE q == streams[r]
           t == OnTransfer(q)
           c == OnCaller(q)
           x == ended[r]["transfer"]
           y == ended[r]["caller"]
           Updated(w) == \E j \in 1..y : c[j].op = "compute" /\ SameWork(c[j], w)
           Held(n, i) ==
             /\ t[i].op = "scatter" /\ r \in plans[t[i].bucket]
             /\ \A g \in i + 1..n : ~(t[g].op = "gather" /\ SameWork(t[g], t[i]))
           Content(i) ==
             <<t[i].bucket, t[i].step, IF Updated(t[i]) THEN "update" ELSE "input">>
<1>1. x \in Nat /\ o = t[x + 1] /\ DOMAIN t = 1..Len(t) /\ Len(t) \in Nat /\ x < Len(t)
  BY NextTransfer
<1>2. ~Updated(o) /\ \A i \in 1..x : Held(x, i) => t[i].slot # o.slot
  BY SlotEmpty DEF ComputeEnded, Holds
<1>3. \A i \in 1..x : Held(x, i) => compute[r][t[i].slot] = Content(i)
  BY DEF ComputeHolds, Holds, ComputeEnded
<1>4. \A i \in DOMAIN t : t[i].slot \in Slots
  BY DEF Structure, PlannedWork
<1>5. SUFFICES ASSUME NEW i \in 1..x + 1, Held(x + 1, i)
               PROVE  compute'[r][t[i].slot] = Content(i)
  BY DEF ComputeHolds, Holds, ComputeEnded, SameWork
<1> HIDE DEF q, t, c, x, y
<1>6. CASE i = x + 1
  <2>1. r \in plans[o.bucket] /\ t[i] = o
    BY <1>1, <1>5, <1>6
  <2> HIDE DEF Updated
  <2> QED
    BY <1>2, <2>1
<1>7. CASE i \in 1..x
  <2>1. Held(x, i)
    BY <1>1, <1>5, <1>7
  <2>2. i \in DOMAIN t
    BY <1>1, <1>7
  <2> HIDE DEF Held, Updated
  <2>3. t[i].slot \in Slots /\ t[i].slot # o.slot /\ compute[r][t[i].slot] = Content(i)
    BY <1>2, <1>3, <1>4, <1>7, <2>1, <2>2
  <2> QED
    BY <2>3
<1> QED
  BY <1>1, <1>6, <1>7

LEMMA ComputeUpdated ==
  ASSUME RaceInv, NEW r \in Ranks, Structure(streams[r]), EndedInOrder(r), ComputeHolds(r),
         CanRun(r, "caller"), NEW o, o = NextOp(r, "caller"), o.op = "compute",
         plans' = plans, streams' = streams,
         ended'[r]["caller"] = ended[r]["caller"] + 1,
         ended'[r]["transfer"] = ended[r]["transfer"],
         r \notin plans[o.bucket] => compute'[r] = compute[r],
         r \in plans[o.bucket] =>
           /\ compute'[r][o.slot] = <<o.bucket, o.step, "update">>
           /\ \A s \in Slots : s # o.slot => compute'[r][s] = compute[r][s]
  PROVE  ComputeHolds(r)'
<1> DEFINE q == streams[r]
           t == OnTransfer(q)
           c == OnCaller(q)
           x == ended[r]["transfer"]
           y == ended[r]["caller"]
           Updated(n, w) == \E j \in 1..n : c[j].op = "compute" /\ SameWork(c[j], w)
           Held(i) ==
             /\ t[i].op = "scatter" /\ r \in plans[t[i].bucket]
             /\ \A g \in i + 1..x : ~(t[g].op = "gather" /\ SameWork(t[g], t[i]))
           Content(n, i) ==
             <<t[i].bucket, t[i].step, IF Updated(n, t[i]) THEN "update" ELSE "input">>
<1>1. y \in Nat /\ o = c[y + 1] /\ DOMAIN c = 1..Len(c) /\ Len(c) \in Nat /\ y < Len(c)
  BY NextCall
<1>2. r \in plans[o.bucket] =>
        \A i \in 1..x : Held(i) /\ t[i].slot = o.slot => SameWork(t[i], o)
  BY InputFound DEF Holds
<1>3. \A i \in 1..x : Held(i) => compute[r][t[i].slot] = Content(y, i)
  BY DEF ComputeHolds, Holds, ComputeEnded
<1>4. \A i \in 1..x : i \in DOMAIN t
  BY RankTypes DEF EndedInOrder
<1>5. \A i \in 1..x : t[i].slot \in Slots
  BY <1>4 DEF Structure, PlannedWork
<1>6. SUFFICES ASSUME NEW i \in 1..x, Held(i)
               PROVE  compute'[r][t[i].slot] = Content(y + 1, i)
  BY DEF ComputeHolds, Holds, ComputeEnded, SameWork
<1> HIDE DEF q, t, c, x, y
<1>7. Updated(y + 1, t[i]) <=> Updated(y, t[i]) \/ SameWork(o, t[i])
  <2>1. \A j : j \in 1..y + 1 <=> j \in 1..y \/ j = y + 1
    BY <1>1
  <2> QED
    BY <1>1, <2>1
<1>8. r \in plans[t[i].bucket]
  BY <1>6
<1> HIDE DEF Updated, Held
<1>9. CASE SameWork(o, t[i])
  <2>1. t[i].slot = o.slot /\ t[i].bucket = o.bucket /\ t[i].step = o.step
    BY <1>9 DEF SameWork
  <2> QED
    BY <1>7, <1>8, <1>9, <2>1
<1>10. CASE ~SameWork(o, t[i])
  <2>1. compute[r][t[i].slot] = Content(y + 1, i)
    BY <1>3, <1>6, <1>7, <1>10
  <2>2. r \in plans[o.bucket] => t[i].slot # o.slot
    BY <1>2, <1>6, <1>10 DEF SameWork
  <2>3. compute'[r][t[i].slot] = compute[r][t[i].slot]
    BY <1>5, <2>2
  <2> QED
    BY <2>1, <2>3
<1> QED
  BY <1>9, <1>10
-------------------------------------------------------------------------------
(* The data after a step of the device.                                    *)

LEMMA StepOfRank ==
  ASSUME RaceInv, DataInv, NEW r \in Ranks, NEW st \in Streams, Done(r, st),
         plans' = plans, streams' = streams,
         st = "transfer" => NextOp(r, "transfer").op \notin {"scatter", "gather"},
         RankData(r)', DataTypes',
         \A p \in Ranks : p # r =>
           /\ storage'[p] = storage[p] /\ compute'[p] = compute[p]
           /\ backwards'[p] = backwards[p] /\ version'[p] = version[p]
  PROVE  DataInv'
<1>1. /\ ended'[r][st] = ended[r][st] + 1
      /\ ended'[r][Other(st)] = ended[r][Other(st)]
      /\ \A p \in Ranks : p # r => ended'[p] = ended[p]
  BY DoneFacts
<1>2. ASSUME NEW p \in Ranks PROVE RankData(p)'
  <2>1. CASE p = r
    BY <2>1
  <2>2. CASE p # r
    BY <1>1, <2>2, OtherRank DEF DataInv
  <2> QED
    BY <2>1, <2>2
<1>3. \A p \in Ranks : ended[p]["transfer"] \in Nat
  BY RankTypes
<1>4. \A p \in Ranks : ended'[p]["transfer"] =
        IF p = r /\ st = "transfer" THEN ended[p]["transfer"] + 1 ELSE ended[p]["transfer"]
  BY <1>1 DEF Streams, Other
<1>5. ExchangedTogether'
  <2> SUFFICES ASSUME NEW a \in Ranks, NEW b \in Ranks, NEW i \in 1..ended'[a]["transfer"],
                      OnTransfer(streams[a])[i].op \in {"scatter", "gather"}
               PROVE  i <= ended'[b]["transfer"]
    BY DEF ExchangedTogether
  <2>1. i \in 1..ended[a]["transfer"]
    <3>1. CASE a = r /\ st = "transfer"
      <4>1. NextOp(r, "transfer") = OnTransfer(streams[r])[ended[r]["transfer"] + 1]
        BY DEF NextOp, OnTransfer
      <4>2. i # ended[r]["transfer"] + 1
        BY <3>1, <4>1
      <4> QED
        BY <1>3, <1>4, <3>1, <4>2
    <3>2. CASE ~(a = r /\ st = "transfer")
      BY <1>4, <3>2
    <3> QED
      BY <3>1, <3>2
  <2>2. i <= ended[b]["transfer"]
    BY <2>1 DEF DataInv, ExchangedTogether
  <2> QED
    BY <1>3, <1>4, <2>2
<1> QED
  BY <1>2, <1>5 DEF DataInv

LEMMA PrepareData ==
  ASSUME RaceInv, FlowInv, DataInv, NEW r \in Ranks, Prepare(r)
  PROVE  DataInv'
<1> DEFINE o == NextOp(r, "transfer")
           t == OnTransfer(streams[r])
           x == ended[r]["transfer"]
           v == <<o.bucket, backwards[r], "input">>
<1>1. /\ Structure(streams[r]) /\ RankData(r) /\ EndedInOrder(r) /\ Gradients(r)
      /\ ComputeHolds(r) /\ DataTypes
  BY DEF FlowInv, RankFlow, DataInv, RankData
<1>2. /\ CanRun(r, "transfer") /\ o.op = "prepare" /\ Done(r, "transfer")
      /\ storage' = [storage EXCEPT ![r][o.slot] = v]
      /\ plans' = plans /\ streams' = streams /\ compute' = compute
      /\ backwards' = backwards /\ version' = version
  BY DEF Prepare, Runs
<1>3. "transfer" \in Streams /\ Other("transfer") = "caller"
  BY DEF Streams, Other
<1>4. /\ ended'[r]["transfer"] = x + 1 /\ ended'[r]["caller"] = ended[r]["caller"]
      /\ x \in Nat /\ o = t[x + 1] /\ o.slot \in Slots /\ o.step = backwards[r]
  BY <1>1, <1>2, <1>3, DoneFacts, NextTransfer, TransferIsOfStep
<1>5. /\ Table(storage', Slots) /\ storage'[r][o.slot] = v
      /\ \A p \in Ranks : p # r => storage'[p] = storage[p]
  <2> HIDE DEF o, v
  <2>1. Table(storage, Slots)
    BY <1>1 DEF DataTypes
  <2> QED
    BY <1>2, <1>4, <2>1 DEF Table
<1>6. DataTypes'
  BY <1>1, <1>2, <1>5 DEF DataTypes, Table, Items, ItemsOf
<1>7. StorageHolds(r)'
  <2>1. storage'[r][t[x + 1].slot] = <<t[x + 1].bucket, t[x + 1].step, "input">>
          /\ t[x + 1].op = "prepare"
    BY <1>2, <1>4, <1>5
  <2> QED
    BY <1>2, <1>4, <2>1 DEF StorageHolds
<1>8. ComputeHolds(r)'
  BY <1>1, <1>2, <1>4, ComputeStays
<1>9. RankData(r)'
  <2>1. \A i \in Items : version'[r][i] =
          IF o.op = "finalize" /\ i = <<o.bucket, "resharded">> THEN backwards[r]
          ELSE version[r][i]
    BY <1>2
  <2> HIDE DEF o
  <2> QED
    BY <1>1, <1>2, <1>4, <1>7, <1>8, <2>1, TransferStep DEF o
<1> QED
  BY <1>2, <1>3, <1>5, <1>6, <1>9, StepOfRank

LEMMA FinalizeData ==
  ASSUME RaceInv, FlowInv, DataInv, NEW r \in Ranks, Finalize(r)
  PROVE  /\ DataInv'
         /\ LET o == NextOp(r, "transfer")
            IN version' = [version EXCEPT ![r][<<o.bucket, "resharded">>] = backwards[r]]
<1> DEFINE o == NextOp(r, "transfer")
           t == OnTransfer(streams[r])
           x == ended[r]["transfer"]
           value == storage[r][o.slot]
           k == <<o.bucket, "resharded">>
<1>1. /\ Structure(streams[r]) /\ RankData(r) /\ EndedInOrder(r) /\ Gradients(r)
      /\ StorageHolds(r) /\ ComputeHolds(r) /\ DataTypes
  BY DEF FlowInv, RankFlow, DataInv, RankData
<1>2. /\ CanRun(r, "transfer") /\ o.op = "finalize" /\ Done(r, "transfer")
      /\ version' = [version EXCEPT ![r][k] =
           IF value[1] = o.bucket /\ value[3] = "update" THEN value[2] ELSE -1]
      /\ plans' = plans /\ streams' = streams /\ compute' = compute
      /\ backwards' = backwards /\ storage' = storage
  BY DEF Finalize, Runs
<1>3. "transfer" \in Streams /\ Other("transfer") = "caller"
  BY DEF Streams, Other
<1>4. /\ ended'[r]["transfer"] = x + 1 /\ ended'[r]["caller"] = ended[r]["caller"]
      /\ x \in Nat /\ o = t[x + 1] /\ Planned(o.bucket) /\ o.step = backwards[r]
  BY <1>1, <1>2, <1>3, DoneFacts, NextTransfer, TransferIsOfStep
<1>5. value = <<o.bucket, o.step, "update">>
  BY <1>1, <1>2, StorageFound
<1>6. version' = [version EXCEPT ![r][k] = backwards[r]]
  <2> HIDE DEF o, value, k
  <2> QED
    BY <1>2, <1>4, <1>5
<1>7. k \in Items
  BY <1>4 DEF Items, ItemsOf, Planned, IsLocal
<1>8. /\ Table(version', Items) /\ version'[r][k] = backwards[r]
      /\ \A i \in Items : i # k => version'[r][i] = version[r][i]
      /\ \A p \in Ranks : p # r => version'[p] = version[p]
  <2> HIDE DEF o, k
  <2>1. Table(version, Items)
    BY <1>1 DEF DataTypes
  <2> QED
    BY <1>6, <1>7, <2>1 DEF Table
<1>9. DataTypes'
  BY <1>1, <1>2, <1>8 DEF DataTypes, Table, Items, ItemsOf
<1>10. StorageHolds(r)'
  BY <1>2, <1>4 DEF StorageHolds
<1>11. ComputeHolds(r)'
  BY <1>1, <1>2, <1>4, ComputeStays
<1>12. RankData(r)'
  <2>1. \A i \in Items : version'[r][i] =
          IF o.op = "finalize" /\ i = <<o.bucket, "resharded">> THEN backwards[r]
          ELSE version[r][i]
    BY <1>2, <1>8
  <2> HIDE DEF o
  <2> QED
    BY <1>1, <1>2, <1>4, <1>10, <1>11, <2>1, TransferStep DEF o
<1>13. DataInv'
  BY <1>2, <1>3, <1>8, <1>9, <1>12, StepOfRank
<1> QED
  BY <1>6, <1>13

LEMMA ComputeData ==
  ASSUME RaceInv, FlowInv, DataInv, NEW r \in Ranks, Compute(r)
  PROVE  DataInv'
<1> DEFINE o == NextOp(r, "caller")
           value == compute[r][o.slot]
           v == <<o.bucket, o.step, "update">>
           w == IF value[1] = o.bucket /\ value[3] = "input"
                THEN <<o.bucket, value[2], "update">> ELSE Garbage
<1>1. /\ Structure(streams[r]) /\ RankData(r) /\ EndedInOrder(r) /\ Gradients(r)
      /\ ComputeHolds(r) /\ DataTypes
  BY DEF FlowInv, RankFlow, DataInv, RankData
<1>2. /\ CanRun(r, "caller") /\ o.op = "compute" /\ Done(r, "caller")
      /\ compute' =
           IF r \in plans[o.bucket] THEN [compute EXCEPT ![r][o.slot] = w] ELSE compute
      /\ plans' = plans /\ streams' = streams /\ storage' = storage
      /\ backwards' = backwards /\ version' = version
  BY DEF Compute, Runs
<1>3. "caller" \in Streams /\ Other("caller") = "transfer"
  BY DEF Streams, Other
<1>4. /\ ended'[r]["caller"] = ended[r]["caller"] + 1
      /\ ended'[r]["transfer"] = ended[r]["transfer"]
  BY <1>2, <1>3, DoneFacts
<1>5. o.slot \in Slots /\ (r \in plans[o.bucket] => value = <<o.bucket, o.step, "input">>)
  BY <1>1, <1>2, InputFound
<1>6. r \in plans[o.bucket] => compute' = [compute EXCEPT ![r][o.slot] = v]
  <2>1. ASSUME r \in plans[o.bucket] PROVE w = v
    <3> HIDE DEF o, value
    <3> QED
      BY <1>5, <2>1
  <2> HIDE DEF w, v, o
  <2> QED
    BY <1>2, <2>1
<1>7. Table(compute, Slots)
  BY <1>1 DEF DataTypes
<1>8. r \in plans[o.bucket] =>
        /\ Table(compute', Slots) /\ compute'[r][o.slot] = v
        /\ \A s \in Slots : s # o.slot => compute'[r][s] = compute[r][s]
        /\ \A p \in Ranks : p # r => compute'[p] = compute[p]
  <2> HIDE DEF o, v
  <2> QED
    BY <1>5, <1>6, <1>7 DEF Table
<1>9. r \notin plans[o.bucket] => compute' = compute
  BY <1>2
<1> HIDE DEF value, w
<1>10. Table(compute', Slots) /\ \A p \in Ranks : p # r => compute'[p] = compute[p]
  BY <1>7, <1>8, <1>9
<1>11. DataTypes'
  BY <1>1, <1>2, <1>10 DEF DataTypes, Table, Items, ItemsOf
<1>12. ComputeHolds(r)'
  <2> HIDE DEF o
  <2> QED
    BY <1>1, <1>2, <1>4, <1>8, <1>9, ComputeUpdated DEF o
<1>13. RankData(r)'
  <2>1. \A i \in Items : version'[r][i] =
          IF o.op = "ready_items" /\ i = <<o.bucket, "ready">> THEN backwards[r]
          ELSE version[r][i]
    BY <1>2
  <2>2. backwards'[r] = IF o.op = "backward" THEN backwards[r] + 1 ELSE backwards[r]
    BY <1>2
  <2> HIDE DEF o
  <2> QED
    BY <1>1, <1>2, <1>4, <1>12, <2>1, <2>2, CallStep DEF o
<1> QED
  BY <1>2, <1>3, <1>10, <1>11, <1>13, StepOfRank
LEMMA ReadyItemsData ==
  ASSUME RaceInv, FlowInv, DataInv, NEW r \in Ranks, ComputeReadyItems(r)
  PROVE  DataInv'
<1> DEFINE o == NextOp(r, "caller")
           c == OnCaller(streams[r])
           y == ended[r]["caller"]
           k == <<o.bucket, "ready">>
<1>1. /\ Structure(streams[r]) /\ RankData(r) /\ EndedInOrder(r) /\ Gradients(r)
      /\ ComputeHolds(r) /\ DataTypes
  BY DEF FlowInv, RankFlow, DataInv, RankData
<1>2. /\ CanRun(r, "caller") /\ o.op = "ready_items" /\ Done(r, "caller")
      /\ version' = [version EXCEPT ![r][k] = backwards[r]]
      /\ plans' = plans /\ streams' = streams /\ compute' = compute
      /\ backwards' = backwards /\ storage' = storage
  BY DEF ComputeReadyItems, Runs
<1>3. "caller" \in Streams /\ Other("caller") = "transfer"
  BY DEF Streams, Other
<1>4. /\ ended'[r]["caller"] = y + 1 /\ ended'[r]["transfer"] = ended[r]["transfer"]
      /\ y + 1 \in DOMAIN c /\ o = c[y + 1]
  BY <1>2, <1>3, DoneFacts, NextCall
<1>5. k \in Items
  <2>1. o.bucket \in DOMAIN plans
    BY <1>1, <1>2, <1>4 DEF Structure, PlannedWork
  <2> QED
    BY <2>1 DEF Items, ItemsOf
<1>6. /\ Table(version', Items) /\ version'[r][k] = backwards[r]
      /\ \A i \in Items : i # k => version'[r][i] = version[r][i]
      /\ \A p \in Ranks : p # r => version'[p] = version[p]
  <2> HIDE DEF o, k
  <2>1. Table(version, Items)
    BY <1>1 DEF DataTypes
  <2> QED
    BY <1>2, <1>5, <2>1 DEF Table
<1>7. DataTypes'
  BY <1>1, <1>2, <1>6 DEF DataTypes, Table, Items, ItemsOf
<1>8. ComputeHolds(r)'
  BY <1>1, <1>2, <1>4, ComputeStays
<1>9. RankData(r)'
  <2>1. \A i \in Items : version'[r][i] =
          IF o.op = "ready_items" /\ i = <<o.bucket, "ready">> THEN backwards[r]
          ELSE version[r][i]
    BY <1>2, <1>6
  <2>2. backwards'[r] = IF o.op = "backward" THEN backwards[r] + 1 ELSE backwards[r]
    BY <1>2
  <2> HIDE DEF o
  <2> QED
    BY <1>1, <1>2, <1>4, <1>8, <2>1, <2>2, CallStep DEF o
<1> QED
  BY <1>2, <1>3, <1>6, <1>7, <1>9, StepOfRank

LEMMA BackwardData ==
  ASSUME RaceInv, FlowInv, DataInv, NEW r \in Ranks, ForwardBackward(r) \/ ReuseMemory(r)
  PROVE  DataInv'
<1> DEFINE o == NextOp(r, "caller")
           b == IF o.op = "backward" THEN backwards[r] + 1 ELSE backwards[r]
<1>1. /\ Structure(streams[r]) /\ RankData(r) /\ EndedInOrder(r) /\ Gradients(r)
      /\ ComputeHolds(r) /\ DataTypes /\ DOMAIN backwards = Ranks
  BY DEF FlowInv, RankFlow, DataInv, RankData, DataTypes
<1>2. /\ CanRun(r, "caller") /\ o.op \in {"backward", "reuse"} /\ Done(r, "caller")
      /\ plans' = plans /\ streams' = streams /\ compute' = compute
      /\ storage' = storage /\ version' = version
  BY DEF ForwardBackward, ReuseMemory, Runs
<1>3. /\ DOMAIN backwards' = Ranks /\ backwards'[r] = b
      /\ \A p \in Ranks : p # r => backwards'[p] = backwards[p]
  <2>1. CASE ForwardBackward(r)
    BY <1>1, <2>1 DEF ForwardBackward, Runs
  <2>2. CASE ReuseMemory(r)
    BY <1>1, <2>2 DEF ReuseMemory, Runs
  <2> QED
    BY <2>1, <2>2
<1>4. "caller" \in Streams /\ Other("caller") = "transfer"
  BY DEF Streams, Other
<1>5. /\ ended'[r]["caller"] = ended[r]["caller"] + 1
      /\ ended'[r]["transfer"] = ended[r]["transfer"]
  BY <1>2, <1>4, DoneFacts
<1>6. DataTypes'
  BY <1>1, <1>2, <1>3 DEF DataTypes, Table, Items, ItemsOf
<1>7. ComputeHolds(r)'
  BY <1>1, <1>2, <1>5, ComputeStays
<1>8. RankData(r)'
  <2>1. \A i \in Items : version'[r][i] =
          IF o.op = "ready_items" /\ i = <<o.bucket, "ready">> THEN backwards[r]
          ELSE version[r][i]
    BY <1>2
  <2> HIDE DEF o
  <2> QED
    BY <1>1, <1>2, <1>3, <1>5, <1>7, <2>1, CallStep DEF o
<1> QED
  BY <1>2, <1>3, <1>4, <1>6, <1>8, StepOfRank

(* All ranks come to an exchange at the same place of their streams.       *)
LEMMA ExchangeFacts ==
  ASSUME RaceInv, FlowInv, DataInv, SameTransfers, NEW op \in {"scatter", "gather"},
         Exchange(op), NEW r \in Ranks, NEW p \in Ranks
  PROVE  /\ CanRun(r, "transfer") /\ NextOp(r, "transfer").op = op
         /\ ended[p]["transfer"] = ended[r]["transfer"]
         /\ NextOp(p, "transfer") = NextOp(r, "transfer")
<1>1. \A a \in Ranks : CanRun(a, "transfer") /\ NextOp(a, "transfer").op = op
  BY DEF Exchange, Runs
<1>2. \A a \in Ranks :
        LET t == OnTransfer(streams[a])
            x == ended[a]["transfer"]
        IN /\ x + 1 \in DOMAIN t /\ x \in Nat /\ DOMAIN t = 1..Len(t) /\ Len(t) \in Nat
           /\ NextOp(a, "transfer") = t[x + 1]
  BY <1>1, NextTransfer DEF FlowInv, RankFlow, DataInv, RankData
<1>3. ASSUME NEW a \in Ranks, NEW b \in Ranks, ended[a]["transfer"] < ended[b]["transfer"]
      PROVE  FALSE
  <2> DEFINE i == ended[a]["transfer"] + 1
  <2>1. i \in 1..ended[b]["transfer"] /\ i \in DOMAIN OnTransfer(streams[b])
    <3> DEFINE x == ended[a]["transfer"]
               y == ended[b]["transfer"]
               l == Len(OnTransfer(streams[b]))
    <3>1. /\ x \in Nat /\ y \in Nat /\ x < y /\ l \in Nat
          /\ DOMAIN OnTransfer(streams[b]) = 1..l /\ y + 1 \in 1..l
      BY <1>2, <1>3
    <3> HIDE DEF x, y, l
    <3>2. x + 1 \in 1..y /\ x + 1 \in 1..l
      BY <3>1
    <3> QED
      BY <3>1, <3>2 DEF x, y
  <2>2. OnTransfer(streams[b])[i] = OnTransfer(streams[a])[i]
    BY <1>2, <2>1 DEF SameTransfers
  <2>3. OnTransfer(streams[b])[i].op \in {"scatter", "gather"}
    BY <1>1, <1>2, <2>2
  <2>4. i <= ended[a]["transfer"]
    BY <2>1, <2>3 DEF DataInv, ExchangedTogether
  <2> QED
    BY <1>2, <2>4
<1>4. ended[p]["transfer"] = ended[r]["transfer"]
  BY <1>2, <1>3
<1>5. NextOp(p, "transfer") = NextOp(r, "transfer")
  <2> DEFINE i == ended[r]["transfer"] + 1
  <2>1. /\ i \in DOMAIN OnTransfer(streams[r]) /\ i \in DOMAIN OnTransfer(streams[p])
        /\ NextOp(r, "transfer") = OnTransfer(streams[r])[i]
        /\ NextOp(p, "transfer") = OnTransfer(streams[p])[i]
    BY <1>2, <1>4
  <2> HIDE DEF i
  <2> QED
    BY <2>1 DEF SameTransfers
<1> QED
  BY <1>1, <1>4, <1>5

LEMMA MergeSame ==
  ASSUME NEW S, NEW f, S # {}, NEW v, \A q \in S : f[q] = v
  PROVE  Merge({f[q] : q \in S}) = v
<1>1. {f[q] : q \in S} = {v}
  OBVIOUS
<1>2. Merge({v}) = v
  BY DEF Merge
<1> QED
  BY <1>1, <1>2

LEMMA ExchangeStep ==
  ASSUME RaceInv, FlowInv, DataInv, SameTransfers, NEW op \in {"scatter", "gather"},
         Exchange(op), ExchangeDone, Table(storage', Slots), Table(compute', Slots),
         \A r \in Ranks : StorageHolds(r)' /\ ComputeHolds(r)'
  PROVE  DataInv'
<1>1. /\ \A r \in Ranks : CanRun(r, "transfer") /\ NextOp(r, "transfer").op = op
      /\ \A r, p \in Ranks : ended[p]["transfer"] = ended[r]["transfer"]
  BY ExchangeFacts
<1>2. /\ plans' = plans /\ streams' = streams /\ backwards' = backwards
      /\ version' = version
      /\ \A r \in Ranks : /\ ended'[r]["transfer"] = ended[r]["transfer"] + 1
                          /\ ended'[r]["caller"] = ended[r]["caller"]
  BY DEF ExchangeDone, RaceInv, Streams
<1>3. ASSUME NEW r \in Ranks PROVE RankData(r)'
  <2> DEFINE o == NextOp(r, "transfer")
  <2>1. Structure(streams[r]) /\ RankData(r)
    BY DEF FlowInv, RankFlow, DataInv
  <2>2. \A i \in Items : version'[r][i] =
          IF o.op = "finalize" /\ i = <<o.bucket, "resharded">> THEN backwards[r]
          ELSE version[r][i]
    BY <1>1, <1>2
  <2>3. StorageHolds(r)' /\ ComputeHolds(r)' /\ CanRun(r, "transfer")
    BY <1>1
  <2> HIDE DEF o
  <2> QED
    BY <1>2, <2>1, <2>2, <2>3, TransferStep DEF o
<1>4. DataTypes'
  BY <1>2 DEF DataInv, DataTypes, Table, Items, ItemsOf
<1>5. ExchangedTogether'
  <2> SUFFICES ASSUME NEW a \in Ranks, NEW b \in Ranks, NEW i \in 1..ended'[a]["transfer"],
                      OnTransfer(streams[a])[i].op \in {"scatter", "gather"}
               PROVE  i <= ended'[b]["transfer"]
    BY <1>2 DEF ExchangedTogether
  <2>1. ended'[a]["transfer"] = ended'[b]["transfer"] /\ ended[a]["transfer"] \in Nat
    BY <1>1, <1>2, RankTypes
  <2> QED
    BY <1>2, <2>1
<1> QED
  BY <1>3, <1>4, <1>5 DEF DataInv

LEMMA ScatterData ==
  ASSUME RaceInv, FlowInv, DataInv, SameTransfers, Scatter
  PROVE  DataInv'
<1>1. /\ Exchange("scatter") /\ ExchangeDone /\ storage' = storage
      /\ plans' = plans /\ streams' = streams
      /\ \A r \in Ranks : /\ ended'[r]["transfer"] = ended[r]["transfer"] + 1
                          /\ ended'[r]["caller"] = ended[r]["caller"]
  BY DEF Scatter, ExchangeDone, RaceInv, Streams
<1>2. \A r \in Ranks :
        /\ CanRun(r, "transfer") /\ Structure(streams[r]) /\ RankData(r) /\ EndedInOrder(r)
        /\ StorageHolds(r) /\ ComputeHolds(r) /\ NextOp(r, "transfer").op = "scatter"
  BY <1>1, ExchangeFacts DEF FlowInv, RankFlow, DataInv, RankData
<1>3. \A r \in Ranks :
        LET o == NextOp(r, "transfer")
        IN storage[r][o.slot] = <<o.bucket, o.step, "input">>
  BY <1>2, StorageFound
<1>4. DOMAIN compute' = Ranks /\ \A r \in Ranks : compute'[r] =
        LET o == NextOp(r, "transfer")
        IN IF r \in plans[o.bucket]
           THEN [compute[r] EXCEPT ![o.slot] =
                   Merge({storage[q][NextOp(q, "transfer").slot] : q \in Ranks})]
           ELSE compute[r]
  BY DEF Scatter
<1>5. ASSUME NEW r \in Ranks
      PROVE  LET o == NextOp(r, "transfer")
             IN Merge({storage[q][NextOp(q, "transfer").slot] : q \in Ranks}) =
                  <<o.bucket, o.step, "input">>
  <2> DEFINE o == NextOp(r, "transfer")
             v == <<o.bucket, o.step, "input">>
             f == [q \in Ranks |-> storage[q][NextOp(q, "transfer").slot]]
  <2>1. \A q \in Ranks : NextOp(q, "transfer") = o
    BY <1>1, ExchangeFacts
  <2>2. \A q \in Ranks : f[q] = v
    BY <1>3, <2>1
  <2>3. {storage[q][NextOp(q, "transfer").slot] : q \in Ranks} = {f[q] : q \in Ranks}
    OBVIOUS
  <2> HIDE DEF v, f
  <2>4. Merge({f[q] : q \in Ranks}) = v
    BY <2>2, MergeSame
  <2> QED
    BY <2>3, <2>4 DEF v
<1>6. ASSUME NEW r \in Ranks
      PROVE  /\ DOMAIN compute'[r] = Slots /\ ComputeHolds(r)'
  <2> DEFINE o == NextOp(r, "transfer")
             m == Merge({storage[q][NextOp(q, "transfer").slot] : q \in Ranks})
             v == <<o.bucket, o.step, "input">>
  <2>1. compute'[r] = IF r \in plans[o.bucket] THEN [compute[r] EXCEPT ![o.slot] = m]
                      ELSE compute[r]
    BY <1>4
  <2>2. m = v
    BY <1>5
  <2>3. o.slot \in Slots /\ DOMAIN compute[r] = Slots
    BY <1>2, NextTransfer DEF DataInv, DataTypes, Table
  <2> HIDE DEF m, v, o
  <2>4. DOMAIN compute'[r] = Slots
    BY <2>1, <2>3
  <2>5. r \in plans[o.bucket] => compute'[r][o.slot] = v
    BY <2>1, <2>2, <2>3
  <2>6. \A s \in Slots : s # o.slot => compute'[r][s] = compute[r][s]
    BY <2>1, <2>3
  <2>7. ComputeHolds(r)'
    BY <1>1, <1>2, <2>5, <2>6, ComputeArrives DEF o, v
  <2> QED
    BY <2>4, <2>7
<1>7. ASSUME NEW r \in Ranks PROVE StorageHolds(r)'
  <2> DEFINE x == ended[r]["transfer"]
  <2>1. OnTransfer(streams[r])[x + 1].op = "scatter"
    BY <1>2 DEF NextOp, OnTransfer
  <2> QED
    BY <1>1, <2>1 DEF StorageHolds
<1>8. Table(storage', Slots) /\ Table(compute', Slots)
  BY <1>1, <1>4, <1>6 DEF Table, DataInv, DataTypes
<1> QED
  BY <1>1, <1>6, <1>7, <1>8, ExchangeStep

LEMMA GatherData ==
  ASSUME RaceInv, FlowInv, DataInv, SameTransfers, Gather
  PROVE  DataInv'
<1>1. /\ Exchange("gather") /\ ExchangeDone /\ compute' = compute
      /\ plans' = plans /\ streams' = streams
      /\ \A r \in Ranks : /\ ended'[r]["transfer"] = ended[r]["transfer"] + 1
                          /\ ended'[r]["caller"] = ended[r]["caller"]
  BY DEF Gather, ExchangeDone, RaceInv, Streams
<1>2. \A r \in Ranks :
        /\ CanRun(r, "transfer") /\ Structure(streams[r]) /\ RankData(r) /\ EndedInOrder(r)
        /\ ComputeHolds(r) /\ NextOp(r, "transfer").op = "gather"
  BY <1>1, ExchangeFacts DEF FlowInv, RankFlow, DataInv, RankData
<1>3. DOMAIN storage' = Ranks /\ \A r \in Ranks : storage'[r] =
        LET o == NextOp(r, "transfer")
        IN [storage[r] EXCEPT ![o.slot] =
              Merge({compute[q][NextOp(q, "transfer").slot] : q \in plans[o.bucket]})]
  BY DEF Gather
<1>4. ASSUME NEW r \in Ranks
      PROVE  LET o == NextOp(r, "transfer")
             IN Merge({compute[q][NextOp(q, "transfer").slot] : q \in plans[o.bucket]}) =
                  <<o.bucket, o.step, "update">>
  <2> DEFINE o == NextOp(r, "transfer")
             v == <<o.bucket, o.step, "update">>
             S == plans[o.bucket]
             f == [q \in S |-> compute[q][NextOp(q, "transfer").slot]]
  <2>1. \A q \in Ranks : NextOp(q, "transfer") = o
    BY <1>1, ExchangeFacts
  <2>2. plans[o.bucket] # {} /\ plans[o.bucket] \subseteq Ranks
    <3>1. Planned(o.bucket)
      BY <1>2, NextTransfer
    <3>2. plans \in Seq(SUBSET Ranks)
      BY ReshardAssumption DEF RaceInv
    <3> QED
      BY <3>1, <3>2 DEF Planned, IsLocal
  <2>3. ASSUME NEW q \in plans[o.bucket]
        PROVE  f[q] = v
    <3>1. q \in Ranks /\ NextOp(q, "transfer") = o
      BY <2>1, <2>2
    <3>2. compute[q][o.slot] = v
      BY <1>2, <3>1, UpdateFound
    <3> QED
      BY <3>1, <3>2
  <2>4. {compute[q][NextOp(q, "transfer").slot] : q \in plans[o.bucket]}
          = {f[q] : q \in S}
    OBVIOUS
  <2>5. S # {} /\ \A q \in S : f[q] = v
    BY <2>2, <2>3
  <2> HIDE DEF v, f, S
  <2>6. Merge({f[q] : q \in S}) = v
    BY <2>5, MergeSame
  <2> QED
    BY <2>4, <2>6 DEF v
<1>5. ASSUME NEW r \in Ranks
      PROVE  /\ DOMAIN storage'[r] = Slots /\ StorageHolds(r)'
  <2> DEFINE o == NextOp(r, "transfer")
             m == Merge({compute[q][NextOp(q, "transfer").slot] : q \in plans[o.bucket]})
             v == <<o.bucket, o.step, "update">>
             t == OnTransfer(streams[r])
             x == ended[r]["transfer"]
  <2>1. storage'[r] = [storage[r] EXCEPT ![o.slot] = m]
    BY <1>3
  <2>2. m = v
    BY <1>4
  <2>3. o.slot \in Slots /\ DOMAIN storage[r] = Slots /\ o = t[x + 1] /\ o.op = "gather"
    BY <1>2, NextTransfer DEF DataInv, DataTypes, Table
  <2> HIDE DEF m, v, o
  <2>4. DOMAIN storage'[r] = Slots /\ storage'[r][o.slot] = v
    BY <2>1, <2>2, <2>3
  <2>5. storage'[r][t[x + 1].slot] = <<t[x + 1].bucket, t[x + 1].step, "update">>
          /\ t[x + 1].op = "gather"
    BY <2>3, <2>4 DEF v
  <2>6. StorageHolds(r)'
    BY <1>1, <2>5 DEF StorageHolds
  <2> QED
    BY <2>4, <2>6
<1>6. ASSUME NEW r \in Ranks PROVE ComputeHolds(r)'
  BY <1>1, <1>2, ComputeStays
<1>7. Table(storage', Slots) /\ Table(compute', Slots)
  BY <1>1, <1>3, <1>5 DEF Table, DataInv, DataTypes
<1> QED
  BY <1>1, <1>5, <1>6, <1>7, ExchangeStep
LEMMA DataStep ==
  RaceInv /\ RaceInv' /\ FlowInv /\ SamePath /\ DataInv /\ [Next]_vars => DataInv'
<1> SUFFICES ASSUME RaceInv, RaceInv', FlowInv, SamePath, DataInv, [Next]_vars PROVE DataInv'
  OBVIOUS
<1>1. ASSUME NEW r \in Ranks, NEW q, NEW h, Enqueued(r, q, h)
      PROVE  DataInv'
  <2>1. \A p \in Ranks : /\ Extends(OnTransfer(streams[p]), OnTransfer(streams'[p]))
                         /\ Extends(OnCaller(streams[p]), OnCaller(streams'[p]))
    <3> SUFFICES ASSUME NEW p \in Ranks
                 PROVE  /\ Extends(OnTransfer(streams[p]), OnTransfer(streams'[p]))
                        /\ Extends(OnCaller(streams[p]), OnCaller(streams'[p]))
      OBVIOUS
    <3>1. streams'[p] = IF p = r THEN q ELSE streams[p]
      BY <1>1 DEF Enqueued, RaceInv
    <3> QED
      BY <1>1, <3>1, ExtendsReflexive DEF Enqueued
  <2> QED
    BY <1>1, <2>1, HostKeepsData DEF Enqueued
<1>2. ASSUME NEW r \in Ranks, HostNext(r)
      PROVE  DataInv'
  <2> DEFINE a == Advance(<<host[r], streams[r]>>)
  <2>1. Enqueued(r, a[2], a[1])
    BY <1>2, HostEnqueues
  <2> QED
    BY <1>1, <2>1
<1>3. ASSUME NEW r \in Ranks, RunRaises(r)
      PROVE  DataInv'
  <2>1. PICK q, h : Enqueued(r, q, h)
    BY <1>3, RaiseEnqueues
  <2> QED
    BY <1>1, <2>1
<1>4. ASSUME NEW r \in Ranks, DeviceNext(r)
      PROVE  DataInv'
  BY <1>4, PrepareData, FinalizeData, ComputeData, ReadyItemsData, BackwardData
    DEF DeviceNext
<1>5. CASE Scatter \/ Gather
  BY <1>5, TransfersAgree, ScatterData, GatherData
<1>6. CASE UNCHANGED vars
  <2>1. \A p \in Ranks : /\ Extends(OnTransfer(streams[p]), OnTransfer(streams'[p]))
                         /\ Extends(OnCaller(streams[p]), OnCaller(streams'[p]))
    BY <1>6, ExtendsReflexive DEF vars
  <2>2. UNCHANGED <<plans, deviceVars>>
    BY <1>6 DEF vars
  <2> QED
    BY <2>1, <2>2, HostKeepsData
<1> QED
  BY <1>2, <1>3, <1>4, <1>5, <1>6 DEF Next

LEMMA InitData == Init => DataInv
<1> SUFFICES ASSUME Init PROVE DataInv
  OBVIOUS
<1>1. /\ storage = [r \in Ranks |-> [s \in Slots |-> Empty]]
      /\ compute = [r \in Ranks |-> [s \in Slots |-> Empty]]
      /\ backwards = [r \in Ranks |-> 0]
      /\ version = [r \in Ranks |-> [i \in Items |-> 0]]
      /\ ended = [r \in Ranks |-> [st \in Streams |-> 0]]
      /\ \A r \in Ranks : streams[r] = StreamsAtStart
  BY DEF Init, RuntimeInit, StreamsAtStart
<1>2. DataTypes
  BY <1>1 DEF DataTypes, Table
<1>3. \A r \in Ranks : ended[r]["transfer"] = 0 /\ ended[r]["caller"] = 0
  BY <1>1 DEF Streams
<1>4. ExchangedTogether
  BY <1>3 DEF ExchangedTogether
<1>5. ASSUME NEW r \in Ranks PROVE RankData(r)
  <2>1. Len(OnTransfer(streams[r])) = 0 /\ Len(OnCaller(streams[r])) = 0
    BY <1>1 DEF StreamsAtStart, OnTransfer, OnCaller, Streams
  <2>2. EndedInOrder(r) /\ Gradients(r) /\ StorageHolds(r) /\ ComputeHolds(r) /\ UpdatesEnded(r)
    BY <1>1, <1>3, <2>1
      DEF EndedInOrder, Gradients, StorageHolds, ComputeHolds, UpdatesEnded
  <2>3. UpdatesOnlyEnded(r)
    <3>1. \A i \in Items : version[r][i] = 0
      BY <1>1
    <3> QED
      BY <3>1 DEF UpdatesOnlyEnded
  <2> QED
    BY <2>2, <2>3 DEF RankData
<1> QED
  BY <1>2, <1>4, <1>5 DEF DataInv

LEMMA StepsInvStep == StepsInv /\ [Next]_vars => StepsInv'
BY RaceStep, FlowStep, PathStep, DataStep DEF StepsInv

-------------------------------------------------------------------------------
(* The optimizer steps that the device does.                               *)

(* No item is ahead of the gradients, nor more than a step behind.         *)
LEMMA VersionsRecent ==
  ASSUME RaceInv, NEW r \in Ranks, Structure(streams[r]), RankData(r)
  PROVE  /\ backwards[r] \in Nat
         /\ \A i \in Items : /\ version[r][i] \in Nat /\ version[r][i] <= backwards[r]
                             /\ version[r][i] >= backwards[r] - 1
<1> DEFINE q == streams[r]
           t == OnTransfer(q)
           c == OnCaller(q)
           x == ended[r]["transfer"]
           y == ended[r]["caller"]
<1>1. /\ DOMAIN t = 1..Len(t) /\ Len(t) \in Nat /\ DOMAIN c = 1..Len(c) /\ Len(c) \in Nat
      /\ x \in Nat /\ y \in Nat /\ x <= Len(t) /\ y <= Len(c)
      /\ \A j \in DOMAIN c : c[j].step \in Nat /\ c[j].after \in Nat
  BY RankTypes DEF RankData, EndedInOrder
<1>2. /\ backwards[r] \in Nat
      /\ \A j \in 1..y : c[j].step <= backwards[r]
      /\ \A i \in 1..x : t[i].step <= backwards[r]
  BY EndedSteps DEF RankData
<1>3. /\ \A j \in 1..y : c[j].after <= x
      /\ backwards[r] = IF y = 0 THEN 0 ELSE c[y].step
  BY DEF RankData, EndedInOrder, Gradients
<1> HIDE DEF q, t, c, x, y
<1>4. ASSUME NEW i \in Items
      PROVE  version[r][i] \in Nat /\ version[r][i] <= backwards[r]
  <2>1. /\ version[r][i] \in Nat
        /\ version[r][i] > 0 =>
             IF i[2] = "ready" THEN ReadyBy(q, i[1], version[r][i], y)
             ELSE FinalizedBy(q, i[1], version[r][i], x)
    BY DEF RankData, UpdatesOnlyEnded, q, x, y
  <2>2. ASSUME ReadyBy(q, i[1], version[r][i], y) PROVE version[r][i] <= backwards[r]
    BY <1>1, <1>2, <2>2 DEF ReadyBy, c
  <2>3. ASSUME FinalizedBy(q, i[1], version[r][i], x) PROVE version[r][i] <= backwards[r]
    BY <1>1, <1>2, <2>3 DEF FinalizedBy, t
  <2> QED
    BY <1>2, <2>1, <2>2, <2>3
<1>5. ASSUME NEW i \in Items
      PROVE  version[r][i] >= backwards[r] - 1
  <2>1. CASE backwards[r] <= 1
    BY <1>2, <1>4, <2>1
  <2>2. CASE backwards[r] > 1
    <3>1. y > 0 /\ y \in DOMAIN c /\ c[y].step = backwards[r]
      BY <1>1, <1>2, <1>3, <2>2
    <3>2. PICK j \in DOMAIN c : j <= y /\ c[j].op = "backward" /\ c[j].step = backwards[r]
      BY <3>1 DEF Structure, StepsFollow, BackwardBy, q, c
    <3>3. j \in 1..y /\ c[j].after <= x
      BY <1>1, <1>3, <3>2
    <3>4. \A b \in DOMAIN plans :
            /\ ReadyBy(q, b, backwards[r] - 1, j)
            /\ ~IsLocal(b) => FinalizedBy(q, b, backwards[r] - 1, c[j].after)
      BY <2>2, <3>2 DEF Structure, StepsComplete, q, c
    <3>5. PICK b \in DOMAIN plans :
            i = <<b, "ready">> \/ (i = <<b, "resharded">> /\ ~IsLocal(b))
      BY DEF Items, ItemsOf, IsLocal
    <3>6. CASE i = <<b, "ready">>
      <4>1. PICK k \in DOMAIN c : /\ k <= j /\ c[k].op = "ready_items"
                                  /\ c[k].bucket = b /\ c[k].step = backwards[r] - 1
        BY <3>4 DEF ReadyBy, c
      <4>2. k \in 1..y
        BY <1>1, <3>3, <4>1
      <4> QED
        BY <3>6, <4>1, <4>2 DEF RankData, UpdatesEnded, q, c, y
    <3>7. CASE i = <<b, "resharded">> /\ ~IsLocal(b)
      <4>1. PICK k \in DOMAIN t : /\ k <= c[j].after /\ t[k].op = "finalize"
                                  /\ t[k].bucket = b /\ t[k].step = backwards[r] - 1
        BY <3>4, <3>7 DEF FinalizedBy, t
      <4>2. k \in 1..x
        BY <1>1, <3>2, <3>3, <4>1
      <4> QED
        BY <3>7, <4>1, <4>2 DEF RankData, UpdatesEnded, q, t, x
    <3> QED
      BY <3>5, <3>6, <3>7
  <2> QED
    BY <1>2, <2>1, <2>2
<1> QED
  BY <1>2, <1>4, <1>5

LEMMA StepPositive ==
  ASSUME NEW q, StreamTypes(q), StepsFollow(q), NEW step, NEW n, BackwardBy(q, step, n)
  PROVE  step > 0
<1> DEFINE c == OnCaller(q)
<1>1. DOMAIN c = 1..Len(c) /\ Len(c) \in Nat /\ \A j \in DOMAIN c : c[j].step \in Nat
  BY StreamFacts DEF Operations
<1>2. PICK j \in DOMAIN c : c[j].op = "backward" /\ c[j].step = step
  BY DEF BackwardBy
<1>3. IF j = 1 THEN c[j].step = 1 ELSE c[j].step = c[j - 1].step + 1
  BY <1>2 DEF StepsFollow
<1> HIDE DEF c
<1>4. j # 1 => j - 1 \in DOMAIN c
  BY <1>1, <1>2
<1>5. j # 1 => c[j - 1].step \in Nat
  BY <1>1, <1>4
<1> QED
  BY <1>2, <1>3, <1>5

LEMMA BackwardImplements ==
  ASSUME StepsInv, NEW r \in Ranks, ForwardBackward(r)
  PROVE  Steps!Backward(r)
<1> DEFINE q == streams[r]
           t == OnTransfer(q)
           c == OnCaller(q)
           x == ended[r]["transfer"]
           y == ended[r]["caller"]
           o == NextOp(r, "caller")
<1>1. RaceInv /\ Structure(q) /\ RankData(r) /\ EndedInOrder(r) /\ Gradients(r)
  BY DEF StepsInv, FlowInv, RankFlow, DataInv, RankData
<1>2. /\ CanRun(r, "caller") /\ o.op = "backward"
      /\ backwards' = [backwards EXCEPT ![r] = @ + 1]
      /\ plans' = plans /\ version' = version
  BY DEF ForwardBackward, Runs
<1>3. /\ y + 1 \in DOMAIN c /\ y \in Nat /\ o = c[y + 1] /\ DOMAIN c = 1..Len(c)
      /\ c[y + 1].after <= x /\ o.step = backwards[r] + 1
  BY <1>1, <1>2, NextCall, CallIsOfStep
<1>4. /\ backwards[r] \in Nat
      /\ \A i \in Items : version[r][i] \in Nat /\ version[r][i] <= backwards[r]
  BY <1>1, VersionsRecent
<1>5. /\ x \in Nat /\ DOMAIN t = 1..Len(t) /\ q.step \in Nat
      /\ \A j \in DOMAIN c : c[j].after \in Nat
  <2>1. q.step \in Nat
    BY <1>1, OpsFacts DEF RaceInv, RankInv, Streams
  <2> QED
    BY <1>1, <2>1, RankTypes
<1>6. c[y + 1].step <= q.step /\ q.step <= NumSteps /\ NumSteps \in Nat
  BY <1>1, <1>3, ReshardAssumption DEF Structure, StepsFollow
<1> HIDE DEF q, t, c, x, y, o
<1>7. backwards[r] < NumSteps
  BY <1>3, <1>4, <1>5, <1>6
<1>8. ASSUME NEW i \in Items, backwards[r] > 0
      PROVE  version[r][i] >= backwards[r]
  <2>1. \A b \in DOMAIN plans :
          /\ ReadyBy(q, b, c[y + 1].step - 1, y + 1)
          /\ ~IsLocal(b) => FinalizedBy(q, b, c[y + 1].step - 1, c[y + 1].after)
    BY <1>1, <1>2, <1>3, <1>4, <1>8 DEF Structure, StepsComplete, c
  <2>2. c[y + 1].step - 1 = backwards[r]
    BY <1>3, <1>4
  <2>3. PICK b \in DOMAIN plans :
          i = <<b, "ready">> \/ (i = <<b, "resharded">> /\ ~IsLocal(b))
    BY DEF Items, ItemsOf, IsLocal
  <2>4. CASE i = <<b, "ready">>
    <3>1. PICK k \in DOMAIN c : /\ k <= y + 1 /\ c[k].op = "ready_items"
                                /\ c[k].bucket = b /\ c[k].step = backwards[r]
      BY <2>1, <2>2 DEF ReadyBy, c
    <3>2. k # y + 1
      BY <1>2, <1>3, <3>1
    <3>3. k \in 1..y
      BY <1>3, <3>1, <3>2
    <3> QED
      BY <1>1, <2>4, <3>1, <3>3 DEF RankData, UpdatesEnded, q, c, y
  <2>5. CASE i = <<b, "resharded">> /\ ~IsLocal(b)
    <3>1. PICK k \in DOMAIN t : /\ k <= c[y + 1].after /\ t[k].op = "finalize"
                                /\ t[k].bucket = b /\ t[k].step = backwards[r]
      BY <2>1, <2>2, <2>5 DEF FinalizedBy, t
    <3>2. k \in 1..x
      BY <1>3, <1>5, <3>1
    <3> QED
      BY <1>1, <2>5, <3>1, <3>2 DEF RankData, UpdatesEnded, q, t, x
  <2> QED
    BY <2>3, <2>4, <2>5
<1>9. \A i \in Items : version[r][i] = backwards[r]
  BY <1>4, <1>8
<1>10. Items' = Items
  BY <1>2 DEF Items, ItemsOf
<1> QED
  BY <1>2, <1>7, <1>9, <1>10 DEF Steps!Backward

LEMMA ReadyItemsImplement ==
  ASSUME StepsInv, NEW r \in Ranks, ComputeReadyItems(r)
  PROVE  \E i \in Items : Steps!Update(r, i)
<1> DEFINE q == streams[r]
           c == OnCaller(q)
           y == ended[r]["caller"]
           o == NextOp(r, "caller")
           k == <<o.bucket, "ready">>
<1>1. RaceInv /\ Structure(q) /\ RankData(r) /\ EndedInOrder(r) /\ Gradients(r)
  BY DEF StepsInv, FlowInv, RankFlow, DataInv, RankData
<1>2. /\ CanRun(r, "caller") /\ o.op = "ready_items"
      /\ version' = [version EXCEPT ![r][k] = backwards[r]]
      /\ plans' = plans /\ backwards' = backwards
  BY DEF ComputeReadyItems, Runs
<1>3. /\ y + 1 \in DOMAIN c /\ y \in Nat /\ o = c[y + 1] /\ DOMAIN c = 1..Len(c)
      /\ o.step = backwards[r]
  BY <1>1, <1>2, NextCall, CallIsOfStep
<1>4. k \in Items
  <2>1. o.bucket \in DOMAIN plans
    BY <1>1, <1>2, <1>3 DEF Structure, PlannedWork
  <2> QED
    BY <2>1 DEF Items, ItemsOf
<1>5. /\ backwards[r] \in Nat /\ version[r][k] \in Nat /\ version[r][k] <= backwards[r]
      /\ version[r][k] >= backwards[r] - 1
  BY <1>1, <1>4, VersionsRecent
<1>6. backwards[r] > 0
  <2>1. StreamTypes(q) /\ StepsFollow(q)
    BY <1>1 DEF RaceInv, RankInv, Structure
  <2>2. BackwardBy(q, c[y + 1].step, y + 1)
    BY <1>3, <2>1 DEF StepsFollow
  <2> QED
    BY <1>3, <2>1, <2>2, StepPositive
<1>7. version[r][k] # backwards[r]
  <2> SUFFICES ASSUME version[r][k] = backwards[r] PROVE FALSE
    OBVIOUS
  <2>1. k[1] = o.bucket /\ k[2] = "ready"
    OBVIOUS
  <2>2. ReadyBy(q, o.bucket, backwards[r], y)
    <3>1. version[r][k] > 0 =>
            IF k[2] = "ready" THEN ReadyBy(q, k[1], version[r][k], y)
            ELSE FinalizedBy(q, k[1], version[r][k], ended[r]["transfer"])
      BY <1>1, <1>4 DEF RankData, UpdatesOnlyEnded
    <3> HIDE DEF k
    <3> QED
      BY <1>6, <2>1, <3>1
  <2>3. PICK j \in DOMAIN c : /\ j <= y /\ c[j].op = "ready_items"
                              /\ c[j].bucket = o.bucket /\ c[j].step = backwards[r]
    BY <2>2 DEF ReadyBy
  <2>4. j < y + 1
    BY <1>3, <2>3
  <2>5. c[j].step < c[y + 1].step
    BY <1>1, <1>2, <1>3, <2>3, <2>4 DEF Structure, CallsOnce, Once
  <2> QED
    BY <1>3, <1>5, <2>3, <2>5
<1>8. version[r][k] = backwards[r] - 1
  BY <1>5, <1>7
<1>9. ~Steps!Resharded(k)
  BY DEF Steps!Resharded
<1>10. Items' = Items
  BY <1>2 DEF Items, ItemsOf
<1> HIDE DEF k
<1> QED
  BY <1>2, <1>4, <1>8, <1>9, <1>10 DEF Steps!Update

LEMMA FinalizeImplements ==
  ASSUME StepsInv, NEW r \in Ranks, Finalize(r)
  PROVE  \E i \in Items : Steps!Update(r, i)
<1> DEFINE q == streams[r]
           t == OnTransfer(q)
           x == ended[r]["transfer"]
           o == NextOp(r, "transfer")
           k == <<o.bucket, "resharded">>
<1>1. /\ RaceInv /\ FlowInv /\ DataInv /\ SameTransfers /\ Structure(q) /\ RankData(r)
      /\ EndedInOrder(r) /\ Gradients(r) /\ StorageHolds(r)
  BY TransfersAgree DEF StepsInv, FlowInv, RankFlow, DataInv, RankData
<1>2. CanRun(r, "transfer") /\ o.op = "finalize" /\ plans' = plans /\ backwards' = backwards
  BY DEF Finalize, Runs
<1>3. version' = [version EXCEPT ![r][k] = backwards[r]]
  BY <1>1, FinalizeData
<1>4. /\ x + 1 \in DOMAIN t /\ x \in Nat /\ o = t[x + 1] /\ DOMAIN t = 1..Len(t)
      /\ Planned(o.bucket) /\ o.step = backwards[r] /\ Len(t) \in Nat
  BY <1>1, <1>2, NextTransfer, TransferIsOfStep
<1>5. k \in Items
  BY <1>4 DEF Items, ItemsOf, Planned, IsLocal
<1>6. /\ backwards[r] \in Nat /\ version[r][k] \in Nat /\ version[r][k] <= backwards[r]
      /\ version[r][k] >= backwards[r] - 1
  BY <1>1, <1>5, VersionsRecent
<1>7. backwards[r] > 0
  <2>1. StreamTypes(q) /\ StepsFollow(q)
    BY <1>1 DEF RaceInv, RankInv, Structure
  <2>2. BackwardBy(q, t[x + 1].step, t[x + 1].after)
    BY <1>1, <1>4 DEF Structure, TransfersInStep
  <2> QED
    BY <1>4, <2>1, <2>2, StepPositive
<1>8. version[r][k] # backwards[r]
  <2> SUFFICES ASSUME version[r][k] = backwards[r] PROVE FALSE
    OBVIOUS
  <2>1. k[1] = o.bucket /\ k[2] # "ready"
    OBVIOUS
  <2>2. FinalizedBy(q, o.bucket, backwards[r], x)
    <3>1. version[r][k] > 0 =>
            IF k[2] = "ready" THEN ReadyBy(q, k[1], version[r][k], ended[r]["caller"])
            ELSE FinalizedBy(q, k[1], version[r][k], x)
      BY <1>1, <1>5 DEF RankData, UpdatesOnlyEnded
    <3> HIDE DEF k
    <3> QED
      BY <1>7, <2>1, <3>1
  <2>3. PICK i \in DOMAIN t : /\ i <= x /\ t[i].op = "finalize"
                              /\ t[i].bucket = o.bucket /\ t[i].step = backwards[r]
    BY <2>2 DEF FinalizedBy
  <2>4. i < x + 1
    BY <1>4, <2>3
  <2>5. t[i].step < t[x + 1].step
    BY <1>1, <1>2, <1>4, <2>3, <2>4 DEF Structure, MovesOnce, Once
  <2> QED
    BY <1>4, <1>6, <2>3, <2>5
<1>9. version[r][k] = backwards[r] - 1
  BY <1>6, <1>8
<1>10. ASSUME NEW p \in Ranks PROVE backwards[p] >= backwards[r]
  <2>1. x > 0 /\ t[x].op = "gather" /\ t[x].step = backwards[r]
    BY <1>1, <1>2, <1>4, StorageFound
  <2>2. x \in 1..x /\ x \in DOMAIN t
    BY <1>4, <2>1
  <2>3. x <= ended[p]["transfer"]
    BY <1>1, <2>1, <2>2 DEF DataInv, ExchangedTogether
  <2>4. /\ Structure(streams[p]) /\ EndedInOrder(p) /\ Gradients(p)
        /\ ended[p]["transfer"] <= Len(OnTransfer(streams[p]))
    BY <1>1 DEF FlowInv, RankFlow, DataInv, RankData, EndedInOrder
  <2>5. /\ \A i \in 1..ended[p]["transfer"] : OnTransfer(streams[p])[i].step <= backwards[p]
        /\ backwards[p] \in Nat
    BY <1>1, <2>4, EndedSteps
  <2>6. x \in 1..ended[p]["transfer"] /\ x \in DOMAIN OnTransfer(streams[p])
    <3>1. /\ ended[p]["transfer"] \in Nat /\ Len(OnTransfer(streams[p])) \in Nat
          /\ DOMAIN OnTransfer(streams[p]) = 1..Len(OnTransfer(streams[p]))
      BY <1>1, RankTypes
    <3> QED
      BY <1>4, <2>1, <2>3, <2>4, <3>1
  <2>7. OnTransfer(streams[p])[x] = t[x]
    BY <1>1, <2>2, <2>6 DEF SameTransfers
  <2>8. OnTransfer(streams[p])[x].step <= backwards[p]
    BY <2>5, <2>6
  <2> QED
    BY <1>6, <2>1, <2>5, <2>7, <2>8
<1>11. Items' = Items
  BY <1>2 DEF Items, ItemsOf
<1> HIDE DEF k
<1> QED
  BY <1>2, <1>3, <1>5, <1>9, <1>10, <1>11 DEF Steps!Update

(* Overlapped or not, a run is a sequence of optimizer steps: every item   *)
(* is updated once per step, from the gradients of that step, the          *)
(* resharded ones from those of all ranks, before the next forward.        *)
THEOREM PipelineImplementsSteps == Spec => ImplementsOptimizerSteps
<1>1. Init => StepsInv
  BY InitRace, InitFlow, InitPath, InitData DEF StepsInv
<1>2. StepsInv /\ [Next]_vars => StepsInv'
  BY StepsInvStep
<1>3. Init => Steps!Init
  BY DEF Init, RuntimeInit, Steps!Init, Items
<1>4. StepsInv /\ [Next]_vars => [Steps!Next]_Steps!vars
  <2> SUFFICES ASSUME StepsInv, [Next]_vars PROVE [Steps!Next]_Steps!vars
    OBVIOUS
  <2>1. ASSUME NEW r \in Ranks, Steps!Backward(r) \/ \E i \in Items : Steps!Update(r, i)
        PROVE  [Steps!Next]_Steps!vars
    BY <2>1 DEF Steps!Next
  <2>2. ASSUME plans' = plans, backwards' = backwards, version' = version
        PROVE  [Steps!Next]_Steps!vars
    BY <2>2 DEF Steps!vars, Items, ItemsOf
  <2>3. ASSUME NEW r \in Ranks, HostNext(r) \/ RunRaises(r)
        PROVE  [Steps!Next]_Steps!vars
    BY <2>2, <2>3 DEF HostNext, TrainStep, RunLocalBucket, RunRedistributedBucket,
                      PrefetchNext, RunReturns, RunRaises, deviceVars
  <2>4. ASSUME NEW r \in Ranks, DeviceNext(r)
        PROVE  [Steps!Next]_Steps!vars
    <3>1. CASE Prepare(r) \/ Compute(r) \/ ReuseMemory(r)
      BY <2>2, <3>1 DEF Prepare, Compute, ReuseMemory
    <3>2. CASE ForwardBackward(r)
      BY <2>1, <3>2, BackwardImplements
    <3>3. CASE ComputeReadyItems(r)
      BY <2>1, <3>3, ReadyItemsImplement
    <3>4. CASE Finalize(r)
      BY <2>1, <3>4, FinalizeImplements
    <3> QED
      BY <2>4, <3>1, <3>2, <3>3, <3>4 DEF DeviceNext
  <2>5. CASE Scatter \/ Gather
    BY <2>2, <2>5 DEF Scatter, Gather, ExchangeDone
  <2>6. CASE UNCHANGED vars
    BY <2>2, <2>6 DEF vars, deviceVars
  <2> QED
    BY <2>3, <2>4, <2>5, <2>6 DEF Next
<1> QED
  BY <1>1, <1>2, <1>3, <1>4, PTL DEF Spec, ImplementsOptimizerSteps, Steps!StepsSpec
===============================================================================
