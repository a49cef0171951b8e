------------------------- MODULE ReshardRuntimeProofs -------------------------
(***************************************************************************)
(* Proofs about the pipelined optimizer, for every number of ranks, slots, *)
(* buckets and steps, every relative speed of hosts and streams and every  *)
(* place where a callback may raise: the two streams of a rank never work  *)
(* on the same memory at the same time.                                    *)
(*                                                                         *)
(* What orders two operations of a rank is decided when they are enqueued, *)
(* so the invariant is about the host and what it has enqueued; the device *)
(* changes none of it.                                                     *)
(***************************************************************************)
EXTENDS ReshardRuntime, SequenceTheorems, TLAPS

-------------------------------------------------------------------------------
(* The invariant.                                                          *)

TransferOps == {"prepare", "scatter", "gather", "finalize"}
CallerOps == {"ready_items", "compute", "backward", "reuse"}
OpNames == [st \in Streams |-> IF st = "transfer" THEN TransferOps ELSE CallerOps]

Work == [bucket : Nat \ {0}, slot : Slots]
AnyWork == [bucket : Nat, slot : 0..NumSlots]
Operations(st) ==
  [op : OpNames[st], bucket : Nat, slot : 0..NumSlots, step : Nat, after : Nat]

StreamTypes(q) ==
  /\ q \in [ops : [Streams -> Seq(Operations("transfer") \union Operations("caller"))],
            barrier : [Streams -> Nat],
            event : [Events \X Slots -> Nat],
            step : Nat]
  /\ \A st \in Streams : q.ops[st] \in Seq(Operations(st))

OnTransfer(q) == q.ops["transfer"]
OnCaller(q) == q.ops["caller"]

(* Operations of the two streams that may touch the same memory.           *)
Conflicting(t, c) ==
  \/ c.op = "compute" /\ t.op \in {"scatter", "gather"} /\ t.slot = c.slot
  \/ c.op = "backward" /\ t.op \in {"prepare", "finalize"}
  \/ c.op = "reuse"

(* One of two such operations waits for the other.                         *)
Ordered(q) ==
  \A i \in DOMAIN OnTransfer(q) : \A j \in DOMAIN OnCaller(q) :
    Conflicting(OnTransfer(q)[i], OnCaller(q)[j]) =>
      OnTransfer(q)[i].after >= j \/ OnCaller(q)[j].after >= i

NoReuse(q) == \A j \in DOMAIN OnCaller(q) : OnCaller(q)[j].op # "reuse"

(* What is enqueued next waits for the operations that it must not meet:   *)
(* on the transfer stream for all backwards, and for all computations but  *)
(* those in the busy slots; in a fetched slot for its exchanges.           *)
BackwardsSeen(q) ==
  \A j \in DOMAIN OnCaller(q) : OnCaller(q)[j].op = "backward" => j <= q.barrier["transfer"]

ComputesSeen(q, busy) ==
  \A j \in DOMAIN OnCaller(q) : OnCaller(q)[j].op = "compute" =>
    \/ j <= q.barrier["transfer"]
    \/ OnCaller(q)[j].slot \in busy /\ j <= q.event[<<"compute_done", OnCaller(q)[j].slot>>]

Fetched(q, slots) ==
  \A i \in DOMAIN OnTransfer(q) :
    OnTransfer(q)[i].op \in {"scatter", "gather"} /\ OnTransfer(q)[i].slot \in slots =>
      i <= q.event[<<"compute_input_ready", OnTransfer(q)[i].slot>>]

TransfersSeen(q) == q.barrier["caller"] >= Len(OnTransfer(q))

Base(q) == StreamTypes(q) /\ Ordered(q) /\ NoReuse(q)

Pipelined(q, busy, slots) ==
  Base(q) /\ BackwardsSeen(q) /\ ComputesSeen(q, busy) /\ Fetched(q, slots)

(* The locals of run(): slots are taken in turn.                           *)
HostTypes(h) ==
  /\ h \in [pc : {"outside", "running", "prefetching", "raised"},
            step : Nat, plan : Nat \ {0}, previous : AnyWork,
            prefetched : Seq(Work), nextPrefetch : Nat \ {0}, redistributed : Nat,
            transferUsed : BOOLEAN]
  /\ Len(h.prefetched) < NumSlots

SlotsInTurn(h) ==
  /\ ~h.transferUsed =>
       /\ h.previous = NoWork /\ h.prefetched = <<>> /\ h.pc # "prefetching"
  /\ h.transferUsed =>
       /\ h.previous \in Work /\ h.redistributed > 0
       /\ h.previous.slot = (h.redistributed - 1) % NumSlots
  /\ \A k \in DOMAIN h.prefetched :
       h.prefetched[k].slot = (h.redistributed + k - 1) % NumSlots
  /\ h.pc = "outside" => ~h.transferUsed
  /\ h.pc = "prefetching" => CanPrefetch(h)

BusySlots(h) == IF h.transferUsed THEN {h.previous.slot} ELSE {}
FetchedSlots(h) == {h.prefetched[k].slot : k \in DOMAIN h.prefetched}

InStep(q, h) ==
  IF h.transferUsed THEN Pipelined(q, BusySlots(h), FetchedSlots(h))
  ELSE Base(q) /\ ComputesSeen(q, {}) /\ TransfersSeen(q)

RankInv(q, h) ==
  /\ HostTypes(h) /\ SlotsInTurn(h)
  /\ StreamTypes(q) /\ Ordered(q)
  /\ h.pc # "raised" => InStep(q, h)

RaceInv ==
  /\ plans \in PlanSets
  /\ DOMAIN host = Ranks /\ DOMAIN streams = Ranks
  /\ ended \in [Ranks -> [Streams -> Nat]]
  /\ \A r \in Ranks : RankInv(streams[r], host[r])
-------------------------------------------------------------------------------
(* What the operators on streams do.                                       *)

LEMMA Constants ==
  NumSlots \in Nat \ {0} /\ Slots \subseteq 0..NumSlots /\ Work \subseteq AnyWork
BY ReshardAssumption DEF Slots, Work, AnyWork

OpOf(q, st, op, w) ==
  [op |-> op, bucket |-> w.bucket, slot |-> w.slot, step |-> q.step,
   after |-> q.barrier[st]]

(* One field of a record is replaced.                                      *)
LEMMA StreamUpdates ==
  ASSUME NEW A, NEW B, NEW C, NEW q \in [ops : A, barrier : B, event : C, step : Nat],
         NEW a \in A, NEW b \in B, NEW c \in C, NEW d \in Nat
  PROVE  /\ [q EXCEPT !.ops = a] \in [ops : A, barrier : B, event : C, step : Nat]
         /\ [q EXCEPT !.ops = a].step = q.step
         /\ [q EXCEPT !.ops = a].ops = a
         /\ [q EXCEPT !.ops = a].barrier = q.barrier
         /\ [q EXCEPT !.ops = a].event = q.event
         /\ [q EXCEPT !.barrier = b] \in [ops : A, barrier : B, event : C, step : Nat]
         /\ [q EXCEPT !.barrier = b].step = q.step
         /\ [q EXCEPT !.barrier = b].ops = q.ops
         /\ [q EXCEPT !.barrier = b].barrier = b
         /\ [q EXCEPT !.barrier = b].event = q.event
         /\ [q EXCEPT !.event = c] \in [ops : A, barrier : B, event : C, step : Nat]
         /\ [q EXCEPT !.event = c].step = q.step
         /\ [q EXCEPT !.event = c].ops = q.ops
         /\ [q EXCEPT !.event = c].barrier = q.barrier
         /\ [q EXCEPT !.event = c].event = c
         /\ [q EXCEPT !.step = d] \in [ops : A, barrier : B, event : C, step : Nat]
         /\ [q EXCEPT !.step = d].step = d
         /\ [q EXCEPT !.step = d].ops = q.ops
         /\ [q EXCEPT !.step = d].barrier = q.barrier
         /\ [q EXCEPT !.step = d].event = q.event
         /\ q.ops \in A /\ q.barrier \in B /\ q.event \in C /\ q.step \in Nat
  OBVIOUS

(* A launch adds one operation to its stream.                              *)
LEMMA LaunchResult ==
  ASSUME NEW q, StreamTypes(q), NEW st \in Streams, NEW op \in OpNames[st],
         NEW w \in AnyWork
  PROVE  LET n == Launch(q, st, op, w)
         IN /\ StreamTypes(n)
            /\ n.barrier = q.barrier /\ n.event = q.event /\ n.step = q.step
            /\ n.ops[Other(st)] = q.ops[Other(st)]
            /\ n.ops[st] = Append(q.ops[st], OpOf(q, st, op, w))
            /\ OpOf(q, st, op, w) \in Operations(st)
            /\ DOMAIN q.ops[st] = 1..Len(q.ops[st])
            /\ DOMAIN n.ops[st] = 1..Len(q.ops[st]) + 1
            /\ Len(n.ops[st]) = Len(q.ops[st]) + 1 /\ Len(q.ops[st]) \in Nat
            /\ \A i \in 1..Len(q.ops[st]) : n.ops[st][i] = q.ops[st][i]
            /\ n.ops[st][Len(q.ops[st]) + 1] = OpOf(q, st, op, w)
<1> DEFINE n == Launch(q, st, op, w)
           o == OpOf(q, st, op, w)
           AllOps == Operations("transfer") \union Operations("caller")
<1>1. Other(st) \in Streams /\ Other(st) # st
  BY DEF Streams, Other
<1>2. o \in Operations(st)
  <2>1. q.barrier[st] \in Nat
    BY DEF StreamTypes
  <2> QED
    BY <2>1 DEF AnyWork, Operations, OpOf, StreamTypes
<1>3. q.ops[st] \in Seq(Operations(st)) /\ q.ops \in [Streams -> Seq(AllOps)]
  BY DEF StreamTypes
<1>4. Append(q.ops[st], o) \in Seq(Operations(st)) /\ Append(q.ops[st], o) \in Seq(AllOps)
  <2>1. Operations(st) \subseteq AllOps
    BY DEF Streams
  <2>2. o \in AllOps /\ q.ops[st] \in Seq(AllOps)
    BY <1>2, <1>3, <2>1
  <2> HIDE DEF AllOps, o
  <2> QED
    BY <1>2, <1>3, <2>2, AppendProperties
<1> DEFINE a == [q.ops EXCEPT ![st] = Append(q.ops[st], o)]
<1>5. a \in [Streams -> Seq(AllOps)]
  BY <1>3, <1>4
<1>6. n = [q EXCEPT !.ops = a]
  BY DEF Launch, OpOf
<1>7. /\ n \in [ops : [Streams -> Seq(AllOps)], barrier : [Streams -> Nat],
                event : [Events \X Slots -> Nat], step : Nat]
      /\ n.ops = a /\ n.barrier = q.barrier /\ n.event = q.event /\ n.step = q.step
  <2>1. q \in [ops : [Streams -> Seq(AllOps)], barrier : [Streams -> Nat],
               event : [Events \X Slots -> Nat], step : Nat]
    BY DEF StreamTypes
  <2>2. q.barrier \in [Streams -> Nat] /\ q.event \in [Events \X Slots -> Nat]
    BY <2>1
  <2> HIDE DEF a, n, AllOps
  <2> QED
    BY <1>5, <1>6, <2>1, <2>2, StreamUpdates
<1>8. n.ops[st] = Append(q.ops[st], o) /\ n.ops[Other(st)] = q.ops[Other(st)]
  BY <1>1, <1>3, <1>7
<1>9. \A s \in Streams : n.ops[s] \in Seq(Operations(s))
  BY <1>3, <1>4, <1>7 DEF StreamTypes
<1>10. StreamTypes(n)
  BY <1>7, <1>9 DEF StreamTypes
<1> HIDE DEF n, o, a, AllOps
<1>11. /\ DOMAIN q.ops[st] = 1..Len(q.ops[st])
       /\ DOMAIN n.ops[st] = 1..Len(q.ops[st]) + 1
       /\ Len(n.ops[st]) = Len(q.ops[st]) + 1 /\ Len(q.ops[st]) \in Nat
       /\ \A i \in 1..Len(q.ops[st]) : n.ops[st][i] = q.ops[st][i]
       /\ n.ops[st][Len(q.ops[st]) + 1] = o
  BY <1>2, <1>3, <1>8, AppendProperties
<1> QED
  BY <1>2, <1>7, <1>8, <1>10, <1>11 DEF n, o

(* A record changes one event.                                             *)
LEMMA RecordResult ==
  ASSUME NEW q, StreamTypes(q), NEW st \in Streams, NEW e \in Events, NEW w \in Work
  PROVE  LET n == Record(q, st, e, w)
         IN /\ StreamTypes(n)
            /\ n.barrier = q.barrier /\ n.ops = q.ops /\ n.step = q.step
            /\ n.event[<<e, w.slot>>] = Len(q.ops[st])
            /\ \A x \in Events \X Slots : x # <<e, w.slot>> => n.event[x] = q.event[x]
<1> DEFINE n == Record(q, st, e, w)
<1>1. <<e, w.slot>> \in Events \X Slots /\ Len(q.ops[st]) \in Nat
  BY DEF Work, StreamTypes
<1>2. q.event \in [Events \X Slots -> Nat]
  BY DEF StreamTypes
<1> DEFINE c == [q.event EXCEPT ![<<e, w.slot>>] = Len(q.ops[st])]
<1>3. c \in [Events \X Slots -> Nat]
  BY <1>1, <1>2
<1>4. n = [q EXCEPT !.event = c]
  BY DEF Record
<1>5. /\ StreamTypes(n) /\ n.ops = q.ops /\ n.barrier = q.barrier /\ n.event = c
      /\ n.step = q.step
  <2> HIDE DEF c, n
  <2> QED
    BY <1>3, <1>4, StreamUpdates DEF StreamTypes
<1> HIDE DEF n
<1> QED
  BY <1>1, <1>2, <1>5 DEF n

(* A wait raises one barrier.                                              *)
LEMMA HoldBackResult ==
  ASSUME NEW q, StreamTypes(q), NEW st \in Streams, NEW position \in Nat
  PROVE  LET n == HoldBack(q, st, position)
         IN /\ StreamTypes(n)
            /\ n.event = q.event /\ n.ops = q.ops /\ n.step = q.step
            /\ n.barrier[st] >= position
            /\ \A s \in Streams : n.barrier[s] >= q.barrier[s]
                                  /\ n.barrier[s] \in Nat /\ q.barrier[s] \in Nat
<1> DEFINE n == HoldBack(q, st, position)
           b == IF position > q.barrier[st] THEN position ELSE q.barrier[st]
           a == [q.barrier EXCEPT ![st] = b]
<1>1. q.barrier \in [Streams -> Nat]
  BY DEF StreamTypes
<1>2. b \in Nat /\ b >= position /\ b >= q.barrier[st]
  BY <1>1
<1>3. a \in [Streams -> Nat]
  BY <1>1, <1>2
<1>4. n = [q EXCEPT !.barrier = a]
  BY DEF HoldBack
<1>5. /\ StreamTypes(n) /\ n.ops = q.ops /\ n.event = q.event /\ n.barrier = a
      /\ n.step = q.step
  <2> HIDE DEF a, n
  <2> QED
    BY <1>3, <1>4, StreamUpdates DEF StreamTypes
<1> HIDE DEF n, b
<1>6. \A s \in Streams : n.barrier[s] >= q.barrier[s]
  BY <1>5, <1>1, <1>2
<1>7. n.barrier[st] >= position
  BY <1>5, <1>1, <1>2
<1> QED
  BY <1>5, <1>1, <1>3, <1>6, <1>7 DEF n
-------------------------------------------------------------------------------
(* What one command of the host preserves.                                 *)

(* On the transfer stream, an operation that waits for what it must not    *)
(* meet.                                                                   *)
LEMMA LaunchTransfer ==
  ASSUME NEW q, StreamTypes(q), Ordered(q), NEW op \in TransferOps, NEW w \in AnyWork,
         \A j \in DOMAIN OnCaller(q) :
           Conflicting(OpOf(q, "transfer", op, w), OnCaller(q)[j]) =>
             q.barrier["transfer"] >= j
  PROVE  LET n == Launch(q, "transfer", op, w)
         IN /\ StreamTypes(n) /\ Ordered(n)
            /\ NoReuse(q) => NoReuse(n)
            /\ BackwardsSeen(q) => BackwardsSeen(n)
            /\ \A busy : ComputesSeen(q, busy) => ComputesSeen(n, busy)
            /\ \A slots :
                 Fetched(q, slots) /\ (op \in {"scatter", "gather"} => w.slot \notin slots)
                   => Fetched(n, slots)
<1> DEFINE n == Launch(q, "transfer", op, w)
           o == OpOf(q, "transfer", op, w)
           l == Len(OnTransfer(q))
<1>1. "transfer" \in Streams /\ op \in OpNames["transfer"] /\ Other("transfer") = "caller"
  BY DEF Streams, OpNames, Other
<1>2. /\ StreamTypes(n) /\ OnCaller(n) = OnCaller(q)
      /\ n.barrier = q.barrier /\ n.event = q.event
      /\ DOMAIN OnTransfer(q) = 1..l /\ DOMAIN OnTransfer(n) = 1..l + 1 /\ l \in Nat
      /\ \A i \in 1..l : OnTransfer(n)[i] = OnTransfer(q)[i]
      /\ OnTransfer(n)[l + 1] = o
  BY <1>1, LaunchResult DEF OnCaller, OnTransfer
<1>3. o.op = op /\ o.slot = w.slot /\ o.after = q.barrier["transfer"]
  BY DEF OpOf
<1> HIDE DEF n, o, l
<1>4. Ordered(n)
  <2> SUFFICES ASSUME NEW i \in DOMAIN OnTransfer(n), NEW j \in DOMAIN OnCaller(n),
                      Conflicting(OnTransfer(n)[i], OnCaller(n)[j])
               PROVE  OnTransfer(n)[i].after >= j \/ OnCaller(n)[j].after >= i
    BY DEF Ordered
  <2>1. CASE i \in 1..l
    BY <1>2, <2>1 DEF Ordered
  <2>2. CASE i = l + 1
    BY <1>2, <1>3, <2>2 DEF o
  <2> QED
    BY <1>2, <2>1, <2>2
<1>5. NoReuse(q) => NoReuse(n)
  BY <1>2 DEF NoReuse
<1>6. BackwardsSeen(q) => BackwardsSeen(n)
  BY <1>2 DEF BackwardsSeen
<1>7. \A busy : ComputesSeen(q, busy) => ComputesSeen(n, busy)
  BY <1>2 DEF ComputesSeen
<1>8. ASSUME NEW slots, Fetched(q, slots), op \in {"scatter", "gather"} => w.slot \notin slots
      PROVE  Fetched(n, slots)
  <2> SUFFICES ASSUME NEW i \in DOMAIN OnTransfer(n),
                      OnTransfer(n)[i].op \in {"scatter", "gather"},
                      OnTransfer(n)[i].slot \in slots
               PROVE  i <= n.event[<<"compute_input_ready", OnTransfer(n)[i].slot>>]
    BY DEF Fetched
  <2>1. CASE i \in 1..l
    BY <1>2, <1>8, <2>1 DEF Fetched
  <2>2. CASE i = l + 1
    BY <1>2, <1>3, <1>8, <2>2
  <2> QED
    BY <1>2, <2>1, <2>2
<1> QED
  BY <1>2, <1>4, <1>5, <1>6, <1>7, <1>8 DEF n

(* On the caller's stream.                                                 *)
LEMMA LaunchCaller ==
  ASSUME NEW q, StreamTypes(q), Ordered(q), NEW op \in CallerOps, NEW w \in AnyWork,
         \A i \in DOMAIN OnTransfer(q) :
           Conflicting(OnTransfer(q)[i], OpOf(q, "caller", op, w)) =>
             q.barrier["caller"] >= i
  PROVE  LET n == Launch(q, "caller", op, w)
         IN /\ StreamTypes(n) /\ Ordered(n)
            /\ n.barrier = q.barrier /\ n.event = q.event /\ OnTransfer(n) = OnTransfer(q)
            /\ NoReuse(q) /\ op # "reuse" => NoReuse(n)
            /\ BackwardsSeen(q) /\ op # "backward" => BackwardsSeen(n)
            /\ \A busy : ComputesSeen(q, busy) /\ op # "compute" => ComputesSeen(n, busy)
            /\ \A slots : Fetched(q, slots) => Fetched(n, slots)
<1> DEFINE n == Launch(q, "caller", op, w)
           o == OpOf(q, "caller", op, w)
           l == Len(OnCaller(q))
<1>1. "caller" \in Streams /\ op \in OpNames["caller"] /\ Other("caller") = "transfer"
  BY DEF Streams, OpNames, Other
<1>2. /\ StreamTypes(n) /\ OnTransfer(n) = OnTransfer(q)
      /\ n.barrier = q.barrier /\ n.event = q.event
      /\ DOMAIN OnCaller(q) = 1..l /\ DOMAIN OnCaller(n) = 1..l + 1 /\ l \in Nat
      /\ \A j \in 1..l : OnCaller(n)[j] = OnCaller(q)[j]
      /\ OnCaller(n)[l + 1] = o
  BY <1>1, LaunchResult DEF OnCaller, OnTransfer
<1>3. o.op = op /\ o.slot = w.slot /\ o.after = q.barrier["caller"]
  BY DEF OpOf
<1> HIDE DEF n, o, l
<1>4. Ordered(n)
  <2> SUFFICES ASSUME NEW i \in DOMAIN OnTransfer(n), NEW j \in DOMAIN OnCaller(n),
                      Conflicting(OnTransfer(n)[i], OnCaller(n)[j])
               PROVE  OnTransfer(n)[i].after >= j \/ OnCaller(n)[j].after >= i
    BY DEF Ordered
  <2>1. CASE j \in 1..l
    BY <1>2, <2>1 DEF Ordered
  <2>2. CASE j = l + 1
    BY <1>2, <1>3, <2>2 DEF o
  <2> QED
    BY <1>2, <2>1, <2>2
<1>5. NoReuse(q) /\ op # "reuse" => NoReuse(n)
  BY <1>2, <1>3 DEF NoReuse
<1>6. BackwardsSeen(q) /\ op # "backward" => BackwardsSeen(n)
  BY <1>2, <1>3 DEF BackwardsSeen
<1>7. \A busy : ComputesSeen(q, busy) /\ op # "compute" => ComputesSeen(n, busy)
  BY <1>2, <1>3 DEF ComputesSeen
<1>8. \A slots : Fetched(q, slots) => Fetched(n, slots)
  BY <1>2 DEF Fetched
<1> QED
  BY <1>2, <1>4, <1>5, <1>6, <1>7, <1>8 DEF n

(* A wait lets more be seen, never less.                                   *)
LEMMA HoldBackPreserves ==
  ASSUME NEW q, StreamTypes(q), NEW st \in Streams, NEW position \in Nat
  PROVE  LET n == HoldBack(q, st, position)
         IN /\ StreamTypes(n) /\ OnTransfer(n) = OnTransfer(q) /\ OnCaller(n) = OnCaller(q)
            /\ n.event = q.event /\ n.barrier[st] >= position
            /\ Ordered(q) => Ordered(n)
            /\ NoReuse(q) => NoReuse(n)
            /\ BackwardsSeen(q) => BackwardsSeen(n)
            /\ TransfersSeen(q) => TransfersSeen(n)
            /\ \A busy : ComputesSeen(q, busy) => ComputesSeen(n, busy)
            /\ \A slots : Fetched(q, slots) => Fetched(n, slots)
<1> DEFINE n == HoldBack(q, st, position)
<1>1. /\ StreamTypes(n) /\ OnTransfer(n) = OnTransfer(q) /\ OnCaller(n) = OnCaller(q)
      /\ n.event = q.event /\ n.barrier[st] >= position
      /\ \A s \in Streams : n.barrier[s] >= q.barrier[s]
                            /\ n.barrier[s] \in Nat /\ q.barrier[s] \in Nat
  BY HoldBackResult DEF OnTransfer, OnCaller
<1>2. /\ "transfer" \in Streams /\ "caller" \in Streams
      /\ Len(OnTransfer(q)) \in Nat /\ DOMAIN OnTransfer(q) = 1..Len(OnTransfer(q))
      /\ Len(OnCaller(q)) \in Nat /\ DOMAIN OnCaller(q) = 1..Len(OnCaller(q))
  BY DEF Streams, StreamTypes, OnTransfer, OnCaller
<1> HIDE DEF n
<1>3. Ordered(q) => Ordered(n)
  BY <1>1 DEF Ordered
<1>4. NoReuse(q) => NoReuse(n)
  BY <1>1 DEF NoReuse
<1>5. BackwardsSeen(q) => BackwardsSeen(n)
  BY <1>1, <1>2 DEF BackwardsSeen
<1>6. TransfersSeen(q) => TransfersSeen(n)
  BY <1>1, <1>2 DEF TransfersSeen
<1>7. \A busy : ComputesSeen(q, busy) => ComputesSeen(n, busy)
  BY <1>1, <1>2 DEF ComputesSeen
<1>8. \A slots : Fetched(q, slots) => Fetched(n, slots)
  BY <1>1 DEF Fetched
<1> QED
  BY <1>1, <1>3, <1>4, <1>5, <1>6, <1>7, <1>8 DEF n
-------------------------------------------------------------------------------
(* What the helpers of run() preserve.                                     *)

LEMMA StreamFacts ==
  ASSUME NEW q, StreamTypes(q)
  PROVE  /\ Len(OnTransfer(q)) \in Nat /\ DOMAIN OnTransfer(q) = 1..Len(OnTransfer(q))
         /\ Len(OnCaller(q)) \in Nat /\ DOMAIN OnCaller(q) = 1..Len(OnCaller(q))
         /\ q.barrier["transfer"] \in Nat /\ q.barrier["caller"] \in Nat
         /\ \A e \in Events, s \in Slots : q.event[<<e, s>>] \in Nat
         /\ \A i \in DOMAIN OnTransfer(q) : OnTransfer(q)[i] \in Operations("transfer")
         /\ \A j \in DOMAIN OnCaller(q) : OnCaller(q)[j] \in Operations("caller")
BY DEF StreamTypes, OnTransfer, OnCaller, Streams

(* A record of an event that no argument looks at, or that is raised to    *)
(* the end of its stream.                                                  *)
LEMMA RecordPreserves ==
  ASSUME NEW q, StreamTypes(q), NEW st \in Streams, NEW e \in Events, NEW w \in Work
  PROVE  LET n == Record(q, st, e, w)
         IN /\ StreamTypes(n) /\ OnTransfer(n) = OnTransfer(q) /\ OnCaller(n) = OnCaller(q)
            /\ n.barrier = q.barrier /\ n.event[<<e, w.slot>>] = Len(q.ops[st])
            /\ Ordered(q) => Ordered(n)
            /\ NoReuse(q) => NoReuse(n)
            /\ BackwardsSeen(q) => BackwardsSeen(n)
            /\ \A busy \in SUBSET Slots :
                 ComputesSeen(q, busy) /\ (e # "compute_done" \/ w.slot \notin busy)
                   => ComputesSeen(n, busy)
            /\ \A slots \in SUBSET Slots :
                 Fetched(q, slots) /\ (e # "compute_input_ready" \/ w.slot \notin slots)
                   => Fetched(n, slots)
<1> DEFINE n == Record(q, st, e, w)
<1>1. /\ StreamTypes(n) /\ OnTransfer(n) = OnTransfer(q) /\ OnCaller(n) = OnCaller(q)
      /\ n.barrier = q.barrier /\ n.event[<<e, w.slot>>] = Len(q.ops[st])
      /\ \A x \in Events \X Slots : x # <<e, w.slot>> => n.event[x] = q.event[x]
  BY RecordResult DEF OnTransfer, OnCaller
<1> HIDE DEF n
<1>2. Ordered(q) => Ordered(n)
  BY <1>1 DEF Ordered
<1>3. NoReuse(q) => NoReuse(n)
  BY <1>1 DEF NoReuse
<1>4. BackwardsSeen(q) => BackwardsSeen(n)
  BY <1>1 DEF BackwardsSeen
<1>5. "compute_done" \in Events /\ "compute_input_ready" \in Events
  BY DEF Events
<1>6. ASSUME NEW busy \in SUBSET Slots, ComputesSeen(q, busy),
             e # "compute_done" \/ w.slot \notin busy
      PROVE  ComputesSeen(n, busy)
  <2>1. \A s \in busy : n.event[<<"compute_done", s>>] = q.event[<<"compute_done", s>>]
    BY <1>1, <1>5, <1>6
  <2> QED
    BY <1>1, <1>6, <2>1 DEF ComputesSeen
<1>7. ASSUME NEW slots \in SUBSET Slots, Fetched(q, slots),
             e # "compute_input_ready" \/ w.slot \notin slots
      PROVE  Fetched(n, slots)
  <2>1. \A s \in slots :
          n.event[<<"compute_input_ready", s>>] = q.event[<<"compute_input_ready", s>>]
    BY <1>1, <1>5, <1>7
  <2> QED
    BY <1>1, <1>7, <2>1 DEF Fetched
<1> QED
  BY <1>1, <1>2, <1>3, <1>4, <1>6, <1>7 DEF n

(* A bucket may be fetched into a slot that is not busy.                   *)
LEMMA StorageToComputePreserves ==
  ASSUME NEW q, NEW busy \in SUBSET Slots, NEW slots \in SUBSET Slots,
         Pipelined(q, busy, slots), NEW w \in Work, w.slot \notin busy
  PROVE  /\ Pipelined(PrepareLaunched(q, w), busy, slots)
         /\ Pipelined(StorageToCompute(q, w), busy, slots \union {w.slot})
<1> DEFINE p == PrepareLaunched(q, w)
           s == Launch(p, "transfer", "scatter", w)
           n == Record(s, "transfer", "compute_input_ready", w)
<1>1. w \in AnyWork /\ w.slot \in Slots /\ "transfer" \in Streams
  BY Constants DEF Work, Streams
<1>2. /\ "prepare" \in TransferOps /\ "scatter" \in TransferOps
      /\ "compute_input_ready" \in Events
  BY DEF TransferOps, Events
<1>3. Pipelined(p, busy, slots)
  <2>1. \A j \in DOMAIN OnCaller(q) :
          Conflicting(OpOf(q, "transfer", "prepare", w), OnCaller(q)[j]) =>
            q.barrier["transfer"] >= j
    BY StreamFacts DEF Pipelined, Base, NoReuse, BackwardsSeen, Conflicting, OpOf
  <2> QED
    BY <1>1, <1>2, <2>1, LaunchTransfer DEF Pipelined, Base, PrepareLaunched
<1> HIDE DEF p
<1>4. /\ StreamTypes(s) /\ Ordered(s) /\ NoReuse(s) /\ BackwardsSeen(s)
      /\ ComputesSeen(s, busy) /\ Fetched(s, slots \ {w.slot})
  <2>1. \A j \in DOMAIN OnCaller(p) :
          Conflicting(OpOf(p, "transfer", "scatter", w), OnCaller(p)[j]) =>
            p.barrier["transfer"] >= j
    BY <1>3, StreamFacts
      DEF Pipelined, Base, NoReuse, ComputesSeen, Conflicting, OpOf
  <2>2. Fetched(p, slots \ {w.slot})
    BY <1>3 DEF Pipelined, Fetched
  <2> QED
    BY <1>1, <1>2, <1>3, <2>1, <2>2, LaunchTransfer DEF Pipelined, Base
<1> HIDE DEF s
<1>5. /\ StreamTypes(n) /\ Ordered(n) /\ NoReuse(n) /\ BackwardsSeen(n)
      /\ ComputesSeen(n, busy) /\ Fetched(n, slots \ {w.slot})
      /\ n.event[<<"compute_input_ready", w.slot>>] = Len(OnTransfer(n))
  BY <1>1, <1>2, <1>4, RecordPreserves DEF OnTransfer
<1> HIDE DEF n
<1>6. Fetched(n, slots \union {w.slot})
  BY <1>5, StreamFacts DEF Fetched
<1>7. n = StorageToCompute(q, w)
  BY DEF n, s, p, StorageToCompute
<1> QED
  BY <1>3, <1>5, <1>6, <1>7 DEF p, Pipelined, Base

(* The way back waits for the only busy slot, and empties it.              *)
LEMMA ComputeToStoragePreserves ==
  ASSUME NEW q, NEW w \in Work, NEW slots \in SUBSET Slots,
         Pipelined(q, {w.slot}, slots), w.slot \notin slots
  PROVE  /\ Pipelined(GatherLaunched(q, w), {}, slots)
         /\ Pipelined(ComputeToStorage(q, w), {}, slots)
         /\ ComputeToStorage(q, w).event[<<"done", w.slot>>]
              = Len(OnTransfer(ComputeToStorage(q, w)))
<1> DEFINE v == WaitEvent(q, "transfer", "compute_done", w)
           g == GatherLaunched(q, w)
           f == Launch(g, "transfer", "finalize", w)
           n == Record(f, "transfer", "done", w)
<1>1. w \in AnyWork /\ w.slot \in Slots /\ "transfer" \in Streams
  BY Constants DEF Work, Streams
<1>2. /\ "gather" \in TransferOps /\ "finalize" \in TransferOps
      /\ "done" \in Events /\ "compute_done" \in Events
  BY DEF TransferOps, Events
<1>3. Pipelined(v, {}, slots)
  <2> DEFINE position == q.event[<<"compute_done", w.slot>>]
  <2>1. position \in Nat /\ StreamTypes(q)
    BY <1>1, <1>2, StreamFacts DEF Pipelined, Base
  <2>2. v = HoldBack(q, "transfer", position)
    BY DEF WaitEvent
  <2> HIDE DEF v, position
  <2>3. /\ Base(v) /\ BackwardsSeen(v) /\ ComputesSeen(v, {w.slot}) /\ Fetched(v, slots)
        /\ v.event = q.event /\ v.barrier["transfer"] >= position
    BY <1>1, <2>1, <2>2, HoldBackPreserves DEF Pipelined, Base
  <2>4. v.barrier["transfer"] >= v.event[<<"compute_done", w.slot>>]
    BY <2>3 DEF position
  <2>5. ComputesSeen(v, {})
    <3>1. StreamTypes(v)
      BY <2>3 DEF Base
    <3>2. v.barrier["transfer"] \in Nat /\ v.event[<<"compute_done", w.slot>>] \in Nat
      BY <1>1, <1>2, <3>1, StreamFacts
    <3> SUFFICES ASSUME NEW j \in DOMAIN OnCaller(v), OnCaller(v)[j].op = "compute"
                 PROVE  j <= v.barrier["transfer"]
      BY DEF ComputesSeen
    <3>3. \/ j <= v.barrier["transfer"]
          \/ OnCaller(v)[j].slot = w.slot
               /\ j <= v.event[<<"compute_done", OnCaller(v)[j].slot>>]
      BY <2>3 DEF ComputesSeen
    <3>4. j \in Nat
      BY <3>1, StreamFacts
    <3> QED
      BY <2>4, <3>2, <3>3, <3>4
  <2> QED
    BY <2>3, <2>5 DEF Pipelined
<1> HIDE DEF v
<1>4. Pipelined(g, {}, slots)
  <2>1. \A j \in DOMAIN OnCaller(v) :
          Conflicting(OpOf(v, "transfer", "gather", w), OnCaller(v)[j]) =>
            v.barrier["transfer"] >= j
    BY <1>3, StreamFacts
      DEF Pipelined, Base, NoReuse, ComputesSeen, Conflicting, OpOf
  <2>2. g = Launch(v, "transfer", "gather", w)
    BY DEF v, GatherLaunched
  <2> HIDE DEF g
  <2> QED
    BY <1>1, <1>2, <1>3, <2>1, <2>2, LaunchTransfer DEF Pipelined, Base
<1> HIDE DEF g
<1>5. Pipelined(f, {}, slots)
  <2>1. \A j \in DOMAIN OnCaller(g) :
          Conflicting(OpOf(g, "transfer", "finalize", w), OnCaller(g)[j]) =>
            g.barrier["transfer"] >= j
    BY <1>4, StreamFacts DEF Pipelined, Base, NoReuse, BackwardsSeen, Conflicting, OpOf
  <2> QED
    BY <1>1, <1>2, <1>4, <2>1, LaunchTransfer DEF Pipelined, Base
<1> HIDE DEF f
<1>6. Pipelined(n, {}, slots) /\ n.event[<<"done", w.slot>>] = Len(OnTransfer(n))
  BY <1>1, <1>2, <1>5, RecordPreserves DEF Pipelined, Base, OnTransfer
<1>7. n = ComputeToStorage(q, w)
  BY DEF n, f, g, ComputeToStorage
<1> HIDE DEF n
<1> QED
  BY <1>4, <1>6, <1>7 DEF g
(* Items that need no transfer disturb nothing.                            *)
LEMMA ReadyItemsPreserves ==
  ASSUME NEW q, StreamTypes(q), Ordered(q), NEW w \in AnyWork
  PROVE  LET n == ReadyItems(q, w)
         IN /\ StreamTypes(n) /\ Ordered(n)
            /\ NoReuse(q) => NoReuse(n)
            /\ BackwardsSeen(q) => BackwardsSeen(n)
            /\ TransfersSeen(q) => TransfersSeen(n)
            /\ \A busy : ComputesSeen(q, busy) => ComputesSeen(n, busy)
            /\ \A slots : Fetched(q, slots) => Fetched(n, slots)
<1> DEFINE n == ReadyItems(q, w)
<1>1. "ready_items" \in CallerOps /\ "ready_items" # "reuse" /\ "ready_items" # "backward"
        /\ "ready_items" # "compute"
  BY DEF CallerOps
<1>2. \A i \in DOMAIN OnTransfer(q) :
        ~Conflicting(OnTransfer(q)[i], OpOf(q, "caller", "ready_items", w))
  BY DEF Conflicting, OpOf
<1>3. n = Launch(q, "caller", "ready_items", w)
  BY DEF ReadyItems
<1> HIDE DEF n
<1>4. TransfersSeen(q) => TransfersSeen(n)
  BY <1>1, <1>2, <1>3, LaunchCaller DEF TransfersSeen
<1> QED
  BY <1>1, <1>2, <1>3, <1>4, LaunchCaller DEF n

(* A fetched bucket is computed: its slot is then the busy one.            *)
LEMMA ComputeBucketPreserves ==
  ASSUME NEW q, NEW w \in Work, NEW slots \in SUBSET Slots,
         Pipelined(q, {}, slots), w.slot \in slots
  PROVE  /\ Pipelined(ReadyItems(q, w), {}, slots)
         /\ Pipelined(ComputeBucket(q, w), {w.slot}, slots)
<1> DEFINE i == ReadyItems(q, w)
           v == WaitEvent(i, "caller", "compute_input_ready", w)
           c == Launch(v, "caller", "compute", w)
           n == Record(c, "caller", "compute_done", w)
<1>1. w \in AnyWork /\ w.slot \in Slots /\ "caller" \in Streams
  BY Constants DEF Work, Streams
<1>2. /\ "compute" \in CallerOps /\ "compute" # "reuse" /\ "compute" # "backward"
      /\ "compute_input_ready" \in Events /\ "compute_done" \in Events
      /\ "compute_done" # "compute_input_ready"
  BY DEF CallerOps, Events
<1>3. Pipelined(i, {}, slots)
  BY <1>1, ReadyItemsPreserves DEF Pipelined, Base
<1> HIDE DEF i
<1>4. /\ Pipelined(v, {}, slots)
      /\ v.barrier["caller"] >= v.event[<<"compute_input_ready", w.slot>>]
  <2> DEFINE position == i.event[<<"compute_input_ready", w.slot>>]
  <2>1. position \in Nat
    BY <1>1, <1>2, <1>3, StreamFacts DEF Pipelined, Base
  <2>2. v = HoldBack(i, "caller", position)
    BY DEF WaitEvent
  <2> HIDE DEF v, position
  <2>3. Pipelined(v, {}, slots) /\ v.event = i.event /\ v.barrier["caller"] >= position
    BY <1>1, <1>3, <2>1, <2>2, HoldBackPreserves DEF Pipelined, Base
  <2> QED
    BY <2>3 DEF position
<1> HIDE DEF v
<1>5. \A k \in DOMAIN OnTransfer(v) :
        Conflicting(OnTransfer(v)[k], OpOf(v, "caller", "compute", w)) =>
          v.barrier["caller"] >= k
  <2> SUFFICES ASSUME NEW k \in DOMAIN OnTransfer(v),
                      Conflicting(OnTransfer(v)[k], OpOf(v, "caller", "compute", w))
               PROVE  v.barrier["caller"] >= k
    OBVIOUS
  <2>1. OnTransfer(v)[k].op \in {"scatter", "gather"} /\ OnTransfer(v)[k].slot = w.slot
    BY DEF Conflicting, OpOf
  <2>2. k <= v.event[<<"compute_input_ready", w.slot>>]
    BY <1>4, <2>1 DEF Pipelined, Fetched
  <2>3. StreamTypes(v)
    BY <1>4 DEF Pipelined, Base
  <2>4. k \in Nat /\ v.event[<<"compute_input_ready", w.slot>>] \in Nat
          /\ v.barrier["caller"] \in Nat
    BY <1>1, <1>2, <2>3, StreamFacts
  <2> QED
    BY <1>4, <2>2, <2>4
<1>6. /\ Base(c) /\ BackwardsSeen(c) /\ Fetched(c, slots)
      /\ c.barrier = v.barrier
      /\ \A j \in DOMAIN OnCaller(c) : OnCaller(c)[j].op = "compute" =>
           j <= c.barrier["transfer"] \/ (j = Len(OnCaller(c)) /\ OnCaller(c)[j].slot = w.slot)
  <2>1. /\ Base(c) /\ BackwardsSeen(c) /\ Fetched(c, slots) /\ c.barrier = v.barrier
    BY <1>1, <1>2, <1>4, <1>5, LaunchCaller DEF Pipelined, Base
  <2>2. /\ DOMAIN OnCaller(v) = 1..Len(OnCaller(v)) /\ Len(OnCaller(v)) \in Nat
        /\ DOMAIN OnCaller(c) = 1..Len(OnCaller(v)) + 1
        /\ Len(OnCaller(c)) = Len(OnCaller(v)) + 1
        /\ \A j \in 1..Len(OnCaller(v)) : OnCaller(c)[j] = OnCaller(v)[j]
        /\ OnCaller(c)[Len(OnCaller(v)) + 1].slot = w.slot
    <3>1. StreamTypes(v) /\ "compute" \in OpNames["caller"]
      BY <1>1, <1>2, <1>4 DEF Pipelined, Base, OpNames
    <3>2. OpOf(v, "caller", "compute", w).slot = w.slot
      BY DEF OpOf
    <3> QED
      BY <1>1, <3>1, <3>2, LaunchResult DEF OnCaller
  <2>3. \A j \in DOMAIN OnCaller(v) : OnCaller(v)[j].op = "compute" =>
          j <= v.barrier["transfer"]
    BY <1>4 DEF Pipelined, ComputesSeen
  <2> HIDE DEF c
  <2> QED
    BY <2>1, <2>2, <2>3
<1> HIDE DEF c
<1>7. /\ Base(n) /\ BackwardsSeen(n) /\ Fetched(n, slots)
      /\ OnCaller(n) = OnCaller(c) /\ n.barrier = c.barrier
      /\ n.event[<<"compute_done", w.slot>>] = Len(OnCaller(c))
  BY <1>1, <1>2, <1>6, RecordPreserves DEF Base, OnCaller
<1> HIDE DEF n
<1>8. ComputesSeen(n, {w.slot})
  <2> SUFFICES ASSUME NEW j \in DOMAIN OnCaller(n), OnCaller(n)[j].op = "compute",
                      ~(j <= n.barrier["transfer"])
               PROVE  /\ OnCaller(n)[j].slot = w.slot
                      /\ j <= n.event[<<"compute_done", OnCaller(n)[j].slot>>]
    BY DEF ComputesSeen
  <2>1. j = Len(OnCaller(c)) /\ OnCaller(n)[j].slot = w.slot
    BY <1>6, <1>7
  <2>2. Len(OnCaller(c)) \in Nat
    BY <1>6, StreamFacts DEF Base
  <2> QED
    BY <1>7, <2>1, <2>2
<1>9. n = ComputeBucket(q, w)
  BY DEF n, c, v, i, ComputeBucket
<1> QED
  BY <1>3, <1>7, <1>8, <1>9 DEF i, Pipelined

(* A release waits for the last recorded end of a way back.                *)
LEMMA ReleasePreserves ==
  ASSUME NEW q, NEW w \in Work, NEW busy, NEW slots, Pipelined(q, busy, slots)
  PROVE  LET n == Release(q, w)
         IN /\ Pipelined(n, busy, slots)
            /\ q.event[<<"done", w.slot>>] = Len(OnTransfer(q)) => TransfersSeen(n)
<1> DEFINE n == Release(q, w)
           position == q.event[<<"done", w.slot>>]
<1>1. "caller" \in Streams /\ position \in Nat
  <2>1. "done" \in Events /\ w.slot \in Slots /\ StreamTypes(q)
    BY DEF Events, Work, Pipelined, Base
  <2> QED
    BY <2>1, StreamFacts DEF Streams
<1>2. n = HoldBack(q, "caller", position)
  BY DEF Release, WaitEvent
<1> HIDE DEF n, position
<1>3. /\ Pipelined(n, busy, slots) /\ OnTransfer(n) = OnTransfer(q)
      /\ n.barrier["caller"] >= position
  BY <1>1, <1>2, HoldBackPreserves DEF Pipelined, Base
<1> QED
  BY <1>3 DEF n, position, TransfersSeen

(* The first redistributed bucket of a step makes the transfer stream wait *)
(* for the gradients.                                                      *)
LEMMA WaitStreamPreserves ==
  ASSUME NEW q, Base(q), ComputesSeen(q, {})
  PROVE  Pipelined(WaitStream(q, "transfer"), {}, {})
<1> DEFINE n == WaitStream(q, "transfer")
           position == Len(OnCaller(q))
<1>1. "transfer" \in Streams /\ position \in Nat /\ StreamTypes(q)
  BY StreamFacts DEF Base, Streams
<1>2. n = HoldBack(q, "transfer", position)
  BY DEF WaitStream, Other, OnCaller
<1> HIDE DEF n, position
<1>3. /\ Base(n) /\ ComputesSeen(n, {}) /\ OnCaller(n) = OnCaller(q)
      /\ n.barrier["transfer"] >= position
  BY <1>1, <1>2, HoldBackPreserves DEF Base
<1>4. BackwardsSeen(n)
  BY <1>1, <1>3, StreamFacts DEF Base, BackwardsSeen, position
<1>5. Fetched(n, {})
  BY DEF Fetched
<1> QED
  BY <1>3, <1>4, <1>5 DEF n, Pipelined

(* After a failure the caller's stream goes on when all transfers have     *)
(* ended.                                                                  *)
LEMMA CleanupPreserves ==
  ASSUME NEW q, NEW used \in BOOLEAN, StreamTypes(q), Ordered(q), used \/ TransfersSeen(q)
  PROVE  StreamTypes(Cleanup(q, used)) /\ Ordered(Cleanup(q, used))
<1> DEFINE v == IF used THEN WaitStream(WaitStream(q, "transfer"), "caller") ELSE q
<1>1. StreamTypes(v) /\ Ordered(v) /\ TransfersSeen(v)
  <2>1. CASE ~used
    BY <2>1
  <2>2. CASE used
    <3> DEFINE u == WaitStream(q, "transfer")
    <3>1. "transfer" \in Streams /\ "caller" \in Streams
            /\ Other("transfer") = "caller" /\ Other("caller") = "transfer"
      BY DEF Streams, Other
    <3>2. Len(OnCaller(q)) \in Nat /\ u = HoldBack(q, "transfer", Len(OnCaller(q)))
      BY <3>1, StreamFacts DEF WaitStream, OnCaller
    <3> HIDE DEF u
    <3>3. StreamTypes(u) /\ Ordered(u)
      BY <3>1, <3>2, HoldBackPreserves
    <3>4. Len(OnTransfer(u)) \in Nat
            /\ WaitStream(u, "caller") = HoldBack(u, "caller", Len(OnTransfer(u)))
      BY <3>1, <3>3, StreamFacts DEF WaitStream, OnTransfer
    <3>5. StreamTypes(WaitStream(u, "caller")) /\ Ordered(WaitStream(u, "caller"))
            /\ TransfersSeen(WaitStream(u, "caller"))
      BY <3>1, <3>3, <3>4, HoldBackPreserves DEF TransfersSeen
    <3> QED
      BY <2>2, <3>5 DEF u
  <2> QED
    BY <2>1, <2>2
<1> HIDE DEF v
<1>2. NoWork \in AnyWork /\ "reuse" \in CallerOps
  BY Constants DEF NoWork, AnyWork, CallerOps
<1>3. \A i \in DOMAIN OnTransfer(v) : v.barrier["caller"] >= i
  BY <1>1, StreamFacts DEF TransfersSeen
<1>4. Cleanup(q, used) = Launch(v, "caller", "reuse", NoWork)
  BY DEF Cleanup, v
<1> QED
  BY <1>1, <1>2, <1>3, <1>4, LaunchCaller
-------------------------------------------------------------------------------
(* Slots are taken in turn.                                                *)

LEMMA Divmod ==
  ASSUME NEW n \in Nat, NEW d \in Nat \ {0}
  PROVE  n \div d \in Nat /\ n % d \in 0..d - 1 /\ n = d * (n \div d) + (n % d)
  OBVIOUS

LEMMA SlotTypes ==
  ASSUME NEW n \in Nat
  PROVE  n % NumSlots \in Slots
BY Constants, Divmod DEF Slots

(* Of NumSlots buckets in a row no two have the same slot.                 *)
LEMMA SlotsDiffer ==
  ASSUME NEW n \in Nat, NEW k \in 1..NumSlots - 1
  PROVE  n % NumSlots # (n + k) % NumSlots
<1> DEFINE a == n \div NumSlots
           b == (n + k) \div NumSlots
<1>1. NumSlots \in Nat \ {0} /\ k \in Nat /\ n + k \in Nat
  BY Constants
<1>2. /\ a \in Nat /\ n = NumSlots * a + (n % NumSlots) /\ n % NumSlots \in 0..NumSlots - 1
      /\ b \in Nat /\ n + k = NumSlots * b + ((n + k) % NumSlots)
  BY <1>1, Divmod
<1> HIDE DEF a, b
<1> SUFFICES ASSUME n % NumSlots = (n + k) % NumSlots PROVE FALSE
  OBVIOUS
<1>3. NumSlots * a \in Nat /\ NumSlots * b \in Nat /\ NumSlots * (b - a) = NumSlots * b - NumSlots * a
  BY <1>1, <1>2
<1>4. k = NumSlots * (b - a)
  BY <1>1, <1>2, <1>3
<1>5. b - a >= 1 \/ b - a <= 0
  BY <1>2
<1>6. CASE b - a >= 1
  <2>1. NumSlots * (b - a) >= NumSlots
    BY <1>1, <1>2, <1>6
  <2> QED
    BY <1>1, <1>4, <2>1
<1>7. CASE b - a <= 0
  <2>1. NumSlots * (b - a) <= 0
    BY <1>1, <1>2, <1>7
  <2> QED
    BY <1>1, <1>4, <2>1
<1> QED
  BY <1>5, <1>6, <1>7

(* The slot of the previous bucket is not one of the next buckets.         *)
LEMMA PreviousSlot ==
  ASSUME NEW h, HostTypes(h), SlotsInTurn(h), h.transferUsed
  PROVE  /\ h.previous \in Work /\ h.previous # NoWork
         /\ h.previous.slot \notin FetchedSlots(h)
         /\ \A k \in 0..NumSlots - 2 :
              h.previous.slot # (h.redistributed + k) % NumSlots
<1>1. /\ h.redistributed \in Nat /\ h.redistributed > 0 /\ h.previous \in Work
      /\ h.previous.slot = (h.redistributed - 1) % NumSlots
  BY DEF HostTypes, SlotsInTurn
<1>2. h.previous # NoWork
  BY <1>1 DEF Work, NoWork
<1>3. ASSUME NEW k \in 0..NumSlots - 2
      PROVE  h.previous.slot # (h.redistributed + k) % NumSlots
  <2>1. h.redistributed - 1 \in Nat /\ k + 1 \in 1..NumSlots - 1
          /\ (h.redistributed - 1) + (k + 1) = h.redistributed + k
    BY <1>1, Constants
  <2> QED
    BY <1>1, <2>1, SlotsDiffer
<1>4. ASSUME NEW k \in DOMAIN h.prefetched
      PROVE  h.prefetched[k].slot # h.previous.slot
  <2>1. k \in Nat /\ k >= 1 /\ k < NumSlots
    <3>1. h.prefetched \in Seq(Work) /\ Len(h.prefetched) < NumSlots
      BY DEF HostTypes
    <3>2. k \in 1..Len(h.prefetched) /\ Len(h.prefetched) \in Nat
      BY <3>1
    <3> QED
      BY <3>1, <3>2, Constants
  <2>2. h.prefetched[k].slot = (h.redistributed + k - 1) % NumSlots
    BY DEF SlotsInTurn
  <2>3. k - 1 \in 0..NumSlots - 2 /\ h.redistributed + k - 1 = h.redistributed + (k - 1)
    BY <1>1, <2>1, Constants
  <2> QED
    BY <1>3, <2>2, <2>3
<1> QED
  BY <1>1, <1>2, <1>3, <1>4 DEF FetchedSlots

(* Without a transfer there is neither a previous nor a prefetched bucket. *)
LEMMA NoTransferYet ==
  ASSUME NEW h, HostTypes(h), SlotsInTurn(h), ~h.transferUsed
  PROVE  /\ h.previous = NoWork /\ h.prefetched = <<>>
         /\ BusySlots(h) = {} /\ FetchedSlots(h) = {}
BY DEF SlotsInTurn, BusySlots, FetchedSlots

LEMMA HostFacts ==
  ASSUME NEW h, HostTypes(h), SlotsInTurn(h)
  PROVE  /\ BusySlots(h) \in SUBSET Slots /\ FetchedSlots(h) \in SUBSET Slots
         /\ h.transferUsed \in BOOLEAN
         /\ h.prefetched # <<>> =>
              /\ h.prefetched[1] = Head(h.prefetched) /\ Head(h.prefetched) \in Work
              /\ Head(h.prefetched).slot \in FetchedSlots(h)
<1>1. h.prefetched \in Seq(Work) /\ h.transferUsed \in BOOLEAN
  BY DEF HostTypes
<1>2. BusySlots(h) \in SUBSET Slots
  BY PreviousSlot DEF BusySlots, Work
<1>3. FetchedSlots(h) \in SUBSET Slots
  <2>1. \A k \in DOMAIN h.prefetched : h.prefetched[k] \in Work
    BY <1>1
  <2> QED
    BY <2>1 DEF FetchedSlots, Work
<1>4. ASSUME h.prefetched # <<>>
      PROVE  /\ h.prefetched[1] = Head(h.prefetched) /\ Head(h.prefetched) \in Work
             /\ 1 \in DOMAIN h.prefetched
  BY <1>1, <1>4
<1> QED
  BY <1>1, <1>2, <1>3, <1>4 DEF FetchedSlots

(* The current bucket takes the next slot.                                 *)
LEMMA WorkTypes ==
  ASSUME NEW h, HostTypes(h), SlotsInTurn(h), h.plan \in Nat \ {0}
  PROVE  WorkOf(h) \in Work /\ WorkOf(h).slot = h.redistributed % NumSlots
<1>1. h.redistributed \in Nat
  BY DEF HostTypes
<1>2. CASE h.prefetched = <<>>
  BY <1>1, <1>2, SlotTypes DEF WorkOf, CurrentSlot, Work
<1>3. CASE h.prefetched # <<>>
  <2>1. 1 \in DOMAIN h.prefetched
    BY <1>3 DEF HostTypes
  <2>2. h.prefetched[1].slot = h.redistributed % NumSlots
    BY <1>1, <2>1 DEF SlotsInTurn
  <2> QED
    BY <1>3, <2>2, HostFacts DEF WorkOf
<1> QED
  BY <1>2, <1>3
-------------------------------------------------------------------------------
(* A bucket on the streams.                                                *)

Sound(q) == StreamTypes(q) /\ Ordered(q)

LEMMA FetchPreserves ==
  ASSUME NEW q, NEW h, HostTypes(h), SlotsInTurn(h), NEW busy \in SUBSET Slots,
         Pipelined(q, busy, FetchedSlots(h)), WorkOf(h) \in Work, WorkOf(h).slot \notin busy
  PROVE  /\ Pipelined(Fetch(q, h), busy, FetchedSlots(h) \union {WorkOf(h).slot})
         /\ \A n \in InFetch(q, h) : Sound(n)
<1>1. CASE h.prefetched # <<>>
  <2>1. FetchedSlots(h) \union {WorkOf(h).slot} = FetchedSlots(h)
    BY <1>1, HostFacts DEF WorkOf
  <2> QED
    BY <1>1, <2>1 DEF Fetch, InFetch
<1>2. CASE h.prefetched = <<>>
  <2>1. /\ Pipelined(PrepareLaunched(q, WorkOf(h)), busy, FetchedSlots(h))
        /\ Pipelined(StorageToCompute(q, WorkOf(h)), busy,
                     FetchedSlots(h) \union {WorkOf(h).slot})
    BY HostFacts, StorageToComputePreserves
  <2> QED
    BY <1>2, <2>1 DEF Fetch, InFetch, Sound, Pipelined, Base
<1> QED
  BY <1>1, <1>2

LEMMA ReturnPreserves ==
  ASSUME NEW q, NEW h, HostTypes(h), SlotsInTurn(h), NEW slots \in SUBSET Slots,
         Pipelined(q, BusySlots(h), slots),
         h.transferUsed => h.previous.slot \notin slots
  PROVE  /\ Pipelined(Return(q, h), {}, slots)
         /\ h.transferUsed =>
              Return(q, h).event[<<"done", h.previous.slot>>] = Len(OnTransfer(Return(q, h)))
         /\ \A n \in InReturn(q, h) : Sound(n)
<1>1. CASE h.transferUsed
  <2>1. h.previous \in Work /\ h.previous # NoWork
    BY <1>1, PreviousSlot
  <2>2. Pipelined(q, {h.previous.slot}, slots)
    BY <1>1 DEF BusySlots
  <2> QED
    BY <1>1, <2>1, <2>2, ComputeToStoragePreserves
      DEF Return, InReturn, Sound, Pipelined, Base
<1>2. CASE ~h.transferUsed
  BY <1>2, NoTransferYet DEF Return, InReturn
<1> QED
  BY <1>1, <1>2

(* The way back of the previous bucket and the fetch of this one, in the   *)
(* order that the slots ask for.                                           *)
LEMMA MovePreserves ==
  ASSUME NEW q, NEW h, HostTypes(h), SlotsInTurn(h), h.plan \in Nat \ {0},
         Pipelined(q, BusySlots(h), FetchedSlots(h))
  PROVE  /\ Pipelined(Moved(q, h), {}, FetchedSlots(h) \union {WorkOf(h).slot})
         /\ \A n \in InMove(q, h) : Sound(n)
<1> DEFINE w == WorkOf(h)
<1>1. w \in Work /\ w.slot = h.redistributed % NumSlots /\ w.slot \in Slots
  BY WorkTypes DEF Work
<1>2. /\ BusySlots(h) \in SUBSET Slots /\ FetchedSlots(h) \in SUBSET Slots
      /\ FetchedSlots(h) \union {w.slot} \in SUBSET Slots /\ {} \in SUBSET Slots
  BY <1>1, HostFacts
<1>3. CASE ReturnsFirst(h)
  <2>1. h.transferUsed => h.previous.slot \notin FetchedSlots(h)
    BY PreviousSlot
  <2>2. /\ Pipelined(Return(q, h), {}, FetchedSlots(h))
        /\ \A n \in InReturn(q, h) : Sound(n)
    BY <1>2, <2>1, ReturnPreserves
  <2>3. /\ Pipelined(Fetch(Return(q, h), h), {}, FetchedSlots(h) \union {w.slot})
        /\ \A n \in InFetch(Return(q, h), h) : Sound(n)
    BY <1>1, <1>2, <2>2, FetchPreserves
  <2> QED
    BY <1>3, <2>2, <2>3 DEF Moved, InMove, Sound, Pipelined, Base
<1>4. CASE ~ReturnsFirst(h)
  <2>1. w.slot \notin BusySlots(h)
    BY <1>4 DEF ReturnsFirst, BusySlots
  <2>2. /\ Pipelined(Fetch(q, h), BusySlots(h), FetchedSlots(h) \union {w.slot})
        /\ \A n \in InFetch(q, h) : Sound(n)
    BY <1>1, <1>2, <2>1, FetchPreserves
  <2>3. h.transferUsed => h.previous.slot \notin FetchedSlots(h) \union {w.slot}
    BY <1>4, PreviousSlot DEF ReturnsFirst
  <2>4. /\ Pipelined(Return(Fetch(q, h), h), {}, FetchedSlots(h) \union {w.slot})
        /\ \A n \in InReturn(Fetch(q, h), h) : Sound(n)
    BY <1>2, <2>2, <2>3, ReturnPreserves
  <2> QED
    BY <1>4, <2>2, <2>4 DEF Moved, InMove, Sound, Pipelined, Base
<1> QED
  BY <1>3, <1>4

LEMMA StartPreserves ==
  ASSUME NEW q, NEW h, HostTypes(h), SlotsInTurn(h), InStep(q, h)
  PROVE  Pipelined(StartTransfer(q, h), BusySlots(h), FetchedSlots(h))
<1>1. CASE h.transferUsed
  BY <1>1 DEF StartTransfer, InStep
<1>2. CASE ~h.transferUsed
  BY <1>2, NoTransferYet, WaitStreamPreserves DEF StartTransfer, InStep
<1> QED
  BY <1>1, <1>2

LEMMA BucketPreserves ==
  ASSUME NEW q, NEW h, HostTypes(h), SlotsInTurn(h), h.plan \in Nat \ {0}, InStep(q, h)
  PROVE  /\ Pipelined(BucketEnqueued(q, h), {WorkOf(h).slot},
                      FetchedSlots(h) \union {WorkOf(h).slot})
         /\ \A n \in InBucket(q, h) : Sound(n)
<1> DEFINE w == WorkOf(h)
           slots == FetchedSlots(h) \union {w.slot}
           started == StartTransfer(q, h)
           moved == Moved(started, h)
           computed == Computed(q, h)
<1>1. Pipelined(started, BusySlots(h), FetchedSlots(h))
  BY StartPreserves
<1>2. Pipelined(moved, {}, slots) /\ \A n \in InMove(started, h) : Sound(n)
  <2> HIDE DEF started
  <2> QED
    BY <1>1, MovePreserves
<1>3. w \in Work /\ slots \in SUBSET Slots /\ w.slot \in slots
  <2>1. w \in Work /\ w.slot \in Slots
    BY WorkTypes DEF Work
  <2> QED
    BY <2>1, HostFacts
<1>4. Pipelined(ReadyItems(moved, w), {}, slots) /\ Pipelined(computed, {w.slot}, slots)
  <2>1. computed = ComputeBucket(moved, w)
    BY DEF Computed
  <2> HIDE DEF moved, w, slots
  <2> QED
    BY <1>2, <1>3, <2>1, ComputeBucketPreserves
<1>5. Pipelined(BucketEnqueued(q, h), {w.slot}, slots)
  <2>1. CASE h.previous = NoWork
    BY <1>4, <2>1 DEF BucketEnqueued, ReleasePrevious
  <2>2. CASE h.previous # NoWork
    <3>1. h.previous \in Work
      BY <2>2, NoTransferYet, PreviousSlot
    <3>2. BucketEnqueued(q, h) = Release(computed, h.previous)
      BY <2>2 DEF BucketEnqueued, ReleasePrevious
    <3> HIDE DEF computed, w, slots
    <3> QED
      BY <1>4, <3>1, <3>2, ReleasePreserves
  <2> QED
    BY <2>1, <2>2
<1>6. \A n \in InBucket(q, h) : Sound(n)
  BY <1>1, <1>2, <1>4 DEF InBucket, Sound, Pipelined, Base
<1> QED
  BY <1>5, <1>6

LEMMA LastPreserves ==
  ASSUME NEW q, NEW h, HostTypes(h), SlotsInTurn(h), InStep(q, h), h.prefetched = <<>>
  PROVE  /\ Base(LastEnqueued(q, h)) /\ ComputesSeen(LastEnqueued(q, h), {})
         /\ TransfersSeen(LastEnqueued(q, h))
         /\ Sound(Return(q, h)) /\ \A n \in InReturn(q, h) : Sound(n)
<1>1. CASE h.transferUsed
  <2>1. FetchedSlots(h) = {} /\ {} \in SUBSET Slots
    BY DEF FetchedSlots
  <2>2. /\ Pipelined(Return(q, h), {}, {})
        /\ Return(q, h).event[<<"done", h.previous.slot>>] = Len(OnTransfer(Return(q, h)))
        /\ \A n \in InReturn(q, h) : Sound(n)
    BY <1>1, <2>1, ReturnPreserves DEF InStep
  <2>3. h.previous \in Work /\ LastEnqueued(q, h) = Release(Return(q, h), h.previous)
    BY <1>1, PreviousSlot DEF LastEnqueued, ReleasePrevious
  <2>4. Pipelined(LastEnqueued(q, h), {}, {}) /\ TransfersSeen(LastEnqueued(q, h))
    BY <2>2, <2>3, ReleasePreserves
  <2> QED
    BY <2>2, <2>4 DEF Sound, Pipelined, Base
<1>2. CASE ~h.transferUsed
  BY <1>2, NoTransferYet
    DEF InStep, LastEnqueued, ReleasePrevious, Return, InReturn, Sound, Base
<1> QED
  BY <1>1, <1>2
-------------------------------------------------------------------------------
(* The steps of the host.                                                  *)

LEMMA EntryTypes ==
  ASSUME NEW step \in Nat, NEW pc \in {"outside", "running"}
  PROVE  LET h == [HostAtEntry(step) EXCEPT !.pc = pc]
             e == HostAtEntry(step)
         IN /\ HostTypes(h) /\ SlotsInTurn(h) /\ ~h.transferUsed
            /\ HostTypes(e) /\ SlotsInTurn(e) /\ ~e.transferUsed
<1>1. NoWork \in AnyWork
  BY Constants DEF NoWork, AnyWork
<1>2. <<>> \in Seq(Work) /\ Len(<<>>) = 0 /\ DOMAIN <<>> = {}
  OBVIOUS
<1>3. 0 < NumSlots
  <2>1. NumSlots \in Nat \ {0}
    BY Constants
  <2> QED
    BY <2>1
<1> DEFINE e == HostAtEntry(step)
           h == [HostAtEntry(step) EXCEPT !.pc = pc]
<1>4. HostTypes(e) /\ e.prefetched = <<>> /\ e.previous = NoWork /\ e.transferUsed = FALSE
  BY <1>1, <1>2, <1>3 DEF HostAtEntry, HostTypes
<1> HIDE DEF e
<1>5. HostTypes(h) /\ h.prefetched = <<>> /\ h.previous = NoWork
        /\ h.transferUsed = FALSE /\ h.pc = pc
  BY <1>4 DEF HostTypes, e
<1> HIDE DEF h
<1>6. SlotsInTurn(h)
  BY <1>2, <1>5 DEF SlotsInTurn
<1>7. SlotsInTurn(e)
  <2>1. e.pc = "outside"
    BY DEF e, HostAtEntry
  <2> QED
    BY <1>2, <1>4, <2>1 DEF SlotsInTurn
<1> QED
  BY <1>4, <1>5, <1>6, <1>7 DEF h, e

LEMMA PlanFacts ==
  ASSUME plans \in PlanSets
  PROVE  plans \in Seq(SUBSET Ranks) /\ DOMAIN plans = 1..Len(plans) /\ Len(plans) \in Nat
BY ReshardAssumption

(* The bucket just enqueued is the previous one.                           *)
LEMMA AfterBucketTypes ==
  ASSUME plans \in PlanSets, NEW h, HostTypes(h), SlotsInTurn(h)
  PROVE  LET n == ContinuesWith(AfterBucket(h))
         IN /\ HostTypes(n) /\ SlotsInTurn(n) /\ n.transferUsed
            /\ BusySlots(n) = {WorkOf(h).slot}
            /\ FetchedSlots(n) \subseteq FetchedSlots(h)
            /\ n.pc \in {"running", "prefetching"} /\ n.step = h.step
            /\ n.plan = h.plan + 1 /\ n.previous = WorkOf(h)
            /\ n.prefetched = IF h.prefetched = <<>> THEN <<>> ELSE Tail(h.prefetched)
            /\ n.nextPrefetch = IF h.prefetched = <<>> THEN h.plan + 1 ELSE h.nextPrefetch
<1> DEFINE a == AfterBucket(h)
           n == ContinuesWith(a)
           rest == IF h.prefetched = <<>> THEN h.prefetched ELSE Tail(h.prefetched)
           next == IF h.prefetched = <<>> THEN h.plan + 1 ELSE h.nextPrefetch
<1>1. /\ h.prefetched \in Seq(Work) /\ Len(h.prefetched) < NumSlots /\ h.step \in Nat
      /\ h.plan \in Nat \ {0} /\ h.nextPrefetch \in Nat \ {0} /\ h.redistributed \in Nat
  BY DEF HostTypes
<1>2. WorkOf(h) \in Work /\ WorkOf(h).slot = h.redistributed % NumSlots
  BY <1>1, WorkTypes
<1>3. /\ rest \in Seq(Work) /\ Len(rest) < NumSlots
      /\ \A k \in DOMAIN rest : k + 1 \in DOMAIN h.prefetched /\ k \in Nat
                                  /\ rest[k] = h.prefetched[k + 1]
  <2>1. CASE h.prefetched = <<>>
    BY <1>1, <2>1
  <2>2. CASE h.prefetched # <<>>
    <3>1. /\ Tail(h.prefetched) \in Seq(Work)
          /\ Len(Tail(h.prefetched)) = Len(h.prefetched) - 1 /\ Len(h.prefetched) \in Nat
          /\ \A k \in 1..Len(Tail(h.prefetched)) :
               Tail(h.prefetched)[k] = h.prefetched[k + 1]
      BY <1>1, <2>2, HeadTailProperties
    <3>2. rest = Tail(h.prefetched)
      BY <2>2
    <3>3. DOMAIN h.prefetched = 1..Len(h.prefetched) /\ DOMAIN rest = 1..Len(rest)
      BY <1>1, <3>1, <3>2
    <3> HIDE DEF rest
    <3> QED
      BY <1>1, <3>1, <3>2, <3>3, Constants
  <2> QED
    BY <2>1, <2>2
<1>4. a = [pc |-> h.pc, step |-> h.step, plan |-> h.plan + 1, previous |-> WorkOf(h),
           prefetched |-> rest, nextPrefetch |-> next,
           redistributed |-> h.redistributed + 1, transferUsed |-> TRUE]
  <2>1. a = [h EXCEPT !.previous = WorkOf(h), !.prefetched = rest, !.nextPrefetch = next,
                      !.redistributed = h.redistributed + 1, !.plan = h.plan + 1,
                      !.transferUsed = TRUE]
    BY DEF AfterBucket
  <2> HIDE DEF a, rest, next
  <2> QED
    BY <2>1 DEF HostTypes
<1>5. n = [a EXCEPT !.pc = IF CanPrefetch(a) THEN "prefetching" ELSE "running"]
  BY DEF ContinuesWith
<1>6. CanPrefetch(n) <=> CanPrefetch(a)
  BY <1>4, <1>5 DEF CanPrefetch
<1>7. next \in Nat \ {0}
  BY <1>1
<1> HIDE DEF a, n, rest, next
<1>8. /\ n.step = h.step /\ n.plan = h.plan + 1 /\ n.previous = WorkOf(h)
      /\ n.prefetched = rest /\ n.redistributed = h.redistributed + 1
      /\ n.transferUsed = TRUE /\ n.pc \in {"prefetching", "running"}
      /\ n.pc = "prefetching" => CanPrefetch(n)
      /\ n.nextPrefetch = next
  BY <1>4, <1>5, <1>6
<1>9. HostTypes(n)
  <2>1. n.nextPrefetch \in Nat \ {0}
    BY <1>4, <1>5, <1>7
  <2>2. n = [pc |-> n.pc, step |-> n.step, plan |-> n.plan, previous |-> n.previous,
             prefetched |-> n.prefetched, nextPrefetch |-> n.nextPrefetch,
             redistributed |-> n.redistributed, transferUsed |-> n.transferUsed]
    <3> DEFINE pc == IF CanPrefetch(a) THEN "prefetching" ELSE "running"
    <3>1. n = [a EXCEPT !.pc = pc]
      BY <1>5
    <3> HIDE DEF pc
    <3> QED
      BY <1>4, <3>1
  <2>3. n.previous \in AnyWork
    BY <1>2, <1>8, Constants
  <2>4. n.plan \in Nat \ {0} /\ n.redistributed \in Nat
    BY <1>1, <1>8
  <2> QED
    BY <1>1, <1>3, <1>8, <2>1, <2>2, <2>3, <2>4 DEF HostTypes
<1>10. SlotsInTurn(n)
  <2>1. n.previous.slot = (n.redistributed - 1) % NumSlots /\ n.redistributed > 0
    BY <1>1, <1>2, <1>8
  <2>2. ASSUME NEW k \in DOMAIN rest
        PROVE  rest[k].slot = (n.redistributed + k - 1) % NumSlots
    <3>1. h.prefetched[k + 1].slot = (h.redistributed + (k + 1) - 1) % NumSlots
      BY <1>3 DEF SlotsInTurn
    <3>2. h.redistributed + (k + 1) - 1 = n.redistributed + k - 1
      BY <1>1, <1>3, <1>8
    <3> QED
      BY <1>3, <3>1, <3>2
  <2> QED
    BY <1>2, <1>8, <2>1, <2>2 DEF SlotsInTurn
<1>11. FetchedSlots(n) \subseteq FetchedSlots(h)
  BY <1>3, <1>8 DEF FetchedSlots
<1>12. rest = IF h.prefetched = <<>> THEN <<>> ELSE Tail(h.prefetched)
  BY DEF rest
<1> QED
  BY <1>8, <1>9, <1>10, <1>11, <1>12 DEF n, a, next, BusySlots

(* One more bucket is prefetched.                                          *)
LEMMA AfterPrefetchTypes ==
  ASSUME plans \in PlanSets, NEW h, HostTypes(h), SlotsInTurn(h), h.pc = "prefetching"
  PROVE  LET n == ContinuesWith(AfterPrefetch(h))
         IN /\ HostTypes(n) /\ SlotsInTurn(n) /\ n.transferUsed
            /\ h.transferUsed /\ BusySlots(n) = BusySlots(h)
            /\ PrefetchWork(h) \in Work /\ PrefetchWork(h).slot \notin BusySlots(h)
            /\ FetchedSlots(n) \subseteq FetchedSlots(h) \union {PrefetchWork(h).slot}
            /\ n.pc \in {"running", "prefetching"} /\ n.step = h.step
            /\ n.plan = h.plan /\ n.previous = h.previous
            /\ n.prefetched = Append(h.prefetched, PrefetchWork(h))
            /\ n.nextPrefetch = h.nextPrefetch + 1
<1> DEFINE a == AfterPrefetch(h)
           n == ContinuesWith(a)
           w == PrefetchWork(h)
           all == Append(h.prefetched, w)
<1>1. /\ h.prefetched \in Seq(Work) /\ Len(h.prefetched) < NumSlots /\ h.step \in Nat
      /\ h.plan \in Nat \ {0} /\ h.nextPrefetch \in Nat \ {0} /\ h.redistributed \in Nat
      /\ Len(h.prefetched) \in Nat
  BY DEF HostTypes
<1>2. /\ Len(h.prefetched) < NumSlots - 1 /\ h.nextPrefetch \in DOMAIN plans
      /\ h.transferUsed = TRUE
  BY DEF SlotsInTurn, CanPrefetch, HostTypes
<1>3. w \in Work /\ w.slot = (h.redistributed + Len(h.prefetched)) % NumSlots
  BY <1>1, SlotTypes DEF PrefetchWork, Work
<1>4. w.slot \notin BusySlots(h)
  <2>1. Len(h.prefetched) \in 0..NumSlots - 2
    BY <1>1, <1>2, Constants
  <2> QED
    BY <1>2, <1>3, <2>1, PreviousSlot DEF BusySlots
<1>5. /\ all \in Seq(Work) /\ Len(all) < NumSlots
      /\ \A k \in DOMAIN all :
           /\ k \in Nat
           /\ \/ k \in DOMAIN h.prefetched /\ all[k] = h.prefetched[k]
              \/ k = Len(h.prefetched) + 1 /\ all[k] = w
  <2> HIDE DEF w
  <2> QED
    BY <1>1, <1>2, <1>3, Constants, AppendProperties
<1>6. a = [h EXCEPT !.prefetched = all, !.nextPrefetch = @ + 1]
        /\ n = [a EXCEPT !.pc = IF CanPrefetch(a) THEN "prefetching" ELSE "running"]
  BY DEF AfterPrefetch, ContinuesWith
<1> HIDE DEF all, w, a, n
<1>7. a = [pc |-> h.pc, step |-> h.step, plan |-> h.plan, previous |-> h.previous,
           prefetched |-> all, nextPrefetch |-> h.nextPrefetch + 1,
           redistributed |-> h.redistributed, transferUsed |-> h.transferUsed]
  BY <1>6 DEF HostTypes
<1>8. CanPrefetch(n) <=> CanPrefetch(a)
  BY <1>6, <1>7 DEF CanPrefetch
<1>9. /\ n.step = h.step /\ n.plan = h.plan /\ n.previous = h.previous
      /\ n.prefetched = all /\ n.redistributed = h.redistributed
      /\ n.transferUsed = h.transferUsed /\ n.pc \in {"prefetching", "running"}
      /\ n.pc = "prefetching" => CanPrefetch(n)
      /\ n.nextPrefetch = h.nextPrefetch + 1
  BY <1>6, <1>7, <1>8
<1>10. HostTypes(n)
  <2>1. n.nextPrefetch \in Nat \ {0}
    BY <1>1, <1>6, <1>7
  <2>2. n = [pc |-> n.pc, step |-> n.step, plan |-> n.plan, previous |-> n.previous,
             prefetched |-> n.prefetched, nextPrefetch |-> n.nextPrefetch,
             redistributed |-> n.redistributed, transferUsed |-> n.transferUsed]
    BY <1>6, <1>7
  <2>3. h.previous \in AnyWork
    BY DEF HostTypes
  <2> QED
    BY <1>1, <1>2, <1>5, <1>9, <2>1, <2>2, <2>3 DEF HostTypes
<1>11. SlotsInTurn(n)
  <2>1. /\ h.previous \in Work /\ h.redistributed > 0
        /\ h.previous.slot = (h.redistributed - 1) % NumSlots
    BY <1>2 DEF SlotsInTurn
  <2>2. ASSUME NEW k \in DOMAIN all
        PROVE  all[k].slot = (h.redistributed + k - 1) % NumSlots
    <3>1. CASE k \in DOMAIN h.prefetched /\ all[k] = h.prefetched[k]
      BY <3>1 DEF SlotsInTurn
    <3>2. CASE k = Len(h.prefetched) + 1 /\ all[k] = w
      <4>1. h.redistributed + k - 1 = h.redistributed + Len(h.prefetched)
        BY <1>1, <3>2
      <4> QED
        BY <1>3, <3>2, <4>1
    <3> QED
      BY <1>5, <3>1, <3>2
  <2> QED
    BY <1>2, <1>9, <2>1, <2>2 DEF SlotsInTurn
<1>12. FetchedSlots(n) \subseteq FetchedSlots(h) \union {w.slot}
  BY <1>5, <1>9 DEF FetchedSlots
<1> QED
  BY <1>2, <1>3, <1>4, <1>9, <1>10, <1>11, <1>12 DEF n, a, w, all, BusySlots

(* One rank takes a step; the others keep what they have.                  *)
LEMMA RankStep ==
  ASSUME RaceInv, NEW r \in Ranks, NEW q, NEW h,
         streams' = [streams EXCEPT ![r] = q], host' = [host EXCEPT ![r] = h],
         UNCHANGED <<plans, deviceVars>>, RankInv(q, h)
  PROVE  RaceInv'
<1>1. /\ plans' = plans /\ ended' = ended
      /\ DOMAIN host' = Ranks /\ DOMAIN streams' = Ranks
      /\ streams'[r] = q /\ host'[r] = h
  BY DEF RaceInv, deviceVars
<1>2. ASSUME NEW p \in Ranks
      PROVE  RankInv(streams[p], host[p])'
  <2>1. RankInv(streams'[p], host'[p])
    BY <1>1 DEF RaceInv
  <2> QED
    BY <1>1, <2>1 DEF RankInv, SlotsInTurn, CanPrefetch, IsLocal
<1> QED
  BY <1>1, <1>2 DEF RaceInv

(* The gradients of a step wait for all that was enqueued before.          *)
LEMMA StartStepPreserves ==
  ASSUME NEW q, Base(q), ComputesSeen(q, {}), TransfersSeen(q)
  PROVE  LET n == StartStep(q)
         IN Base(n) /\ ComputesSeen(n, {}) /\ TransfersSeen(n)
<1> DEFINE s == [q EXCEPT !.step = @ + 1]
           n == StartStep(q)
<1>1. StreamTypes(s) /\ s.ops = q.ops /\ s.barrier = q.barrier /\ s.event = q.event
  <2>1. StreamTypes(q) /\ q.step \in Nat /\ q.step + 1 \in Nat
    BY DEF Base, StreamTypes
  <2>2. s = [q EXCEPT !.step = q.step + 1]
    OBVIOUS
  <2> HIDE DEF s
  <2> QED
    BY <2>1, <2>2, StreamUpdates DEF StreamTypes
<1>2. n = Launch(s, "caller", "backward", NoWork)
  BY DEF StartStep
<1> HIDE DEF s, n
<1>3. Base(s) /\ ComputesSeen(s, {}) /\ TransfersSeen(s)
  BY <1>1 DEF Base, Ordered, NoReuse, ComputesSeen, TransfersSeen, OnTransfer, OnCaller
<1>4. "backward" \in CallerOps /\ "backward" # "reuse" /\ "backward" # "compute"
        /\ NoWork \in AnyWork
  BY Constants DEF CallerOps, NoWork, AnyWork
<1>5. \A i \in DOMAIN OnTransfer(s) : s.barrier["caller"] >= i
  BY <1>3, StreamFacts DEF Base, TransfersSeen
<1>6. Base(n) /\ ComputesSeen(n, {}) /\ TransfersSeen(n)
  BY <1>2, <1>3, <1>4, <1>5, LaunchCaller DEF Base, TransfersSeen
<1> QED
  BY <1>6 DEF n

LEMMA TrainStepPreserves ==
  ASSUME RaceInv, NEW r \in Ranks, TrainStep(r)
  PROVE  RaceInv'
<1> DEFINE q == streams[r]
           h == host[r]
           n == StartStep(q)
           k == [HostAtEntry(h.step + 1) EXCEPT !.pc = "running"]
<1>1. /\ HostTypes(h) /\ SlotsInTurn(h) /\ InStep(q, h)
      /\ h.pc = "outside" /\ h.step \in Nat
  BY DEF TrainStep, RaceInv, RankInv, HostTypes
<1>2. /\ streams' = [streams EXCEPT ![r] = n] /\ host' = [host EXCEPT ![r] = k]
      /\ UNCHANGED <<plans, deviceVars>>
  BY DEF TrainStep, Enqueue
<1> HIDE DEF q, h
<1>3. Base(q) /\ ComputesSeen(q, {}) /\ TransfersSeen(q)
  BY <1>1 DEF SlotsInTurn, InStep
<1>4. Base(n) /\ ComputesSeen(n, {}) /\ TransfersSeen(n)
  BY <1>3, StartStepPreserves
<1>5. HostTypes(k) /\ SlotsInTurn(k) /\ ~k.transferUsed
  <2>1. h.step + 1 \in Nat
    BY <1>1
  <2> QED
    BY <2>1, EntryTypes
<1> HIDE DEF n, k
<1>6. RankInv(n, k)
  BY <1>4, <1>5 DEF RankInv, InStep, Base
<1> QED
  BY <1>2, <1>6, RankStep

LEMMA RunLocalBucketPreserves ==
  ASSUME RaceInv, NEW r \in Ranks, RunLocalBucket(r)
  PROVE  RaceInv'
<1> DEFINE q == streams[r]
           h == host[r]
           n == ReadyItems(q, LocalWork(h))
           k == [h EXCEPT !.plan = @ + 1, !.nextPrefetch = h.plan + 1]
<1>1. /\ HostTypes(h) /\ SlotsInTurn(h) /\ InStep(q, h) /\ StreamTypes(q) /\ Ordered(q)
      /\ h.pc = "running"
  BY DEF RunLocalBucket, AtLocalBucket, RaceInv, RankInv
<1>2. /\ streams' = [streams EXCEPT ![r] = n] /\ host' = [host EXCEPT ![r] = k]
      /\ UNCHANGED <<plans, deviceVars>>
  BY DEF RunLocalBucket, Enqueue, RaceInv
<1> HIDE DEF q, h
<1>3. LocalWork(h) \in AnyWork
  BY <1>1, Constants DEF LocalWork, AnyWork, HostTypes
<1>4. InStep(n, h) /\ StreamTypes(n) /\ Ordered(n)
  BY <1>1, <1>3, ReadyItemsPreserves DEF InStep, Pipelined, Base
<1> HIDE DEF n
<1>5. /\ HostTypes(k) /\ k.pc = "running" /\ k.previous = h.previous
      /\ k.prefetched = h.prefetched /\ k.redistributed = h.redistributed
      /\ k.transferUsed = h.transferUsed
  <2>1. h.plan + 1 \in Nat \ {0}
    BY <1>1 DEF HostTypes
  <2> QED
    BY <1>1, <2>1 DEF HostTypes
<1> HIDE DEF k
<1>6. SlotsInTurn(k)
  BY <1>1, <1>5 DEF SlotsInTurn
<1>7. InStep(n, k)
  BY <1>4, <1>5 DEF InStep, BusySlots, FetchedSlots
<1> QED
  BY <1>2, <1>4, <1>5, <1>6, <1>7, RankStep DEF RankInv

LEMMA RunRedistributedBucketPreserves ==
  ASSUME RaceInv, NEW r \in Ranks, RunRedistributedBucket(r)
  PROVE  RaceInv'
<1> DEFINE q == streams[r]
           h == host[r]
           n == BucketEnqueued(q, h)
           k == ContinuesWith(AfterBucket(h))
<1>1. /\ HostTypes(h) /\ SlotsInTurn(h) /\ InStep(q, h) /\ plans \in PlanSets
      /\ h.plan \in Nat \ {0}
  BY DEF RunRedistributedBucket, AtRedistributedBucket, RaceInv, RankInv, HostTypes
<1>2. /\ streams' = [streams EXCEPT ![r] = n] /\ host' = [host EXCEPT ![r] = k]
      /\ UNCHANGED <<plans, deviceVars>>
  BY DEF RunRedistributedBucket, Enqueue
<1> HIDE DEF q, h
<1>3. Pipelined(n, {WorkOf(h).slot}, FetchedSlots(h) \union {WorkOf(h).slot})
  BY <1>1, BucketPreserves
<1>4. /\ HostTypes(k) /\ SlotsInTurn(k) /\ k.transferUsed
      /\ BusySlots(k) = {WorkOf(h).slot} /\ FetchedSlots(k) \subseteq FetchedSlots(h)
  BY <1>1, AfterBucketTypes
<1> HIDE DEF n, k
<1>5. InStep(n, k) /\ StreamTypes(n) /\ Ordered(n)
  BY <1>3, <1>4 DEF InStep, Pipelined, Base, Fetched
<1> QED
  BY <1>2, <1>4, <1>5, RankStep DEF RankInv

LEMMA PrefetchNextPreserves ==
  ASSUME RaceInv, NEW r \in Ranks, PrefetchNext(r)
  PROVE  RaceInv'
<1> DEFINE q == streams[r]
           h == host[r]
           n == StorageToCompute(q, PrefetchWork(h))
           k == ContinuesWith(AfterPrefetch(h))
<1>1. /\ HostTypes(h) /\ SlotsInTurn(h) /\ InStep(q, h) /\ plans \in PlanSets
      /\ h.pc = "prefetching"
  BY DEF PrefetchNext, RaceInv, RankInv
<1>2. /\ streams' = [streams EXCEPT ![r] = n] /\ host' = [host EXCEPT ![r] = k]
      /\ UNCHANGED <<plans, deviceVars>>
  BY DEF PrefetchNext, Enqueue
<1> HIDE DEF q, h
<1>3. /\ HostTypes(k) /\ SlotsInTurn(k) /\ k.transferUsed
      /\ h.transferUsed /\ BusySlots(k) = BusySlots(h)
      /\ PrefetchWork(h) \in Work /\ PrefetchWork(h).slot \notin BusySlots(h)
      /\ FetchedSlots(k) \subseteq FetchedSlots(h) \union {PrefetchWork(h).slot}
  BY <1>1, AfterPrefetchTypes
<1>4. Pipelined(n, BusySlots(h), FetchedSlots(h) \union {PrefetchWork(h).slot})
  BY <1>1, <1>3, HostFacts, StorageToComputePreserves DEF InStep
<1> HIDE DEF n, k
<1>5. InStep(n, k) /\ StreamTypes(n) /\ Ordered(n)
  BY <1>3, <1>4 DEF InStep, Pipelined, Base, Fetched
<1> QED
  BY <1>2, <1>3, <1>5, RankStep DEF RankInv

LEMMA RunReturnsPreserves ==
  ASSUME RaceInv, NEW r \in Ranks, RunReturns(r)
  PROVE  RaceInv'
<1> DEFINE q == streams[r]
           h == host[r]
           n == LastEnqueued(q, h)
           k == HostAtEntry(h.step)
<1>1. /\ HostTypes(h) /\ SlotsInTurn(h) /\ InStep(q, h) /\ h.step \in Nat
      /\ h.prefetched = <<>>
  <2>1. AtEnd(h) /\ AssertionsHold(h)
    BY DEF RunReturns
  <2>2. HostTypes(h) /\ plans \in PlanSets
    BY DEF RaceInv, RankInv
  <2>3. h.prefetched = <<>>
    BY <2>1 DEF AtEnd, AssertionsHold
  <2> QED
    BY <2>1, <2>2, <2>3 DEF AtEnd, RaceInv, RankInv, HostTypes
<1>2. /\ streams' = [streams EXCEPT ![r] = n] /\ host' = [host EXCEPT ![r] = k]
      /\ UNCHANGED <<plans, deviceVars>>
  BY DEF RunReturns, Enqueue
<1> HIDE DEF q, h
<1>3. Base(n) /\ ComputesSeen(n, {}) /\ TransfersSeen(n)
  BY <1>1, LastPreserves
<1>4. HostTypes(k) /\ SlotsInTurn(k) /\ ~k.transferUsed
  BY <1>1, EntryTypes
<1> HIDE DEF n, k
<1>5. RankInv(n, k)
  BY <1>3, <1>4 DEF RankInv, InStep, Base
<1> QED
  BY <1>2, <1>5, RankStep

LEMMA RunRaisesPreserves ==
  ASSUME RaceInv, NEW r \in Ranks, RunRaises(r)
  PROVE  RaceInv'
<1> DEFINE q == streams[r]
           h == host[r]
           used == h.transferUsed \/ AtRedistributedBucket(h)
           k == [h EXCEPT !.pc = "raised"]
<1>1. /\ HostTypes(h) /\ SlotsInTurn(h) /\ InStep(q, h) /\ StreamTypes(q) /\ Ordered(q)
      /\ plans \in PlanSets /\ h.pc \in {"running", "prefetching"}
  BY DEF RunRaises, RaceInv, RankInv
<1>2. PICK i \in Interrupted(q, h) :
        /\ streams' = [streams EXCEPT ![r] = Cleanup(i, used)]
        /\ host' = [host EXCEPT ![r] = k] /\ UNCHANGED <<plans, deviceVars>>
  BY DEF RunRaises, Enqueue
<1> HIDE DEF q, h
<1>3. /\ h.plan \in Nat \ {0} /\ h.transferUsed \in BOOLEAN /\ used \in BOOLEAN
      /\ Len(plans) \in Nat
  BY <1>1, PlanFacts DEF HostTypes, AtRedistributedBucket
<1>4. StreamTypes(i) /\ Ordered(i) /\ (used \/ TransfersSeen(i))
  <2>1. ~h.transferUsed => TransfersSeen(q)
    BY <1>1 DEF InStep
  <2>2. CASE AtLocalBucket(h)
    <3>1. i = q \/ i = ReadyItems(q, LocalWork(h))
      BY <1>2, <1>3, <2>2 DEF Interrupted, AtLocalBucket, AtRedistributedBucket, AtEnd
    <3>2. LocalWork(h) \in AnyWork
      BY <1>3, Constants DEF LocalWork, AnyWork
    <3> QED
      BY <1>1, <2>1, <3>1, <3>2, ReadyItemsPreserves
  <2>3. CASE AtRedistributedBucket(h)
    <3>1. i \in InBucket(q, h)
      BY <1>2, <1>3, <2>3 DEF Interrupted, AtLocalBucket, AtRedistributedBucket, AtEnd
    <3> QED
      BY <1>1, <1>3, <2>3, <3>1, BucketPreserves DEF Sound
  <2>4. CASE h.pc = "prefetching"
    <3>1. i = q \/ i = PrepareLaunched(q, PrefetchWork(h))
      BY <1>2, <2>4 DEF Interrupted, AtLocalBucket, AtRedistributedBucket, AtEnd
    <3>2. /\ h.transferUsed /\ PrefetchWork(h) \in Work
          /\ PrefetchWork(h).slot \notin BusySlots(h)
      BY <1>1, <2>4, AfterPrefetchTypes
    <3>3. Pipelined(PrepareLaunched(q, PrefetchWork(h)), BusySlots(h), FetchedSlots(h))
      BY <1>1, <3>2, HostFacts, StorageToComputePreserves DEF InStep
    <3> QED
      BY <1>1, <3>1, <3>2, <3>3 DEF Pipelined, Base
  <2>5. CASE AtEnd(h)
    <3>1. i \in {q, Return(q, h)} \union InReturn(q, h)
      BY <1>2, <1>3, <2>5 DEF Interrupted, AtLocalBucket, AtRedistributedBucket, AtEnd
    <3>2. CASE ~h.transferUsed
      <4>1. i = q
        BY <1>1, <3>1, <3>2, NoTransferYet DEF Return, InReturn
      <4> QED
        BY <1>1, <2>1, <3>2, <4>1
    <3>3. CASE h.transferUsed
      <4>1. /\ BusySlots(h) \in SUBSET Slots /\ FetchedSlots(h) \in SUBSET Slots
            /\ h.previous.slot \notin FetchedSlots(h)
        BY <1>1, <3>3, HostFacts, PreviousSlot
      <4>2. /\ Pipelined(Return(q, h), {}, FetchedSlots(h))
            /\ \A m \in InReturn(q, h) : Sound(m)
        BY <1>1, <3>3, <4>1, ReturnPreserves DEF InStep
      <4> QED
        BY <1>1, <3>1, <3>3, <4>2 DEF Sound, Pipelined, Base
    <3> QED
      BY <3>2, <3>3
  <2> QED
    BY <1>1, <1>3, <2>2, <2>3, <2>4, <2>5
      DEF AtLocalBucket, AtRedistributedBucket, AtEnd
<1>5. StreamTypes(Cleanup(i, used)) /\ Ordered(Cleanup(i, used))
  BY <1>3, <1>4, CleanupPreserves
<1>6. HostTypes(k) /\ SlotsInTurn(k) /\ k.pc = "raised"
  <2>1. /\ HostTypes(k) /\ k.pc = "raised" /\ k.previous = h.previous
        /\ k.prefetched = h.prefetched /\ k.redistributed = h.redistributed
        /\ k.transferUsed = h.transferUsed
    BY <1>1 DEF HostTypes
  <2> HIDE DEF k
  <2> QED
    BY <1>1, <2>1 DEF SlotsInTurn
<1> HIDE DEF k, used
<1> QED
  BY <1>2, <1>5, <1>6, RankStep DEF RankInv
-------------------------------------------------------------------------------
(* The invariant holds.                                                    *)

LEMMA InitRace == Init => RaceInv
<1> SUFFICES ASSUME Init PROVE RaceInv
  OBVIOUS
<1> DEFINE q == [ops |-> [st \in Streams |-> <<>>],
                 barrier |-> [st \in Streams |-> 0],
                 event |-> [e \in Events \X Slots |-> 0],
                 step |-> 0]
           h == HostAtEntry(0)
<1>1. /\ plans \in PlanSets /\ DOMAIN host = Ranks /\ DOMAIN streams = Ranks
      /\ \A r \in Ranks : streams[r] = q /\ host[r] = h
      /\ ended \in [Ranks -> [Streams -> Nat]]
  BY DEF Init, RuntimeInit, HostsAtStart
<1>2. HostTypes(h) /\ SlotsInTurn(h) /\ ~h.transferUsed
  BY EntryTypes
<1>3. /\ q.ops["transfer"] = <<>> /\ q.ops["caller"] = <<>> /\ q.barrier["caller"] = 0
  BY DEF Streams
<1>4. StreamTypes(q)
  <2>1. \A S : <<>> \in Seq(S)
    OBVIOUS
  <2> QED
    BY <2>1 DEF StreamTypes
<1> HIDE DEF q, h
<1>5. /\ OnTransfer(q) = <<>> /\ OnCaller(q) = <<>>
      /\ DOMAIN OnTransfer(q) = {} /\ DOMAIN OnCaller(q) = {} /\ Len(OnTransfer(q)) = 0
  BY <1>3 DEF OnTransfer, OnCaller
<1>6. Ordered(q) /\ NoReuse(q) /\ ComputesSeen(q, {}) /\ TransfersSeen(q)
  BY <1>3, <1>5 DEF Ordered, NoReuse, ComputesSeen, TransfersSeen
<1>7. RankInv(q, h)
  BY <1>2, <1>4, <1>6 DEF RankInv, InStep, Base
<1> QED
  BY <1>1, <1>7 DEF RaceInv

(* The device only moves on.                                               *)
LEMMA DevicePreserves ==
  ASSUME RaceInv, UNCHANGED <<plans, host, streams>>, ended' \in [Ranks -> [Streams -> Nat]]
  PROVE  RaceInv'
<1>1. ASSUME NEW r \in Ranks
      PROVE  RankInv(streams[r], host[r])'
  <2>1. RankInv(streams[r], host[r])
    BY DEF RaceInv
  <2> QED
    BY <2>1 DEF RankInv, SlotsInTurn, CanPrefetch, IsLocal
<1> QED
  BY <1>1 DEF RaceInv

LEMMA DoneTypes ==
  ASSUME RaceInv, NEW r \in Ranks, NEW st \in Streams, Done(r, st)
  PROVE  ended' \in [Ranks -> [Streams -> Nat]]
<1>1. ended[r] \in [Streams -> Nat] /\ ended \in [Ranks -> [Streams -> Nat]]
  BY DEF RaceInv
<1>2. [ended[r] EXCEPT ![st] = @ + 1] \in [Streams -> Nat]
  BY <1>1
<1> QED
  BY <1>1, <1>2 DEF Done

LEMMA ExchangeTypes ==
  ASSUME RaceInv, ExchangeDone
  PROVE  ended' \in [Ranks -> [Streams -> Nat]]
<1>1. \A r \in Ranks : ended[r] \in [Streams -> Nat]
  BY DEF RaceInv
<1>2. \A r \in Ranks : [ended[r] EXCEPT !["transfer"] = @ + 1] \in [Streams -> Nat]
  BY <1>1 DEF Streams
<1> QED
  BY <1>2 DEF ExchangeDone

LEMMA RaceStep == RaceInv /\ [Next]_vars => RaceInv'
<1> SUFFICES ASSUME RaceInv, [Next]_vars PROVE RaceInv'
  OBVIOUS
<1>1. ASSUME NEW r \in Ranks, HostNext(r)
      PROVE  RaceInv'
  BY <1>1, TrainStepPreserves, RunLocalBucketPreserves, RunRedistributedBucketPreserves,
     PrefetchNextPreserves, RunReturnsPreserves DEF HostNext
<1>2. ASSUME NEW r \in Ranks, RunRaises(r)
      PROVE  RaceInv'
  BY <1>2, RunRaisesPreserves
<1>3. ASSUME NEW r \in Ranks, DeviceNext(r)
      PROVE  RaceInv'
  <2>1. "transfer" \in Streams /\ "caller" \in Streams
    BY DEF Streams
  <2>2. UNCHANGED <<plans, host, streams>> /\ (Done(r, "transfer") \/ Done(r, "caller"))
    BY <1>3 DEF DeviceNext, Prepare, Finalize, Compute, ComputeReadyItems,
                ForwardBackward, ReuseMemory
  <2> QED
    BY <2>1, <2>2, DoneTypes, DevicePreserves
<1>4. CASE Scatter \/ Gather
  <2>1. ExchangeDone
    BY <1>4 DEF Scatter, Gather
  <2> QED
    BY <2>1, ExchangeTypes, DevicePreserves DEF ExchangeDone
<1>5. CASE UNCHANGED vars
  <2>1. UNCHANGED <<plans, host, streams, ended>>
    BY <1>5 DEF vars, deviceVars
  <2> QED
    BY <2>1, DevicePreserves DEF RaceInv
<1> QED
  BY <1>1, <1>2, <1>3, <1>4, <1>5 DEF Next

(* The order of the enqueued work is an invariant of every run.            *)
THEOREM WorkIsOrdered == Spec => []RaceInv
<1> QED
  BY InitRace, RaceStep, PTL DEF Spec

-------------------------------------------------------------------------------
(* What two operations touch.                                              *)

LEMMA TransferTouches ==
  ASSUME NEW r, NEW t, t.op \in TransferOps, NEW m
  PROVE  /\ m \in Writes(r, t) =>
              \/ m[1] \in {"storage_scratch", "storage_exchange"}
              \/ t.op = "scatter" /\ m = <<"compute_exchange", t.slot>>
              \/ t.op = "finalize" /\ m = <<"weight", t.bucket, "resharded">>
         /\ m \in Reads(t) =>
              \/ m[1] = "storage_exchange"
              \/ t.op = "gather" /\ m = <<"compute_exchange", t.slot>>
              \/ t.op = "prepare" /\ m = <<"gradient", t.bucket, "resharded">>
<1>1. CASE t.op = "prepare"
  BY <1>1 DEF Writes, Reads, Buffer
<1>2. CASE t.op = "scatter"
  BY <1>2 DEF Writes, Reads, Buffer
<1>3. CASE t.op = "gather"
  BY <1>3 DEF Writes, Reads, Buffer
<1>4. CASE t.op = "finalize"
  BY <1>4 DEF Writes, Reads, Buffer
<1> QED
  BY <1>1, <1>2, <1>3, <1>4 DEF TransferOps

LEMMA CallTouches ==
  ASSUME NEW r, NEW c, c.op \in CallerOps, c.op # "reuse", NEW m
  PROVE  /\ m \in Writes(r, c) =>
              \/ m[1] = "compute_scratch"
              \/ c.op = "compute" /\ m = <<"compute_exchange", c.slot>>
              \/ c.op = "ready_items" /\ m = <<"weight", c.bucket, "ready">>
              \/ c.op = "backward" /\ m[1] = "gradient"
         /\ m \in Reads(c) =>
              \/ c.op = "ready_items" /\ m = <<"gradient", c.bucket, "ready">>
              \/ c.op = "backward" /\ m[1] = "weight"
<1>1. CASE c.op = "ready_items"
  BY <1>1 DEF Writes, Reads, Buffer
<1>2. CASE c.op = "compute"
  BY <1>2 DEF Writes, Reads, Buffer
<1>3. CASE c.op = "backward"
  BY <1>3 DEF Writes, Reads, AllItems
<1> QED
  BY <1>1, <1>2, <1>3 DEF CallerOps

(* Operations that do not conflict have no memory in common but what both  *)
(* only read.                                                              *)
LEMMA Separate ==
  ASSUME NEW r, NEW t \in Operations("transfer"), NEW c \in Operations("caller"),
         ~Conflicting(t, c)
  PROVE  /\ Writes(r, t) \intersect (Reads(c) \union Writes(r, c)) = {}
         /\ Writes(r, c) \intersect Reads(t) = {}
<1>1. t.op \in TransferOps /\ c.op \in CallerOps
  BY DEF Operations, OpNames, Streams
<1>2. /\ c.op # "reuse"
      /\ ~(c.op = "compute" /\ t.op \in {"scatter", "gather"} /\ t.slot = c.slot)
      /\ ~(c.op = "backward" /\ t.op \in {"prepare", "finalize"})
  BY DEF Conflicting
<1>3. ASSUME NEW m, m \in Writes(r, t), m \in Reads(c)
      PROVE  FALSE
  <2>1. /\ \/ m[1] \in {"storage_scratch", "storage_exchange"}
           \/ t.op = "scatter" /\ m = <<"compute_exchange", t.slot>>
           \/ t.op = "finalize" /\ m = <<"weight", t.bucket, "resharded">>
        /\ \/ c.op = "ready_items" /\ m = <<"gradient", c.bucket, "ready">>
           \/ c.op = "backward" /\ m[1] = "weight"
    BY <1>1, <1>2, <1>3, TransferTouches, CallTouches
  <2> QED
    BY <1>2, <2>1
<1>4. ASSUME NEW m, m \in Writes(r, t), m \in Writes(r, c)
      PROVE  FALSE
  <2>1. /\ \/ m[1] \in {"storage_scratch", "storage_exchange"}
           \/ t.op = "scatter" /\ m = <<"compute_exchange", t.slot>>
           \/ t.op = "finalize" /\ m = <<"weight", t.bucket, "resharded">>
        /\ \/ m[1] = "compute_scratch"
           \/ c.op = "compute" /\ m = <<"compute_exchange", c.slot>>
           \/ c.op = "ready_items" /\ m = <<"weight", c.bucket, "ready">>
           \/ c.op = "backward" /\ m[1] = "gradient"
    BY <1>1, <1>2, <1>4, TransferTouches, CallTouches
  <2> QED
    BY <1>2, <2>1
<1>5. ASSUME NEW m, m \in Writes(r, c), m \in Reads(t)
      PROVE  FALSE
  <2>1. /\ \/ m[1] = "storage_exchange"
           \/ t.op = "gather" /\ m = <<"compute_exchange", t.slot>>
           \/ t.op = "prepare" /\ m = <<"gradient", t.bucket, "resharded">>
        /\ \/ m[1] = "compute_scratch"
           \/ c.op = "compute" /\ m = <<"compute_exchange", c.slot>>
           \/ c.op = "ready_items" /\ m = <<"weight", c.bucket, "ready">>
           \/ c.op = "backward" /\ m[1] = "gradient"
    BY <1>1, <1>2, <1>5, TransferTouches, CallTouches
  <2> QED
    BY <1>2, <2>1
<1> QED
  BY <1>3, <1>4, <1>5

(* The two streams of a rank never work on the same memory at the same     *)
(* time, whatever the plans, the number of slots and the relative speed of *)
(* hosts and streams, nor does anything meet the work that is left when a  *)
(* callback raised.                                                        *)
THEOREM NoRaceOnBuffers == Spec => []NoBufferRace
<1>1. RaceInv => NoBufferRace
  <2> SUFFICES ASSUME RaceInv, NEW r \in Ranks, CanRun(r, "transfer"), CanRun(r, "caller")
               PROVE  LET t == NextOp(r, "transfer")
                          c == NextOp(r, "caller")
                      IN /\ Writes(r, t) \intersect (Reads(c) \union Writes(r, c)) = {}
                         /\ Writes(r, c) \intersect Reads(t) = {}
    BY DEF NoBufferRace
  <2> DEFINE q == streams[r]
             i == ended[r]["transfer"] + 1
             j == ended[r]["caller"] + 1
  <2>1. StreamTypes(q) /\ Ordered(q)
    BY DEF RaceInv, RankInv
  <2>2. ended[r]["transfer"] \in Nat /\ ended[r]["caller"] \in Nat
    BY DEF RaceInv, Streams
  <2>3. /\ NextOp(r, "transfer") = OnTransfer(q)[i] /\ NextOp(r, "caller") = OnCaller(q)[j]
        /\ ended[r]["transfer"] < Len(OnTransfer(q)) /\ ended[r]["caller"] < Len(OnCaller(q))
        /\ OnTransfer(q)[i].after <= ended[r]["caller"]
        /\ OnCaller(q)[j].after <= ended[r]["transfer"]
    BY DEF CanRun, NextOp, OnTransfer, OnCaller, Other
  <2> HIDE DEF q
  <2>4. /\ i \in DOMAIN OnTransfer(q) /\ j \in DOMAIN OnCaller(q)
        /\ OnTransfer(q)[i] \in Operations("transfer")
        /\ OnCaller(q)[j] \in Operations("caller")
    <3>1. /\ DOMAIN OnTransfer(q) = 1..Len(OnTransfer(q)) /\ Len(OnTransfer(q)) \in Nat
          /\ DOMAIN OnCaller(q) = 1..Len(OnCaller(q)) /\ Len(OnCaller(q)) \in Nat
      BY <2>1, StreamFacts
    <3>2. i \in DOMAIN OnTransfer(q) /\ j \in DOMAIN OnCaller(q)
      BY <2>2, <2>3, <3>1
    <3> QED
      BY <2>1, <3>2, StreamFacts
  <2>5. OnTransfer(q)[i].after \in Nat /\ OnCaller(q)[j].after \in Nat
    BY <2>4 DEF Operations
  <2>6. ~Conflicting(OnTransfer(q)[i], OnCaller(q)[j])
    BY <2>1, <2>2, <2>3, <2>4, <2>5 DEF Ordered
  <2> QED
    BY <2>3, <2>4, <2>6, Separate
<1> QED
  BY <1>1, WorkIsOrdered, PTL
===============================================================================
