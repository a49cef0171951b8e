------------------------- MODULE PretrainingStepsProofs -------------------------
(***************************************************************************)
(* Proofs about the training loop for all configurations, data-parallel    *)
(* degrees, numbers of rows, steps, deaths and corrupted executions: how   *)
(* the shards partition the dataset, what the weights consist of, what the *)
(* replays find, and when the graph is captured.                           *)
(***************************************************************************)
EXTENDS PretrainingSteps, SequenceTheorems, TLAPS

-------------------------------------------------------------------------------
(* The shards of a dataset.                                                *)

(* What divmod gives the build.                                            *)
LEMMA Divmod ==
  ASSUME NEW size \in Nat, NEW world \in Nat \ {0}
  PROVE  /\ size \div world \in Nat
         /\ size % world \in 0..world - 1
         /\ size = world * (size \div world) + (size % world)
  OBVIOUS

(* Integer division, written without it.                                   *)
LEMMA Quotient ==
  ASSUME NEW a \in Nat, NEW d \in Nat \ {0}
  PROVE  a \div d \in Nat /\ (a \div d) * d <= a /\ a < (a \div d) * d + d
<1>1. a = d * (a \div d) + (a % d) /\ a \div d \in Nat /\ a % d \in 0..d - 1
  BY Divmod
<1>2. d * (a \div d) = (a \div d) * d
  BY <1>1
<1> QED BY <1>1, <1>2

(* Multiplication is monotone, the one nonlinear fact that is needed.      *)
LEMMA MultiplyMonotone ==
  ASSUME NEW a \in Int, NEW b \in Int, NEW q \in Nat, a <= b
  PROVE  a * q <= b * q
  OBVIOUS

(* The slice of a rank ends where the next one's begins.                   *)
LEMMA ShardsAdjoin ==
  ASSUME NEW size \in Nat, NEW world \in Nat \ {0}, NEW rank \in 0..world - 1
  PROVE  ShardStart(size, world, rank) + ShardSize(size, world, rank)
           = ShardStart(size, world, rank + 1)
<1> DEFINE q == size \div world
           m == size % world
<1>1. q \in Nat /\ m \in 0..world - 1
  BY Divmod
<1>2. (rank + 1) * q = rank * q + q
  BY <1>1
<1> HIDE DEF q, m
<1>3. CASE rank < m
  <2>1. rank + 1 < m \/ rank + 1 = m
    BY <1>1, <1>3
  <2> QED BY <1>1, <1>2, <1>3, <2>1 DEF ShardStart, ShardSize, q, m
<1>4. CASE ~(rank < m)
  <2>1. ~(rank + 1 < m)
    BY <1>1, <1>4
  <2> QED BY <1>1, <1>2, <1>4, <2>1 DEF ShardStart, ShardSize, q, m
<1> QED BY <1>3, <1>4

(* Later ranks begin where earlier ones have ended.                        *)
LEMMA ShardsInOrder ==
  ASSUME NEW size \in Nat, NEW world \in Nat \ {0},
         NEW r \in 0..world, NEW s \in 0..world, r <= s
  PROVE  ShardStart(size, world, r) <= ShardStart(size, world, s)
<1> DEFINE q == size \div world
           m == size % world
<1>1. q \in Nat /\ m \in 0..world - 1
  BY Divmod
<1>2. r * q <= s * q /\ r * q \in Int /\ s * q \in Int
  BY <1>1, MultiplyMonotone
<1> HIDE DEF q, m
<1>3. (IF r < m THEN r ELSE m) <= (IF s < m THEN s ELSE m)
  BY <1>1
<1> QED BY <1>1, <1>2, <1>3 DEF ShardStart, q, m

(* Together they span the dataset.                                         *)
LEMMA ShardsSpan ==
  ASSUME NEW size \in Nat, NEW world \in Nat \ {0}
  PROVE  /\ ShardStart(size, world, 0) = 0
         /\ ShardStart(size, world, world) = size
         /\ \A r \in 0..world : ShardStart(size, world, r) \in Int
<1> DEFINE q == size \div world
           m == size % world
<1>1. q \in Nat /\ m \in 0..world - 1 /\ size = world * q + m
  BY Divmod
<1> HIDE DEF q, m
<1>2. \A r \in 0..world : r * q \in Int
  BY <1>1
<1> QED BY <1>1, <1>2 DEF ShardStart, q, m

(* The rank whose slice a row is in.                                       *)
LEMMA EveryRowDealt ==
  ASSUME NEW size \in Nat, NEW world \in Nat \ {0}, NEW row \in 0..size - 1
  PROVE  \E rank \in 0..world - 1 : row \in Shard(size, world, rank)
<1> DEFINE q == size \div world
           m == size % world
           big == m * (q + 1)
<1>1. q \in Nat /\ m \in 0..world - 1 /\ size = world * q + m
  BY Divmod
<1> HIDE DEF q, m
<1>2. big \in Nat /\ big = m * q + m
  BY <1>1
<1>3. CASE row < big
  <2> DEFINE r == row \div (q + 1)
  <2>1. r \in Nat /\ r * (q + 1) <= row /\ row < r * (q + 1) + (q + 1)
    <3>1. q + 1 \in Nat \ {0} /\ row \in Nat
      BY <1>1
    <3> QED BY ONLY <3>1, Quotient DEF r
  <2> HIDE DEF r, big
  <2>2. r < m
    <3>1. SUFFICES ASSUME m <= r PROVE FALSE
      BY <1>1, <2>1
    <3>2. m * (q + 1) <= r * (q + 1)
      BY <1>1, <2>1, <3>1, MultiplyMonotone
    <3> QED BY <1>1, <1>2, <1>3, <2>1, <3>2 DEF big
  <2>3. r * (q + 1) = r * q + r /\ r * q \in Int
    BY <1>1, <2>1
  <2>4. ShardStart(size, world, r) = r * q + r /\ ShardSize(size, world, r) = q + 1
    BY <1>1, <2>2 DEF ShardStart, ShardSize, q, m
  <2>5. row \in Shard(size, world, r)
    BY <1>1, <2>1, <2>3, <2>4 DEF Shard
  <2> QED BY <1>1, <2>1, <2>2, <2>5
<1>4. CASE ~(row < big)
  <2> DEFINE t == (row - big) \div q
             r == m + t
  <2>1. q > 0
    <3>1. SUFFICES ASSUME q = 0 PROVE FALSE
      BY <1>1
    <3>2. world * q = 0 /\ m * q = 0
      BY <1>1, <3>1
    <3> QED BY <1>1, <1>2, <1>4, <3>2
  <2> HIDE DEF big
  <2>2. t \in Nat /\ t * q <= row - big /\ row - big < t * q + q
    BY <1>1, <1>2, <1>4, <2>1
  <2> HIDE DEF t
  <2>3. world * q - m * q = (world - m) * q
    BY <1>1
  <2>4. t < world - m
    <3>1. SUFFICES ASSUME world - m <= t PROVE FALSE
      BY <1>1, <2>2
    <3>2. (world - m) * q <= t * q
      BY <1>1, <2>2, <3>1, MultiplyMonotone
    <3>3. world * q \in Int /\ m * q \in Int /\ t * q \in Int
      BY <1>1, <2>2
    <3> QED BY <1>1, <1>2, <2>2, <2>3, <3>2, <3>3
  <2>5. r \in 0..world - 1 /\ ~(r < m)
    BY <1>1, <2>2, <2>4
  <2>6. r * q = m * q + t * q /\ m * q \in Int /\ t * q \in Int
    BY <1>1, <2>2
  <2>7. ShardStart(size, world, r) = r * q + m /\ ShardSize(size, world, r) = q
    BY <1>1, <2>5 DEF ShardStart, ShardSize, q, m
  <2>8. row \in Shard(size, world, r)
    BY <1>1, <1>2, <2>2, <2>6, <2>7 DEF Shard
  <2> QED BY <2>5, <2>8
<1> QED BY <1>3, <1>4

(* Every row of a finite dataset goes to exactly one rank, no rank gets a  *)
(* row that is not there, and the ranks get equally many up to one, each   *)
(* at least one if the build lets the dataset pass: the arithmetic of the  *)
(* slices in SingleDatasetConfig and DatasetConcatConfig.                  *)
THEOREM ShardsPartition ==
  ASSUME NEW size \in Nat, NEW world \in Nat \ {0}
  PROVE  /\ \A row \in 0..size - 1 :
              \E rank \in 0..world - 1 : row \in Shard(size, world, rank)
         /\ \A r, s \in 0..world - 1 :
              r # s => Shard(size, world, r) \cap Shard(size, world, s) = {}
         /\ \A r \in 0..world - 1 : Shard(size, world, r) \subseteq 0..size - 1
         /\ \A r, s \in 0..world - 1 :
              ShardSize(size, world, r) <= ShardSize(size, world, s) + 1
         /\ ShardsOK(size, world) =>
              \A r \in 0..world - 1 : ShardSize(size, world, r) >= 1
<1>1. \A row \in 0..size - 1 :
        \E rank \in 0..world - 1 : row \in Shard(size, world, rank)
  BY EveryRowDealt
<1>2. ASSUME NEW r \in 0..world - 1, NEW s \in 0..world - 1, r < s
      PROVE  Shard(size, world, r) \cap Shard(size, world, s) = {}
  <2>1. ShardStart(size, world, r + 1) <= ShardStart(size, world, s)
    BY <1>2, ShardsInOrder
  <2>2. ShardStart(size, world, r) + ShardSize(size, world, r)
          = ShardStart(size, world, r + 1)
    BY ShardsAdjoin
  <2>3. /\ ShardStart(size, world, r + 1) \in Int
        /\ ShardStart(size, world, s) \in Int
    BY ShardsSpan
  <2> QED BY <2>1, <2>2, <2>3 DEF Shard
<1>3. \A r, s \in 0..world - 1 :
        r # s => Shard(size, world, r) \cap Shard(size, world, s) = {}
  <2> TAKE r, s \in 0..world - 1
  <2> HAVE r # s
  <2>1. r < s \/ s < r
    OBVIOUS
  <2> QED BY <1>2, <2>1
<1>4. ASSUME NEW r \in 0..world - 1
      PROVE  Shard(size, world, r) \subseteq 0..size - 1
  <2>1. ShardStart(size, world, r + 1) <= size
    BY ShardsInOrder, ShardsSpan
  <2>2. ShardStart(size, world, r) + ShardSize(size, world, r)
          = ShardStart(size, world, r + 1)
    BY ShardsAdjoin
  <2>3. ShardStart(size, world, r + 1) \in Int
    BY ShardsSpan
  <2> QED BY <2>1, <2>2, <2>3 DEF Shard
<1>5. /\ \A r, s \in 0..world - 1 :
           ShardSize(size, world, r) <= ShardSize(size, world, s) + 1
      /\ ShardsOK(size, world) =>
           \A r \in 0..world - 1 : ShardSize(size, world, r) >= 1
  <2> DEFINE q == size \div world
             m == size % world
  <2>1. q \in Nat /\ m \in 0..world - 1 /\ size = world * q + m
    BY Divmod
  <2> HIDE DEF q, m
  <2>2. ShardsOK(size, world) => q >= 1
    <3>1. SUFFICES ASSUME size >= world, q = 0 PROVE FALSE
      BY <2>1 DEF ShardsOK
    <3>2. world * q = 0
      BY <3>1
    <3> QED BY <2>1, <3>1, <3>2
  <2> QED BY <2>1, <2>2 DEF ShardSize, q, m
<1> QED BY <1>1, <1>3, <1>4, <1>5

-------------------------------------------------------------------------------
(* Settings and arithmetic.                                                *)

Settled == config \in Configs /\ dp \in Degrees /\ DataConfigOK(config, dp)

(* What ConfigOK says of the running configuration.                        *)
LEMMA Settings ==
  ASSUME Settled
  PROVE  /\ config.accumulation \in Nat \ {0}
         /\ config.replays \in Nat /\ config.sdcSteps \in Nat \union {-1}
         /\ config.sdcSteps # 0 => config.replays # 0
         /\ config.graphs \in BOOLEAN /\ (config.graphs => config.replays <= 1)
         /\ config.shuffle \in BOOLEAN /\ config.repeat \in BOOLEAN
         /\ ScheduleOK(config.schedule)
         /\ dp \in Nat \ {0} /\ Rows \in Nat \ {0} /\ NumSteps \in Nat
  BY TrainingAssumption, DataAssumption DEF Settled, ConfigOK

(* Quotient and remainder are the only ones with their property.           *)
LEMMA DivmodUnique ==
  ASSUME NEW n \in Nat, NEW d \in Nat \ {0}, NEW e \in Nat, NEW r \in 0..d - 1,
         n = e * d + r
  PROVE  n \div d = e /\ n % d = r
<1> DEFINE q == n \div d
<1>1. q \in Nat /\ q * d <= n /\ n < q * d + d
  BY Quotient
<1>2. n % d \in 0..d - 1 /\ n = d * q + (n % d) /\ d * q = q * d
  BY Divmod, <1>1
<1> HIDE DEF q
<1>3. q * d \in Int /\ e * d \in Int /\ (e + 1) * d = e * d + d /\ (q + 1) * d = q * d + d
  BY <1>1
<1>4. ~(q < e)
  <2>1. SUFFICES ASSUME q + 1 <= e PROVE FALSE
    BY <1>1
  <2>2. (q + 1) * d <= e * d
    BY <1>1, <2>1, MultiplyMonotone
  <2> QED BY <1>1, <1>3, <2>2
<1>5. ~(e < q)
  <2>1. SUFFICES ASSUME e + 1 <= q PROVE FALSE
    BY <1>1
  <2>2. (e + 1) * d <= q * d
    BY <1>1, <2>1, MultiplyMonotone
  <2> QED BY <1>1, <1>3, <2>2
<1>6. q = e
  BY <1>1, <1>4, <1>5
<1>7. n % d = r
  BY <1>2, <1>3, <1>6
<1> QED BY <1>6, <1>7 DEF q

(* A rank that the build lets pass has rows.                               *)
LEMMA ShardHasRows ==
  ASSUME Settled, Indexed
  PROVE  ShardRows \in Nat \ {0} /\ ShardStart(Rows, dp, Rank) \in Nat
<1>1. dp \in Nat \ {0} /\ Rows \in Nat \ {0} /\ ShardsOK(Rows, dp)
  BY Settings DEF Settled, DataConfigOK, Indexed
<1>2. Rank \in 0..dp - 1
  BY <1>1 DEF Rank
<1>3. ShardRows >= 1
  BY <1>1, <1>2, ShardsPartition DEF ShardRows
<1>4. Rows \div dp \in Nat /\ Rows % dp \in 0..dp - 1
  BY <1>1, Divmod
<1>5. ShardRows \in Int
  BY <1>2, <1>4 DEF ShardRows, ShardSize
<1>6. Rank * (Rows \div dp) \in Nat
  BY <1>2, <1>4
<1>7. ShardStart(Rows, dp, Rank) \in Nat
  BY <1>2, <1>4, <1>6 DEF ShardStart
<1> QED BY <1>3, <1>5, <1>7

(* The data of a rank are batches.                                         *)
LEMMA RowType ==
  ASSUME Settled, NEW k \in Nat \ {0}
  PROVE  Row(k) \in Batch
<1>1. dp \in Nat /\ Rows \in Nat \ {0} /\ k - 1 \in Nat
  BY Settings
<1>2. (k - 1) \div Rows \in Nat /\ (k - 1) % Rows \in Nat
  BY <1>1, Divmod
<1>3. CASE Indexed
  <2>1. ShardRows \in Nat \ {0} /\ ShardStart(Rows, dp, Rank) \in Nat
    BY <1>3, ShardHasRows
  <2>2. (k - 1) \div ShardRows \in Nat /\ (k - 1) % ShardRows \in Nat
    <3>1. \A d \in Nat \ {0} : (k - 1) \div d \in Nat /\ (k - 1) % d \in Nat
      BY <1>1, Divmod
    <3> QED BY <2>1, <3>1
  <2>3. Row(k) = <<dp, IF config.shuffle THEN (k - 1) \div ShardRows ELSE 0,
                  ShardStart(Rows, dp, Rank) + ((k - 1) % ShardRows) + 1>>
    BY <1>3 DEF Row, Indexed, IndexedRow
  <2>4. /\ (IF config.shuffle THEN (k - 1) \div ShardRows ELSE 0) \in Nat
        /\ ShardStart(Rows, dp, Rank) + ((k - 1) % ShardRows) + 1 \in Nat
    BY <2>1, <2>2
  <2> QED BY <1>1, <2>3, <2>4 DEF Batch
<1>4. CASE ~Indexed
  <2>1. Row(k) = <<dp, IF config.shuffle THEN (k - 1) \div Rows ELSE 0, ((k - 1) % Rows) + 1>>
    BY <1>4 DEF Row, Indexed
  <2>2. (IF config.shuffle THEN (k - 1) \div Rows ELSE 0) \in Nat /\ ((k - 1) % Rows) + 1 \in Nat
    BY <1>2
  <2> QED BY <1>1, <2>1, <2>2 DEF Batch
<1> QED BY <1>3, <1>4

-------------------------------------------------------------------------------
(* The loader.                                                             *)

(* The cursor of a new process stands before the first row.                *)
LEMMA NewCursorAt ==
  ASSUME Settled
  PROVE  CursorAt(NewCursor, 0) /\ StateAt(GetState(NewCursor), 0)
<1>1. Rows \in Nat \ {0}
  BY Settings
<1>2. 0 * Rows + 0 = 0 /\ 0 \in 0..Rows
  BY <1>1
<1> QED BY <1>1, <1>2 DEF CursorAt, StateAt, NewCursor, GetState, StreamCursor

(* A cursor set to a saved state stands where the state was taken.         *)
LEMMA SetStateAt ==
  ASSUME Settled, NEW s, NEW n \in Nat, StateAt(s, n)
  PROVE  CursorAt(SetState(s), n)
<1>1. Rows \in Nat \ {0}
  BY Settings
<1>2. CASE Indexed
  BY <1>2 DEF StateAt, CursorAt, SetState
<1>3. CASE ~Indexed
  <2>1. s \in [epoch : Nat, hf : 0..Rows] /\ s.epoch * Rows + s.hf = n
    BY <1>3 DEF StateAt
  <2>2. SetState(s) = [epoch |-> s.epoch,
                       dataset |-> [epoch |-> IF config.shuffle THEN s.epoch ELSE 0,
                                    start |-> s.hf],
                       iter |-> [epoch |-> IF config.shuffle THEN s.epoch ELSE 0,
                                 at |-> s.hf]]
    BY <1>3 DEF SetState, SetStreamState, Iterate, LoadDataset, SetEpoch, StreamCursor
  <2> QED BY <1>1, <1>3, <2>1, <2>2 DEF CursorAt
<1> QED BY <1>2, <1>3

(* Reading gives the next row of the data and moves the cursor behind it,  *)
(* into the next epoch where one ends.                                     *)
LEMMA ReadAdvances ==
  ASSUME Settled, NEW c, NEW n \in Nat, CursorAt(c, n)
  PROVE  /\ CursorAt(Read(c), n + 1)
         /\ StateAt(GetState(Read(c)), n + 1)
         /\ RowAt(Read(c)) = Row(n + 1)
<1>1. Rows \in Nat \ {0} /\ config.shuffle \in BOOLEAN
  BY Settings
<1>2. CASE Indexed
  <2>1. c = [next |-> n] /\ Read(c) = [next |-> n + 1]
    BY <1>2 DEF CursorAt, Read
  <2>2. Row(n + 1) = IndexedRow(n + 1 - 1)
    BY <1>2 DEF Row, Indexed
  <2> QED BY <1>2, <2>1, <2>2 DEF CursorAt, StateAt, GetState, RowAt
<1>3. CASE ~Indexed
  <2> DEFINE at == IF StreamEnded(c) THEN NextEpoch(c) ELSE c
  <2>1. /\ c \in [epoch : Nat, dataset : [epoch : Nat, start : 0..Rows],
                  iter : [epoch : Nat, at : 0..Rows]]
        /\ c.epoch * Rows + c.iter.at = n
        /\ c.iter.epoch = IF config.shuffle THEN c.epoch ELSE 0
        /\ ~config.shuffle => c.dataset.epoch = 0
    BY <1>3 DEF CursorAt
  <2>2. /\ at \in [epoch : Nat, dataset : [epoch : Nat, start : 0..Rows],
                   iter : [epoch : Nat, at : 0..Rows]]
        /\ at.epoch * Rows + at.iter.at = n /\ at.iter.at < Rows
        /\ at.iter.epoch = IF config.shuffle THEN at.epoch ELSE 0
        /\ ~config.shuffle => at.dataset.epoch = 0
    <3>1. CASE StreamEnded(c)
      <4>1. at = [epoch |-> c.epoch + 1,
                  dataset |-> [epoch |-> IF config.shuffle THEN c.epoch + 1 ELSE c.dataset.epoch,
                               start |-> 0],
                  iter |-> [epoch |-> IF config.shuffle THEN c.epoch + 1 ELSE c.dataset.epoch,
                            at |-> 0]]
        BY <2>1, <3>1 DEF NextEpoch, Iterate, LoadDataset, SetEpoch
      <4>2. (c.epoch + 1) * Rows + 0 = c.epoch * Rows + Rows
        BY <1>1, <2>1
      <4>3. c.iter.at = Rows
        BY <3>1 DEF StreamEnded
      <4> HIDE DEF at
      <4> QED BY <1>1, <2>1, <4>1, <4>2, <4>3
    <3>2. CASE ~StreamEnded(c)
      BY <1>1, <2>1, <3>2 DEF StreamEnded
    <3> QED BY <3>1, <3>2
  <2>3. Read(c) = [at EXCEPT !.iter.at = @ + 1]
    BY <1>3 DEF Read, ReadStream
  <2> HIDE DEF at
  <2>4. n \div Rows = at.epoch /\ n % Rows = at.iter.at
    BY <1>1, <2>2, DivmodUnique
  <2>5. Read(c) = [epoch |-> at.epoch, dataset |-> at.dataset,
                   iter |-> [epoch |-> at.iter.epoch, at |-> at.iter.at + 1]]
    BY <2>2, <2>3
  <2>6. at.epoch * Rows + (at.iter.at + 1) = n + 1 /\ at.epoch * Rows \in Int
    BY <1>1, <2>2
  <2>7. CursorAt(Read(c), n + 1) /\ StateAt(GetState(Read(c)), n + 1)
    BY <1>1, <1>3, <2>2, <2>5, <2>6 DEF CursorAt, StateAt, GetState
  <2>8. Row(n + 1) = <<dp, IF config.shuffle THEN n \div Rows ELSE 0, (n % Rows) + 1>>
    BY <1>3 DEF Row, Indexed
  <2>9. RowAt(Read(c)) = Row(n + 1)
    BY <1>1, <1>3, <2>2, <2>4, <2>5, <2>8 DEF RowAt
  <2> QED BY <2>7, <2>9
<1> QED BY <1>2, <1>3

(* What the operators of the loader look at.                               *)
LEMMA DataFrame ==
  ASSUME UNCHANGED <<config, dp>>
  PROVE  /\ \A k \in Nat : Row(k)' = Row(k)
         /\ Settled' <=> Settled
<1>1. \A k \in Nat : Row(k)' = Row(k)
  BY DEF Row, IndexedRow, ShardRows, Rank
<1>2. Settled' <=> Settled
  BY DEF Settled, DataConfigOK
<1> QED BY <1>1, <1>2

BufferedRow == [row : Batch, state : [next : Nat] \union [epoch : Nat, hf : 0..Rows]]

(* The state after a number of rows is one of either source.               *)
LEMMA StateType ==
  ASSUME NEW s, NEW n \in Nat, StateAt(s, n)
  PROVE  s \in [next : Nat] \union [epoch : Nat, hf : 0..Rows]
<1>1. CASE Indexed
  <2>1. s = [next |-> n]
    BY <1>1 DEF StateAt
  <2>2. s \in [next : Nat]
    BY <2>1
  <2> QED BY <2>2
<1>2. CASE ~Indexed
  BY <1>2 DEF StateAt
<1> QED BY <1>1, <1>2

(* The loader of the first process, and of a later one, is at row 0.       *)
LEMMA LoaderInit ==
  ASSUME Settled, DataInit
  PROVE  LoaderAt(0)
<1>1. buffer = <<>> /\ cursor = NewCursor /\ position = GetState(NewCursor)
  BY DEF DataInit
<1>2. CursorAt(cursor, 0) /\ StateAt(position, 0)
  BY <1>1, NewCursorAt
<1>3. buffer \in Seq(BufferedRow) /\ Len(buffer) = 0
  BY <1>1, EmptySeq
<1>4. 0 + Len(buffer) = 0
  BY <1>3
<1> QED BY <1>2, <1>3, <1>4 DEF LoaderAt, BufferedRow

(* A loader whose buffer is empty is where its cursor and position are.    *)
LEMMA EmptyLoader ==
  ASSUME config' = config, NEW n \in Nat, buffer' = <<>>,
         CursorAt(cursor', n), StateAt(position', n)
  PROVE  LoaderAt(n)'
<1>1. CursorAt(cursor, n)' /\ StateAt(position, n)'
  BY DEF CursorAt, StateAt, Indexed
<1>2. (buffer \in Seq(BufferedRow))' /\ Len(buffer') = 0
  BY EmptySeq
<1>3. n + Len(buffer') = n
  BY <1>2
<1> QED BY <1>1, <1>2, <1>3 DEF LoaderAt, BufferedRow

(* The same for the loader of a later process that loads no state ...      *)
LEMMA LoaderBuilt ==
  ASSUME Settled, config' = config, BuildLoader
  PROVE  LoaderAt(0)'
<1>1. CursorAt(cursor', 0) /\ StateAt(position', 0) /\ buffer' = <<>>
  BY NewCursorAt DEF BuildLoader
<1> QED BY <1>1, EmptyLoader

(* ... and one that loads the state of n rows is behind them.              *)
LEMMA LoaderLoaded ==
  ASSUME Settled, config' = config, NEW s, NEW n \in Nat,
         StateAt(s.rank, n), LoadStateDict(s)
  PROVE  LoaderAt(n)'
<1>1. CursorAt(cursor', n) /\ StateAt(position', n) /\ buffer' = <<>>
  BY SetStateAt DEF LoadStateDict
<1> QED BY <1>1, EmptyLoader

(* Reading ahead does not change how many rows were taken.                 *)
LEMMA PrefetchKeeps ==
  ASSUME Settled, UNCHANGED <<config, dp>>, NEW n \in Nat, LoaderAt(n), Prefetch
  PROVE  LoaderAt(n)'
<1> DEFINE b == [row |-> RowAt(cursor'), state |-> GetState(cursor')]
<1>1. /\ buffer \in Seq(BufferedRow) /\ CursorAt(cursor, n + Len(buffer))
      /\ StateAt(position, n)
      /\ \A i \in 1..Len(buffer) : /\ buffer[i].row = Row(n + i)
                                   /\ StateAt(buffer[i].state, n + i)
  BY DEF LoaderAt, BufferedRow
<1>2. Len(buffer) \in Nat
  BY <1>1, LenProperties
<1>3. CASE UNCHANGED <<cursor, buffer>>
  <2>1. position' = position
    BY DEF Prefetch
  <2>2. CursorAt(cursor, n + Len(buffer))' /\ StateAt(position, n)'
    BY <1>1, <1>3, <2>1 DEF CursorAt, StateAt, Indexed
  <2>3. \A i \in 1..Len(buffer') : /\ buffer'[i].row = Row(n + i)'
                                   /\ StateAt(buffer[i].state, n + i)'
    <3>1. \A i \in 1..Len(buffer) : Row(n + i)' = Row(n + i)
      BY <1>2, DataFrame
    <3> QED BY <1>1, <1>3, <3>1 DEF StateAt, Indexed
  <2> QED BY <1>1, <1>3, <2>2, <2>3 DEF LoaderAt, BufferedRow
<1>4. CASE cursor' = Read(cursor) /\ buffer' = Append(buffer, b)
  <2> DEFINE len == Len(buffer)
  <2>1. /\ CursorAt(cursor', n + len + 1) /\ b.row = Row(n + len + 1)
        /\ StateAt(b.state, n + len + 1)
    <3>1. n + len \in Nat
      BY <1>2
    <3> QED BY <1>1, <1>4, <3>1, ReadAdvances
  <2>2. b \in BufferedRow
    <3>1. n + len + 1 \in Nat \ {0}
      BY <1>2
    <3>2. b.row \in Batch /\ b.state \in [next : Nat] \union [epoch : Nat, hf : 0..Rows]
      BY <2>1, <3>1, RowType, StateType
    <3>3. b = [row |-> b.row, state |-> b.state]
      OBVIOUS
    <3> HIDE DEF b
    <3> QED BY <3>2, <3>3 DEF BufferedRow
  <2> HIDE DEF b
  <2>3. /\ buffer' \in Seq(BufferedRow) /\ Len(buffer') = len + 1
        /\ \A i \in 1..len : buffer'[i] = buffer[i]
        /\ buffer'[len + 1] = b
    BY <1>1, <1>4, <2>2, AppendProperties
  <2> HIDE DEF len
  <2>4. len \in Nat /\ position' = position
    BY <1>2 DEF len, Prefetch
  <2>5. n + Len(buffer') = n + len + 1 /\ \A i \in 1..len + 1 : i \in 1..len \/ i = len + 1
    BY <2>3, <2>4
  <2>6. \A i \in 1..Len(buffer') : /\ buffer'[i].row = Row(n + i)
                                   /\ StateAt(buffer'[i].state, n + i)
    <3>1. n + (len + 1) = n + len + 1
      BY <2>4
    <3> QED BY <1>1, <2>1, <2>3, <2>5, <3>1 DEF len
  <2>7. \A i \in 1..Len(buffer') : Row(n + i)' = Row(n + i)
    BY <2>3, <2>4, DataFrame
  <2>8. /\ \A i \in 1..Len(buffer') : /\ buffer'[i].row = Row(n + i)'
                                      /\ StateAt(buffer[i].state, n + i)'
        /\ CursorAt(cursor, n + Len(buffer))' /\ StateAt(position, n)'
    BY <1>1, <2>1, <2>4, <2>5, <2>6, <2>7 DEF StateAt, CursorAt, Indexed
  <2> QED BY <2>3, <2>8 DEF LoaderAt, BufferedRow
<1> QED BY <1>3, <1>4 DEF Prefetch

(* The row the trainer takes is the next one.                              *)
LEMMA TakesNextRow ==
  ASSUME Settled, UNCHANGED <<config, dp>>, NEW n \in Nat, LoaderAt(n), TakeRow
  PROVE  Head(buffer).row = Row(n + 1) /\ LoaderAt(n + 1)'
<1>1. /\ buffer \in Seq(BufferedRow) /\ CursorAt(cursor, n + Len(buffer))
      /\ \A i \in 1..Len(buffer) : /\ buffer[i].row = Row(n + i)
                                   /\ StateAt(buffer[i].state, n + i)
      /\ buffer # <<>> /\ buffer' = Tail(buffer)
      /\ position' = Head(buffer).state /\ cursor' = cursor
  BY DEF LoaderAt, BufferedRow, TakeRow, CanTake
<1>2. /\ Len(buffer) \in Nat \ {0} /\ Head(buffer) = buffer[1]
      /\ buffer' \in Seq(BufferedRow) /\ Len(buffer') = Len(buffer) - 1
      /\ \A i \in 1..Len(buffer') : buffer'[i] = buffer[i + 1]
  BY <1>1, EmptySeq, HeadTailProperties
<1>3. /\ Head(buffer).row = Row(n + 1) /\ StateAt(position', n + 1)
  BY <1>1, <1>2
<1>4. /\ n + 1 + Len(buffer') = n + Len(buffer)
      /\ \A i \in 1..Len(buffer') : i + 1 \in 1..Len(buffer) /\ n + (i + 1) = (n + 1) + i
  BY <1>2
<1>5. \A i \in 1..Len(buffer') : /\ buffer'[i].row = Row(n + 1 + i)
                                 /\ StateAt(buffer'[i].state, n + 1 + i)
  BY <1>1, <1>2, <1>4
<1>6. \A i \in 1..Len(buffer') : Row(n + 1 + i)' = Row(n + 1 + i)
  BY <1>2, DataFrame
<1>7. /\ \A i \in 1..Len(buffer') : /\ buffer'[i].row = Row(n + 1 + i)'
                                    /\ StateAt(buffer[i].state, n + 1 + i)'
      /\ CursorAt(cursor, n + 1 + Len(buffer))' /\ StateAt(position, n + 1)'
  BY <1>1, <1>3, <1>4, <1>5, <1>6 DEF StateAt, CursorAt, Indexed
<1> QED BY <1>2, <1>3, <1>7 DEF LoaderAt, BufferedRow

(* A step that leaves the data alone leaves the loader where it is.        *)
LEMMA LoaderFrame ==
  ASSUME UNCHANGED <<config, dp, dataVars>>, NEW n \in Nat, LoaderAt(n)
  PROVE  LoaderAt(n)'
<1>1. UNCHANGED <<cursor, buffer, position>>
  BY DEF dataVars
<1>2. /\ \A i \in 1..Len(buffer) : Row(n + i)' = Row(n + i)
  <2>1. Len(buffer) \in Nat
    BY LenProperties DEF LoaderAt
  <2> QED BY <2>1, DataFrame
<1> QED BY <1>1, <1>2 DEF LoaderAt, StateAt, CursorAt, Indexed

-------------------------------------------------------------------------------
(* Executions.                                                             *)

Contribution == Batch \X Nat

(* What the graph relies on: once captured it adds to the gradient that is *)
(* there, and it is captured with a gradient.                              *)
Graphed(x) ==
  x.graphs =>
    /\ x.graph.captured => x.graph.accumulates /\ x.graph.grad = x.grad
    /\ x.graph.captured \/ x.warmup = 0 => x.grad # 0

(* What one more execution does to an execution state.                     *)
Adds(x, y, value) ==
  /\ y \in Execution /\ y.graphs = x.graphs
  /\ y.tokens = x.tokens + 1 /\ y.rng = x.rng + 1
  /\ y.loss = value
  /\ Gradient(y) = Append(Gradient(x), value)
  /\ y.grad # 0 /\ (x.grad # 0 => y.grad = x.grad)
  /\ x.graphs =>
       /\ y.warmup = IF x.warmup > 0 THEN x.warmup - 1 ELSE 0
       /\ y.graph.captured <=> x.graph.captured \/ x.warmup = 0
       /\ y.graph.captured => y.graph.accumulates /\ y.graph.grad = y.grad

(* An execution state, field by field.                                     *)
LEMMA ExecutionFields ==
  ASSUME NEW x \in Execution
  PROVE  /\ x = [tokens |-> x.tokens, rng |-> x.rng, grad |-> x.grad, storage |-> x.storage,
                 graphs |-> x.graphs, warmup |-> x.warmup, graph |-> x.graph, loss |-> x.loss]
         /\ x.tokens \in Nat /\ x.rng \in Nat /\ x.grad \in 0..2
         /\ x.storage \in [1..2 -> Seq(Contribution)]
         /\ x.graphs \in BOOLEAN /\ x.warmup \in Nat
         /\ x.graph \in [captured : BOOLEAN, args : Batch \union {<<>>}, grad : 0..2,
                         accumulates : BOOLEAN]
         /\ x.loss \in Contribution \union {<<>>}
  BY DEF Execution, Contribution

(* A gradient is a sequence of contributions.                              *)
LEMMA GradientType ==
  ASSUME NEW x \in Execution
  PROVE  Gradient(x) \in Seq(Contribution)
<1>1. <<>> \in Seq(Contribution)
  BY EmptySeq
<1>2. x.storage \in [1..2 -> Seq(Contribution)] /\ x.grad \in 0..2
  BY DEF Execution, Contribution
<1>3. x.grad # 0 => x.grad \in 1..2
  BY <1>2
<1> QED BY <1>1, <1>2, <1>3 DEF Gradient

(* An eager call adds to the gradient, or to a new one.                    *)
LEMMA EagerAdds ==
  ASSUME NEW x \in Execution, NEW w \in Nat, NEW b \in Batch, NEW m \in Nat,
         x.graphs => x.warmup > 0 /\ w = x.warmup - 1,
         ~x.graphs => w = x.warmup, Graphed(x)
  PROVE  Adds(x, Eager([x EXCEPT !.tokens = @ + 1, !.rng = @ + 1, !.warmup = w], b, m), <<b, m>>)
<1> DEFINE x1 == [x EXCEPT !.tokens = @ + 1, !.rng = @ + 1, !.warmup = w]
           id == IF x.grad = 0 THEN FreshStorage(x) ELSE x.grad
           value == <<b, m>>
           sum == Append(Gradient(x), value)
           y == Eager(x1, b, m)
<1>1. /\ x1.grad = x.grad /\ x1.storage = x.storage /\ x1.graph = x.graph
      /\ x1.graphs = x.graphs /\ x1.tokens = x.tokens + 1 /\ x1.rng = x.rng + 1
      /\ x1.warmup = w /\ x1 \in Execution
  <2>0. x1 = [x EXCEPT !.tokens = @ + 1, !.rng = @ + 1, !.warmup = w]
    OBVIOUS
  <2> HIDE DEF x1
  <2>1. x1 = [tokens |-> x.tokens + 1, rng |-> x.rng + 1, grad |-> x.grad,
              storage |-> x.storage, graphs |-> x.graphs, warmup |-> w,
              graph |-> x.graph, loss |-> x.loss]
    <3>1. x = [tokens |-> x.tokens, rng |-> x.rng, grad |-> x.grad, storage |-> x.storage,
               graphs |-> x.graphs, warmup |-> x.warmup, graph |-> x.graph, loss |-> x.loss]
      BY ExecutionFields
    <3> QED BY ONLY <2>0, <3>1
  <2>2. x.tokens + 1 \in Nat /\ x.rng + 1 \in Nat
    BY ExecutionFields
  <2> QED BY <2>1, <2>2, ExecutionFields DEF Execution, Contribution
<1>2. Gradient(x1) = Gradient(x) /\ FreshStorage(x1) = FreshStorage(x)
  BY <1>1 DEF Gradient, FreshStorage
<1>3. y = [x1 EXCEPT !.grad = id, !.storage[id] = sum, !.loss = value]
  BY <1>1, <1>2 DEF Eager
<1>4. id \in 1..2 /\ (x.grad # 0 => id = x.grad)
  BY DEF FreshStorage, Execution
<1>5. value \in Contribution /\ sum \in Seq(Contribution)
  BY GradientType, AppendProperties DEF Contribution
<1> HIDE DEF x1, id, value, sum, y
<1>6. x1.storage \in [1..2 -> Seq(Contribution)]
  BY <1>1 DEF Execution, Contribution
<1>7. /\ y.grad = id /\ y.storage = [x1.storage EXCEPT ![id] = sum] /\ y.loss = value
      /\ y.graphs = x1.graphs /\ y.tokens = x1.tokens /\ y.rng = x1.rng
      /\ y.warmup = x1.warmup /\ y.graph = x1.graph
  BY <1>1, <1>3 DEF Execution
<1>8. y.storage \in [1..2 -> Seq(Contribution)] /\ y.storage[id] = sum
  BY <1>4, <1>5, <1>6, <1>7
<1>9. y \in Execution
  <2>1. y = [tokens |-> y.tokens, rng |-> y.rng, grad |-> y.grad, storage |-> y.storage,
             graphs |-> y.graphs, warmup |-> y.warmup, graph |-> y.graph, loss |-> y.loss]
    BY <1>1, <1>3 DEF Execution
  <2>2. id \in 0..2
    BY <1>4
  <2> QED BY <1>1, <1>5, <1>7, <1>8, <2>1, <2>2 DEF Execution, Contribution
<1>10. Gradient(y) = sum
  BY <1>4, <1>7, <1>8 DEF Gradient
<1>11. x.graphs =>
         /\ y.warmup = IF x.warmup > 0 THEN x.warmup - 1 ELSE 0
         /\ y.graph.captured <=> x.graph.captured \/ x.warmup = 0
         /\ y.graph.captured => y.graph.accumulates /\ y.graph.grad = y.grad
  BY <1>1, <1>4, <1>7 DEF Graphed, Execution
<1>12. Adds(x, y, value)
  BY <1>1, <1>4, <1>7, <1>9, <1>10, <1>11 DEF Adds, sum
<1> QED BY <1>12 DEF x1, value, y

(* A call of the graph, captured now or before, adds to the gradient.      *)
LEMMA GraphAdds ==
  ASSUME NEW x \in Execution, NEW b \in Batch, NEW m \in Nat,
         x.graphs, x.warmup = 0, Graphed(x)
  PROVE  Adds(x, ReplayGraph(CopyInputs([x EXCEPT !.tokens = @ + 1, !.rng = @ + 1], b), m),
              <<b, m>>)
<1> DEFINE x1 == [x EXCEPT !.tokens = @ + 1, !.rng = @ + 1]
           value == <<b, m>>
           sum == Append(Gradient(x), value)
           g == [captured |-> TRUE, args |-> b, grad |-> x.grad, accumulates |-> TRUE]
           x2 == CopyInputs(x1, b)
           y == ReplayGraph(x2, m)
<1>1. /\ x1.grad = x.grad /\ x1.storage = x.storage /\ x1.graph = x.graph
      /\ x1.graphs = x.graphs /\ x1.tokens = x.tokens + 1 /\ x1.rng = x.rng + 1
      /\ x1.warmup = x.warmup /\ x1.loss = x.loss
      /\ x1 = [tokens |-> x.tokens + 1, rng |-> x.rng + 1, grad |-> x.grad,
               storage |-> x.storage, graphs |-> x.graphs, warmup |-> x.warmup,
               graph |-> x.graph, loss |-> x.loss]
  <2>0. x1 = [x EXCEPT !.tokens = @ + 1, !.rng = @ + 1]
    OBVIOUS
  <2> HIDE DEF x1
  <2>1. x1 = [tokens |-> x.tokens + 1, rng |-> x.rng + 1, grad |-> x.grad,
              storage |-> x.storage, graphs |-> x.graphs, warmup |-> x.warmup,
              graph |-> x.graph, loss |-> x.loss]
    <3>1. x = [tokens |-> x.tokens, rng |-> x.rng, grad |-> x.grad, storage |-> x.storage,
               graphs |-> x.graphs, warmup |-> x.warmup, graph |-> x.graph, loss |-> x.loss]
      BY ExecutionFields
    <3> QED BY ONLY <2>0, <3>1
  <2> QED BY <2>1
<1>2. x.grad \in 1..2
  BY DEF Graphed, Execution
<1>3. x.graph.captured => x.graph.accumulates /\ x.graph.grad = x.grad
  BY DEF Graphed
<1>4. x.graph \in [captured : BOOLEAN, args : Batch \union {<<>>}, grad : 0..2,
                   accumulates : BOOLEAN]
  BY DEF Execution
<1>5. value \in Contribution /\ sum \in Seq(Contribution) /\ Gradient(x) = x.storage[x.grad]
  BY <1>2, GradientType, AppendProperties DEF Contribution, Gradient
<1> HIDE DEF x1, value, sum
<1>6. x2 = [tokens |-> x.tokens + 1, rng |-> x.rng + 1, grad |-> x.grad,
            storage |-> x.storage, graphs |-> x.graphs, warmup |-> x.warmup,
            graph |-> g, loss |-> x.loss]
  <2>1. CASE x.graph.captured
    <3>1. x2 = [x1 EXCEPT !.graph.args = b]
      BY <1>1, <2>1 DEF CopyInputs
    <3>2. [x.graph EXCEPT !.args = b] = g
      <4>1. /\ x.graph = [captured |-> x.graph.captured, args |-> x.graph.args,
                          grad |-> x.graph.grad, accumulates |-> x.graph.accumulates]
            /\ x.graph.captured = TRUE /\ x.graph.accumulates = TRUE
        BY <1>3, <1>4, <2>1
      <4> DEFINE g1 == [x.graph EXCEPT !.args = b]
      <4>2. g1 = [x.graph EXCEPT !.args = b]
        OBVIOUS
      <4> HIDE DEF g1
      <4>3. g1 = [captured |-> TRUE, args |-> b, grad |-> x.graph.grad, accumulates |-> TRUE]
        BY <4>1, <4>2
      <4> QED BY <1>3, <2>1, <4>3 DEF g1
    <3> HIDE DEF x2, g
    <3> QED BY <1>1, <3>1, <3>2
  <2>2. CASE ~x.graph.captured
    <3>1. x2 = [x1 EXCEPT !.grad = x.grad, !.graph = g]
      <4>1. ~x1.graph.captured /\ x1.grad # 0 /\ x1.grad = x.grad /\ (x1.grad # 0) = TRUE
        BY <1>1, <1>2, <2>2
      <4> QED BY <4>1 DEF CopyInputs, CaptureGraph
    <3> HIDE DEF x2, g
    <3> QED BY <1>1, <3>1
  <2> QED BY <2>1, <2>2
<1> HIDE DEF x2, y
<1>7. y = [tokens |-> x.tokens + 1, rng |-> x.rng + 1, grad |-> x.grad,
           storage |-> [x.storage EXCEPT ![x.grad] = sum], graphs |-> x.graphs,
           warmup |-> x.warmup, graph |-> g, loss |-> value]
  <2>1. x2.graph.args = b /\ x2.graph.grad = x.grad /\ x2.graph.accumulates
    BY <1>6
  <2>2. y = [x2 EXCEPT !.loss = value, !.storage[x.grad] = Append(@, value)]
    BY <2>1 DEF y, ReplayGraph, value
  <2> HIDE DEF g
  <2>3. x2.storage[x.grad] = Gradient(x)
    BY <1>5, <1>6
  <2> QED BY <1>6, <2>2, <2>3 DEF sum
<1>8. g \in [captured : BOOLEAN, args : Batch \union {<<>>}, grad : 0..2,
             accumulates : BOOLEAN]
  BY <1>2
<1>9. x.storage \in [1..2 -> Seq(Contribution)]
  BY DEF Execution, Contribution
<1>10. /\ y.storage \in [1..2 -> Seq(Contribution)] /\ y.storage[x.grad] = sum
  BY <1>2, <1>5, <1>7, <1>9
<1>11. Gradient(y) = sum
  BY <1>2, <1>7, <1>10 DEF Gradient
<1>12. y \in Execution
  <2> HIDE DEF g
  <2>1. x.tokens + 1 \in Nat /\ x.rng + 1 \in Nat /\ x.grad \in 0..2
        /\ x.graphs \in BOOLEAN /\ x.warmup \in Nat
    BY <1>2 DEF Execution
  <2> QED BY <1>5, <1>7, <1>8, <1>10, <2>1 DEF Execution, Contribution
<1>13. /\ y.tokens = x.tokens + 1 /\ y.rng = x.rng + 1 /\ y.grad = x.grad
       /\ y.graphs = x.graphs /\ y.warmup = x.warmup /\ y.graph = g /\ y.loss = value
  <2> HIDE DEF g
  <2> QED BY <1>7
<1>14. Adds(x, y, value)
  BY <1>2, <1>11, <1>12, <1>13 DEF Adds, sum
<1> QED BY <1>14 DEF x1, x2, y, value

(* Each execution adds one contribution to the gradient, whether it is     *)
(* eager, captures the graph, or replays it.                               *)
LEMMA ForwardBackwardAdds ==
  ASSUME NEW x \in Execution, NEW b \in Batch, NEW m \in Nat, Graphed(x)
  PROVE  Adds(x, ForwardBackward(x, b, m), <<b, m>>)
<1> DEFINE x1 == [x EXCEPT !.tokens = @ + 1, !.rng = @ + 1]
<1>1. x.warmup \in Nat /\ x1.graphs = x.graphs /\ x1.warmup = x.warmup
  BY DEF Execution
<1>2. CASE ~x.graphs
  <2>1. [x EXCEPT !.tokens = @ + 1, !.rng = @ + 1, !.warmup = x.warmup] = x1
    BY DEF Execution
  <2>2. ForwardBackward(x, b, m) = Eager(x1, b, m)
    BY <1>1, <1>2 DEF ForwardBackward, Wrapped
  <2> QED BY <1>1, <1>2, <2>1, <2>2, EagerAdds
<1>3. CASE x.graphs /\ x.warmup > 0
  <2>1. [x EXCEPT !.tokens = @ + 1, !.rng = @ + 1, !.warmup = x.warmup - 1]
          = [x1 EXCEPT !.warmup = @ - 1]
    BY DEF Execution
  <2>2. ForwardBackward(x, b, m) = Eager([x1 EXCEPT !.warmup = @ - 1], b, m)
    BY <1>1, <1>3 DEF ForwardBackward, Wrapped
  <2>3. x.warmup - 1 \in Nat
    BY <1>1, <1>3
  <2> QED BY <1>3, <2>1, <2>2, <2>3, EagerAdds
<1>4. CASE x.graphs /\ x.warmup = 0
  <2>1. ForwardBackward(x, b, m) = ReplayGraph(CopyInputs(x1, b), m)
    BY <1>1, <1>4 DEF ForwardBackward, Wrapped
  <2> QED BY <1>4, <2>1, GraphAdds
<1> QED BY <1>1, <1>2, <1>3, <1>4

(* What clears the gradient leaves of the rest.                            *)
Clears(x, y) ==
  /\ y \in Execution /\ Gradient(y) = <<>>
  /\ y.graphs = x.graphs /\ y.warmup = x.warmup /\ y.graph = x.graph

(* The gradient of a step starts empty; under CUDA graphs it stays in its  *)
(* storage.                                                                *)
LEMMA ZeroGradClears ==
  ASSUME NEW x \in Execution
  PROVE  /\ Clears(x, ZeroGrad(x))
         /\ ZeroGrad(x).tokens = x.tokens /\ ZeroGrad(x).rng = x.rng
         /\ x.graphs => ZeroGrad(x).grad = x.grad
<1> DEFINE y == ZeroGrad(x)
<1>1. CASE x.graphs /\ x.grad # 0
  <2>1. y = [x EXCEPT !.storage[x.grad] = <<>>]
    BY <1>1 DEF ZeroGrad
  <2>2. x = [tokens |-> x.tokens, rng |-> x.rng, grad |-> x.grad, storage |-> x.storage,
             graphs |-> x.graphs, warmup |-> x.warmup, graph |-> x.graph, loss |-> x.loss]
    BY ExecutionFields
  <2> HIDE DEF y
  <2>3. y = [tokens |-> x.tokens, rng |-> x.rng, grad |-> x.grad,
             storage |-> [x.storage EXCEPT ![x.grad] = <<>>],
             graphs |-> x.graphs, warmup |-> x.warmup, graph |-> x.graph, loss |-> x.loss]
    BY ONLY <2>1, <2>2
  <2>4. x.grad \in 1..2
    BY <1>1, ExecutionFields
  <2>5. <<>> \in Seq(Contribution)
    BY EmptySeq
  <2>6. y.storage \in [1..2 -> Seq(Contribution)] /\ y.storage[x.grad] = <<>>
    BY <2>3, <2>4, <2>5, ExecutionFields
  <2>7. y \in Execution
    BY <2>3, <2>6, ExecutionFields DEF Execution, Contribution
  <2>8. Gradient(y) = <<>>
    BY <2>3, <2>4, <2>6 DEF Gradient
  <2> QED BY <2>3, <2>7, <2>8 DEF Clears, y
<1>2. CASE ~(x.graphs /\ x.grad # 0)
  <2>1. y = [x EXCEPT !.grad = 0]
    BY <1>2 DEF ZeroGrad
  <2>2. x = [tokens |-> x.tokens, rng |-> x.rng, grad |-> x.grad, storage |-> x.storage,
             graphs |-> x.graphs, warmup |-> x.warmup, graph |-> x.graph, loss |-> x.loss]
    BY ExecutionFields
  <2> HIDE DEF y
  <2>3. y = [tokens |-> x.tokens, rng |-> x.rng, grad |-> 0, storage |-> x.storage,
             graphs |-> x.graphs, warmup |-> x.warmup, graph |-> x.graph, loss |-> x.loss]
    BY ONLY <2>1, <2>2
  <2>4. y \in Execution /\ Gradient(y) = <<>>
    BY <2>3, ExecutionFields DEF Execution, Contribution, Gradient
  <2> QED BY <1>2, <2>3, <2>4 DEF Clears, y
<1> QED BY <1>1, <1>2

(* A restored state has the counters and generators of the snapshot, and   *)
(* its gradient is empty.                                                  *)
LEMMA RestoreClears ==
  ASSUME NEW x \in Execution, NEW t \in Nat, NEW r \in Nat, NEW g \in 0..2, NEW s,
         s = [tokens |-> t, rng |-> r, grad |-> g]
  PROVE  /\ Clears(x, Restore(x, s))
         /\ Restore(x, s).tokens = t /\ Restore(x, s).rng = r /\ Restore(x, s).grad = g
<1> DEFINE y == [x EXCEPT !.tokens = s.tokens, !.rng = s.rng, !.grad = s.grad]
           z == Restore(x, s)
<1>1. x = [tokens |-> x.tokens, rng |-> x.rng, grad |-> x.grad, storage |-> x.storage,
           graphs |-> x.graphs, warmup |-> x.warmup, graph |-> x.graph, loss |-> x.loss]
  BY ExecutionFields
<1>2. s.tokens = t /\ s.rng = r /\ s.grad = g
  OBVIOUS
<1>3. z = IF s.grad = 0 THEN y ELSE [y EXCEPT !.storage[s.grad] = <<>>]
  BY DEF Restore
<1>4. y = [x EXCEPT !.tokens = s.tokens, !.rng = s.rng, !.grad = s.grad]
  OBVIOUS
<1> HIDE DEF y, z
<1>5. y = [tokens |-> t, rng |-> r, grad |-> g, storage |-> x.storage,
           graphs |-> x.graphs, warmup |-> x.warmup, graph |-> x.graph, loss |-> x.loss]
  BY ONLY <1>1, <1>2, <1>4
<1>6. CASE g = 0
  <2>1. z = y
    BY <1>2, <1>3, <1>6
  <2>2. z \in Execution /\ Gradient(z) = <<>>
    BY <1>5, <1>6, <2>1, ExecutionFields DEF Execution, Contribution, Gradient
  <2> QED BY <1>5, <2>1, <2>2 DEF Clears, z
<1>7. CASE g # 0
  <2>1. z = [y EXCEPT !.storage[g] = <<>>]
    BY <1>2, <1>3, <1>7
  <2>2. z = [tokens |-> t, rng |-> r, grad |-> g, storage |-> [x.storage EXCEPT ![g] = <<>>],
             graphs |-> x.graphs, warmup |-> x.warmup, graph |-> x.graph, loss |-> x.loss]
    BY ONLY <1>5, <2>1
  <2>3. g \in 1..2 /\ <<>> \in Seq(Contribution)
    BY <1>7, EmptySeq
  <2>4. z.storage \in [1..2 -> Seq(Contribution)] /\ z.storage[g] = <<>>
    BY <2>2, <2>3, ExecutionFields
  <2>5. z \in Execution
    BY <2>2, <2>4, ExecutionFields DEF Execution, Contribution
  <2>6. Gradient(z) = <<>>
    BY <2>2, <2>3, <2>4 DEF Gradient
  <2> QED BY <2>2, <2>5, <2>6 DEF Clears, z
<1> QED BY <1>6, <1>7

(* A new process: no call made, no gradient, no graph.                     *)
LEMMA NewExecClears ==
  ASSUME Settled, NEW t \in Nat
  PROVE  LET x == NewExec(config, t)
         IN /\ x \in Execution /\ x.graphs = config.graphs
            /\ x.tokens = t /\ x.rng = 0 /\ x.grad = 0 /\ ~x.graph.captured
            /\ x.warmup = WarmupIterations(config.accumulation, config.sdcSteps, config.replays)
<1> DEFINE x == NewExec(config, t)
           w == WarmupIterations(config.accumulation, config.sdcSteps, config.replays)
           none == [id \in 1..2 |-> <<>>]
<1>1. w \in Nat
  <2> DEFINE checked == IF config.sdcSteps = -1 THEN WarmupSteps
                        ELSE SmallerOf(WarmupSteps, config.sdcSteps)
  <2>1. w = WarmupSteps * config.accumulation + checked * config.replays
    BY DEF WarmupIterations
  <2>2. checked \in Nat /\ config.replays \in Nat /\ WarmupSteps * config.accumulation \in Nat
    BY Settings DEF SmallerOf, WarmupSteps
  <2> HIDE DEF w, checked
  <2>3. checked * config.replays \in Nat
    BY <2>2
  <2> QED BY <2>1, <2>2, <2>3
<1>2. x = [tokens |-> t, rng |-> 0, grad |-> 0, storage |-> none, graphs |-> config.graphs,
           warmup |-> w, graph |-> NoGraph, loss |-> <<>>]
  BY DEF NewExec, NewExecution
<1>3. none \in [1..2 -> Seq(Batch \X Nat)]
  BY EmptySeq
<1>4. config.graphs \in BOOLEAN
  BY Settings
<1>5. /\ NoGraph \in [captured : BOOLEAN, args : Batch \union {<<>>}, grad : 0..2,
                      accumulates : BOOLEAN]
      /\ ~NoGraph.captured
  BY DEF NoGraph
<1> HIDE DEF x, w, none
<1>6. x \in Execution
  <2>1. 0 \in Nat /\ 0 \in 0..2 /\ <<>> \in (Batch \X Nat) \union {<<>>}
    OBVIOUS
  <2> QED BY <1>1, <1>2, <1>3, <1>4, <1>5, <2>1 DEF Execution
<1> QED BY <1>2, <1>5, <1>6 DEF x, w

-------------------------------------------------------------------------------
(* Checked steps and the calls they make.                                  *)

(* The first steps are checked, as many as the replayer was given.         *)
LEMMA CheckedStepsCount ==
  ASSUME Settled
  PROVE  /\ \A n \in Nat : CheckedSteps(n) \in Nat
         /\ \A n \in Nat :
              CheckedSteps(n + 1) =
                IF config.sdcSteps = -1 \/ n < config.sdcSteps
                THEN CheckedSteps(n) + 1 ELSE CheckedSteps(n)
         /\ CheckedSteps(0) = 0
         /\ \A n \in 0..2 : CheckedSteps(n) <= CheckedSteps(2)
         /\ WarmupIterations(config.accumulation, config.sdcSteps, config.replays)
              = 2 * config.accumulation + CheckedSteps(2) * config.replays
<1>1. config.sdcSteps \in Nat \union {-1}
  BY Settings
<1>2. WarmupIterations(config.accumulation, config.sdcSteps, config.replays)
              = 2 * config.accumulation + CheckedSteps(2) * config.replays
  BY DEF WarmupIterations, CheckedSteps, WarmupSteps
<1> QED BY <1>1, <1>2 DEF CheckedSteps, SmallerOf

(* The replays they cost.                                                  *)
LEMMA ReplaysCount ==
  ASSUME Settled
  PROVE  /\ \A n \in Nat : CheckedSteps(n) * config.replays \in Nat
         /\ \A n \in Nat :
              CheckedSteps(n + 1) * config.replays =
                IF config.sdcSteps = -1 \/ n < config.sdcSteps
                THEN CheckedSteps(n) * config.replays + config.replays
                ELSE CheckedSteps(n) * config.replays
         /\ CheckedSteps(0) * config.replays = 0
         /\ \A n \in 0..2 : CheckedSteps(n) * config.replays <= CheckedSteps(2) * config.replays
<1>1. config.replays \in Nat
  BY Settings
<1>2. \A n \in Nat : CheckedSteps(n) \in Nat
  BY CheckedStepsCount
<1>3. \A a \in Nat : a * config.replays \in Nat
  BY <1>1
<1>4. \A a \in Nat : (a + 1) * config.replays = a * config.replays + config.replays
  <2>1. \A a, r \in Nat : (a + 1) * r = a * r + r
    OBVIOUS
  <2> QED BY <1>1, <2>1
<1>5. \A a, b \in Nat : a <= b => a * config.replays <= b * config.replays
  BY <1>1, MultiplyMonotone
<1>6. ASSUME NEW n \in Nat
      PROVE  CheckedSteps(n + 1) * config.replays =
                IF config.sdcSteps = -1 \/ n < config.sdcSteps
                THEN CheckedSteps(n) * config.replays + config.replays
                ELSE CheckedSteps(n) * config.replays
  BY <1>2, <1>4, CheckedStepsCount
<1>7. 0 * config.replays = 0
  BY <1>1
<1>8. CheckedSteps(0) * config.replays = 0
  BY <1>7, CheckedStepsCount
<1>9. \A n \in 0..2 : CheckedSteps(n) * config.replays <= CheckedSteps(2) * config.replays
  BY <1>2, <1>5, CheckedStepsCount
<1> QED BY <1>2, <1>3, <1>6, <1>8, <1>9

-------------------------------------------------------------------------------
(* Where the loop is.                                                      *)

(* The invariant's settings.                                               *)
LEMMA StepInvSettles ==
  ASSUME StepInv
  PROVE  Settled
  BY DEF StepInv, Settled

(* A checkpoint is of a step of the job.                                   *)
LEMMA CheckpointSteps ==
  ASSUME CheckpointInv, pc # "refused"
  PROVE  checkpoint.step \in 0..NumSteps
<1>1. NumSteps \in Nat
  BY TrainingAssumption
<1> QED BY <1>1 DEF CheckpointInv, IsCheckpoint, NoCheckpoint

(* Nothing has happened before the first step.                             *)
LEMMA StepInit ==
  ASSUME Init
  PROVE  StepInv
<1>1. config \in Configs /\ dp \in Degrees /\ DataConfigOK(config, dp)
  BY DEF Init
<1>2. config.accumulation \in Nat \ {0} /\ NumSteps \in Nat
  BY <1>1, Settings DEF Settled
<1> QED BY <1>1, <1>2 DEF Init, StepInv, Running, InStep, InProcess

(* Fetching a row makes the batches one longer.                            *)
LEMMA FetchedBatches ==
  ASSUME StepInv, FetchInv, FetchBatch
  PROVE  /\ Head(buffer).row \in Batch
         /\ batches \in Seq(Batch) /\ batches' \in Seq(Batch)
         /\ Len(batches) \in Nat /\ Len(batches') = Len(batches) + 1
         /\ \A j \in 1..Len(batches) : batches'[j] = batches[j]
         /\ batches'[Len(batches) + 1] = Head(buffer).row
<1>1. batches \in Seq(Batch) /\ batches' = Append(batches, Head(buffer).row)
      /\ LoaderAt(Taken) /\ buffer # <<>>
  BY DEF FetchInv, FetchBatch, InStep, Running, TakeRow, CanTake
<1>2. buffer \in Seq(BufferedRow)
  BY <1>1 DEF LoaderAt, BufferedRow
<1>3. Head(buffer) \in BufferedRow
  BY <1>1, <1>2, HeadTailProperties
<1>4. Head(buffer).row \in Batch
  BY <1>3 DEF BufferedRow
<1>5. Len(batches) \in Nat
  BY <1>1, LenProperties
<1> QED BY <1>1, <1>4, <1>5, AppendProperties

(* Every step keeps the counters of the loop together.                     *)
LEMMA StepStep ==
  ASSUME StepInv, FetchInv, CheckpointInv, Next
  PROVE  StepInv'
<1> USE DEF StepInv, Running, InStep, InProcess, IsChecked
<1>1. /\ config.accumulation \in Nat \ {0} /\ NumSteps \in Nat
      /\ config \in Configs /\ dp \in Degrees /\ DataConfigOK(config, dp)
      /\ config.sdcSteps \in Nat \union {-1}
  BY StepInvSettles, Settings
<1>2. DataConfigOK(config, dp)' <=> DataConfigOK(config', dp')
  BY DEF DataConfigOK
<1>3. /\ step \in Int /\ loadedStep \in Int /\ group \in Nat /\ stepsSinceReset \in Nat
  BY <1>1
<1>4. CASE UNCHANGED <<config, dp, loopVars, loadedStep, corruptions>>
  BY <1>1, <1>2, <1>4 DEF loopVars, trained
<1>5. CASE BeginStep
  <2>1. Len(<<>>) = 0
    OBVIOUS
  <2> QED BY <1>1, <1>2, <1>3, <1>5, <2>1 DEF BeginStep, history
<1>6. CASE FetchBatch
  <2>1. Len(batches') = Len(batches) + 1 /\ Len(batches) \in Nat
    BY <1>6, FetchedBatches
  <2> QED BY <1>1, <1>2, <1>3, <1>6, <2>1 DEF FetchBatch, history
<1>7. CASE RunsOut
  BY <1>1, <1>2, <1>3, <1>7 DEF RunsOut, history
<1>8. CASE RunGroup
  BY <1>1, <1>2, <1>3, <1>8, TrainingAssumption DEF RunGroup, AfterGroup, Executes
<1>9. CASE RunReference
  BY <1>1, <1>2, <1>3, <1>9, TrainingAssumption DEF RunReference, Executes
<1>10. CASE RunReplay
  <2>1. corruptions' \in Nat /\ UNCHANGED <<config, dp, step, batches, loadedStep>>
    BY <1>10 DEF RunReplay, Executes
  <2>2. CASE pc' = "mismatch" /\ UNCHANGED <<stepsSinceReset, group>>
    BY <1>1, <1>2, <1>3, <1>10, <2>1, <2>2
  <2>3. CASE UNCHANGED <<pc, stepsSinceReset, group>>
    BY <1>1, <1>2, <1>3, <1>10, <2>1, <2>3
  <2>4. CASE AfterGroup
    BY <1>1, <1>2, <1>3, <1>10, <2>1, <2>4 DEF AfterGroup, RunReplay
  <2> QED BY <1>10, <2>2, <2>3, <2>4 DEF RunReplay
<1>11. CASE OptimizerStep
  BY <1>1, <1>2, <1>3, <1>11 DEF OptimizerStep, history
<1>12. CASE NotFinite
  BY <1>1, <1>2, <1>3, <1>12 DEF NotFinite, history
<1>13. CASE Save
  BY <1>1, <1>2, <1>3, <1>13 DEF Save, history
<1>14. CASE CloseTrainer
  BY <1>1, <1>2, <1>3, <1>14 DEF CloseTrainer, history
<1>15. CASE Raised \/ Killed
  BY <1>1, <1>2, <1>3, <1>15 DEF Raised, Killed, history
<1>16. CASE StartAgain
  <2>1. checkpoint.step \in 0..NumSteps
    BY <1>16, CheckpointSteps DEF StartAgain
  <2>2. /\ dp' \in Degrees /\ DataConfigOK(config, dp') /\ config' = config
        /\ pc' \in {"loop", "refused"} /\ corruptions' = corruptions
        /\ stepsSinceReset' = 0 /\ group' = 0
        /\ loadedStep' = checkpoint.step /\ step' = checkpoint.step
    BY <1>16 DEF StartAgain
  <2> QED BY <1>1, <1>2, <1>3, <2>1, <2>2
<1>17. CASE PrefetchThread \/ CheckpointWritten \/ (pc \in {"done", "refused"} /\ UNCHANGED vars)
  BY <1>4, <1>17 DEF PrefetchThread, CheckpointWritten, history, vars
<1> QED BY <1>5, <1>6, <1>7, <1>8, <1>9, <1>10, <1>11, <1>12, <1>13, <1>14, <1>15, <1>16, <1>17 DEF Next

-------------------------------------------------------------------------------
(* What was fetched.                                                       *)

(* Rows of a number of steps.                                              *)
LEMMA StepRows ==
  ASSUME StepInv, NEW s \in Nat
  PROVE  /\ s * config.accumulation \in Nat
         /\ (s + 1) * config.accumulation = s * config.accumulation + config.accumulation
         /\ s > 0 => /\ (s - 1) * config.accumulation \in Nat
                     /\ (s - 1) * config.accumulation + config.accumulation
                          = s * config.accumulation
<1>1. config.accumulation \in Nat
  BY StepInvSettles, Settings
<1>2. \A a \in Nat : /\ s * a \in Nat /\ (s + 1) * a = s * a + a
                     /\ s > 0 => (s - 1) * a \in Nat /\ (s - 1) * a + a = s * a
  OBVIOUS
<1> QED BY <1>1, <1>2

(* The rows taken, in numbers.                                             *)
LEMMA TakenRows ==
  ASSUME StepInv, FetchInv
  PROVE  /\ step * config.accumulation \in Nat
         /\ InStep => /\ (step - 1) * config.accumulation \in Nat
                      /\ (step - 1) * config.accumulation + config.accumulation
                           = step * config.accumulation
                      /\ Len(batches) \in Nat
                      /\ Taken = (step - 1) * config.accumulation + Len(batches)
         /\ ~InStep => Taken = step * config.accumulation
         /\ Taken \in Nat
<1>1. step \in Nat /\ (InStep => step > 0)
  BY StepInvSettles, Settings DEF StepInv
<1>2. InStep => Len(batches) \in Nat
  BY LenProperties DEF FetchInv
<1>3. /\ step * config.accumulation \in Nat
      /\ step > 0 => /\ (step - 1) * config.accumulation \in Nat
                     /\ (step - 1) * config.accumulation + config.accumulation
                          = step * config.accumulation
  BY <1>1, StepRows
<1>4. /\ InStep => Taken = (step - 1) * config.accumulation + Len(batches)
      /\ ~InStep => Taken = step * config.accumulation
  BY DEF Taken
<1> HIDE DEF Taken
<1> QED BY <1>1, <1>2, <1>3, <1>4

(* A name for the number of rows taken.                                    *)
LEMMA LoaderTaken ==
  ASSUME NEW n, n = Taken', LoaderAt(n)'
  PROVE  LoaderAt(Taken)'
  BY DEF LoaderAt, StateAt, CursorAt, Row, IndexedRow, ShardRows, Indexed

(* The loader when neither it nor the number of rows taken changes.        *)
LEMMA SameTaken ==
  ASSUME StepInv, FetchInv, Running, UNCHANGED <<config, dp, dataVars>>, Taken' = Taken
  PROVE  LoaderAt(Taken)'
<1>1. PICK n \in Nat : n = Taken
  BY TakenRows
<1>2. LoaderAt(n)
  BY <1>1 DEF FetchInv
<1>3. LoaderAt(n)'
  BY <1>2, LoaderFrame
<1> QED BY <1>1, <1>3, LoaderTaken

(* A new loader has taken nothing.                                         *)
LEMMA FetchInit ==
  ASSUME Init
  PROVE  FetchInv
<1>1. Settled /\ DataInit
  BY StepInit, StepInvSettles DEF Init
<1>2. Taken = 0 * config.accumulation /\ ~InStep
  BY DEF Init, Taken, InStep
<1>3. 0 * config.accumulation = 0
  BY <1>1, Settings
<1>4. LoaderAt(0)
  BY <1>1, LoaderInit
<1> QED BY <1>2, <1>3, <1>4 DEF FetchInv

(* Every step keeps what was fetched and where the loader is.              *)
LEMMA FetchStep ==
  ASSUME StepInv, FetchInv, CheckpointInv, Next
  PROVE  FetchInv'
<1>0. StepInv'
  BY StepStep
<1>1. config.accumulation \in Nat \ {0} /\ Settled
  BY StepInvSettles, Settings
<1>2. ASSUME UNCHANGED <<config, dp, step, batches>>, InStep, InStep'
      PROVE  /\ (batches \in Seq(Batch))'
             /\ \A j \in 1..Len(batches') :
                  batches'[j] = Row((step - 1) * config.accumulation + j)'
  <2>1. /\ batches \in Seq(Batch)
        /\ \A j \in 1..Len(batches) :
             batches[j] = Row((step - 1) * config.accumulation + j)
    BY <1>2 DEF FetchInv
  <2>2. /\ (step - 1) * config.accumulation \in Nat /\ Len(batches) \in Nat
    BY <1>2, TakenRows
  <2>3. \A j \in 1..Len(batches) : Row((step - 1) * config.accumulation + j)'
                                     = Row((step - 1) * config.accumulation + j)
    BY <1>2 DEF Row, IndexedRow, ShardRows, Rank
  <2> QED BY <1>2, <2>1, <2>3
<1>3. CASE BeginStep
  <2>1. /\ UNCHANGED <<config, dp, dataVars>> /\ batches' = <<>> /\ step' = step + 1
        /\ pc' = "fetch" /\ pc = "loop"
    BY <1>3 DEF BeginStep
  <2>2. Len(batches') = 0 /\ step \in Int /\ step' - 1 = step
    BY <2>1 DEF StepInv
  <2>3. Taken' = (step' - 1) * config.accumulation + Len(batches')
    BY <2>1 DEF Taken, InStep
  <2>4. Taken = step * config.accumulation /\ Taken \in Nat
    BY <2>1, TakenRows DEF InStep
  <2>5. Taken' = Taken
    BY <2>2, <2>3, <2>4
  <2>6. LoaderAt(Taken)'
    BY <2>1, <2>5, SameTaken DEF Running
  <2>7. (batches \in Seq(Batch))'
    BY <2>1, EmptySeq
  <2> QED BY <2>2, <2>6, <2>7 DEF FetchInv
<1>4. CASE FetchBatch
  <2>1. PICK n \in Nat : n = Taken
    BY TakenRows
  <2>2. /\ pc = "fetch" /\ TakeRow /\ UNCHANGED <<config, dp, step>>
        /\ pc' \in {"forward", "fetch"} /\ LoaderAt(n)
    BY <1>4, <2>1 DEF FetchBatch, FetchInv, Running
  <2>3. Head(buffer).row = Row(n + 1) /\ LoaderAt(n + 1)'
    BY <1>1, <2>2, TakesNextRow
  <2>4. n = (step - 1) * config.accumulation + Len(batches)
        /\ (step - 1) * config.accumulation \in Nat
    BY <2>1, <2>2, TakenRows DEF InStep
  <2>5. /\ batches' \in Seq(Batch)
        /\ Len(batches) \in Nat /\ Len(batches') = Len(batches) + 1
        /\ \A j \in 1..Len(batches) : batches'[j] = batches[j]
        /\ batches'[Len(batches) + 1] = Head(buffer).row
    BY <1>4, FetchedBatches
  <2>6. Taken' = n + 1
    <3>1. Taken' = (step - 1) * config.accumulation + Len(batches')
      BY <2>2 DEF Taken, InStep
    <3> QED BY <2>4, <2>5, <3>1
  <2>7. LoaderAt(Taken)'
    <3>1. PICK k \in Nat : k = n + 1
      OBVIOUS
    <3>2. LoaderAt(k)'
      BY <2>3, <3>1
    <3> QED BY <2>6, <3>1, <3>2, LoaderTaken
  <2>8. \A j \in 1..Len(batches') :
          batches'[j] = Row((step - 1) * config.accumulation + j)
    <3>1. \A j \in 1..Len(batches) :
            batches[j] = Row((step - 1) * config.accumulation + j)
      BY <2>2 DEF FetchInv, InStep
    <3>2. \A j \in 1..Len(batches') : j \in 1..Len(batches) \/ j = Len(batches) + 1
      BY <2>5
    <3>3. (step - 1) * config.accumulation + (Len(batches) + 1) = n + 1
      BY <2>4, <2>5
    <3> QED BY <2>3, <2>5, <3>1, <3>2, <3>3
  <2>9. \A j \in 1..Len(batches') :
          batches'[j] = Row((step - 1) * config.accumulation + j)'
    <3>1. \A j \in 1..Len(batches') : Row((step - 1) * config.accumulation + j)'
                                        = Row((step - 1) * config.accumulation + j)
      BY <2>2 DEF Row, IndexedRow, ShardRows, Rank
    <3> QED BY <2>8, <3>1
  <2> QED BY <2>5, <2>7, <2>9 DEF FetchInv
<1>5. CASE PrefetchThread
  <2>1. PICK n \in Nat : n = Taken
    BY TakenRows
  <2>2. /\ Running /\ Prefetch /\ UNCHANGED <<config, dp, loopVars>> /\ LoaderAt(n)
    BY <1>5, <2>1 DEF PrefetchThread, FetchInv
  <2>3. LoaderAt(n)'
    BY <1>1, <2>2, PrefetchKeeps
  <2>4. Taken' = Taken /\ UNCHANGED <<pc, step, batches>>
    BY <2>2 DEF Taken, InStep, loopVars
  <2>5. LoaderAt(Taken)'
    BY <2>1, <2>3, <2>4, LoaderTaken
  <2>6. InStep' <=> InStep
    BY <2>4 DEF InStep
  <2> QED BY <1>2, <2>2, <2>4, <2>5, <2>6 DEF FetchInv
<1>6. CASE RunGroup \/ RunReference \/ RunReplay
  <2>1. /\ UNCHANGED <<config, dp, dataVars, step, batches>> /\ InStep /\ Running
        /\ pc' \in {"forward", "replaying", "optimizer", "mismatch"}
    BY <1>6 DEF RunGroup, RunReference, RunReplay, AfterGroup, InStep, Running
  <2>2. InStep' => Taken' = Taken
    BY <2>1 DEF Taken
  <2>3. Running' => InStep'
    BY <2>1 DEF Running, InStep
  <2>4. Running' => LoaderAt(Taken)'
    BY <2>1, <2>2, <2>3, SameTaken
  <2> QED BY <1>2, <2>1, <2>4 DEF FetchInv
<1>7. CASE OptimizerStep \/ Save \/ CheckpointWritten
  <2>1. /\ UNCHANGED <<config, dp, dataVars, step, batches>>
        /\ Taken' = Taken /\ (Running' => Running) /\ (InStep' => InStep)
    <3>1. CASE OptimizerStep
      <4>1. pc = "optimizer" /\ pc' = "save"
            /\ UNCHANGED <<config, dp, dataVars, step, batches>>
        BY <3>1 DEF OptimizerStep
      <4>2. Len(batches) = config.accumulation /\ InStep /\ ~InStep' /\ Running
        BY <4>1 DEF StepInv, InStep, Running
      <4>3. Taken = step * config.accumulation
        BY <4>2, TakenRows
      <4> QED BY <4>1, <4>2, <4>3 DEF Taken
    <3>2. CASE Save
      BY <3>2 DEF Save, InStep, Running, Taken
    <3>3. CASE CheckpointWritten
      BY <3>3 DEF CheckpointWritten, loopVars, InStep, Running, Taken
    <3> QED BY <1>7, <3>1, <3>2, <3>3
  <2>2. Running' => LoaderAt(Taken)'
    BY <2>1, SameTaken
  <2> QED BY <1>2, <2>1, <2>2 DEF FetchInv
<1>8. CASE StartAgain
  <2>1. /\ config' = config /\ step' = checkpoint.step /\ pc' \in {"loop", "refused"}
        /\ pc = "dead"
    BY <1>8 DEF StartAgain
  <2>2. Taken' = checkpoint.step * config.accumulation /\ ~InStep'
    BY <2>1 DEF Taken, InStep
  <2>3. CASE checkpoint = NoCheckpoint
    <3>1. BuildLoader /\ checkpoint.step = 0
      BY <1>8, <2>3 DEF StartAgain, NoCheckpoint
    <3>2. LoaderAt(0)'
      BY <1>1, <2>1, <3>1, LoaderBuilt
    <3>3. Taken' = 0
      BY <1>1, <2>2, <3>1
    <3>4. LoaderAt(Taken)'
      BY <3>2, <3>3, LoaderTaken
    <3> QED BY <2>2, <3>4 DEF FetchInv
  <2>4. CASE checkpoint # NoCheckpoint /\ pc' = "loop"
    <3>1. LoadStateDict(checkpoint.data)
      BY <1>8, <2>4 DEF StartAgain
    <3>2. /\ StateAt(checkpoint.data.rank, checkpoint.step * config.accumulation)
          /\ checkpoint.step \in Nat
      BY <2>1, <2>4 DEF CheckpointInv, IsCheckpoint
    <3>3. PICK n \in Nat : n = checkpoint.step * config.accumulation
      BY <3>2, StepRows
    <3>4. PICK s : s = checkpoint.data
      OBVIOUS
    <3>5. LoaderAt(n)'
      BY <1>1, <2>1, <3>1, <3>2, <3>3, <3>4, LoaderLoaded
    <3>6. LoaderAt(Taken)'
      BY <2>2, <3>3, <3>5, LoaderTaken
    <3> QED BY <2>2, <3>6 DEF FetchInv
  <2>5. CASE pc' = "refused"
    BY <2>5 DEF FetchInv, Running, InStep
  <2> QED BY <2>1, <2>3, <2>4, <2>5
<1>9. CASE RunsOut \/ NotFinite \/ CloseTrainer \/ Raised \/ Killed
  BY <1>9 DEF RunsOut, NotFinite, CloseTrainer, Raised, Killed, FetchInv, Running, InStep
<1>10. CASE pc \in {"done", "refused"} /\ UNCHANGED vars
  BY <1>10 DEF vars, loopVars, FetchInv, Running, InStep
<1> QED BY <1>3, <1>4, <1>5, <1>6, <1>7, <1>8, <1>9, <1>10 DEF Next

-------------------------------------------------------------------------------
(* The weights.                                                            *)

(* Concatenation, for sequences of which only the entries are known.       *)
LEMMA Concatenation ==
  ASSUME NEW n \in Nat, NEW m \in Nat, NEW f, NEW g,
         f = [i \in 1..n |-> f[i]], g = [i \in 1..m |-> g[i]]
  PROVE  /\ f \o g = [i \in 1..(n + m) |-> (f \o g)[i]]
         /\ \A i \in 1..n : (f \o g)[i] = f[i]
         /\ \A i \in 1..m : (f \o g)[n + i] = g[i]
<1> DEFINE S == {f[i] : i \in 1..n} \union {g[i] : i \in 1..m}
           h == f \o g
<1>1. f \in [1..n -> S] /\ g \in [1..m -> S]
  OBVIOUS
<1> HIDE DEF S
<1>2. f \in Seq(S) /\ g \in Seq(S) /\ Len(f) = n /\ Len(g) = m
  BY <1>1
<1>3. /\ h \in Seq(S) /\ Len(h) = n + m
      /\ \A i \in 1..(n + m) : h[i] = IF i <= n THEN f[i] ELSE g[i - n]
  BY <1>2, ConcatProperties
<1> HIDE DEF h
<1>4. h \in [1..(n + m) -> S]
  BY <1>3, LenProperties
<1>5. h = [i \in 1..(n + m) |-> h[i]]
  BY <1>4
<1>6. \A i \in 1..n : h[i] = f[i]
  <2> TAKE i \in 1..n
  <2>1. i \in 1..(n + m) /\ i <= n
    OBVIOUS
  <2> QED BY <1>3, <2>1
<1>7. \A i \in 1..m : h[n + i] = g[i]
  <2> TAKE i \in 1..m
  <2>1. n + i \in 1..(n + m) /\ ~(n + i <= n) /\ (n + i) - n = i
    OBVIOUS
  <2> QED BY <1>3, <2>1
<1> QED BY <1>5, <1>6, <1>7 DEF h

(* A contribution with the rate it has in the weights.                     *)
LEMMA RatedContribution ==
  ASSUME NEW v \in Contribution, NEW r
  PROVE  Append(v, r)[1] = v[1] /\ Append(v, r)[2] = v[2] /\ Append(v, r)[3] = r
<1> DEFINE S == Batch \union Nat \union {r}
<1>1. PICK b \in Batch, m \in Nat : v = <<b, m>>
  BY DEF Contribution
<1>2. b \in S /\ m \in S /\ r \in S
  OBVIOUS
<1> HIDE DEF S
<1>3. v \in Seq(S) /\ Len(v) = 2
  BY <1>1, <1>2
<1>4. PICK u : u = Append(v, r)
  OBVIOUS
<1>5. u[1] = v[1] /\ u[2] = v[2] /\ u[3] = r
  BY <1>2, <1>3, <1>4, AppendProperties
<1> QED BY <1>4, <1>5

(* The weights and the scheduler after a number of steps.                  *)
LEMMA WeightsAre ==
  ASSUME config' = config, NEW w, w = weights', NEW n, n = Completed',
         WeightsAfter(w, n)', lrScheduler' = SchedulerAt(n)
  PROVE  WeightsInv'
<1>1. lrScheduler' = SchedulerAt(Completed)'
  BY DEF SchedulerAt
<1>2. WeightsAfter(weights, Completed)'
  BY DEF WeightsAfter
<1> QED BY <1>1, <1>2 DEF WeightsInv

(* What WeightsAfter looks at.                                             *)
LEMMA WeightsFrame ==
  ASSUME UNCHANGED <<config, dp>>, NEW w, NEW n \in Nat, WeightsAfter(w, n),
         n * config.accumulation \in Nat
  PROVE  WeightsAfter(w, n)'
<1>1. \A k \in 1..n * config.accumulation : Row(k)' = Row(k)
  BY DataFrame
<1> QED BY <1>1 DEF WeightsAfter

(* No step leaves no weights.                                              *)
LEMMA NoWeights ==
  ASSUME config.accumulation \in Nat
  PROVE  WeightsAfter(<<>>, 0)
<1>1. 0 * config.accumulation = 0
  OBVIOUS
<1>2. <<>> = [k \in 1..0 |-> <<>>[k]]
  OBVIOUS
<1> QED BY <1>1, <1>2 DEF WeightsAfter

(* The optimizer adds the rows of the step with the rate of the step.      *)
LEMMA OptimizerAdds ==
  ASSUME StepInv, FetchInv, WeightsInv, ExecInv, OptimizerStep
  PROVE  /\ WeightsAfter(weights', step) /\ lrScheduler' = SchedulerAt(step)
         /\ \A k \in 1..(step - 1) * config.accumulation : weights'[k] = weights[k]
         /\ \A k \in 1..config.accumulation :
              weights'[(step - 1) * config.accumulation + k][2] = Gradient(exec)[k][2]
<1> DEFINE A == config.accumulation
           n == (step - 1) * A
           rate == lrScheduler.rate
           grad == Gradient(exec)
           added == [k \in DOMAIN grad |-> Append(grad[k], rate)]
           w == weights'
<1>1. /\ pc = "optimizer" /\ InStep /\ Running /\ weights' = weights \o added
      /\ lrScheduler' = SchedulerAt(lrScheduler.lastEpoch + 1)
  BY DEF OptimizerStep, InStep, Running
<1>2. /\ A \in Nat \ {0} /\ step \in Nat \ {0} /\ group = A /\ Len(batches) = A
      /\ step - 1 \in Nat
  BY <1>1, StepInvSettles, Settings DEF StepInv
<1>3. /\ Completed = step - 1 /\ Executed = A
  BY <1>1, <1>2 DEF Completed, Executed
<1>4. /\ WeightsAfter(weights, step - 1) /\ lrScheduler = SchedulerAt(step - 1)
  BY <1>1, <1>3 DEF WeightsInv
<1>5. n \in Nat /\ n + A = step * A
  BY <1>1, TakenRows
<1>6. /\ rate = Rate(config.schedule, NumSteps, step - 1)
      /\ lrScheduler' = SchedulerAt(step)
  BY <1>1, <1>2, <1>4 DEF SchedulerAt
<1>7. /\ grad \in Seq(Contribution) /\ Len(grad) = A
      /\ \A k \in 1..A : grad[k][1] = batches[k]
  BY <1>1, <1>3, GradientType DEF ExecInv
<1>8. \A k \in 1..A : batches[k] = Row(n + k)
  BY <1>1, <1>2 DEF FetchInv
<1> HIDE DEF grad, rate
<1>9. /\ added = [k \in 1..A |-> added[k]]
      /\ \A k \in 1..A : added[k] = Append(grad[k], rate)
  BY <1>7
<1> HIDE DEF added
<1>10. \A k \in 1..A : /\ added[k][1] = Row(n + k) /\ added[k][3] = rate
                       /\ added[k][2] = grad[k][2]
  <2> TAKE k \in 1..A
  <2>1. grad[k] \in Contribution
    BY <1>7, ElementOfSeq
  <2>2. added[k][1] = grad[k][1] /\ added[k][2] = grad[k][2] /\ added[k][3] = rate
    <3>1. PICK v, r : v \in Contribution /\ v = grad[k] /\ r = rate
      BY <2>1
    <3>2. added[k] = Append(v, r)
      BY <1>9, <3>1
    <3>3. Append(v, r)[1] = v[1] /\ Append(v, r)[2] = v[2] /\ Append(v, r)[3] = r
      BY <3>1, RatedContribution
    <3> QED BY <3>1, <3>2, <3>3
  <2> QED BY <1>7, <1>8, <2>2
<1> HIDE DEF n
<1>11. /\ weights = [k \in 1..n |-> weights[k]]
       /\ \A k \in 1..n :
            /\ weights[k][1] = Row(k)
            /\ weights[k][3] = Rate(config.schedule, NumSteps, (k - 1) \div A)
  BY <1>4 DEF WeightsAfter, n
<1>12. /\ w = [k \in 1..(n + A) |-> w[k]]
       /\ \A k \in 1..n : w[k] = weights[k]
       /\ \A k \in 1..A : w[n + k] = added[k]
  <2>1. PICK f, g : f = weights /\ g = added
    OBVIOUS
  <2>2. f = [k \in 1..n |-> f[k]] /\ g = [k \in 1..A |-> g[k]] /\ w = f \o g
    BY <1>1, <1>9, <1>11, <2>1
  <2> HIDE DEF w, A
  <2>3. n \in Nat /\ A \in Nat
    BY <1>2, <1>5
  <2> QED BY <2>1, <2>2, <2>3, Concatenation
<1> HIDE DEF w
<1>13. ASSUME NEW k \in 1..(n + A)
       PROVE  /\ w[k][1] = Row(k)
              /\ w[k][3] = Rate(config.schedule, NumSteps, (k - 1) \div A)
  <2>1. CASE k \in 1..n
    BY <1>11, <1>12, <2>1
  <2>2. CASE k \notin 1..n
    <3>1. PICK j \in 1..A : k = n + j
      <4>1. k - n \in 1..A /\ k = n + (k - n)
        BY <1>2, <1>5, <2>2
      <4> QED BY <4>1
    <3>2. w[k][1] = Row(k) /\ w[k][3] = rate
      BY <1>10, <1>12, <3>1
    <3>3. (k - 1) \div A = step - 1
      <4>1. k - 1 = (step - 1) * A + (j - 1) /\ j - 1 \in 0..A - 1 /\ k - 1 \in Nat
        BY <1>2, <1>5, <3>1 DEF n
      <4> QED BY <1>2, <4>1, DivmodUnique
    <3> QED BY <1>6, <3>2, <3>3
  <2> QED BY <2>1, <2>2
<1>14. /\ \A k \in 1..n : w[k] = weights[k]
       /\ \A k \in 1..A : w[n + k][2] = grad[k][2]
  <2>1. ASSUME NEW k \in 1..A PROVE w[n + k][2] = grad[k][2]
    <3>1. w[n + k] = added[k] /\ added[k][2] = grad[k][2]
      BY <1>10, <1>12
    <3> QED BY <3>1
  <2> QED BY <1>12, <2>1
<1>15. WeightsAfter(w, step)
  BY <1>5, <1>12, <1>13 DEF WeightsAfter, n
<1> QED BY <1>6, <1>14, <1>15 DEF w, n, grad

(* There are no weights to begin with.                                     *)
LEMMA WeightsInit ==
  ASSUME Init
  PROVE  WeightsInv
<1>1. weights = <<>> /\ lrScheduler = SchedulerAt(0) /\ Completed = 0
  BY DEF Init, Completed
<1>2. config.accumulation \in Nat
  BY StepInit, StepInvSettles, Settings
<1>3. WeightsAfter(weights, 0)
  BY <1>1, <1>2, NoWeights
<1> QED BY <1>1, <1>3 DEF WeightsInv

(* Every step keeps the weights at what uninterrupted training gives.      *)
LEMMA WeightsStep ==
  ASSUME StepInv, FetchInv, WeightsInv, ExecInv, CheckpointInv, Next
  PROVE  WeightsInv'
<1>1. config.accumulation \in Nat \ {0} /\ step \in Nat
  BY StepInvSettles, Settings DEF StepInv
<1>2. PICK w : w = weights'
  OBVIOUS
<1>3. ASSUME UNCHANGED <<config, dp, trained>>, Completed' = Completed, Completed \in Nat,
             Running \/ pc = "ending"
      PROVE  WeightsInv'
  <2>1. PICK n \in Nat : n = Completed
    BY <1>3
  <2>2. WeightsAfter(w, n) /\ lrScheduler' = SchedulerAt(n)
    BY <1>2, <1>3, <2>1 DEF WeightsInv, trained
  <2>3. n * config.accumulation \in Nat
    BY <2>1, StepRows
  <2>4. WeightsAfter(w, n)'
    BY <1>3, <2>2, <2>3, WeightsFrame
  <2> QED BY <1>2, <1>3, <2>1, <2>2, <2>4, WeightsAre
<1>4. CASE OptimizerStep
  <2>1. PICK n \in Nat : n = step
    BY <1>1
  <2>2. WeightsAfter(w, n) /\ lrScheduler' = SchedulerAt(n)
    BY <1>2, <1>4, <2>1, OptimizerAdds
  <2>3. UNCHANGED <<config, dp>> /\ Completed' = n
    BY <1>4, <2>1 DEF OptimizerStep, Completed
  <2>4. n * config.accumulation \in Nat
    BY <2>1, StepRows
  <2>5. WeightsAfter(w, n)'
    BY <2>2, <2>3, <2>4, WeightsFrame
  <2> QED BY <1>2, <2>2, <2>3, <2>5, WeightsAre
<1>5. CASE BeginStep
  <2>1. Completed' = Completed /\ Completed \in Nat
    BY <1>1, <1>5 DEF BeginStep, Completed
  <2> QED BY <1>3, <1>5, <2>1 DEF BeginStep, Running
<1>6. CASE FetchBatch \/ RunsOut \/ RunGroup \/ RunReference
  <2>1. /\ UNCHANGED <<config, dp, trained, step>> /\ Running /\ InStep
        /\ pc' \in {"fetch", "ending", "forward", "replaying", "optimizer"}
    BY <1>6 DEF FetchBatch, RunsOut, RunGroup, RunReference, AfterGroup, Running, InStep
  <2>2. Completed' = Completed /\ Completed \in Nat
    BY <1>1, <2>1 DEF Completed, StepInv, InStep
  <2> QED BY <1>3, <2>1, <2>2
<1>7. CASE RunReplay
  <2>1. /\ UNCHANGED <<config, dp, trained, step>> /\ Running /\ pc = "replaying"
        /\ pc' \in {"mismatch", "forward", "replaying", "optimizer"}
    BY <1>7 DEF RunReplay, AfterGroup, Running
  <2>2. CASE pc' = "mismatch"
    BY <2>2 DEF WeightsInv, Running
  <2>3. CASE pc' # "mismatch"
    <3>1. Completed' = Completed /\ Completed \in Nat
      BY <1>1, <2>1, <2>3 DEF Completed, StepInv, InStep
    <3> QED BY <1>3, <2>1, <3>1
  <2> QED BY <2>2, <2>3
<1>8. CASE PrefetchThread \/ Save \/ CheckpointWritten
  <2>1. /\ UNCHANGED <<config, dp, trained>> /\ Completed' = Completed
        /\ (Running' \/ pc' = "ending" => Running \/ pc = "ending")
    BY <1>8 DEF PrefetchThread, Save, CheckpointWritten, loopVars, trained, Completed, Running
  <2>2. CASE ~(Running' \/ pc' = "ending")
    BY <2>2 DEF WeightsInv
  <2>3. CASE Running \/ pc = "ending"
    <3>1. Completed \in Nat
      BY <1>1, <2>3 DEF Completed, StepInv, InStep, Running
    <3> QED BY <1>3, <2>1, <2>3, <3>1
  <2> QED BY <2>1, <2>2, <2>3
<1>9. CASE NotFinite \/ CloseTrainer \/ Raised \/ Killed \/ (pc \in {"done", "refused"} /\ UNCHANGED vars)
  BY <1>9 DEF NotFinite, CloseTrainer, Raised, Killed, vars, loopVars, WeightsInv, Running
<1>10. CASE StartAgain
  <2>1. /\ config' = config /\ pc = "dead" /\ pc' \in {"loop", "refused"}
        /\ step' = checkpoint.step
    BY <1>10 DEF StartAgain
  <2>2. CASE pc' = "refused"
    BY <2>2 DEF WeightsInv, Running
  <2>3. CASE checkpoint = NoCheckpoint
    <3>1. weights' = <<>> /\ lrScheduler' = SchedulerAt(0) /\ checkpoint.step = 0 /\ pc' = "loop"
      BY <1>10, <2>3 DEF StartAgain, NoCheckpoint
    <3>2. Completed' = 0 /\ 0 * config'.accumulation = 0
      BY <1>1, <2>1, <3>1 DEF Completed
    <3>3. WeightsAfter(w, 0)'
      <4>1. w = [k \in 1..0 |-> w[k]]
        BY <1>2, <3>1
      <4> QED BY <3>2, <4>1 DEF WeightsAfter
    <3> QED BY <1>2, <2>1, <3>1, <3>2, <3>3, WeightsAre
  <2>4. CASE checkpoint # NoCheckpoint /\ pc' = "loop"
    <3>1. IsCheckpoint(checkpoint)
      BY <2>1, <2>4 DEF CheckpointInv
    <3>2. /\ StateDictFits(checkpoint.data, dp') /\ weights' = checkpoint.weights
          /\ lrScheduler' = LoadScheduler(checkpoint.lrScheduler)
      BY <1>10, <2>4 DEF StartAgain
    <3>3. PICK n \in Nat : n = checkpoint.step
      BY <3>1 DEF IsCheckpoint
    <3>4. dp' = dp /\ WeightsAfter(w, n) /\ lrScheduler' = SchedulerAt(n)
      BY <1>2, <3>1, <3>2, <3>3 DEF IsCheckpoint, StateDictFits, LoadScheduler, SchedulerAt
    <3>5. n * config.accumulation \in Nat
      BY <3>3, StepRows
    <3>6. WeightsAfter(w, n)'
      BY <2>1, <3>4, <3>5, WeightsFrame
    <3>7. Completed' = n
      BY <2>1, <2>4, <3>3 DEF Completed
    <3> QED BY <1>2, <2>1, <3>4, <3>6, <3>7, WeightsAre
  <2> QED BY <2>1, <2>2, <2>3, <2>4
<1> QED BY <1>4, <1>5, <1>6, <1>7, <1>8, <1>9, <1>10 DEF Next

-------------------------------------------------------------------------------
(* The executions of a step.                                               *)

(* Calls whose result counts, in this process, while a step is under way.  *)
LEMMA CallsInStep ==
  ASSUME StepInv, ExecInv, InStep
  PROVE  /\ InProcess \in Nat \ {0} /\ Executed \in Nat
         /\ (InProcess - 1) * config.accumulation \in Nat
         /\ exec.rng = (InProcess - 1) * config.accumulation + Executed
         /\ InProcess = 1 => (InProcess - 1) * config.accumulation = 0
         /\ InProcess = 2 => (InProcess - 1) * config.accumulation = config.accumulation
         /\ InProcess > 1 => (InProcess - 1) * config.accumulation >= config.accumulation
<1>1. /\ step \in Int /\ loadedStep \in Int /\ group \in Nat /\ loadedStep < step
      /\ config.accumulation \in Nat \ {0}
  BY StepInvSettles, Settings DEF StepInv
<1>2. InProcess \in Nat \ {0} /\ Executed \in Nat
  BY <1>1 DEF InProcess, Executed
<1>3. /\ Completed = step - 1 /\ Completed - loadedStep = InProcess - 1
      /\ exec.rng = (Completed - loadedStep) * config.accumulation + Executed
  BY <1>1 DEF Completed, InProcess, ExecInv, InStep, Running
<1>4. \A p \in Nat \ {0}, a \in Nat :
        /\ (p - 1) * a \in Nat
        /\ p = 1 => (p - 1) * a = 0
        /\ p = 2 => (p - 1) * a = a
        /\ p > 1 => (p - 1) * a >= a
  <2> TAKE p \in Nat \ {0}, a \in Nat
  <2>1. p > 1 => 1 * a <= (p - 1) * a
    BY MultiplyMonotone
  <2> QED BY <2>1
<1> HIDE DEF InProcess
<1> QED BY <1>1, <1>2, <1>3, <1>4

(* The graph finds the gradient it relies on.                              *)
LEMMA GraphReady ==
  ASSUME StepInv, ExecInv, GraphInv, pc = "forward"
  PROVE  exec \in Execution /\ Graphed(exec)
<1>1. InStep /\ Running
  BY DEF InStep, Running
<1>2. exec \in Execution /\ exec.graphs = config.graphs
  BY <1>1 DEF ExecInv
<1>3. SUFFICES ASSUME config.graphs PROVE Graphed(exec)
  BY <1>2 DEF Graphed
<1>4. /\ exec.graph.captured => exec.graph.accumulates /\ exec.graph.grad = exec.grad
      /\ exec.rng > 0 => exec.grad # 0
      /\ exec.graph.captured => InProcess > 2
      /\ InProcess <= 2 =>
           exec.warmup + CallsMade
             = WarmupIterations(config.accumulation, config.sdcSteps, config.replays)
  <2>1. InProcess \in Nat
    BY <1>1, CallsInStep
  <2> QED BY <1>1, <1>3, <2>1 DEF GraphInv, WarmupSteps
<1>5. config.accumulation \in Nat \ {0} /\ group \in Nat /\ config.replays \in Nat
  BY StepInvSettles, Settings DEF StepInv
<1>6. InProcess > 1 => exec.rng > 0
  BY <1>1, <1>5, CallsInStep
<1>7. exec.rng = 0 => exec.warmup > 0
  <2>1. SUFFICES ASSUME exec.rng = 0 PROVE exec.warmup > 0
    OBVIOUS
  <2>2. InProcess = 1 /\ Executed = 0 /\ InProcess \in Nat
    BY <1>1, <1>6, <2>1, CallsInStep
  <2>3. group = 0
    BY <2>2 DEF Executed
  <2>4. stepsSinceReset = 0
    BY <1>1, <2>2, <2>3 DEF StepInv
  <2>5. CallsMade = exec.rng + CheckedSteps(0) * config.replays + 0
    BY <2>4 DEF CallsMade
  <2>6. CallsMade = 0
    BY <2>1, <2>5, ReplaysCount, StepInvSettles
  <2>7. exec.warmup = 2 * config.accumulation + CheckedSteps(2) * config.replays
    BY <1>2, <1>4, <2>2, <2>6, ExecutionFields, StepInvSettles, CheckedStepsCount
  <2>8. CheckedSteps(2) * config.replays \in Nat
    BY ReplaysCount, StepInvSettles
  <2> QED BY <1>5, <2>7, <2>8
<1>8. exec.rng \in Nat /\ exec.warmup \in Nat
  BY <1>2, ExecutionFields
<1>9. exec.graph.captured \/ exec.warmup = 0 => exec.grad # 0
  BY <1>1, <1>4, <1>6, <1>7, <1>8, CallsInStep
<1> QED BY <1>4, <1>9 DEF Graphed

(* So it does in a replay, which starts from a restored state.             *)
LEMMA ReplayReady ==
  ASSUME StepInv, ExecInv, ReplayInv, GraphInv, pc = "replaying"
  PROVE  LET x == Restore(exec, replay.snapshot)
         IN /\ x \in Execution /\ Graphed(x) /\ Gradient(x) = <<>>
            /\ x.tokens = exec.tokens - 1 /\ x.rng = exec.rng - 1
            /\ x.graphs = exec.graphs /\ x.warmup = exec.warmup /\ x.graph = exec.graph
            /\ x.grad \in {0, exec.grad} /\ (x.graphs /\ exec.rng > 1 => x.grad = exec.grad)
            /\ x.graphs => exec.warmup > 0 \/ exec.rng > 1
<1> DEFINE x == Restore(exec, replay.snapshot)
           A == config.accumulation
<1>1. InStep /\ Running /\ Executed = 1 /\ group = 0 /\ IsChecked
  BY DEF InStep, Running, Executed, StepInv
<1>2. exec \in Execution /\ exec.graphs = config.graphs
  BY <1>1 DEF ExecInv
<1>3. /\ exec.tokens - 1 \in Nat /\ exec.rng - 1 \in Nat
  <2>1. exec.tokens = Completed * A + 1 /\ Completed = step - 1
    BY <1>1 DEF ExecInv, Completed
  <2>2. (step - 1) * A \in Nat
    <3>1. PICK s \in Nat : s = step - 1
      BY <1>1 DEF StepInv
    <3>2. s * A \in Nat
      BY StepRows
    <3> QED BY <3>1, <3>2
  <2>3. exec.rng = (InProcess - 1) * A + 1 /\ (InProcess - 1) * A \in Nat
    BY <1>1, CallsInStep
  <2> QED BY <2>1, <2>2, <2>3
<1>4. PICK grad \in {0, exec.grad}, done \in 0..(config.replays - 1) :
        /\ replay.snapshot = [tokens |-> exec.tokens - 1, rng |-> exec.rng - 1, grad |-> grad]
        /\ replay.done = done
        /\ config.graphs /\ exec.rng > 1 => grad = exec.grad
  <2>1. PICK grad \in {0, exec.grad}, done \in 0..(config.replays - 1), mark \in 0..corruptions :
          replay = [snapshot |-> [tokens |-> exec.tokens - 1, rng |-> exec.rng - 1, grad |-> grad],
                    reference |-> <<<<batches[1], mark>>, exec.rng, TRUE,
                                    <<<<batches[1], mark>>>>, exec.tokens>>,
                    done |-> done]
    BY DEF ReplayInv
  <2>2. /\ replay.snapshot = [tokens |-> exec.tokens - 1, rng |-> exec.rng - 1, grad |-> grad]
        /\ replay.done = done
    BY ONLY <2>1
  <2>3. config.graphs /\ exec.rng > 1 => grad = exec.grad
    <3>1. replay.snapshot.grad = grad
      BY ONLY <2>2
    <3> QED BY <3>1 DEF ReplayInv
  <2> QED BY <2>2, <2>3
<1>5. grad \in 0..2
  BY <1>2, <1>4, ExecutionFields
<1>6. /\ Clears(exec, x) /\ x.tokens = exec.tokens - 1 /\ x.rng = exec.rng - 1 /\ x.grad = grad
  <2>1. PICK e, s : e \in Execution /\ e = exec /\ s = replay.snapshot
    BY <1>2
  <2> QED BY <1>3, <1>4, <1>5, <2>1, RestoreClears
<1> HIDE DEF x
<1>7. /\ x \in Execution /\ Gradient(x) = <<>>
      /\ x.graphs = exec.graphs /\ x.warmup = exec.warmup /\ x.graph = exec.graph
  BY <1>6 DEF Clears
<1>8. /\ A \in Nat \ {0} /\ config.replays \in Nat /\ exec.warmup \in Nat
      /\ exec.rng \in Nat
  BY <1>2, StepInvSettles, Settings, ExecutionFields
<1>9. ASSUME config.graphs, exec.rng = 1
      PROVE  InProcess = 1 /\ exec.warmup > 0 /\ ~exec.graph.captured
  <2>1. InProcess = 1
    <3> DEFINE calls == (InProcess - 1) * A
    <3>1. /\ InProcess \in Nat \ {0} /\ calls \in Nat
          /\ exec.rng = calls + Executed /\ (InProcess > 1 => calls >= A)
      BY <1>1, CallsInStep
    <3> HIDE DEF calls, A
    <3> QED BY <1>1, <1>8, <1>9, <3>1
  <2>2. stepsSinceReset = 0
    BY <1>1, <2>1 DEF StepInv
  <2>3. CheckedSteps(0) * config.replays = 0
    BY ReplaysCount, StepInvSettles
  <2>4. CallsMade = 1 + done
    BY <1>4, <1>9, <2>2, <2>3 DEF CallsMade
  <2>5. /\ ~exec.graph.captured
        /\ exec.warmup + CallsMade = 2 * A + CheckedSteps(2) * config.replays
    BY <1>1, <1>9, <2>1, StepInvSettles, CheckedStepsCount DEF GraphInv, WarmupSteps
  <2>6. CheckedSteps(2) * config.replays >= config.replays
    <3>1. CheckedSteps(0 + 1) * config.replays = CheckedSteps(0) * config.replays + config.replays
      BY <1>1, <2>2, ReplaysCount, StepInvSettles DEF IsChecked
    <3>2. CheckedSteps(1) * config.replays <= CheckedSteps(2) * config.replays
      BY ReplaysCount, StepInvSettles
    <3> QED BY <1>8, <2>3, <3>1, <3>2
  <2>7. CheckedSteps(2) * config.replays \in Nat
    BY ReplaysCount, StepInvSettles
  <2>8. exec.warmup > 0
    <3> HIDE DEF A
    <3> QED BY <1>4, <1>8, <2>4, <2>5, <2>6, <2>7
  <2> QED BY <2>1, <2>5, <2>8
<1>10. config.graphs => (exec.graph.captured => exec.graph.accumulates /\ exec.graph.grad = exec.grad)
                        /\ (exec.rng > 0 => exec.grad # 0)
  BY <1>1 DEF GraphInv
<1>11. exec.rng = 1 \/ exec.rng > 1
  BY <1>3, <1>8
<1>12. Graphed(x)
  BY <1>2, <1>4, <1>6, <1>7, <1>9, <1>10, <1>11, <1>8 DEF Graphed
<1> QED BY <1>2, <1>4, <1>6, <1>7, <1>9, <1>11, <1>12 DEF x

(* An execution of the group, correct or with a mark of its own.           *)
LEMMA ExecutesAdds ==
  ASSUME StepInv, FetchInv, InStep, group < Len(batches),
         NEW x, x \in Execution, Graphed(x), Executes(x)
  PROVE  \E m \in Nat : /\ Adds(x, exec', <<batches[group + 1], m>>)
                        /\ batches[group + 1] \in Batch
                        /\ \/ m = Correct /\ corruptions' = corruptions
                           \/ m = corruptions + 1 /\ corruptions' = m
<1>1. batches[group + 1] \in Batch
  <2>1. batches \in Seq(Batch) /\ group \in Nat
    BY DEF FetchInv, StepInv
  <2>2. group + 1 \in 1..Len(batches)
    BY <2>1, LenProperties
  <2> QED BY <2>1, <2>2, ElementOfSeq
<1>2. PICK b \in Batch : b = batches[group + 1]
  BY <1>1
<1>3. corruptions + 1 \in Nat /\ Correct \in Nat
  BY DEF StepInv, Correct
<1>4. CASE exec' = ForwardBackward(x, b, Correct) /\ corruptions' = corruptions
  <2>1. Adds(x, exec', <<b, Correct>>)
    BY <1>3, <1>4, ForwardBackwardAdds
  <2> QED BY <1>1, <1>2, <1>3, <1>4, <2>1
<1>5. CASE exec' = ForwardBackward(x, b, corruptions + 1) /\ corruptions' = corruptions + 1
  <2>1. PICK m \in Nat : m = corruptions + 1
    BY <1>3
  <2>2. Adds(x, exec', <<b, m>>)
    BY <1>5, <2>1, ForwardBackwardAdds
  <2> QED BY <1>1, <1>2, <1>5, <2>1, <2>2
<1> QED BY <1>2, <1>4, <1>5 DEF Executes

(* A new process has executed nothing.                                     *)
LEMMA ExecInit ==
  ASSUME Init
  PROVE  ExecInv
<1>1. Settled
  BY StepInit, StepInvSettles
<1>2. exec = NewExec(config, 0) /\ pc = "loop" /\ step = 0 /\ loadedStep = 0
  BY DEF Init
<1>3. /\ exec \in Execution /\ exec.graphs = config.graphs /\ exec.tokens = 0 /\ exec.rng = 0
  BY <1>1, <1>2, NewExecClears
<1>4. Completed = 0 /\ Executed = 0 /\ ~InStep
  BY <1>2 DEF Completed, Executed, InStep
<1>5. 0 * config.accumulation + 0 = 0 /\ Completed - loadedStep = 0
  BY <1>1, <1>2, <1>4, Settings
<1> QED BY <1>3, <1>4, <1>5 DEF ExecInv

(* The invariant when the execution state stays.                           *)
LEMMA SameExec ==
  ASSUME ExecInv, Running \/ pc = "ending", UNCHANGED <<config, exec, loadedStep, corruptions>>,
         Completed' = Completed, Executed' = Executed,
         InStep' => InStep /\ (Executed = 0 \/ batches' = batches)
  PROVE  ExecInv'
<1>1. /\ exec \in Execution /\ exec.graphs = config.graphs
      /\ exec.tokens = Completed * config.accumulation + Executed
      /\ exec.rng = (Completed - loadedStep) * config.accumulation + Executed
  BY DEF ExecInv
<1>2. InStep => /\ Len(Gradient(exec)) = Executed
                /\ \A k \in 1..Executed : /\ Gradient(exec)[k][1] = batches[k]
                                          /\ Gradient(exec)[k][2] \in 0..corruptions
  BY DEF ExecInv
<1>3. Gradient(exec)' = Gradient(exec) /\ (exec \in Execution)'
  BY <1>1 DEF Gradient
<1>4. ASSUME InStep'
      PROVE  /\ Len(Gradient(exec)') = Executed'
             /\ \A k \in 1..Executed' : /\ Gradient(exec)'[k][1] = batches'[k]
                                        /\ Gradient(exec)'[k][2] \in 0..corruptions'
  <2>1. CASE Executed = 0
    BY <1>2, <1>3, <1>4, <2>1
  <2>2. CASE batches' = batches
    BY <1>2, <1>3, <1>4, <2>2
  <2> QED BY <1>4, <2>1, <2>2
<1> QED BY <1>1, <1>3, <1>4 DEF ExecInv

(* What an execution leaves when it is the one after `before` others of    *)
(* its step that count.                                                    *)
LEMMA ExecutionCounts ==
  ASSUME StepInv, FetchInv, ExecInv, pc \in {"forward", "replaying"},
         NEW x, Graphed(x), x \in Execution, Executes(x), x.graphs = config.graphs,
         NEW before \in Nat, before = group,
         x.tokens = Completed * config.accumulation + before,
         x.rng = (Completed - loadedStep) * config.accumulation + before,
         Len(Gradient(x)) = before,
         \A k \in 1..before : /\ Gradient(x)[k][1] = batches[k]
                              /\ Gradient(x)[k][2] \in 0..corruptions,
         UNCHANGED <<config, dp, step, loadedStep, batches>>,
         pc' \in {"forward", "replaying", "optimizer"}, Executed' = before + 1
  PROVE  ExecInv'
<1>1. InStep /\ InStep' /\ group \in Nat /\ group < Len(batches)
  <2>1. config.accumulation \in Nat \ {0}
    BY StepInvSettles, Settings
  <2> QED BY <2>1 DEF StepInv, InStep
<1>2. PICK m \in Nat : /\ Adds(x, exec', <<batches[group + 1], m>>)
                       /\ batches[group + 1] \in Batch
                       /\ \/ m = Correct /\ corruptions' = corruptions
                          \/ m = corruptions + 1 /\ corruptions' = m
  BY <1>1, ExecutesAdds
<1> DEFINE value == <<batches[group + 1], m>>
           grad == Gradient(x)
           sum == Append(grad, value)
<1>3. /\ exec' \in Execution /\ exec'.graphs = x.graphs
      /\ exec'.tokens = x.tokens + 1 /\ exec'.rng = x.rng + 1
      /\ Gradient(exec') = sum
  BY <1>2 DEF Adds
<1>4. Completed' = Completed /\ (Completed - loadedStep)' = Completed - loadedStep
  BY <1>1 DEF Completed, InStep
<1>5. corruptions \in Nat /\ corruptions' \in Nat /\ corruptions <= corruptions'
      /\ m \in 0..corruptions'
  BY <1>2 DEF StepInv, Correct
<1>6. exec'.tokens = Completed * config.accumulation + (before + 1)
      /\ exec'.rng = (Completed - loadedStep) * config.accumulation + (before + 1)
  <2>1. PICK a, b : a = Completed * config.accumulation
                    /\ b = (Completed - loadedStep) * config.accumulation
    OBVIOUS
  <2>2. a \in Int /\ b \in Int
    <3>1. Completed \in Int /\ loadedStep \in Int /\ config.accumulation \in Int
      BY <1>1, StepInvSettles, Settings DEF Completed, StepInv
    <3>2. \A i, j \in Int : i * j \in Int
      OBVIOUS
    <3>3. Completed - loadedStep \in Int
      BY <3>1
    <3> QED BY <2>1, <3>1, <3>2, <3>3
  <2>3. exec'.tokens = (a + before) + 1 /\ exec'.rng = (b + before) + 1
    BY <1>3, <2>1
  <2> QED BY <2>1, <2>2, <2>3
<1>7. value \in Contribution /\ grad \in Seq(Contribution) /\ Len(grad) = before
  BY <1>2, GradientType DEF Contribution
<1>8. value[1] = batches[before + 1] /\ value[2] = m
  OBVIOUS
<1> HIDE DEF value, grad
<1>9. /\ Len(sum) = before + 1 /\ (\A k \in 1..before : sum[k] = grad[k])
      /\ sum[before + 1] = value
  BY <1>7, AppendProperties
<1> HIDE DEF sum
<1>10. \A k \in 1..(before + 1) : sum[k][1] = batches'[k] /\ sum[k][2] \in 0..corruptions'
  <2> TAKE k \in 1..(before + 1)
  <2>1. CASE k \in 1..before
    BY <1>5, <1>9, <2>1 DEF grad
  <2>2. CASE k = before + 1
    BY <1>5, <1>8, <1>9, <2>2
  <2> QED BY <2>1, <2>2
<1>11. Gradient(exec)' = sum /\ (exec \in Execution)'
  BY <1>3 DEF Gradient
<1> QED BY <1>3, <1>4, <1>6, <1>9, <1>10, <1>11 DEF ExecInv

(* Every step keeps the counters of the executions and the gradient.       *)
LEMMA ExecStep ==
  ASSUME StepInv, FetchInv, ExecInv, ReplayInv, GraphInv, CheckpointInv, Next
  PROVE  ExecInv'
<1>1. config.accumulation \in Nat \ {0} /\ step \in Nat /\ loadedStep \in Nat /\ Settled
      /\ group \in Nat
  BY StepInvSettles, Settings DEF StepInv
<1>2. CASE BeginStep
  <2>1. /\ pc = "loop" /\ pc' = "fetch" /\ exec' = ZeroGrad(exec) /\ step' = step + 1
        /\ UNCHANGED <<config, loadedStep, corruptions>> /\ group' = 0
    BY <1>2 DEF BeginStep, history
  <2>2. /\ Completed = step /\ Completed' = step /\ Executed = 0 /\ Executed' = 0
    BY <1>1, <2>1 DEF Completed, Executed
  <2>3. exec \in Execution
    BY <2>1 DEF ExecInv, Running
  <2>4. /\ exec' \in Execution /\ Gradient(exec') = <<>> /\ exec'.graphs = exec.graphs
        /\ exec'.tokens = exec.tokens /\ exec'.rng = exec.rng
    BY <2>1, <2>3, ZeroGradClears DEF Clears
  <2>5. Gradient(exec)' = <<>> /\ (exec \in Execution)'
    BY <2>4 DEF Gradient
  <2>6. /\ exec.graphs = config.graphs
        /\ exec.tokens = Completed * config.accumulation + Executed
        /\ exec.rng = (Completed - loadedStep) * config.accumulation + Executed
    BY <2>1 DEF ExecInv, Running
  <2>7. Len(Gradient(exec)') = 0
    BY <2>5
  <2> QED BY <2>1, <2>2, <2>4, <2>5, <2>6, <2>7 DEF ExecInv
<1>3. CASE FetchBatch \/ RunsOut \/ PrefetchThread \/ Save \/ CheckpointWritten
  <2>1. CASE Running \/ pc = "ending"
    <3>1. /\ UNCHANGED <<config, exec, loadedStep, corruptions>>
          /\ Completed' = Completed /\ Executed' = Executed
      <4>1. CASE FetchBatch
        <5>1. pc = "fetch" /\ pc' \in {"forward", "fetch"} /\ group = 0
              /\ UNCHANGED <<config, exec, loadedStep, corruptions, group, step>>
          BY <4>1 DEF FetchBatch, history, StepInv
        <5> QED BY <5>1 DEF Completed, Executed
      <4>2. CASE RunsOut
        BY <4>2 DEF RunsOut, history, Completed, Executed
      <4>3. CASE PrefetchThread \/ CheckpointWritten
        BY <4>3 DEF PrefetchThread, CheckpointWritten, history, loopVars, Completed, Executed
      <4>4. CASE Save
        BY <4>4 DEF Save, history, Completed, Executed
      <4> QED BY <1>3, <4>1, <4>2, <4>3, <4>4
    <3>2. InStep' => InStep /\ (Executed = 0 \/ batches' = batches)
      BY <1>3 DEF FetchBatch, RunsOut, PrefetchThread, Save, CheckpointWritten, loopVars,
                  InStep, Executed
    <3> QED BY <2>1, <3>1, <3>2, SameExec
  <2>2. CASE ~(Running \/ pc = "ending")
    BY <1>3, <2>2 DEF FetchBatch, RunsOut, PrefetchThread, Save, CheckpointWritten, loopVars,
                      ExecInv, Running
  <2> QED BY <2>1, <2>2
<1>4. CASE RunGroup \/ RunReference
  <2>1. /\ pc = "forward" /\ Executes(exec)
        /\ UNCHANGED <<config, dp, step, loadedStep, batches>>
    BY <1>4 DEF RunGroup, RunReference
  <2>2. exec \in Execution /\ Graphed(exec)
    BY <2>1, GraphReady
  <2>3. /\ exec.graphs = config.graphs
        /\ exec.tokens = Completed * config.accumulation + group
        /\ exec.rng = (Completed - loadedStep) * config.accumulation + group
        /\ Len(Gradient(exec)) = group
        /\ \A k \in 1..group : /\ Gradient(exec)[k][1] = batches[k]
                               /\ Gradient(exec)[k][2] \in 0..corruptions
    BY <2>1 DEF ExecInv, Executed, InStep, Running
  <2>4. pc' \in {"forward", "replaying", "optimizer"} /\ Executed' = group + 1
    <3>1. CASE RunGroup
      BY <3>1 DEF RunGroup, AfterGroup, Executed
    <3>2. CASE RunReference
      BY <1>1, <3>2 DEF RunReference, IsChecked, Executed
    <3> QED BY <1>4, <3>1, <3>2
  <2> QED BY <1>1, <2>1, <2>2, <2>3, <2>4, ExecutionCounts
<1>5. CASE RunReplay
  <2> DEFINE x == Restore(exec, replay.snapshot)
  <2>1. /\ pc = "replaying" /\ Executes(x) /\ group = 0 /\ Executed = 1
        /\ UNCHANGED <<config, dp, step, loadedStep, batches>>
    BY <1>5 DEF RunReplay, StepInv, Executed
  <2>2. /\ x \in Execution /\ Graphed(x) /\ Gradient(x) = <<>>
        /\ x.tokens = exec.tokens - 1 /\ x.rng = exec.rng - 1 /\ x.graphs = exec.graphs
    BY <2>1, ReplayReady
  <2> HIDE DEF x
  <2>3. /\ exec.graphs = config.graphs
        /\ exec.tokens = Completed * config.accumulation + 1
        /\ exec.rng = (Completed - loadedStep) * config.accumulation + 1
    BY <2>1 DEF ExecInv, InStep, Running
  <2>4. /\ x.tokens = Completed * config.accumulation + 0
        /\ x.rng = (Completed - loadedStep) * config.accumulation + 0
    <3>1. PICK a, b : a = Completed * config.accumulation
                      /\ b = (Completed - loadedStep) * config.accumulation
      OBVIOUS
    <3>2. a \in Int /\ b \in Int
      <4>1. Completed \in Int
        BY <1>1 DEF Completed
      <4>2. \A i, j \in Int : i * j \in Int
        OBVIOUS
      <4>3. Completed - loadedStep \in Int
        BY <1>1, <4>1
      <4> QED BY <1>1, <3>1, <4>1, <4>2, <4>3
    <3> QED BY <2>2, <2>3, <3>1, <3>2
  <2>5. CASE pc' = "mismatch"
    BY <2>5 DEF ExecInv, Running
  <2>6. CASE pc' # "mismatch"
    <3>1. pc' \in {"forward", "replaying", "optimizer"} /\ Executed' = 0 + 1
      BY <1>5, <2>1, <2>6 DEF RunReplay, AfterGroup, Executed
    <3>2. Len(Gradient(x)) = 0
      BY <2>2
    <3>3. 0 \in Nat /\ 0 = group /\ \A k \in 1..0 : FALSE
      BY <2>1
    <3> QED BY <2>1, <2>2, <2>3, <2>4, <3>1, <3>2, <3>3, ExecutionCounts
  <2> QED BY <2>5, <2>6
<1>6. CASE OptimizerStep
  <2>1. /\ pc = "optimizer" /\ pc' = "save" /\ UNCHANGED <<config, exec, loadedStep, step>>
        /\ group = config.accumulation
    BY <1>6 DEF OptimizerStep, history, StepInv
  <2>2. /\ exec \in Execution /\ exec.graphs = config.graphs
        /\ exec.tokens = (step - 1) * config.accumulation + config.accumulation
        /\ exec.rng = (step - 1 - loadedStep) * config.accumulation + config.accumulation
    BY <2>1 DEF ExecInv, Running, Completed, Executed
  <2>3. /\ Completed' = step /\ Executed' = 0 /\ ~InStep'
    BY <2>1 DEF Completed, Executed, InStep
  <2>4. \A s, l \in Int, a \in Nat :
          /\ (s - 1) * a + a = s * a + 0
          /\ (s - 1 - l) * a + a = (s - l) * a + 0
    OBVIOUS
  <2>5. /\ exec.tokens = step * config.accumulation + 0
        /\ exec.rng = (step - loadedStep) * config.accumulation + 0
    <3>1. PICK s \in Int, l \in Int, a \in Nat :
            s = step /\ l = loadedStep /\ a = config.accumulation
      BY <1>1
    <3> QED BY <2>2, <2>4, <3>1
  <2>6. (exec \in Execution)'
    BY <2>1, <2>2
  <2> QED BY <2>1, <2>2, <2>3, <2>5, <2>6 DEF ExecInv
<1>7. CASE StartAgain
  <2>1. /\ config' = config /\ step' = checkpoint.step /\ loadedStep' = checkpoint.step
        /\ pc' \in {"loop", "refused"} /\ pc = "dead"
    BY <1>7 DEF StartAgain
  <2>2. CASE pc' = "refused"
    BY <2>2 DEF ExecInv, Running
  <2>3. CASE pc' = "loop"
    <3>1. /\ Completed' = checkpoint.step /\ Executed' = 0 /\ ~InStep'
      BY <2>1, <2>3 DEF Completed, Executed, InStep
    <3>2. checkpoint.step \in Nat
      BY <2>1, CheckpointSteps
    <3>3. PICK t \in Nat : exec' = NewExec(config, t) /\ t = checkpoint.step * config.accumulation
      <4>1. CASE checkpoint = NoCheckpoint
        <5>1. exec' = NewExec(config, 0) /\ checkpoint.step = 0
          BY <1>7, <4>1 DEF StartAgain, NoCheckpoint
        <5>2. 0 = 0 * config.accumulation
          BY <1>1
        <5> QED BY <5>1, <5>2
      <4>2. CASE checkpoint # NoCheckpoint
        <5>1. exec' = NewExec(config, checkpoint.tokens)
          BY <1>7, <4>2 DEF StartAgain
        <5>2. checkpoint.tokens = checkpoint.step * config.accumulation
          BY <2>1, <4>2 DEF CheckpointInv, IsCheckpoint
        <5>3. checkpoint.step * config.accumulation \in Nat
          BY <3>2, StepRows
        <5> QED BY <5>1, <5>2, <5>3
      <4> QED BY <4>1, <4>2
    <3>4. exec' \in Execution /\ exec'.graphs = config.graphs /\ exec'.tokens = t /\ exec'.rng = 0
      BY <1>1, <3>3, NewExecClears
    <3>5. /\ t = checkpoint.step * config.accumulation + 0
          /\ 0 = (checkpoint.step - checkpoint.step) * config.accumulation + 0
      BY <1>1, <3>2, <3>3
    <3>6. (exec \in Execution)'
      BY <3>4
    <3> QED BY <2>1, <3>1, <3>4, <3>5, <3>6 DEF ExecInv
  <2> QED BY <2>1, <2>2, <2>3
<1>8. CASE NotFinite \/ CloseTrainer \/ Raised \/ Killed \/ (pc \in {"done", "refused"} /\ UNCHANGED vars)
  BY <1>8 DEF NotFinite, CloseTrainer, Raised, Killed, vars, loopVars, ExecInv, Running
<1> QED BY <1>2, <1>3, <1>4, <1>5, <1>6, <1>7, <1>8 DEF Next

-------------------------------------------------------------------------------
(* The replays.                                                            *)

(* The signature of a first execution of a step.                           *)
LEMMA SignatureOf ==
  ASSUME NEW y, NEW v \in Contribution, y.grad # 0, y.loss = v, Gradient(y) = Append(<<>>, v)
  PROVE  Signature(y) = <<v, y.rng, TRUE, <<v>>, y.tokens>>
<1>1. Append(<<>>, v) = <<v>>
  OBVIOUS
<1>2. (y.grad # 0) = TRUE
  OBVIOUS
<1> QED BY <1>1, <1>2 DEF Signature

(* The signature that a contribution leaves.                               *)
Reference(value, rng, tokens) == <<value, rng, TRUE, <<value>>, tokens>>

(* A replay that matches its reference was correct, as the reference was;  *)
(* one that does not shows a corruption.                                   *)
LEMMA ReplayCompares ==
  ASSUME StepInv, FetchInv, ExecInv, ReplayInv, GraphInv, RunReplay
  PROVE  \E m \in Nat :
           /\ Adds(Restore(exec, replay.snapshot), exec', <<batches[1], m>>)
           /\ m \in 0..corruptions' /\ corruptions <= corruptions' /\ corruptions' \in Nat
           /\ Signature(exec') = replay.reference => m = Correct
           /\ Signature(exec') # replay.reference => corruptions' > 0
<1> DEFINE x == Restore(exec, replay.snapshot)
<1>1. /\ pc = "replaying" /\ Executes(x) /\ group = 0 /\ InStep /\ Running /\ Executed = 1
  BY DEF RunReplay, StepInv, Executed, InStep, Running
<1>2. /\ x \in Execution /\ Graphed(x) /\ Gradient(x) = <<>>
      /\ x.tokens = exec.tokens - 1 /\ x.rng = exec.rng - 1
  BY <1>1, ReplayReady
<1> HIDE DEF x
<1>3. /\ exec.tokens \in Nat /\ exec.rng \in Nat /\ corruptions \in Nat
      /\ config.accumulation \in Nat \ {0} /\ Len(batches) = config.accumulation
  BY <1>1, ExecutionFields, StepInvSettles, Settings DEF ExecInv, StepInv
<1>4. PICK m \in Nat : /\ Adds(x, exec', <<batches[1], m>>)
                       /\ batches[1] \in Batch
                       /\ \/ m = Correct /\ corruptions' = corruptions
                          \/ m = corruptions + 1 /\ corruptions' = m
  <2>1. group < Len(batches) /\ group + 1 = 1
    BY <1>1, <1>3
  <2> QED BY <1>1, <1>2, <2>1, ExecutesAdds
<1>5. PICK v \in Contribution : v = <<batches[1], m>>
  BY <1>4 DEF Contribution
<1>6. Signature(exec') = Reference(v, exec.rng, exec.tokens)
  <2>1. exec'.rng = exec.rng /\ exec'.tokens = exec.tokens
    BY <1>2, <1>3, <1>4 DEF Adds
  <2>2. exec'.grad # 0 /\ exec'.loss = v /\ Gradient(exec') = Append(<<>>, v)
    BY <1>2, <1>4, <1>5 DEF Adds
  <2> QED BY <2>1, <2>2, SignatureOf DEF Reference
<1>7. PICK mark \in 0..corruptions :
        replay.reference = Reference(<<batches[1], mark>>, exec.rng, exec.tokens)
  <2>1. PICK grad \in {0, exec.grad}, done \in 0..(config.replays - 1), mark \in 0..corruptions :
          replay = [snapshot |-> [tokens |-> exec.tokens - 1, rng |-> exec.rng - 1, grad |-> grad],
                    reference |-> <<<<batches[1], mark>>, exec.rng, TRUE,
                                    <<<<batches[1], mark>>>>, exec.tokens>>,
                    done |-> done]
    BY <1>1 DEF ReplayInv
  <2>2. replay.reference = Reference(<<batches[1], mark>>, exec.rng, exec.tokens)
    BY ONLY <2>1 DEF Reference
  <2> QED BY <2>2
<1>8. \A u, w : Reference(u, exec.rng, exec.tokens) = Reference(w, exec.rng, exec.tokens) => u = w
  BY DEF Reference
<1>9. CASE Signature(exec') = replay.reference
  <2>1. v = <<batches[1], mark>>
    BY <1>6, <1>7, <1>8, <1>9
  <2>2. m = mark
    BY ONLY <1>5, <2>1
  <2> QED BY <1>3, <1>4, <1>7, <1>9, <2>2 DEF x, Correct
<1>10. CASE Signature(exec') # replay.reference
  <2>1. m # mark
    BY <1>5, <1>6, <1>7, <1>10
  <2> QED BY <1>3, <1>4, <1>7, <1>10, <2>1 DEF x, Correct
<1> QED BY <1>9, <1>10

(* The form of the invariant, from its witnesses.                          *)
LEMMA ReplayIs ==
  ASSUME NEW g, g \in {0, exec'.grad}, NEW d, d \in 0..(config'.replays - 1),
         NEW k, k \in 0..corruptions',
         replay' = [snapshot |-> [tokens |-> exec'.tokens - 1, rng |-> exec'.rng - 1, grad |-> g],
                    reference |-> Reference(<<batches'[1], k>>, exec'.rng, exec'.tokens),
                    done |-> d],
         config'.graphs /\ exec'.rng > 1 => g = exec'.grad
  PROVE  ReplayInv'
<1>1. replay'.snapshot.grad = g
  OBVIOUS
<1>2. replay' = [snapshot |-> [tokens |-> exec'.tokens - 1, rng |-> exec'.rng - 1, grad |-> g],
                 reference |-> <<<<batches'[1], k>>, exec'.rng, TRUE,
                                 <<<<batches'[1], k>>>>, exec'.tokens>>,
                 done |-> d]
  BY DEF Reference
<1> QED BY <1>1, <1>2 DEF ReplayInv

(* Every step keeps the reference and the snapshot of a checked execution. *)
LEMMA ReplayStep ==
  ASSUME StepInv, FetchInv, ExecInv, ReplayInv, GraphInv, CheckpointInv, Next
  PROVE  ReplayInv'
<1>1. CASE pc' # "replaying"
  BY <1>1 DEF ReplayInv
<1>2. CASE RunReference
  <2>1. /\ pc = "forward" /\ IsChecked /\ Executes(exec) /\ group = 0 /\ UNCHANGED <<config, batches>>
        /\ InStep /\ Running /\ Executed = 0
        /\ replay' = [snapshot |-> Snapshot(exec), reference |-> Signature(exec'), done |-> 0]
    BY <1>2 DEF RunReference, IsChecked, InStep, Running, Executed
  <2>2. /\ config.accumulation \in Nat \ {0} /\ Len(batches) = config.accumulation
        /\ corruptions \in Nat /\ stepsSinceReset \in Nat /\ config.replays \in Nat \ {0}
    <3>1. /\ config.accumulation \in Nat \ {0} /\ Len(batches) = config.accumulation
          /\ corruptions \in Nat /\ stepsSinceReset \in Nat
      BY <2>1, StepInvSettles, Settings DEF StepInv
    <3>2. config.sdcSteps # 0
      BY <2>1, <3>1 DEF IsChecked
    <3> QED BY <3>1, <3>2, StepInvSettles, Settings
  <2>3. exec \in Execution /\ Graphed(exec)
    BY <2>1, GraphReady
  <2>4. PICK m \in Nat : /\ Adds(exec, exec', <<batches[1], m>>)
                         /\ batches[1] \in Batch
                         /\ \/ m = Correct /\ corruptions' = corruptions
                            \/ m = corruptions + 1 /\ corruptions' = m
    <3>1. group < Len(batches) /\ group + 1 = 1
      BY <2>1, <2>2
    <3> QED BY <2>1, <2>3, <3>1, ExecutesAdds
  <2>5. PICK v \in Contribution : v = <<batches[1], m>>
    BY <2>4 DEF Contribution
  <2>6. Gradient(exec) = <<>>
    <3>1. Len(Gradient(exec)) = 0
      BY <2>1 DEF ExecInv
    <3> QED BY <2>3, <3>1, GradientType, EmptySeq
  <2>7. /\ exec'.tokens = exec.tokens + 1 /\ exec'.rng = exec.rng + 1
        /\ exec'.loss = v /\ Gradient(exec') = Append(<<>>, v)
        /\ exec'.grad # 0 /\ (exec.grad # 0 => exec'.grad = exec.grad)
    BY <2>4, <2>5, <2>6 DEF Adds
  <2>8. Signature(exec') = Reference(v, exec'.rng, exec'.tokens)
    BY <2>7, SignatureOf DEF Reference
  <2>9. /\ exec.tokens \in Nat /\ exec.rng \in Nat
        /\ exec.tokens = exec'.tokens - 1 /\ exec.rng = exec'.rng - 1
    <3>1. exec.tokens \in Nat /\ exec.rng \in Nat
      BY <2>3, ExecutionFields
    <3> QED BY <2>7, <3>1
  <2>10. Snapshot(exec) = [tokens |-> exec'.tokens - 1, rng |-> exec'.rng - 1, grad |-> exec.grad]
    BY <2>9 DEF Snapshot
  <2>11. config.graphs /\ exec'.rng > 1 => exec.grad = exec'.grad
    <3>1. config.graphs /\ exec.rng > 0 => exec.grad # 0
      BY <2>1 DEF GraphInv
    <3> QED BY <2>7, <2>9, <3>1
  <2>12. exec.grad \in {0, exec'.grad} /\ 0 \in 0..(config'.replays - 1) /\ m \in 0..corruptions'
    BY <2>1, <2>2, <2>4, <2>7 DEF Correct
  <2>13. replay' = [snapshot |-> [tokens |-> exec'.tokens - 1, rng |-> exec'.rng - 1,
                                  grad |-> exec.grad],
                    reference |-> Reference(<<batches'[1], m>>, exec'.rng, exec'.tokens),
                    done |-> 0]
    BY <2>1, <2>5, <2>8, <2>10
  <2> QED BY <2>1, <2>11, <2>12, <2>13, ReplayIs
<1>3. CASE RunReplay /\ pc' = "replaying"
  <2> DEFINE x == Restore(exec, replay.snapshot)
  <2>1. /\ pc = "replaying" /\ InStep /\ Running /\ Executed = 1
        /\ UNCHANGED <<config, batches>>
    BY <1>3 DEF RunReplay, InStep, Running, Executed
  <2>2. /\ replay.done + 1 < config.replays /\ replay' = [replay EXCEPT !.done = @ + 1]
    <3>1. pc' # "mismatch" /\ ~AfterGroup
      BY <1>3 DEF AfterGroup
    <3> QED BY <1>3, <3>1 DEF RunReplay
  <2>3. PICK m \in Nat :
           /\ Adds(x, exec', <<batches[1], m>>)
           /\ corruptions <= corruptions' /\ corruptions' \in Nat
    BY <1>3, ReplayCompares
  <2>4. /\ x.tokens = exec.tokens - 1 /\ x.rng = exec.rng - 1 /\ x.graphs = exec.graphs
        /\ x.grad \in {0, exec.grad} /\ (x.graphs /\ exec.rng > 1 => x.grad = exec.grad)
    BY <2>1, ReplayReady
  <2> HIDE DEF x
  <2>5. /\ exec'.tokens = x.tokens + 1 /\ exec'.rng = x.rng + 1
        /\ exec'.grad # 0 /\ (x.grad # 0 => exec'.grad = x.grad)
    BY <2>3 DEF Adds
  <2>6. exec.tokens \in Nat /\ exec.rng \in Nat /\ corruptions \in Nat /\ exec.graphs = config.graphs
        /\ config.replays \in Nat /\ exec.grad \in 0..2
    BY <2>1, ExecutionFields, StepInvSettles, Settings DEF ExecInv, StepInv
  <2>7. exec'.tokens = exec.tokens /\ exec'.rng = exec.rng
    BY <2>4, <2>5, <2>6
  <2>8. PICK grad \in {0, exec.grad}, done \in 0..(config.replays - 1), mark \in 0..corruptions :
          replay = [snapshot |-> [tokens |-> exec.tokens - 1, rng |-> exec.rng - 1, grad |-> grad],
                    reference |-> Reference(<<batches[1], mark>>, exec.rng, exec.tokens),
                    done |-> done]
    BY <2>1 DEF ReplayInv, Reference
  <2>9. /\ replay.done = done
        /\ replay' = [snapshot |-> [tokens |-> exec.tokens - 1, rng |-> exec.rng - 1, grad |-> grad],
                      reference |-> Reference(<<batches[1], mark>>, exec.rng, exec.tokens),
                      done |-> done + 1]
    BY ONLY <2>2, <2>8
  <2>10. x.grad = grad
    <3>1. replay.snapshot = [tokens |-> exec.tokens - 1, rng |-> exec.rng - 1, grad |-> grad]
      BY ONLY <2>8
    <3>2. exec \in Execution
      BY <2>1 DEF ExecInv
    <3>3. exec.tokens - 1 \in Nat /\ exec.rng - 1 \in Nat
      <4>1. x.tokens \in Nat /\ x.rng \in Nat
        BY <2>1, ReplayReady, ExecutionFields DEF x
      <4> QED BY <2>4, <4>1
    <3>4. grad \in 0..2
      BY <2>6, <2>8
    <3>5. PICK e, s : e \in Execution /\ e = exec /\ s = replay.snapshot
      BY <3>2
    <3> QED BY <3>1, <3>3, <3>4, <3>5, RestoreClears DEF x
  <2>11. /\ grad \in {0, exec'.grad} /\ done + 1 \in 0..(config'.replays - 1)
         /\ mark \in 0..corruptions'
    BY <2>1, <2>2, <2>3, <2>5, <2>6, <2>8, <2>9, <2>10
  <2>12. config'.graphs /\ exec'.rng > 1 => grad = exec'.grad
    <3>1. config.graphs /\ exec.rng > 1 => exec.grad # 0
      BY <2>1, <2>6 DEF GraphInv
    <3> QED BY <2>1, <2>4, <2>5, <2>6, <2>7, <2>10, <3>1
  <2>13. replay' = [snapshot |-> [tokens |-> exec'.tokens - 1, rng |-> exec'.rng - 1, grad |-> grad],
                    reference |-> Reference(<<batches'[1], mark>>, exec'.rng, exec'.tokens),
                    done |-> done + 1]
    BY <2>1, <2>7, <2>9
  <2> QED BY <2>11, <2>12, <2>13, ReplayIs
<1>4. CASE UNCHANGED <<config, loopVars, corruptions>>
  BY <1>4 DEF loopVars, ReplayInv
<1>5. CASE PrefetchThread \/ CheckpointWritten \/ (pc \in {"done", "refused"} /\ UNCHANGED vars)
  BY <1>4, <1>5 DEF PrefetchThread, CheckpointWritten, history, vars
<1>6. CASE BeginStep \/ FetchBatch \/ RunsOut \/ RunGroup \/ OptimizerStep \/ NotFinite \/ Save
           \/ CloseTrainer \/ Raised \/ Killed \/ StartAgain
  <2>1. pc' # "replaying"
    BY <1>6 DEF BeginStep, FetchBatch, RunsOut, RunGroup, AfterGroup, OptimizerStep, NotFinite,
                Save, CloseTrainer, Raised, Killed, StartAgain
  <2> QED BY <1>1, <2>1
<1> QED BY <1>1, <1>2, <1>3, <1>5, <1>6 DEF Next

-------------------------------------------------------------------------------
(* The graph.                                                              *)

(* The calls made, in the next state.                                      *)
LEMMA CallsMadeNext ==
  ASSUME config' = config
  PROVE  CallsMade' = exec'.rng + CheckedSteps(stepsSinceReset') * config.replays
                      + (IF pc' = "replaying" THEN replay'.done ELSE 0)
  BY DEF CallsMade, CheckedSteps

(* The invariant when the execution state and the calls made stay.         *)
LEMMA SameGraph ==
  ASSUME GraphInv, Running, UNCHANGED <<config, exec, step, loadedStep>>,
         CallsMade' = CallsMade,
         (pc' # "fetch" /\ ~(pc' = "forward" /\ group' = 0))
           <=> (pc # "fetch" /\ ~(pc = "forward" /\ group = 0))
  PROVE  GraphInv'
<1>1. InProcess' = InProcess
  BY DEF InProcess
<1> QED BY <1>1 DEF GraphInv

(* A call that counts, one more than before, while the graph warms up or   *)
(* after it was captured or is to be.                                      *)
LEMMA CallCounts ==
  ASSUME StepInv, GraphInv, Running, config.graphs, exec \in Execution,
         UNCHANGED <<config, step, loadedStep>>,
         NEW x, NEW value, Adds(x, exec', value), x.graphs, x.warmup = exec.warmup,
         x.graph = exec.graph,
         InProcess <= 2 => exec.warmup > 0 /\ CallsMade' = CallsMade + 1,
         CallsMade \in Int,
         pc' # "fetch", ~(pc' = "forward" /\ group' = 0)
  PROVE  GraphInv'
<1>1. InProcess' = InProcess /\ InProcess \in Int
  BY DEF InProcess, StepInv
<1>2. /\ exec'.warmup = IF exec.warmup > 0 THEN exec.warmup - 1 ELSE 0
      /\ exec'.graph.captured <=> exec.graph.captured \/ exec.warmup = 0
      /\ exec'.graph.captured => exec'.graph.accumulates /\ exec'.graph.grad = exec'.grad
      /\ exec'.grad # 0
  BY DEF Adds
<1>3. exec.warmup \in Nat
  BY ExecutionFields
<1>4. /\ InProcess <= 2 =>
           /\ ~exec.graph.captured
           /\ exec.warmup + CallsMade
                = WarmupIterations(config.accumulation, config.sdcSteps, config.replays)
      /\ InProcess > 2 => exec.warmup = 0
  BY DEF GraphInv, WarmupSteps
<1>5. InProcess > 2 => exec'.warmup = 0 /\ exec'.graph.captured
  BY <1>2, <1>4
<1>6. InProcess <= 2 => /\ ~exec'.graph.captured
                        /\ exec'.warmup + CallsMade'
                             = WarmupIterations(config.accumulation, config.sdcSteps, config.replays)
  BY <1>2, <1>3, <1>4
<1> QED BY <1>1, <1>2, <1>5, <1>6 DEF GraphInv, WarmupSteps

(* Replays are made one after the other, up to their number.               *)
LEMMA ReplaysDone ==
  ASSUME ReplayInv, pc = "replaying"
  PROVE  replay.done \in 0..(config.replays - 1)
<1>1. PICK grad \in {0, exec.grad}, done \in 0..(config.replays - 1), mark \in 0..corruptions :
        replay = [snapshot |-> [tokens |-> exec.tokens - 1, rng |-> exec.rng - 1, grad |-> grad],
                  reference |-> <<<<batches[1], mark>>, exec.rng, TRUE,
                                  <<<<batches[1], mark>>>>, exec.tokens>>,
                  done |-> done]
  BY DEF ReplayInv
<1>2. replay.done = done
  BY ONLY <1>1
<1> QED BY <1>1, <1>2

(* Until the third step of a process, there are warm-up calls left.        *)
LEMMA WarmupLasts ==
  ASSUME StepInv, ExecInv, ReplayInv, GraphInv, config.graphs, pc \in {"forward", "replaying"}
  PROVE  CallsMade \in Int /\ (InProcess <= 2 => exec.warmup > 0)
<1> DEFINE A == config.accumulation
           R == config.replays
           calls == (InProcess - 1) * A
           checked == CheckedSteps(stepsSinceReset) * R
           most == CheckedSteps(2) * R
<1>1. InStep /\ Running
  BY DEF InStep, Running
<1>2. /\ A \in Nat \ {0} /\ R \in Nat /\ group \in Nat /\ stepsSinceReset \in Nat
      /\ config.sdcSteps \in Nat \union {-1}
  BY StepInvSettles, Settings DEF StepInv
<1>3. /\ InProcess \in Nat \ {0} /\ calls \in Nat /\ exec.rng = calls + Executed
      /\ InProcess = 1 => calls = 0
      /\ InProcess = 2 => calls = A
  BY <1>1, CallsInStep
<1>4. checked \in Nat /\ most \in Nat
  BY <1>2, ReplaysCount, StepInvSettles
<1>5. exec.warmup \in Nat
  BY <1>1, ExecutionFields DEF ExecInv
<1>6. InProcess <= 2 => exec.warmup + CallsMade = 2 * A + most
  BY <1>1, StepInvSettles, CheckedStepsCount DEF GraphInv, WarmupSteps
<1>7. stepsSinceReset = IF group = 0 THEN InProcess - 1 ELSE InProcess
  BY <1>1 DEF StepInv
<1>8. InProcess <= 2 => checked <= most
  <2>1. InProcess <= 2 => stepsSinceReset \in 0..2
    BY <1>2, <1>3, <1>7
  <2> QED BY <2>1, ReplaysCount, StepInvSettles
<1>9. CASE pc = "forward"
  <2>1. CallsMade = exec.rng + checked + 0 /\ Executed = group /\ group < A
    BY <1>9 DEF CallsMade, Executed, StepInv
  <2> HIDE DEF A, R, calls, checked, most
  <2> QED BY <1>2, <1>3, <1>4, <1>5, <1>6, <1>8, <2>1
<1>10. CASE pc = "replaying"
  <2>1. /\ CallsMade = exec.rng + checked + replay.done /\ Executed = 1 /\ group = 0
        /\ IsChecked
    BY <1>10 DEF CallsMade, Executed, StepInv
  <2>2. replay.done \in 0..(R - 1)
    BY <1>10, ReplaysDone
  <2>3. InProcess <= 2 => checked + R <= most
    <3>1. SUFFICES ASSUME InProcess <= 2 PROVE checked + R <= most
      OBVIOUS
    <3>2. CheckedSteps(stepsSinceReset + 1) * R = checked + R
      BY <1>2, <2>1, ReplaysCount, StepInvSettles DEF IsChecked
    <3>3. stepsSinceReset + 1 \in 0..2
      BY <1>2, <1>3, <1>7, <2>1, <3>1
    <3>4. CheckedSteps(stepsSinceReset + 1) * R <= most
      BY <3>3, ReplaysCount, StepInvSettles
    <3> QED BY <3>2, <3>4
  <2> HIDE DEF A, R, calls, checked, most
  <2>4. CallsMade \in Int
    BY <1>3, <1>4, <2>1, <2>2
  <2>5. ASSUME InProcess <= 2 PROVE exec.warmup > 0
    <3>1. calls <= A
      BY <1>2, <1>3, <2>5
    <3>2. CallsMade < 2 * A + most
      BY <1>2, <1>3, <1>4, <2>1, <2>2, <2>3, <2>5, <3>1
    <3> QED BY <1>2, <1>4, <1>5, <1>6, <2>4, <2>5, <3>2
  <2> QED BY <2>4, <2>5
<1> QED BY <1>9, <1>10

(* A new process has its warm-up before it.                                *)
LEMMA GraphInit ==
  ASSUME Init
  PROVE  GraphInv
<1>1. Settled /\ config.replays \in Nat
  BY StepInit, StepInvSettles, Settings
<1>2. /\ exec = NewExec(config, 0) /\ pc = "loop" /\ InProcess = 0 /\ stepsSinceReset = 0
  BY DEF Init, InProcess
<1>3. /\ exec.rng = 0 /\ exec.grad = 0 /\ ~exec.graph.captured
      /\ exec.warmup = WarmupIterations(config.accumulation, config.sdcSteps, config.replays)
  BY <1>1, <1>2, NewExecClears
<1>4. CallsMade = 0 + CheckedSteps(0) * config.replays + 0
  BY <1>2, <1>3 DEF CallsMade
<1>5. CheckedSteps(0) * config.replays = 0
  BY <1>1, ReplaysCount
<1>6. exec.warmup \in Nat
  BY ExecInit, ExecutionFields DEF ExecInv, Init, Running
<1>7. exec.warmup + CallsMade = exec.warmup
  BY <1>4, <1>5, <1>6
<1> QED BY <1>2, <1>3, <1>7 DEF GraphInv, WarmupSteps

(* The third step begins when all warm-up calls were made.                 *)
LEMMA StepBegins ==
  ASSUME StepInv, ExecInv, GraphInv, config.graphs, pc = "loop", InProcess = 2
  PROVE  exec.warmup = 0
<1> DEFINE A == config.accumulation
           most == CheckedSteps(2) * config.replays
<1>1. Running /\ ~InStep
  BY DEF Running, InStep
<1>2. A \in Nat /\ most \in Nat /\ exec.warmup \in Nat
  BY <1>1, StepInvSettles, Settings, ReplaysCount, ExecutionFields DEF ExecInv
<1>3. exec.rng = (step - loadedStep) * A + 0
  BY <1>1 DEF ExecInv, Completed, Executed
<1>4. exec.rng = 2 * A
  BY <1>2, <1>3 DEF InProcess
<1>5. stepsSinceReset = 2
  BY <1>1 DEF StepInv
<1>6. CallsMade = 2 * A + most + 0
  BY <1>4, <1>5 DEF CallsMade
<1>7. exec.warmup + CallsMade = 2 * A + most
  BY <1>1, StepInvSettles, CheckedStepsCount DEF GraphInv, WarmupSteps
<1> HIDE DEF A, most
<1> QED BY <1>2, <1>6, <1>7

(* Every step keeps the graph and its warm-up in step with the calls.      *)
LEMMA GraphStep ==
  ASSUME StepInv, FetchInv, ExecInv, ReplayInv, GraphInv, CheckpointInv, Next
  PROVE  GraphInv'
<1>1. /\ config.accumulation \in Nat \ {0} /\ config.replays \in Nat
      /\ step \in Int /\ loadedStep \in Int /\ group \in Nat /\ stepsSinceReset \in Nat
  BY StepInvSettles, Settings DEF StepInv
<1>2. CASE ~config.graphs
  <2>1. config' = config
    BY DEF Next, BeginStep, FetchBatch, RunsOut, PrefetchThread, RunGroup, RunReference,
           RunReplay, OptimizerStep, NotFinite, Save, CheckpointWritten, CloseTrainer, Raised,
           Killed, StartAgain, vars
  <2> QED BY <1>2, <2>1 DEF GraphInv
<1>3. CASE BeginStep /\ config.graphs
  <2>1. /\ pc = "loop" /\ pc' = "fetch" /\ exec' = ZeroGrad(exec) /\ Running
        /\ UNCHANGED <<config, stepsSinceReset, loadedStep>> /\ step' = step + 1
    BY <1>3 DEF BeginStep, Running, history
  <2>2. InProcess' = InProcess + 1 /\ InProcess \in Int
    BY <1>1, <2>1 DEF InProcess
  <2>3. exec \in Execution /\ exec.graphs
    BY <1>3, <2>1 DEF ExecInv
  <2>4. /\ exec'.warmup = exec.warmup /\ exec'.graph = exec.graph /\ exec'.rng = exec.rng
        /\ exec'.grad = exec.grad
    BY <2>1, <2>3, ZeroGradClears DEF Clears
  <2>5. CallsMade' = CallsMade
    BY <2>1, <2>4, CallsMadeNext DEF CallsMade
  <2>6. InProcess = 2 => exec.warmup = 0
    BY <1>3, <2>1, StepBegins
  <2>7. /\ InProcess <= 2 => ~exec.graph.captured /\ exec.warmup + CallsMade =
              WarmupIterations(config.accumulation, config.sdcSteps, config.replays)
        /\ InProcess > 2 => exec.warmup = 0
        /\ exec.graph.captured <=> InProcess > 3 \/ InProcess = 3
        /\ exec.graph.captured => exec.graph.accumulates /\ exec.graph.grad = exec.grad
        /\ exec.rng > 0 => exec.grad # 0
    BY <1>3, <2>1, <2>2 DEF GraphInv, WarmupSteps
  <2>8. /\ InProcess' <= 2 => ~exec'.graph.captured /\ exec'.warmup + CallsMade' =
              WarmupIterations(config.accumulation, config.sdcSteps, config.replays)
        /\ InProcess' > 2 => exec'.warmup = 0
        /\ exec'.graph.captured <=> InProcess' > 3
    BY <2>2, <2>4, <2>5, <2>6, <2>7
  <2> QED BY <2>1, <2>4, <2>7, <2>8 DEF GraphInv, WarmupSteps
<1>4. CASE (FetchBatch \/ OptimizerStep \/ Save) /\ config.graphs
  <2>1. /\ UNCHANGED <<config, exec, step, loadedStep, stepsSinceReset, group>> /\ Running
        /\ pc # "replaying" /\ pc' # "replaying"
        /\ pc \in {"fetch", "optimizer", "save"} /\ pc' \in {"fetch", "forward", "save", "loop"}
        /\ pc = "fetch" => group = 0
        /\ pc = "fetch" <=> pc' \in {"fetch", "forward"}
    BY <1>4 DEF FetchBatch, OptimizerStep, Save, Running, history, StepInv
  <2>2. CallsMade' = CallsMade
    BY <2>1, CallsMadeNext DEF CallsMade
  <2> QED BY <2>1, <2>2, SameGraph
<1>5. CASE (PrefetchThread \/ CheckpointWritten) /\ Running
  <2>1. UNCHANGED <<config, exec, step, loadedStep, stepsSinceReset, group, pc, replay>>
    BY <1>5 DEF PrefetchThread, CheckpointWritten, loopVars, history
  <2>2. CallsMade' = CallsMade
    BY <2>1, CallsMadeNext DEF CallsMade
  <2> QED BY <1>5, <2>1, <2>2, SameGraph
<1>6. CASE RunGroup /\ config.graphs
  <2>1. /\ pc = "forward" /\ InStep /\ Running /\ Executes(exec) /\ ~IsChecked /\ AfterGroup
        /\ UNCHANGED <<config, step, loadedStep, batches>>
    BY <1>6 DEF RunGroup, InStep, Running
  <2>2. exec \in Execution /\ Graphed(exec) /\ exec.graphs = config.graphs /\ exec.rng \in Nat
    BY <2>1, GraphReady, ExecutionFields DEF ExecInv
  <2>3. PICK m \in Nat : Adds(exec, exec', <<batches[group + 1], m>>)
    <3>1. group < Len(batches)
      BY <2>1 DEF StepInv
    <3> QED BY <2>1, <2>2, <3>1, ExecutesAdds
  <2>4. /\ pc' \in {"forward", "optimizer"} /\ group' = group + 1
        /\ stepsSinceReset' = IF group = 0 THEN stepsSinceReset + 1 ELSE stepsSinceReset
    BY <2>1 DEF AfterGroup
  <2>5. CheckedSteps(stepsSinceReset') * config.replays = CheckedSteps(stepsSinceReset) * config.replays
    <3>1. CASE group = 0
      <4>1. ~(config.sdcSteps = -1 \/ stepsSinceReset < config.sdcSteps)
        BY <2>1, <3>1 DEF IsChecked
      <4> QED BY <1>1, <2>4, <3>1, <4>1, ReplaysCount, StepInvSettles
    <3>2. CASE group # 0
      BY <2>4, <3>2
    <3> QED BY <3>1, <3>2
  <2>6. CallsMade' = CallsMade + 1
    <3>1. CheckedSteps(stepsSinceReset) * config.replays \in Nat
      BY <1>1, ReplaysCount, StepInvSettles
    <3>2. exec'.rng = exec.rng + 1
      BY <2>3 DEF Adds
    <3>3. /\ CallsMade' = exec'.rng + CheckedSteps(stepsSinceReset') * config.replays + 0
          /\ CallsMade = exec.rng + CheckedSteps(stepsSinceReset) * config.replays + 0
      BY <2>1, <2>4, CallsMadeNext DEF CallsMade
    <3> QED BY <2>2, <2>5, <3>1, <3>2, <3>3
  <2>7. CallsMade \in Int /\ (InProcess <= 2 => exec.warmup > 0)
    BY <1>6, <2>1, WarmupLasts
  <2>8. pc' # "fetch" /\ ~(pc' = "forward" /\ group' = 0)
    BY <1>1, <2>4
  <2> QED BY <1>6, <2>1, <2>2, <2>3, <2>6, <2>7, <2>8, CallCounts
<1>7. CASE RunReference /\ config.graphs
  <2>1. /\ pc = "forward" /\ InStep /\ Running /\ Executes(exec) /\ pc' = "replaying"
        /\ UNCHANGED <<config, step, loadedStep, batches, stepsSinceReset, group>>
        /\ replay'.done = 0
    BY <1>7 DEF RunReference, InStep, Running
  <2>2. exec \in Execution /\ Graphed(exec) /\ exec.graphs = config.graphs /\ exec.rng \in Nat
    BY <2>1, GraphReady, ExecutionFields DEF ExecInv
  <2>3. PICK m \in Nat : Adds(exec, exec', <<batches[group + 1], m>>)
    <3>1. group < Len(batches)
      BY <2>1 DEF StepInv
    <3> QED BY <2>1, <2>2, <3>1, ExecutesAdds
  <2>4. CallsMade' = CallsMade + 1
    <3>1. CheckedSteps(stepsSinceReset) * config.replays \in Nat
      BY <1>1, ReplaysCount, StepInvSettles
    <3>2. exec'.rng = exec.rng + 1
      BY <2>3 DEF Adds
    <3>3. /\ CallsMade' = exec'.rng + CheckedSteps(stepsSinceReset) * config.replays + 0
          /\ CallsMade = exec.rng + CheckedSteps(stepsSinceReset) * config.replays + 0
      BY <2>1, CallsMadeNext DEF CallsMade
    <3> QED BY <2>2, <3>1, <3>2, <3>3
  <2>5. CallsMade \in Int /\ (InProcess <= 2 => exec.warmup > 0)
    BY <1>7, <2>1, WarmupLasts
  <2> QED BY <1>7, <2>1, <2>2, <2>3, <2>4, <2>5, CallCounts
<1>8. CASE RunReplay /\ config.graphs /\ pc' # "mismatch"
  <2> DEFINE x == Restore(exec, replay.snapshot)
             checked == CheckedSteps(stepsSinceReset) * config.replays
  <2>1. /\ pc = "replaying" /\ InStep /\ Running /\ group = 0 /\ IsChecked
        /\ UNCHANGED <<config, step, loadedStep, batches>>
    BY <1>8 DEF RunReplay, InStep, Running, StepInv
  <2>2. /\ x.rng = exec.rng - 1 /\ x.graphs = exec.graphs
        /\ x.warmup = exec.warmup /\ x.graph = exec.graph
    BY <2>1, ReplayReady
  <2>3. PICK m \in Nat : Adds(x, exec', <<batches[1], m>>)
    BY <1>8, ReplayCompares
  <2> HIDE DEF x
  <2>4. exec \in Execution /\ exec.graphs = config.graphs /\ exec.rng \in Nat
    BY <2>1, ExecutionFields DEF ExecInv
  <2>5. exec'.rng = exec.rng
    <3>1. exec'.rng = x.rng + 1
      BY <2>3 DEF Adds
    <3> QED BY <2>2, <2>4, <3>1
  <2>6. checked \in Nat /\ CheckedSteps(stepsSinceReset + 1) * config.replays = checked + config.replays
    BY <1>1, <2>1, ReplaysCount, StepInvSettles DEF IsChecked
  <2>7. replay.done \in 0..(config.replays - 1)
    BY <2>1, ReplaysDone
  <2>8. CallsMade = exec.rng + checked + replay.done
    BY <2>1 DEF CallsMade
  <2>9. CallsMade \in Int /\ (InProcess <= 2 => exec.warmup > 0)
    BY <1>8, <2>1, WarmupLasts
  <2>10. CASE replay.done + 1 < config.replays
    <3>1. /\ pc' = pc /\ stepsSinceReset' = stepsSinceReset
          /\ replay' = [replay EXCEPT !.done = @ + 1]
      BY <1>8, <2>10 DEF RunReplay
    <3>2. replay'.done = replay.done + 1
      <4>1. PICK s, f, d, r : replay = [snapshot |-> s, reference |-> f, done |-> d] /\ r = replay'
        BY <2>1 DEF ReplayInv
      <4>2. r.done = d + 1
        BY ONLY <3>1, <4>1
      <4>3. replay.done = d
        BY <4>1
      <4> QED BY <4>1, <4>2, <4>3
    <3>3. CallsMade' = exec.rng + checked + (replay.done + 1)
      BY <2>1, <2>5, <3>1, <3>2, CallsMadeNext
    <3>4. CallsMade' = CallsMade + 1
      <4> HIDE DEF checked
      <4> QED BY <2>4, <2>6, <2>7, <2>8, <3>3
    <3> QED BY <1>8, <2>1, <2>2, <2>3, <2>4, <2>9, <3>1, <3>4, CallCounts
  <2>11. CASE ~(replay.done + 1 < config.replays)
    <3>1. AfterGroup
      BY <1>8, <2>11 DEF RunReplay
    <3>2. /\ pc' \in {"forward", "optimizer"} /\ group' = 1
          /\ stepsSinceReset' = stepsSinceReset + 1
      BY <2>1, <3>1 DEF AfterGroup
    <3>3. CallsMade' = exec.rng + (checked + config.replays) + 0
      BY <2>1, <2>5, <2>6, <3>2, CallsMadeNext
    <3>4. CallsMade' = CallsMade + 1
      <4>1. replay.done + 1 = config.replays
        BY <1>1, <2>7, <2>11
      <4> HIDE DEF checked
      <4> QED BY <2>4, <2>6, <2>7, <2>8, <3>3, <4>1
    <3>5. pc' # "fetch" /\ ~(pc' = "forward" /\ group' = 0)
      BY <3>2
    <3> QED BY <1>8, <2>1, <2>2, <2>3, <2>4, <2>9, <3>4, <3>5, CallCounts
  <2> QED BY <2>10, <2>11
<1>9. CASE StartAgain /\ config.graphs
  <2>1. /\ config' = config /\ InProcess' = 0 /\ stepsSinceReset' = 0
        /\ pc' \in {"loop", "refused"} /\ pc = "dead"
    <3>1. checkpoint.step \in Int
      BY <1>9, CheckpointSteps, TrainingAssumption DEF StartAgain
    <3> QED BY <1>9, <3>1 DEF StartAgain, InProcess
  <2>2. PICK t \in Nat : exec' = NewExec(config, t)
    <3>1. CASE checkpoint = NoCheckpoint
      BY <1>9, <3>1 DEF StartAgain
    <3>2. CASE checkpoint # NoCheckpoint
      <4>1. IsCheckpoint(checkpoint) /\ checkpoint.step \in Nat
        BY <2>1, <3>2, TrainingAssumption DEF CheckpointInv, IsCheckpoint
      <4>2. checkpoint.tokens \in Nat
        BY <4>1, StepRows DEF IsCheckpoint
      <4> QED BY <1>9, <3>2, <4>2 DEF StartAgain
    <3> QED BY <3>1, <3>2
  <2>3. /\ exec'.rng = 0 /\ exec'.grad = 0 /\ ~exec'.graph.captured /\ exec' \in Execution
        /\ exec'.warmup = WarmupIterations(config.accumulation, config.sdcSteps, config.replays)
    BY <2>2, StepInvSettles, NewExecClears
  <2>4. CallsMade' = 0 + CheckedSteps(0) * config.replays + 0
    BY <2>1, <2>3, CallsMadeNext
  <2>5. CheckedSteps(0) * config.replays = 0
    BY StepInvSettles, ReplaysCount
  <2>6. exec'.warmup \in Nat
    BY <2>3, ExecutionFields
  <2>7. exec'.warmup + CallsMade' = exec'.warmup
    BY <2>4, <2>5, <2>6
  <2> QED BY <2>1, <2>3, <2>7 DEF GraphInv, WarmupSteps
<1>10. CASE ~Running'
  BY <1>10 DEF GraphInv
<1>11. CASE RunsOut \/ NotFinite \/ CloseTrainer \/ Raised \/ Killed
            \/ (pc \in {"done", "refused"} /\ UNCHANGED vars)
            \/ (RunReplay /\ pc' = "mismatch")
            \/ ((PrefetchThread \/ CheckpointWritten) /\ ~Running)
  <2>1. ~Running'
    BY <1>11 DEF RunsOut, NotFinite, CloseTrainer, Raised, Killed, vars, loopVars, Running,
                 PrefetchThread, CheckpointWritten
  <2> QED BY <1>10, <2>1
<1> QED BY <1>2, <1>3, <1>4, <1>5, <1>6, <1>7, <1>8, <1>9, <1>11 DEF Next

-------------------------------------------------------------------------------
(* Checked rows.                                                           *)

(* The weights are as long as the rows of their steps.                     *)
LEMMA WeightsLength ==
  ASSUME NEW w, NEW n \in Nat, WeightsAfter(w, n), n * config.accumulation \in Nat
  PROVE  /\ Len(w) = n * config.accumulation
         /\ DOMAIN w = 1..n * config.accumulation
<1> DEFINE len == n * config.accumulation
           S == {w[k] : k \in 1..len}
<1>1. w = [k \in 1..len |-> w[k]]
  BY DEF WeightsAfter
<1> HIDE DEF len
<1>2. w \in [1..len -> S] /\ DOMAIN w = 1..len
  BY <1>1
<1> HIDE DEF S
<1>3. len \in Nat
  BY DEF len
<1>4. Len(w) = len
  BY <1>2, <1>3
<1> QED BY <1>2, <1>4 DEF len

(* So is the first row of the gradient, if it was checked.                 *)
LEMMA CheckedFrame ==
  ASSUME CheckedInv, UNCHANGED <<checkedRows, weights>>,
         Running' => Running,
         Running' => \/ Executed = 0 \/ pc \notin {"forward", "optimizer"}
                     \/ /\ Executed' > 0 /\ pc' \in {"forward", "optimizer"}
                        /\ Gradient(exec')[1] = Gradient(exec)[1],
         pc' = "mismatch" /\ group' = 0 => corruptions' > 0,
         Executed \in Nat
  PROVE  CheckedInv'
<1>1. \A k \in checkedRows \intersect DOMAIN weights : weights[k][2] = Correct
  BY DEF CheckedInv
<1>2. Gradient(exec)' = Gradient(exec')
  BY DEF Gradient
<1>3. ASSUME Running', NEW k \in checkedRows
      PROVE  \/ k \in 1..Len(weights)
             \/ /\ k = Len(weights) + 1 /\ Executed' > 0 /\ pc' \in {"forward", "optimizer"}
                /\ Gradient(exec)'[1][2] = Correct
  <2>1. \/ k \in 1..Len(weights)
        \/ /\ k = Len(weights) + 1 /\ Executed > 0 /\ pc \in {"forward", "optimizer"}
           /\ Gradient(exec)[1][2] = Correct
    BY <1>3 DEF CheckedInv
  <2>2. CASE Executed = 0 \/ pc \notin {"forward", "optimizer"}
    BY <2>1, <2>2
  <2>3. CASE /\ Executed' > 0 /\ pc' \in {"forward", "optimizer"}
             /\ Gradient(exec')[1] = Gradient(exec)[1]
    BY <1>2, <2>1, <2>3
  <2> QED BY <1>3, <2>2, <2>3
<1> QED BY <1>1, <1>3 DEF CheckedInv

(* An execution that adds to a gradient leaves its first entry.            *)
LEMMA FirstStays ==
  ASSUME NEW x \in Execution, NEW y, NEW v \in Contribution, Len(Gradient(x)) > 0, Adds(x, y, v)
  PROVE  Gradient(y)[1] = Gradient(x)[1]
<1>1. PICK s, t : s \in Seq(Contribution) /\ s = Gradient(x) /\ t = Append(s, v)
  BY GradientType
<1>2. Len(s) \in Nat /\ Len(s) > 0 /\ 1 \in 1..Len(s)
  BY <1>1, LenProperties
<1>3. t[1] = s[1]
  BY <1>1, <1>2, AppendProperties
<1> QED BY <1>1, <1>3 DEF Adds

(* Nothing was checked before the first step.                              *)
LEMMA CheckedInit ==
  ASSUME Init
  PROVE  CheckedInv
  BY DEF Init, CheckedInv

(* Every step keeps checked rows correct.                                  *)
LEMMA CheckedStep ==
  ASSUME StepInv, FetchInv, WeightsInv, ExecInv, ReplayInv, GraphInv, CheckedInv,
         CheckpointInv, Next
  PROVE  CheckedInv'
<1>1. /\ config.accumulation \in Nat \ {0} /\ step \in Nat /\ group \in Nat
      /\ Executed \in Nat /\ corruptions \in Nat
  BY StepInvSettles, Settings DEF StepInv, Executed
<1>2. CASE BeginStep \/ FetchBatch \/ RunsOut \/ PrefetchThread \/ Save \/ CheckpointWritten
  <2>1. UNCHANGED <<checkedRows, weights, corruptions>>
    BY <1>2 DEF BeginStep, FetchBatch, RunsOut, PrefetchThread, Save, CheckpointWritten,
                loopVars, history, trained
  <2>2. (Running' => Running) /\ (pc' = "mismatch" => pc = "mismatch" /\ group' = group)
    BY <1>2 DEF BeginStep, FetchBatch, RunsOut, PrefetchThread, Save, CheckpointWritten,
                loopVars, Running
  <2>3. \/ Executed = 0 \/ pc \notin {"forward", "optimizer"}
        \/ UNCHANGED <<pc, exec, group>>
    BY <1>2 DEF BeginStep, FetchBatch, RunsOut, PrefetchThread, Save, CheckpointWritten,
                loopVars, Executed
  <2>4. UNCHANGED <<pc, exec, group>> => Executed' = Executed /\ Gradient(exec')[1] = Gradient(exec)[1]
    BY DEF Executed, Gradient
  <2>5. pc' = "mismatch" /\ group' = 0 => corruptions' > 0
    BY <2>1, <2>2 DEF CheckedInv
  <2> QED BY <1>1, <2>1, <2>2, <2>3, <2>4, <2>5, CheckedFrame
<1>3. CASE RunGroup \/ RunReference
  <2>1. /\ pc = "forward" /\ InStep /\ Running /\ Executes(exec) /\ Executed = group
        /\ UNCHANGED <<checkedRows, weights>> /\ pc' \in {"forward", "replaying", "optimizer"}
    BY <1>3 DEF RunGroup, RunReference, AfterGroup, InStep, Running, Executed, trained
  <2>2. CASE group = 0
    BY <1>1, <2>1, <2>2, CheckedFrame
  <2>3. CASE group # 0
    <3>1. RunGroup /\ AfterGroup
      BY <1>3, <2>3 DEF RunGroup, RunReference, IsChecked
    <3>2. Executed' = group + 1 /\ pc' \in {"forward", "optimizer"}
      BY <3>1 DEF AfterGroup, Executed
    <3>3. exec \in Execution /\ Graphed(exec) /\ Len(Gradient(exec)) = group
      BY <2>1, GraphReady DEF ExecInv
    <3>4. PICK m \in Nat : /\ Adds(exec, exec', <<batches[group + 1], m>>)
                           /\ batches[group + 1] \in Batch
      <4>1. group < Len(batches)
        BY <2>1 DEF StepInv
      <4> QED BY <2>1, <3>3, <4>1, ExecutesAdds
    <3>5. Gradient(exec')[1] = Gradient(exec)[1]
      <4>1. <<batches[group + 1], m>> \in Contribution
        BY <3>4 DEF Contribution
      <4>2. Len(Gradient(exec)) > 0
        BY <1>1, <2>3, <3>3
      <4> QED BY <3>3, <3>4, <4>1, <4>2, FirstStays
    <3> QED BY <1>1, <2>1, <3>2, <3>5, CheckedFrame
  <2> QED BY <2>2, <2>3
<1>4. CASE RunReplay
  <2>1. /\ pc = "replaying" /\ Running /\ group = 0 /\ weights' = weights
    BY <1>4 DEF RunReplay, Running, StepInv, trained
  <2>2. PICK m \in Nat :
           /\ Adds(Restore(exec, replay.snapshot), exec', <<batches[1], m>>)
           /\ Signature(exec') = replay.reference => m = Correct
           /\ Signature(exec') # replay.reference => corruptions' > 0
    BY <1>4, ReplayCompares
  <2>3. CASE Signature(exec') # replay.reference
    <3>1. pc' = "mismatch" /\ checkedRows' = checkedRows
      BY <1>4, <2>3 DEF RunReplay
    <3> QED BY <1>1, <2>1, <2>2, <2>3, <3>1, CheckedFrame DEF Running
  <2>4. CASE Signature(exec') = replay.reference /\ checkedRows' = checkedRows
    <3>1. pc' # "mismatch"
      BY <1>4, <2>1, <2>4 DEF RunReplay, AfterGroup
    <3> QED BY <1>1, <2>1, <2>4, <3>1, CheckedFrame DEF Running
  <2>5. CASE /\ Signature(exec') = replay.reference /\ AfterGroup
             /\ checkedRows' = checkedRows \union {Len(weights) + 1}
    <3>1. /\ pc' \in {"forward", "optimizer"} /\ group' = 1 /\ Executed' = 1
      BY <2>1, <2>5 DEF AfterGroup, Executed
    <3>2. Gradient(exec')[1][2] = Correct
      <4>1. Gradient(exec') = Append(Gradient(Restore(exec, replay.snapshot)), <<batches[1], m>>)
        BY <2>2 DEF Adds
      <4>2. Gradient(exec') = Append(<<>>, <<batches[1], m>>)
        BY <2>1, <4>1, ReplayReady
      <4>3. Append(<<>>, <<batches[1], m>>)[1] = <<batches[1], m>>
        OBVIOUS
      <4> QED BY <2>2, <2>5, <4>2, <4>3
    <3>3. Gradient(exec)' = Gradient(exec')
      BY DEF Gradient
    <3>4. \A k \in checkedRows : k \in 1..Len(weights)
      BY <2>1 DEF CheckedInv
    <3>5. PICK n \in Nat : n = step - 1 /\ WeightsAfter(weights, n)
      BY <2>1 DEF WeightsInv, Completed, StepInv, InStep
    <3>6. /\ Len(weights) \in Nat /\ DOMAIN weights = 1..Len(weights)
      <4>1. n * config.accumulation \in Nat
        BY <3>5, StepRows
      <4>2. PICK w : w = weights
        OBVIOUS
      <4> QED BY <3>5, <4>1, <4>2, WeightsLength
    <3>7. \A k \in checkedRows' \intersect DOMAIN weights' : weights'[k][2] = Correct
      <4>1. Len(weights) + 1 \notin DOMAIN weights
        BY <3>6
      <4> QED BY <2>1, <2>5, <4>1 DEF CheckedInv
    <3>8. \A k \in checkedRows' :
            \/ k \in 1..Len(weights')
            \/ /\ k = Len(weights') + 1 /\ Executed' > 0 /\ pc' \in {"forward", "optimizer"}
               /\ Gradient(exec)'[1][2] = Correct
      BY <2>1, <2>5, <3>1, <3>2, <3>3, <3>4
    <3> QED BY <3>1, <3>7, <3>8 DEF CheckedInv
  <2> QED BY <1>4, <2>3, <2>4, <2>5 DEF RunReplay
<1>5. CASE OptimizerStep
  <2> DEFINE n == (step - 1) * config.accumulation
             total == step * config.accumulation
  <2>1. /\ pc = "optimizer" /\ pc' = "save" /\ Running /\ InStep /\ checkedRows' = checkedRows
        /\ group = config.accumulation
    BY <1>5 DEF OptimizerStep, Running, InStep, history, StepInv
  <2>2. /\ WeightsAfter(weights', step)
        /\ \A k \in 1..n : weights'[k] = weights[k]
        /\ \A k \in 1..config.accumulation : weights'[n + k][2] = Gradient(exec)[k][2]
    BY <1>5, OptimizerAdds
  <2>3. n \in Nat /\ total \in Nat /\ n + config.accumulation = total
    BY <2>1, TakenRows
  <2>4. WeightsAfter(weights, step - 1) /\ step - 1 \in Nat
    BY <2>1 DEF WeightsInv, Completed, StepInv
  <2>5. /\ Len(weights) = n /\ DOMAIN weights = 1..n
        /\ Len(weights') = total /\ DOMAIN weights' = 1..total
    <3>1. PICK s \in Nat, t \in Nat : s = step - 1 /\ t = step
      BY <1>1, <2>4
    <3> DEFINE w == weights
               v == weights'
    <3>2. Len(w) = n /\ DOMAIN w = 1..n
      BY <2>3, <2>4, <3>1, WeightsLength
    <3>3. Len(v) = total /\ DOMAIN v = 1..total
      BY <2>2, <2>3, <3>1, WeightsLength
    <3> QED BY <3>1, <3>2, <3>3
  <2> HIDE DEF n, total
  <2>6. ASSUME NEW k \in checkedRows
        PROVE  k \in 1..total /\ weights'[k][2] = Correct
    <3>1. \/ k \in 1..n
          \/ k = n + 1 /\ Gradient(exec)[1][2] = Correct
      BY <2>1, <2>5 DEF CheckedInv
    <3>2. CASE k \in 1..n
      <4>1. weights[k][2] = Correct
        BY <2>5, <3>2 DEF CheckedInv
      <4> QED BY <1>1, <2>2, <2>3, <3>2, <4>1
    <3>3. CASE k = n + 1 /\ Gradient(exec)[1][2] = Correct
      <4>1. 1 \in 1..config.accumulation
        BY <1>1
      <4>2. weights'[n + 1][2] = Gradient(exec)[1][2]
        BY <2>2, <4>1
      <4> QED BY <1>1, <2>3, <3>3, <4>2
    <3> QED BY <3>1, <3>2, <3>3
  <2> QED BY <2>1, <2>5, <2>6 DEF CheckedInv
<1>6. CASE NotFinite \/ CloseTrainer \/ Raised \/ Killed \/ (pc \in {"done", "refused"} /\ UNCHANGED vars)
  <2>1. /\ UNCHANGED <<checkedRows, weights, corruptions, group>> /\ ~Running'
        /\ (pc' = "mismatch" => pc = "optimizer")
    BY <1>6 DEF NotFinite, CloseTrainer, Raised, Killed, vars, loopVars, history, trained, Running
  <2>2. pc = "optimizer" => group # 0
    BY <1>1 DEF StepInv
  <2> QED BY <1>1, <2>1, <2>2, CheckedFrame
<1>7. CASE StartAgain
  <2>1. pc' \in {"loop", "refused"} /\ pc = "dead"
    BY <1>7 DEF StartAgain
  <2>2. CASE checkpoint = NoCheckpoint
    <3>1. checkedRows' = {}
      BY <1>7, <2>2 DEF StartAgain
    <3> QED BY <2>1, <3>1 DEF CheckedInv
  <2>3. CASE checkpoint # NoCheckpoint
    <3>1. /\ weights' = checkpoint.weights /\ checkedRows' = checkpoint.checkedRows
      BY <1>7, <2>3 DEF StartAgain
    <3>2. \A k \in checkpoint.checkedRows :
            k \in 1..Len(checkpoint.weights) /\ checkpoint.weights[k][2] = Correct
      BY <2>1, <2>3 DEF CheckpointInv, IsCheckpoint
    <3> QED BY <2>1, <3>1, <3>2 DEF CheckedInv
  <2> QED BY <2>2, <2>3
<1> QED BY <1>2, <1>3, <1>4, <1>5, <1>6, <1>7 DEF Next

-------------------------------------------------------------------------------
(* Checkpoints.                                                            *)

(* What IsCheckpoint looks at.                                             *)
LEMMA CheckpointFrame ==
  ASSUME StepInv, UNCHANGED <<config, dp>>, NEW c, IsCheckpoint(c)
  PROVE  IsCheckpoint(c)'
<1>1. c.step \in Nat
  BY TrainingAssumption DEF IsCheckpoint
<1>2. c.step * config.accumulation \in Nat
  BY <1>1, StepRows
<1>3. PICK n \in Nat : n = c.step
  BY <1>1
<1>7. PICK w : w = c.weights
  OBVIOUS
<1>4. WeightsAfter(w, n)
  BY <1>3, <1>7 DEF IsCheckpoint
<1>5. WeightsAfter(w, n)'
  BY <1>2, <1>3, <1>4, WeightsFrame
<1>6. WeightsAfter(c.weights, c.step)'
  BY <1>3, <1>7, <1>5
<1> QED BY <1>6 DEF IsCheckpoint, SchedulerAt, StateAt, Indexed

(* The invariant, from names for the two checkpoints.                      *)
LEMMA CheckpointsAre ==
  ASSUME NEW c, c = checkpoint', NEW p, p = pending',
         c # NoCheckpoint => IsCheckpoint(c)', p # NoCheckpoint => IsCheckpoint(p)',
         pc' \in {"dead", "refused"} => pending' = NoCheckpoint
  PROVE  CheckpointInv'
<1>1. /\ c # NoCheckpoint => IsCheckpoint(checkpoint)'
      /\ p # NoCheckpoint => IsCheckpoint(pending)'
  BY DEF IsCheckpoint, WeightsAfter, SchedulerAt, StateAt, Indexed
<1>2. NoCheckpoint' = NoCheckpoint
  BY DEF NoCheckpoint
<1> QED BY <1>1, <1>2 DEF CheckpointInv

(* What a step saves is the state of the job at its end.                   *)
LEMMA SavesCheckpoint ==
  ASSUME StepInv, FetchInv, WeightsInv, ExecInv, CheckedInv, pc = "save"
  PROVE  IsCheckpoint(CheckpointOf(step))
<1> DEFINE c == CheckpointOf(step)
<1>1. /\ c.step = step /\ c.tokens = exec.tokens /\ c.weights = weights
      /\ c.lrScheduler = lrScheduler /\ c.checkedRows = checkedRows
      /\ c.data.dp_world_size = dp /\ c.data.rank = position
  BY DEF CheckpointOf, StateDict
<1>2. Running /\ ~InStep /\ Completed = step /\ Executed = 0
  BY DEF Running, InStep, Completed, Executed
<1>3. step \in 1..NumSteps /\ step \in Nat /\ config.accumulation \in Nat \ {0}
  BY <1>2, StepInvSettles, Settings DEF StepInv
<1>4. WeightsAfter(weights, step) /\ lrScheduler = SchedulerAt(step)
  BY <1>2 DEF WeightsInv
<1>5. step * config.accumulation \in Nat
  BY <1>3, StepRows
<1>6. exec.tokens = step * config.accumulation
  <2>1. exec.tokens = step * config.accumulation + 0
    BY <1>2 DEF ExecInv
  <2> QED BY <1>5, <2>1
<1>7. StateAt(position, step * config.accumulation)
  BY <1>2 DEF FetchInv, LoaderAt, Taken
<1>8. /\ Len(weights) = step * config.accumulation
      /\ DOMAIN weights = 1..step * config.accumulation
  <2>1. PICK n \in Nat : n = step
    BY <1>3
  <2> DEFINE w == weights
  <2> QED BY <1>4, <1>5, <2>1, WeightsLength
<1>9. \A k \in checkedRows : k \in 1..Len(weights) /\ weights[k][2] = Correct
  BY <1>2, <1>8 DEF CheckedInv
<1> HIDE DEF c
<1>10. IsCheckpoint(c)
  BY <1>1, <1>3, <1>4, <1>6, <1>7, <1>9 DEF IsCheckpoint
<1> QED BY <1>10 DEF c

(* There are no checkpoints at first.                                      *)
LEMMA CheckpointInit ==
  ASSUME Init
  PROVE  CheckpointInv
  BY DEF Init, CheckpointInv

(* Every step keeps checkpoints the states of the job they were taken from.*)
LEMMA CheckpointStep ==
  ASSUME StepInv, FetchInv, WeightsInv, ExecInv, CheckedInv, CheckpointInv, Next
  PROVE  CheckpointInv'
<1>1. PICK c, p : c = checkpoint' /\ p = pending'
  OBVIOUS
<1>2. ASSUME UNCHANGED <<config, dp, checkpoint, pending>>, pc' = "refused" => pc = "refused",
             pc' = "dead" => pc = "dead"
      PROVE  CheckpointInv'
  <2>1. CASE pc' = "refused"
    BY <1>2, <2>1 DEF CheckpointInv, NoCheckpoint
  <2>2. CASE pc' # "refused" /\ pc # "refused"
    <3>1. /\ c # NoCheckpoint => IsCheckpoint(c)
          /\ p # NoCheckpoint => IsCheckpoint(p)
          /\ pc' \in {"dead", "refused"} => pending' = NoCheckpoint
      BY <1>1, <1>2, <2>2 DEF CheckpointInv
    <3>2. /\ c # NoCheckpoint => IsCheckpoint(c)'
          /\ p # NoCheckpoint => IsCheckpoint(p)'
      BY <1>2, <3>1, CheckpointFrame
    <3> QED BY <1>1, <3>1, <3>2, CheckpointsAre
  <2>3. CASE pc = "refused"
    <3>1. pc' = "refused"
      BY <2>3, TrainingAssumption DEF Next, BeginStep, FetchBatch, RunsOut, PrefetchThread, RunGroup,
             RunReference, RunReplay, OptimizerStep, NotFinite, Save, CheckpointWritten,
             CloseTrainer, Raised, Killed, StartAgain, vars, loopVars, Running, CheckpointInv
    <3> QED BY <2>1, <3>1
  <2> QED BY <2>1, <2>2, <2>3
<1>3. CASE Save
  <2>1. /\ pc = "save" /\ pc' = "loop" /\ UNCHANGED <<config, dp, checkpoint>>
        /\ pending' = IF SaveDue THEN CheckpointOf(step) ELSE pending
    BY <1>3 DEF Save
  <2>2. c # NoCheckpoint => IsCheckpoint(c)
    BY <1>1, <2>1 DEF CheckpointInv
  <2>3. p # NoCheckpoint => IsCheckpoint(p)
    BY <1>1, <2>1, SavesCheckpoint DEF CheckpointInv
  <2>4. /\ c # NoCheckpoint => IsCheckpoint(c)'
        /\ p # NoCheckpoint => IsCheckpoint(p)'
    BY <2>1, <2>2, <2>3, CheckpointFrame
  <2> QED BY <1>1, <2>1, <2>4, CheckpointsAre
<1>4. CASE CheckpointWritten
  <2>1. /\ checkpoint' = pending /\ pending' = NoCheckpoint /\ pending # NoCheckpoint
        /\ UNCHANGED <<config, dp, pc>> /\ pc # "refused"
    BY <1>4 DEF CheckpointWritten, loopVars, CheckpointInv
  <2>2. IsCheckpoint(c)
    BY <1>1, <2>1 DEF CheckpointInv
  <2>3. IsCheckpoint(c)' /\ p = NoCheckpoint
    BY <1>1, <2>1, <2>2, CheckpointFrame
  <2> QED BY <1>1, <2>1, <2>3, CheckpointsAre
<1>5. CASE Raised \/ Killed
  <2>1. /\ pending' = NoCheckpoint /\ checkpoint' = checkpoint /\ UNCHANGED <<config, dp>>
        /\ pc # "refused" /\ pc' = "dead"
    BY <1>5 DEF Raised, Killed, Running
  <2>2. c # NoCheckpoint => IsCheckpoint(c)'
    <3>1. c # NoCheckpoint => IsCheckpoint(c)
      BY <1>1, <2>1 DEF CheckpointInv
    <3> QED BY <2>1, <3>1, CheckpointFrame
  <2> QED BY <1>1, <2>1, <2>2, CheckpointsAre
<1>6. CASE StartAgain
  <2>1. /\ pc = "dead" /\ pending = NoCheckpoint /\ config' = config
        /\ UNCHANGED <<checkpoint, pending>>
    BY <1>6 DEF StartAgain, CheckpointInv, jobVars
  <2>2. CASE pc' = "refused"
    BY <2>1, <2>2 DEF CheckpointInv, NoCheckpoint
  <2>3. CASE checkpoint = NoCheckpoint
    BY <1>1, <2>1, <2>3, CheckpointsAre
  <2>4. CASE checkpoint # NoCheckpoint /\ pc' # "refused"
    <3>1. IsCheckpoint(c) /\ checkpoint = c
      BY <1>1, <2>1, <2>4 DEF CheckpointInv
    <3>2. StateDictFits(checkpoint.data, dp')
      BY <1>6, <2>4 DEF StartAgain
    <3>3. dp' = dp
      BY <3>1, <3>2 DEF StateDictFits, IsCheckpoint
    <3>4. IsCheckpoint(c)'
      BY <2>1, <3>1, <3>3, CheckpointFrame
    <3> QED BY <1>1, <2>1, <3>4, CheckpointsAre
  <2> QED BY <2>2, <2>3, <2>4
<1>7. CASE BeginStep \/ FetchBatch \/ RunsOut \/ PrefetchThread \/ RunGroup \/ RunReference
            \/ RunReplay \/ OptimizerStep \/ NotFinite \/ CloseTrainer
            \/ (pc \in {"done", "refused"} /\ UNCHANGED vars)
  <2>1. /\ UNCHANGED <<config, dp, checkpoint, pending>>
        /\ (pc' = "refused" => pc = "refused") /\ (pc' = "dead" => pc = "dead")
    BY <1>7 DEF BeginStep, FetchBatch, RunsOut, PrefetchThread, RunGroup, RunReference,
                RunReplay, AfterGroup, OptimizerStep, NotFinite, CloseTrainer, vars, loopVars,
                jobVars
  <2> QED BY <1>2, <2>1
<1> QED BY <1>3, <1>4, <1>5, <1>6, <1>7 DEF Next

-------------------------------------------------------------------------------
(* The invariant.                                                          *)

(* The invariant holds when the first process starts.                      *)
LEMMA PretrainingInit ==
  Init => PretrainingInv
<1>1. SUFFICES ASSUME Init PROVE PretrainingInv
  OBVIOUS
<1>2. ReplayInv
  BY <1>1 DEF Init, ReplayInv
<1> QED BY <1>1, <1>2, StepInit, FetchInit, WeightsInit, ExecInit, GraphInit, CheckedInit,
           CheckpointInit DEF PretrainingInv

(* Every step keeps the invariant.                                         *)
LEMMA PretrainingStep ==
  PretrainingInv /\ [Next]_vars => PretrainingInv'
<1>1. SUFFICES ASSUME PretrainingInv, [Next]_vars PROVE PretrainingInv'
  OBVIOUS
<1>2. CASE Next
  BY <1>1, <1>2, StepStep, FetchStep, WeightsStep, ExecStep, ReplayStep, GraphStep,
     CheckedStep, CheckpointStep DEF PretrainingInv
<1>3. CASE UNCHANGED vars
  <2>1. /\ UNCHANGED <<config, dp, cursor, buffer, exhausted, position>>
        /\ UNCHANGED <<pc, step, stepsSinceReset, batches, group, replay, exec>>
        /\ UNCHANGED <<weights, lrScheduler, checkpoint, pending, deaths>>
        /\ UNCHANGED <<loadedStep, checkedRows, corruptions>>
    BY <1>3 DEF vars, dataVars, loopVars, trained, jobVars, history
  <2>2. StepInv'
    BY <1>1, <2>1 DEF PretrainingInv, StepInv, DataConfigOK, InStep, Running, InProcess, IsChecked
  <2>3. FetchInv'
    BY <1>1, <2>1 DEF PretrainingInv, FetchInv, LoaderAt, StateAt, CursorAt, Indexed, Row,
       IndexedRow, ShardRows, Rank, Running, InStep, Taken
  <2>4. WeightsInv'
    BY <1>1, <2>1 DEF PretrainingInv, WeightsInv, WeightsAfter, SchedulerAt, Running, Completed,
       Row, IndexedRow, ShardRows, Rank
  <2>5. ExecInv'
    BY <1>1, <2>1 DEF PretrainingInv, ExecInv, Running, InStep, Completed, Executed
  <2>6. ReplayInv'
    BY <1>1, <2>1 DEF PretrainingInv, ReplayInv
  <2>7. GraphInv'
    BY <1>1, <2>1 DEF PretrainingInv, GraphInv, Running, InProcess, CallsMade, CheckedSteps
  <2>8. CheckedInv'
    BY <1>1, <2>1 DEF PretrainingInv, CheckedInv, Running, Executed
  <2>9. CheckpointInv'
    BY <1>1, <2>1 DEF PretrainingInv, CheckpointInv, IsCheckpoint, WeightsAfter, SchedulerAt,
       StateAt, Indexed, Row, IndexedRow, ShardRows, Rank
  <2> QED BY <2>2, <2>3, <2>4, <2>5, <2>6, <2>7, <2>8, <2>9 DEF PretrainingInv
<1> QED BY <1>1, <1>2, <1>3

-------------------------------------------------------------------------------
(* What follows from it.                                                   *)

(* A rate of a step that the schedule covers lies on the curves.           *)
LEMMA RateWithinCurve ==
  ASSUME NEW schedule, ScheduleOK(schedule), NEW steps \in Nat, NEW taken \in Nat,
         taken < steps, schedule.total = Unset \/ schedule.total >= steps
  PROVE  WithinCurve(Rate(schedule, steps, taken))
<1> DEFINE total == TotalSteps(schedule, steps)
           ramp == RampSteps(schedule, total)
           decay == DecaySteps(schedule, total)
           decayStart == ramp + StableSteps(schedule, total)
<1>1. total \in Nat /\ taken < total
  BY DEF TotalSteps, ScheduleOK, Unset
<1>2. ramp \in Nat /\ ramp <= total
  BY <1>1 DEF RampSteps, ScheduleOK
<1>3. decay \in Nat /\ decay <= total - ramp
  BY <1>1, <1>2 DEF DecaySteps, ScheduleOK, Unset
<1>4. decayStart = total + 1 - decay
  BY <1>1, <1>2, <1>3 DEF StableSteps
<1>5. Rate(schedule, steps, taken) =
        IF taken < ramp THEN [phase |-> "warmup", num |-> taken + 1, den |-> ramp]
        ELSE IF taken < decayStart THEN [phase |-> "stable", num |-> 1, den |-> 1]
        ELSE [phase |-> "decay", num |-> taken + 1 - decayStart, den |-> decay]
  BY DEF Rate
<1> HIDE DEF total, ramp, decay, decayStart
<1>6. CASE taken < ramp
  <2>1. Rate(schedule, steps, taken) = [phase |-> "warmup", num |-> taken + 1, den |-> ramp]
    BY <1>5, <1>6
  <2>2. WithinCurve([phase |-> "warmup", num |-> taken + 1, den |-> ramp])
    BY <1>2, <1>6 DEF WithinCurve
  <2> QED BY <2>1, <2>2
<1>7. CASE ~(taken < ramp) /\ taken < decayStart
  <2>1. Rate(schedule, steps, taken) = [phase |-> "stable", num |-> 1, den |-> 1]
    BY <1>5, <1>7
  <2>2. WithinCurve([phase |-> "stable", num |-> 1, den |-> 1])
    BY DEF WithinCurve
  <2> QED BY <2>1, <2>2
<1>8. CASE ~(taken < ramp) /\ ~(taken < decayStart)
  <2>1. Rate(schedule, steps, taken) =
          [phase |-> "decay", num |-> taken + 1 - decayStart, den |-> decay]
    BY <1>5, <1>8
  <2>2. WithinCurve([phase |-> "decay", num |-> taken + 1 - decayStart, den |-> decay])
    BY <1>1, <1>3, <1>4, <1>8 DEF WithinCurve
  <2> QED BY <2>1, <2>2
<1> QED BY <1>6, <1>7, <1>8

(* The rows of n steps belong to steps before the n-th.                    *)
LEMMA RowsOfSteps ==
  ASSUME NEW n \in Nat, NEW a \in Nat \ {0}, NEW k \in 1..n * a
  PROVE  (k - 1) \div a \in Nat /\ (k - 1) \div a < n
<1> DEFINE q == (k - 1) \div a
<1>1. n * a \in Nat /\ k \in Nat \ {0} /\ k <= n * a
  OBVIOUS
<1>2. q \in Nat /\ q * a <= k - 1
  BY <1>1, Quotient
<1> HIDE DEF q
<1>3. ~(n <= q)
  <2>1. SUFFICES ASSUME n <= q PROVE FALSE
    OBVIOUS
  <2>2. n * a <= q * a
    BY <1>2, <2>1, MultiplyMonotone
  <2>3. q * a \in Nat
    BY <1>2
  <2> QED BY <1>1, <1>2, <2>2, <2>3
<1> QED BY <1>2, <1>3 DEF q

(* Between steps the weights are those of uninterrupted training.          *)
LEMMA TrainedExactly ==
  ASSUME StepInv, WeightsInv, ExecInv, SchedulesFit
  PROVE  TrainsExactly
<1>1. SUFFICES ASSUME pc \in {"loop", "ending"}
               PROVE  LET done == IF pc = "ending" THEN step - 1 ELSE step
    IN /\ [k \in DOMAIN weights |-> weights[k][1]]
            = [k \in 1..done * config.accumulation |-> Row(k)]
       /\ \A k \in DOMAIN weights :
            /\ weights[k][3] = Rate(config.schedule, NumSteps, (k - 1) \div config.accumulation)
            /\ WithinCurve(weights[k][3])
       /\ lrScheduler = SchedulerAt(done)
       /\ exec.tokens = done * config.accumulation
       /\ exec.rng = (done - loadedStep) * config.accumulation
  BY DEF TrainsExactly
<1>2. PICK done : done = IF pc = "ending" THEN step - 1 ELSE step
  OBVIOUS
<1>3. done = Completed /\ Executed = 0 /\ (Running \/ pc = "ending")
  BY <1>1, <1>2 DEF Completed, Executed, Running
<1>4. /\ done \in Nat /\ done <= NumSteps /\ done - loadedStep \in Nat /\ NumSteps \in Nat
      /\ config.accumulation \in Nat \ {0} /\ config \in Configs /\ ScheduleOK(config.schedule)
  BY <1>1, <1>2, StepInvSettles, Settings DEF StepInv, Settled
<1>5. PICK a : a = config.accumulation
  OBVIOUS
<1>6. WeightsAfter(weights, done) /\ lrScheduler = SchedulerAt(done)
  BY <1>3 DEF WeightsInv
<1>7. DOMAIN weights = 1..done * a /\ done * a \in Nat
  BY <1>4, <1>5, <1>6, WeightsLength, StepRows
<1>8. \A k \in 1..done * a :
        /\ weights[k][1] = Row(k)
        /\ weights[k][3] = Rate(config.schedule, NumSteps, (k - 1) \div a)
  BY <1>5, <1>6 DEF WeightsAfter
<1>9. ASSUME NEW k \in 1..done * a PROVE WithinCurve(weights[k][3])
  <2>1. PICK taken : taken = (k - 1) \div a
    OBVIOUS
  <2>2. taken \in Nat /\ taken < NumSteps
    <3>1. (k - 1) \div a \in Nat /\ (k - 1) \div a < done
      BY <1>4, <1>5, RowsOfSteps
    <3> QED BY <1>4, <2>1, <3>1
  <2>3. config.schedule.total = Unset \/ config.schedule.total >= NumSteps
    BY <1>4 DEF SchedulesFit
  <2>4. WithinCurve(Rate(config.schedule, NumSteps, taken))
    BY <1>4, <2>2, <2>3, RateWithinCurve
  <2> QED BY <1>8, <2>1, <2>4
<1>10. exec.tokens = done * a /\ exec.rng = (done - loadedStep) * a
  <2>1. exec.tokens = done * a + 0 /\ exec.rng = (done - loadedStep) * a + 0
    BY <1>3, <1>5 DEF ExecInv
  <2>2. (done - loadedStep) * a \in Nat
    BY <1>4, <1>5
  <2> QED BY <1>7, <2>1, <2>2
<1>11. [k \in DOMAIN weights |-> weights[k][1]] = [k \in 1..done * a |-> Row(k)]
  BY <1>7, <1>8
<1> QED BY <1>2, <1>5, <1>6, <1>7, <1>8, <1>9, <1>10, <1>11

(* The first call of the third step captures, and no other.                *)
LEMMA CapturedOnTime ==
  ASSUME StepInv, ExecInv, ReplayInv, GraphInv
  PROVE  CapturesAtThirdStep
<1>1. SUFFICES ASSUME pc \in {"forward", "replaying"}, Captures(exec)
               PROVE  pc = "forward" /\ group = 0 /\ step - loadedStep = WarmupSteps + 1
  BY DEF CapturesAtThirdStep
<1>2. InStep /\ Running /\ InProcess \in Nat
  BY <1>1, CallsInStep DEF InStep, Running
<1>3. config.graphs /\ exec.warmup = 0 /\ ~exec.graph.captured /\ exec \in Execution
  BY <1>1, <1>2 DEF Captures, ExecInv
<1>4. InProcess > 2
  BY <1>1, <1>2, <1>3, WarmupLasts
<1>5. InProcess = 3 /\ ~(pc # "fetch" /\ ~(pc = "forward" /\ group = 0))
  BY <1>2, <1>3, <1>4 DEF GraphInv, WarmupSteps
<1> QED BY <1>1, <1>5 DEF InProcess, WarmupSteps

-------------------------------------------------------------------------------
(* The theorems.                                                           *)

(* The parts of the invariant hold of every reachable state.               *)
THEOREM PretrainingInvariant ==
  Spec => []PretrainingInv
  BY PretrainingInit, PretrainingStep, PTL DEF Spec

(* Whatever is read ahead, replayed, captured, lost with a process or      *)
(* resumed, the weights between steps are those of uninterrupted training, *)
(* and so are the counters and the rates, in every configuration whose     *)
(* schedule covers the steps of training.                                  *)
THEOREM TrainingIsExact ==
  SchedulesFit => (Spec => []TrainsExactly)
<1>1. SUFFICES ASSUME SchedulesFit PROVE Spec => []TrainsExactly
  OBVIOUS
<1>2. PretrainingInv => TrainsExactly
  BY <1>1, TrainedExactly DEF PretrainingInv
<1> QED BY <1>2, PretrainingInvariant, PTL

(* Rows that were replayed and compared are in the weights uncorrupted,    *)
(* and a comparison only fails when an execution was corrupted.            *)
THEOREM ReplaysFindCorruption ==
  Spec => []ReplayFindsCorruption
<1>1. PretrainingInv => ReplayFindsCorruption
  BY DEF PretrainingInv, CheckedInv, ReplayFindsCorruption
<1> QED BY <1>1, PretrainingInvariant, PTL

(* The graph is captured by the first call of the third step of a process, *)
(* never inside a replay and never between two groups.                     *)
THEOREM GraphIsCapturedOnTime ==
  Spec => []CapturesAtThirdStep
<1>1. PretrainingInv => CapturesAtThirdStep
  BY CapturedOnTime DEF PretrainingInv
<1> QED BY <1>1, PretrainingInvariant, PTL
================================================================================
