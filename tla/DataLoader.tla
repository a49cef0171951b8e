------------------------------- MODULE DataLoader -------------------------------
(***************************************************************************)
(* The data of one rank (components/data/loader.py, sources.py and         *)
(* dataset.py): a Hugging Face stream with a cursor, or the rank's slice   *)
(* of a dataset with an index, read ahead of the trainer by a prefetch     *)
(* thread of Grain, and the position that a checkpoint keeps.  A row       *)
(* stands for a batch.  A stream is Rows long for each rank, a dataset for *)
(* all together; either is read again in every epoch, in an order that     *)
(* depends on the epoch when it is shuffled.                               *)
(***************************************************************************)
EXTENDS Integers, Sequences, DatasetShards

CONSTANTS
  Rows,              \* rows of the rank's stream, or of the dataset
  PrefetchBatches    \* num_prefetch_batches

ASSUME DataAssumption == Rows \in Nat \ {0} /\ PrefetchBatches \in Nat \ {0}

VARIABLES
  config,            \* the configuration of the job, see ConfigOK
  dp,                \* dp_world_size of this process
  cursor,            \* the _HuggingFaceCursorIterator
  buffer,            \* rows read ahead, each with the state after it
  exhausted,         \* the thread met the end of a finite stream
  position           \* the state after the last row the trainer took

dataVars == <<cursor, buffer, exhausted, position>>

(* The constructor refuses finite data under data parallelism, and the     *)
(* build a dataset of fewer rows than ranks.                               *)
DataConfigOK(c, world) ==
  /\ world > 1 => c.repeat
  /\ c.source = "dataset" => ShardsOK(Rows, world)

Rank == dp - 1   \* the rank that is followed: the last one
ShardRows == ShardSize(Rows, dp, Rank)

(* A row of a repeated slice: the shuffle before it goes by the epoch.     *)
IndexedRow(i) ==
  <<dp, IF config.shuffle THEN i \div ShardRows ELSE 0,
    ShardStart(Rows, dp, Rank) + (i % ShardRows) + 1>>

(* What the data of a rank are, row by row.                                *)
Row(k) ==
  IF config.source = "dataset" THEN IndexedRow(k - 1)
  ELSE <<dp, IF config.shuffle THEN (k - 1) \div Rows ELSE 0, ((k - 1) % Rows) + 1>>

-------------------------------------------------------------------------------
(* The cursor over the dataset object: the epoch the iterator counts; the  *)
(* epoch of the dataset and the place where it will start; the epoch and   *)
(* the place of the running iteration.                                     *)

StreamCursor == [epoch |-> 0, dataset |-> [epoch |-> 0, start |-> 0],
                 iter |-> [epoch |-> 0, at |-> 0]]

SetEpoch(c) == IF config.shuffle THEN [c EXCEPT !.dataset.epoch = c.epoch] ELSE c
LoadDataset(c, at) == [c EXCEPT !.dataset.start = at]
Iterate(c) ==
  [c EXCEPT !.iter = [epoch |-> c.dataset.epoch, at |-> c.dataset.start]]

StreamEnded(c) == c.iter.at = Rows

(* __next__: at the end of a repeated stream the next epoch begins.        *)
NextEpoch(c) == Iterate(LoadDataset(SetEpoch([c EXCEPT !.epoch = @ + 1]), 0))
ReadStream(c) ==
  LET at == IF StreamEnded(c) THEN NextEpoch(c) ELSE c
  IN [at EXCEPT !.iter.at = @ + 1]

SetStreamState_NoEpoch(state) ==
  Iterate(LoadDataset([StreamCursor EXCEPT !.epoch = state.epoch], state.hf))

SetStreamState(state) ==
  Iterate(LoadDataset(SetEpoch([StreamCursor EXCEPT !.epoch = state.epoch]), state.hf))

(* Either source; a dataset has just the index of the next row.            *)
Indexed == config.source = "dataset"

NewCursor == IF Indexed THEN [next |-> 0] ELSE StreamCursor
AtEnd(c) == IF Indexed THEN c.next = ShardRows ELSE StreamEnded(c)
Read(c) == IF Indexed THEN [next |-> c.next + 1] ELSE ReadStream(c)
RowAt(c) == IF Indexed THEN IndexedRow(c.next - 1) ELSE <<dp, c.iter.epoch, c.iter.at>>
GetState(c) == IF Indexed THEN c ELSE [epoch |-> c.epoch, hf |-> c.iter.at]
SetState(state) == IF Indexed THEN state ELSE SetStreamState(state)

-------------------------------------------------------------------------------
(* The loader of a new process.                                            *)
BuildLoader ==
  /\ cursor' = NewCursor
  /\ buffer' = <<>>
  /\ exhausted' = FALSE
  /\ position' = GetState(NewCursor)

DataInit ==
  /\ cursor = NewCursor
  /\ buffer = <<>>
  /\ exhausted = FALSE
  /\ position = GetState(NewCursor)

StateDict == [dp_world_size |-> dp, rank |-> position]

(* load_state_dict refuses a state of another data-parallel degree.        *)
StateDictFits(state, world) == state.dp_world_size = world

LoadStateDict(state) ==
  /\ cursor' = SetState(state.rank)
  /\ buffer' = <<>>
  /\ exhausted' = FALSE
  /\ position' = state.rank

(* The thread reads ahead; it works from the first row on that is asked    *)
(* for, so not before the state was loaded.                                *)
Prefetch ==
  /\ Len(buffer) < PrefetchBatches
  /\ ~exhausted
  /\ IF AtEnd(cursor) /\ ~config.repeat
     THEN /\ exhausted' = TRUE
          /\ UNCHANGED <<cursor, buffer>>
     ELSE /\ cursor' = Read(cursor)
          /\ buffer' = Append(buffer, [row |-> RowAt(cursor'), state |-> GetState(cursor')])
          /\ UNCHANGED exhausted
  /\ UNCHANGED position

(* The trainer takes a row, or learns that there is none left.             *)
CanTake == buffer # <<>>
NothingLeft == buffer = <<>> /\ exhausted

TakeRow ==
  /\ CanTake
  /\ buffer' = Tail(buffer)
  /\ position' = Head(buffer).state
  /\ UNCHANGED <<cursor, exhausted>>

-------------------------------------------------------------------------------
(* The invariant of the loader: the trainer has taken n rows of the data,  *)
(* what is read ahead are the next ones, and the cursor stands behind them.*)

Batch == Nat \X Nat \X Nat

StateAt(state, n) ==
  IF Indexed THEN state = [next |-> n]
  ELSE /\ state \in [epoch : Nat, hf : 0..Rows]
       /\ state.epoch * Rows + state.hf = n

CursorAt(c, n) ==
  IF Indexed THEN c = [next |-> n]
  ELSE /\ c \in [epoch : Nat, dataset : [epoch : Nat, start : 0..Rows],
                 iter : [epoch : Nat, at : 0..Rows]]
       /\ c.epoch * Rows + c.iter.at = n
       /\ c.iter.epoch = IF config.shuffle THEN c.epoch ELSE 0
       /\ ~config.shuffle => c.dataset.epoch = 0

LoaderAt(n) ==
  /\ StateAt(position, n)
  /\ buffer \in Seq([row : Batch, state : [next : Nat] \union [epoch : Nat, hf : 0..Rows]])
  /\ CursorAt(cursor, n + Len(buffer))
  /\ \A i \in 1..Len(buffer) : /\ buffer[i].row = Row(n + i)
                               /\ StateAt(buffer[i].state, n + i)
================================================================================
