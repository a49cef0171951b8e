--------------------------- MODULE CheckpointerProofs ---------------------------
(***************************************************************************)
(* Proofs about the checkpoint manager for every number of steps, save     *)
(* interval, retention setting and number of deaths: the latest checkpoint *)
(* can be loaded, the newest ones survive the purge, a save is not         *)
(* disturbed, and the folder implements a register of the latest step.     *)
(* They hold for a job that is Resumable, see Checkpointer.                *)
(***************************************************************************)
EXTENDS Checkpointer, FiniteSetTheorems, SequenceTheorems, TLAPS

-------------------------------------------------------------------------------
(* Ordered sets of steps.                                                  *)

Below(S, s) == {t \in S : t < s}
Rank(S) == [s \in S |-> Cardinality(Below(S, s))]

(* The steps are finitely many.                                            *)
LEMMA StepsFinite ==
  ASSUME NEW S \in SUBSET Steps
  PROVE  IsFiniteSet(S) /\ Cardinality(S) \in Nat
<1>1. 0 \in Int /\ LastStep \in Int
  BY CheckpointerAssumption
<1>2. IsFiniteSet(Steps)
  BY <1>1, FS_Interval DEF Steps
<1>3. IsFiniteSet(S)
  BY <1>2, FS_Subset
<1> QED
  BY <1>3, FS_CardinalityType

(* Counting the smaller members numbers the members of a set in order.     *)
LEMMA RankOrders ==
  ASSUME NEW S \in SUBSET Steps
  PROVE  /\ Rank(S) \in Bijection(S, 0..(Cardinality(S) - 1))
         /\ \A s, t \in S : s < t => Rank(S)[s] < Rank(S)[t]
<1>0. S \subseteq Int /\ IsFiniteSet(S) /\ Cardinality(S) \in Nat
  BY StepsFinite, CheckpointerAssumption DEF Steps
<1> DEFINE n == Cardinality(S)
<1>1. \A s \in S : Rank(S)[s] \in 0..(n - 1)
  <2> TAKE s \in S
  <2>1. Below(S, s) \in SUBSET S /\ s \notin Below(S, s)
    BY <1>0 DEF Below
  <2>2. IsFiniteSet(Below(S, s)) /\ Cardinality(Below(S, s)) <= n
    BY <2>1, <1>0, FS_Subset
  <2>3. n # Cardinality(Below(S, s))
    BY <2>1, <1>0, FS_Subset
  <2>4. Cardinality(Below(S, s)) \in Nat
    BY <2>2, FS_CardinalityType
  <2> QED
    BY <2>2, <2>3, <2>4, <1>0 DEF Rank
<1>2. \A s, t \in S : s < t => Rank(S)[s] < Rank(S)[t]
  <2> SUFFICES ASSUME NEW s \in S, NEW t \in S, s < t
               PROVE  Rank(S)[s] < Rank(S)[t]
    OBVIOUS
  <2>1. /\ Below(S, s) \in SUBSET Below(S, t)
        /\ s \in Below(S, t) /\ s \notin Below(S, s)
        /\ Below(S, t) \in SUBSET S
    <3>1. s \in Int /\ t \in Int
      BY <1>0
    <3>2. ASSUME NEW x \in S, x < s PROVE x < t
      BY <3>1, <3>2, <1>0
    <3>3. ~(s < s)
      BY <3>1
    <3>4. Below(S, s) \subseteq Below(S, t)
      BY <3>2 DEF Below
    <3>5. s \in Below(S, t) /\ s \notin Below(S, s) /\ Below(S, t) \subseteq S
      BY <3>3 DEF Below
    <3> QED
      BY <3>4, <3>5
  <2>2. IsFiniteSet(Below(S, t))
    BY <2>1, <1>0, FS_Subset
  <2>3. /\ Cardinality(Below(S, s)) <= Cardinality(Below(S, t))
        /\ Cardinality(Below(S, s)) # Cardinality(Below(S, t))
    BY <2>1, <2>2, FS_Subset
  <2>4. Rank(S)[s] \in Int /\ Rank(S)[t] \in Int
    BY <1>1, <1>0
  <2> QED
    BY <2>3, <2>4 DEF Rank
<1>3. \A s, t \in S : Rank(S)[s] = Rank(S)[t] => s = t
  <2> SUFFICES ASSUME NEW s \in S, NEW t \in S, Rank(S)[s] = Rank(S)[t]
               PROVE  s = t
    OBVIOUS
  <2>1. s \in Int /\ t \in Int
    BY <1>0
  <2>2. Rank(S)[s] \in Int /\ Rank(S)[t] \in Int
    BY <1>1, <1>0
  <2>3. CASE s < t
    BY <2>3, <1>2, <2>2
  <2>4. CASE t < s
    BY <2>4, <1>2, <2>2
  <2> QED
    BY <2>1, <2>3, <2>4
<1>4. Rank(S) \in [S -> 0..(n - 1)]
  BY <1>1 DEF Rank
<1>5. Rank(S) \in Injection(S, 0..(n - 1))
  BY <1>3, <1>4 DEF Injection, IsInjective
<1>6. IsFiniteSet(0..(n - 1)) /\ Cardinality(0..(n - 1)) = n
  BY <1>0, FS_Interval
<1>7. Rank(S) \in Surjection(S, 0..(n - 1))
  BY <1>5, <1>6, FS_Injection
<1> QED
  BY <1>2, <1>5, <1>7 DEF Bijection

(* SortedSteps finds an order, and it lists the set.                       *)
LEMMA SortedStepsList ==
  ASSUME NEW S \in SUBSET Steps
  PROVE  /\ SortedSteps(S) \in Seq(Steps)
         /\ Len(SortedSteps(S)) = Cardinality(S)
         /\ \A i \in 1..Len(SortedSteps(S)) : SortedSteps(S)[i] \in S
<1> DEFINE n == Cardinality(S)
           order == [i \in 1..n |-> CHOOSE s \in S : Rank(S)[s] = i - 1]
<1>0. n \in Nat /\ S \subseteq Int
  BY StepsFinite, CheckpointerAssumption DEF Steps
<1>1. /\ Rank(S) \in [S -> 0..(n - 1)]
      /\ \A i \in 0..(n - 1) : \E s \in S : Rank(S)[s] = i
      /\ \A s, t \in S : s < t => Rank(S)[s] < Rank(S)[t]
  BY RankOrders DEF Bijection, Surjection, Injection
<1>2. \A i \in 1..n : order[i] \in S /\ Rank(S)[order[i]] = i - 1
  <2> TAKE i \in 1..n
  <2>1. i - 1 \in 0..(n - 1)
    BY <1>0
  <2>2. \E s \in S : Rank(S)[s] = i - 1
    BY <1>1, <2>1
  <2> QED
    BY <2>2
<1>3. order \in [1..n -> S]
  BY <1>2
<1>4. \A i, j \in 1..n : i < j => order[i] < order[j]
  <2> SUFFICES ASSUME NEW i \in 1..n, NEW j \in 1..n, i < j
               PROVE  order[i] < order[j]
    OBVIOUS
  <2> HIDE DEF order
  <2>1. order[i] \in Int /\ order[j] \in Int
    BY <1>2, <1>0
  <2>2. /\ Rank(S)[order[i]] = i - 1 /\ Rank(S)[order[j]] = j - 1
        /\ order[i] \in S /\ order[j] \in S /\ i \in Int /\ j \in Int
    BY <1>2, <1>0
  <2>3. CASE order[j] < order[i]
    BY <2>3, <2>2, <1>1
  <2>4. CASE order[j] = order[i]
    BY <2>4, <2>2
  <2> QED
    BY <2>1, <2>3, <2>4
<1> HIDE DEF order
<1>5. SortedSteps(S) \in [1..n -> S]
  BY <1>3, <1>4 DEF SortedSteps
<1>6. SortedSteps(S) \in Seq(Steps) /\ Len(SortedSteps(S)) = n
  <2>1. SortedSteps(S) \in [1..n -> Steps]
    BY <1>5
  <2> QED
    BY <2>1, <1>0
<1> QED
  BY <1>5, <1>6

(* A set of steps that is not empty has a largest member.                  *)
LEMMA MaxStepExists ==
  ASSUME NEW S \in SUBSET Steps, S # {}
  PROVE  MaxStep(S) \in S /\ \A t \in S : t <= MaxStep(S)
<1> DEFINE n == Cardinality(S)
<1>0. n \in Nat /\ S \subseteq Int /\ IsFiniteSet(S)
  BY StepsFinite, CheckpointerAssumption DEF Steps
<1>1. /\ Rank(S) \in [S -> 0..(n - 1)]
      /\ \A i \in 0..(n - 1) : \E s \in S : Rank(S)[s] = i
      /\ \A s, t \in S : s < t => Rank(S)[s] < Rank(S)[t]
  BY RankOrders DEF Bijection, Surjection, Injection
<1>2. n - 1 \in 0..(n - 1)
  BY <1>0, FS_EmptySet
<1>3. PICK s \in S : Rank(S)[s] = n - 1
  BY <1>1, <1>2
<1>4. \A t \in S : t <= s
  <2> TAKE t \in S
  <2>1. Rank(S)[t] \in 0..(n - 1) /\ s \in Int /\ t \in Int
    BY <1>1, <1>0
  <2>2. CASE s < t
    BY <2>1, <2>2, <1>1, <1>3, <1>0
  <2> QED
    BY <2>1, <2>2
<1> QED
  BY <1>4 DEF MaxStep

-------------------------------------------------------------------------------
(* The latest checkpoint.                                                  *)

(* The largest member of a set of steps, or none: what _find_load_step     *)
(* computes from the directories it finds valid.                           *)
LEMMA LatestOf ==
  ASSUME NEW S \in SUBSET Steps, NEW m, m = IF S = {} THEN NoStep ELSE MaxStep(S)
  PROVE  /\ m \in Int /\ m >= -1 /\ m <= LastStep
         /\ m = NoStep <=> S = {}
         /\ m # NoStep => m \in S
         /\ \A t \in S : t <= m
<1>1. CASE S = {}
  BY <1>1, CheckpointerAssumption DEF NoStep
<1>2. CASE S # {}
  <2>1. m \in S /\ \A t \in S : t <= m
    BY <1>2, MaxStepExists
  <2>2. m \in 0..LastStep
    BY <2>1 DEF Steps
  <2> QED
    BY <2>1, <2>2, <1>2, CheckpointerAssumption DEF NoStep
<1> QED
  BY <1>1, <1>2

(* Nothing but the largest member is one that bounds the others.           *)
LEMMA LatestIs ==
  ASSUME NEW S \in SUBSET Steps, NEW m \in S, \A t \in S : t <= m
  PROVE  m = IF S = {} THEN NoStep ELSE MaxStep(S)
<1>1. MaxStep(S) \in S /\ \A t \in S : t <= MaxStep(S)
  BY MaxStepExists
<1>2. m \in Int /\ MaxStep(S) \in Int
  <2>1. S \subseteq Int
    BY CheckpointerAssumption DEF Steps
  <2> QED
    BY <2>1, <1>1
<1>3. m <= MaxStep(S) /\ MaxStep(S) <= m
  BY <1>1
<1> QED
  BY <1>2, <1>3

(* FindLoadStep, in a state and in the next one.                           *)
LEMMA LatestStep ==
  /\ FindLoadStep \in Int /\ FindLoadStep >= -1 /\ FindLoadStep <= LastStep
  /\ FindLoadStep = NoStep <=> ValidSteps = {}
  /\ FindLoadStep # NoStep => FindLoadStep \in ValidSteps
  /\ \A t \in ValidSteps : t <= FindLoadStep
<1>1. ValidSteps \in SUBSET Steps
  BY DEF ValidSteps
<1>2. FindLoadStep = IF ValidSteps = {} THEN NoStep ELSE MaxStep(ValidSteps)
  BY DEF FindLoadStep
<1> HIDE DEF FindLoadStep, ValidSteps
<1> QED
  BY <1>1, <1>2, LatestOf

(* The same in the next state.                                             *)
LEMMA LatestStepNext ==
  /\ FindLoadStep' \in Int /\ FindLoadStep' >= -1 /\ FindLoadStep' <= LastStep
  /\ FindLoadStep' = NoStep <=> ValidSteps' = {}
  /\ FindLoadStep' # NoStep => FindLoadStep' \in ValidSteps'
  /\ \A t \in ValidSteps' : t <= FindLoadStep'
<1>1. ValidSteps' \in SUBSET Steps
  BY DEF ValidSteps
<1>2. FindLoadStep' = IF ValidSteps' = {} THEN NoStep ELSE MaxStep(ValidSteps')
  BY DEF FindLoadStep
<1> HIDE DEF FindLoadStep, ValidSteps
<1> QED
  BY <1>1, <1>2, LatestOf

(* What is loadable is valid.                                              *)
LEMMA LoadableIsValid ==
  /\ \A s \in Steps : CanLoad(s) => s \in ValidSteps
  /\ \A s \in Steps : CanLoad(s)' => s \in ValidSteps'
  BY DEF CanLoad, ValidSteps, IsValidCheckpoint

(* How many loadable checkpoints are newer is a number, that grows with    *)
(* the set of them.                                                        *)
LEMMA MoreNewerCover ==
  ASSUME NEW S \in SUBSET Steps, NEW T \in SUBSET Steps, S \subseteq T,
         Cardinality(S) + 1 >= KeepLatestK
  PROVE  Cardinality(T) + 1 >= KeepLatestK
<1>1. Cardinality(S) \in Nat /\ Cardinality(T) \in Nat /\ IsFiniteSet(T)
  BY StepsFinite
<1>2. Cardinality(S) <= Cardinality(T)
  BY <1>1, FS_Subset
<1> QED
  BY <1>1, <1>2, CheckpointerAssumption

(* If what damaged checkpoints there are can be spared, the latest         *)
(* checkpoint is whole.                                                    *)
LEMMA LatestIsWhole == WholeInv => LatestLoads
<1> SUFFICES ASSUME WholeInv, FindLoadStep # NoStep, ~CanLoad(FindLoadStep)
             PROVE  FALSE
  BY DEF LatestLoads
<1> DEFINE m == FindLoadStep
<1>1. m \in ValidSteps /\ m \in Int /\ \A t \in ValidSteps : t <= m
  BY LatestStep
<1>2. NewerLoadable(m) = {}
  <2> SUFFICES ASSUME NEW t \in Steps, t > m, CanLoad(t) PROVE FALSE
    BY DEF NewerLoadable
  <2>1. t \in ValidSteps /\ t \in Int
    BY LoadableIsValid, CheckpointerAssumption DEF Steps
  <2> QED
    BY <2>1, <1>1
<1>3. KeepLatestK > 0 /\ Cardinality(NewerLoadable(m)) + 1 >= KeepLatestK
  BY <1>1 DEF WholeInv, Covered
<1> QED
  BY <1>2, <1>3, FS_EmptySet, CheckpointerAssumption

-------------------------------------------------------------------------------
(* Three ways a step touches the folder.                                   *)

(* The properties of the folder that a restart and the purge look at.      *)
SameView ==
  /\ ValidSteps' = ValidSteps
  /\ FindLoadStep' = FindLoadStep
  /\ \A s \in Steps :
       /\ CanLoad(s)' <=> CanLoad(s)
       /\ IsValidCheckpoint(s)' <=> IsValidCheckpoint(s)
       /\ Covered(s)' <=> Covered(s)
       /\ NextSave(s)' <=> NextSave(s)

(* NextSave depends on the latest checkpoint alone.                        *)
LEMMA SameLatestSameNext ==
  ASSUME FindLoadStep' = FindLoadStep, NEW s
  PROVE  NextSave(s)' <=> NextSave(s)
  BY DEF NextSave, ScheduledSave

(* Files that are not in a valid checkpoint do not matter.                 *)
LEMMA UnmarkedWritesKeepView ==
  ASSUME \A s \in Steps :
           /\ disk'[s].marker = disk[s].marker
           /\ disk[s].marker = "none" \/ disk'[s].data = disk[s].data
  PROVE  SameView
<1>1. \A s \in Steps : /\ CanLoad(s)' <=> CanLoad(s)
                       /\ IsValidCheckpoint(s)' <=> IsValidCheckpoint(s)
  BY DEF CanLoad, IsValidCheckpoint
<1>2. ValidSteps' = ValidSteps
  BY <1>1 DEF ValidSteps
<1>3. FindLoadStep' = FindLoadStep
  BY <1>2 DEF FindLoadStep
<1>4. \A s \in Steps : NewerLoadable(s)' = NewerLoadable(s)
  BY <1>1 DEF NewerLoadable
<1>5. \A s \in Steps : Covered(s)' <=> Covered(s)
  BY <1>4 DEF Covered
<1>6. \A s \in Steps : NextSave(s)' <=> NextSave(s)
  BY <1>3, SameLatestSameNext
<1> QED
  BY <1>1, <1>2, <1>3, <1>5, <1>6 DEF SameView

(* A deletion that goes on keeps the latest checkpoint, and takes away     *)
(* from no checkpoint the newer ones that make it dispensable.             *)
Spares ==
  /\ FindLoadStep' = FindLoadStep
  /\ \A s \in Steps :
       /\ IsValidCheckpoint(s)' => IsValidCheckpoint(s)
       /\ Covered(s) => Covered(s)'
       /\ s # deleting => (CanLoad(s)' <=> CanLoad(s))
       /\ NextSave(s)' <=> NextSave(s)

(* That is what DeletesSome and Deleted do, since the purge thread only    *)
(* ever has an older directory before it.                                  *)
LEMMA DeletionSpares ==
  ASSUME PurgeInv, deleting \in Steps,
         \A s \in Steps \ {deleting} : disk'[s] = disk[s],
         disk'[deleting].marker \in {"none", disk[deleting].marker},
         disk'[deleting].data \in {"absent", "partial"}
  PROVE  Spares
<1> DEFINE m == FindLoadStep
<1>1. /\ KeepLatestK > 0
      /\ deleting < m
      /\ IsValidCheckpoint(deleting) => Covered(deleting)
  BY DEF PurgeInv, ToPurge
<1>2. \A s \in Steps : IsValidCheckpoint(s)' => IsValidCheckpoint(s)
  <2> TAKE s \in Steps
  <2>1. CASE s = deleting
    BY <2>1 DEF IsValidCheckpoint
  <2>2. CASE s # deleting
    BY <2>2 DEF IsValidCheckpoint
  <2> QED
    BY <2>1, <2>2
<1>3. \A s \in Steps \ {deleting} :
        /\ CanLoad(s)' <=> CanLoad(s)
        /\ IsValidCheckpoint(s)' <=> IsValidCheckpoint(s)
  BY DEF CanLoad, IsValidCheckpoint
<1>4. /\ m \in Int /\ deleting \in Int /\ m # deleting /\ m # NoStep
      /\ m \in ValidSteps
      /\ \A t \in ValidSteps : t <= m
  <2>1. m \in Int /\ deleting \in 0..LastStep /\ (m # NoStep => m \in ValidSteps)
        /\ \A t \in ValidSteps : t <= m
    BY LatestStep DEF Steps
  <2> HIDE DEF m
  <2> QED
    BY <1>1, <2>1 DEF NoStep
<1>5. FindLoadStep' = FindLoadStep
  <2>1. ValidSteps' \subseteq ValidSteps /\ ValidSteps' \in SUBSET Steps
    BY <1>2 DEF ValidSteps
  <2>2. m \in ValidSteps'
    BY <1>3, <1>4 DEF ValidSteps
  <2>3. m = IF ValidSteps' = {} THEN NoStep ELSE MaxStep(ValidSteps')
    <3> HIDE DEF m
    <3> QED
      BY <2>1, <2>2, <1>4, LatestIs
  <2> QED
    BY <2>3 DEF FindLoadStep
<1>6. \A s \in Steps : Covered(s) => Covered(s)'
  <2> SUFFICES ASSUME NEW s \in Steps, Covered(s) PROVE Covered(s)'
    OBVIOUS
  <2>1. /\ NewerLoadable(s) \in SUBSET Steps /\ NewerLoadable(s)' \in SUBSET Steps
        /\ NewerLoadable(deleting) \in SUBSET Steps
    BY DEF NewerLoadable
  <2>2. Cardinality(NewerLoadable(s)) + 1 >= KeepLatestK
    BY DEF Covered
  <2>3. CASE deleting \notin NewerLoadable(s)
    <3>1. NewerLoadable(s) \subseteq NewerLoadable(s)'
      BY <2>3, <1>3 DEF NewerLoadable
    <3> QED
      BY <3>1, <2>1, <2>2, <1>1, MoreNewerCover DEF Covered
  <2>4. CASE deleting \in NewerLoadable(s)
    <3>1. CanLoad(deleting) /\ deleting > s
      BY <2>4 DEF NewerLoadable
    <3>2. Cardinality(NewerLoadable(deleting)) + 1 >= KeepLatestK
      BY <3>1, <1>1 DEF Covered, CanLoad, IsValidCheckpoint
    <3>3. NewerLoadable(deleting) \subseteq NewerLoadable(s)'
      <4> SUFFICES ASSUME NEW t \in Steps, t > deleting, CanLoad(t)
                   PROVE  t > s /\ CanLoad(t)'
        BY DEF NewerLoadable
      <4>1. t \in Int /\ s \in Int
        BY CheckpointerAssumption DEF Steps
      <4> QED
        BY <4>1, <3>1, <1>3, <1>4
    <3> QED
      BY <3>2, <3>3, <2>1, <1>1, MoreNewerCover DEF Covered
  <2> QED
    BY <2>3, <2>4
<1> QED
  BY <1>2, <1>3, <1>5, <1>6, SameLatestSameNext DEF Spares

(* A save that ends makes its step the latest, loadable checkpoint, and no *)
(* other one worse.                                                        *)
Commits(w) ==
  /\ FindLoadStep' = w
  /\ CanLoad(w)'
  /\ \A s \in Steps :
       /\ Covered(s) => Covered(s)'
       /\ s # w => /\ IsValidCheckpoint(s)' <=> IsValidCheckpoint(s)
                   /\ CanLoad(s)' <=> CanLoad(s)

(* Writing a full checkpoint of a later step is such a save.               *)
LEMMA WholeSaveCommits ==
  ASSUME NEW w \in Steps, FindLoadStep < w,
         \A s \in Steps \ {w} : disk'[s] = disk[s],
         disk'[w] = Full
  PROVE  Commits(w)
<1>1. CanLoad(w)' /\ IsValidCheckpoint(w)'
  BY DEF CanLoad, IsValidCheckpoint, Full
<1>2. \A s \in Steps : s # w => /\ IsValidCheckpoint(s)' <=> IsValidCheckpoint(s)
                                /\ CanLoad(s)' <=> CanLoad(s)
  <2> SUFFICES ASSUME NEW s \in Steps, s # w
               PROVE  /\ IsValidCheckpoint(s)' <=> IsValidCheckpoint(s)
                      /\ CanLoad(s)' <=> CanLoad(s)
    OBVIOUS
  <2>1. disk'[s] = disk[s]
    OBVIOUS
  <2> QED
    BY <2>1 DEF CanLoad, IsValidCheckpoint
<1>3. FindLoadStep' = w
  <2>1. ValidSteps' \in SUBSET Steps /\ w \in ValidSteps'
    BY <1>1 DEF ValidSteps
  <2>2. \A t \in ValidSteps' : t <= w
    <3> SUFFICES ASSUME NEW t \in ValidSteps', t # w PROVE t <= w
      BY CheckpointerAssumption DEF Steps
    <3>1. t \in ValidSteps
      BY <1>2 DEF ValidSteps
    <3>2. t <= FindLoadStep /\ FindLoadStep \in Int
      BY <3>1, LatestStep
    <3>3. t \in Int /\ w \in Int
      BY <2>1, CheckpointerAssumption DEF Steps
    <3> HIDE DEF FindLoadStep
    <3> QED
      BY <3>2, <3>3
  <2>3. w = IF ValidSteps' = {} THEN NoStep ELSE MaxStep(ValidSteps')
    BY <2>1, <2>2, LatestIs
  <2> QED
    BY <2>3 DEF FindLoadStep
<1>4. \A s \in Steps : Covered(s) => Covered(s)'
  <2> SUFFICES ASSUME NEW s \in Steps, Covered(s) PROVE Covered(s)'
    OBVIOUS
  <2>1. \A t \in Steps : CanLoad(t) => CanLoad(t)'
    BY <1>1, <1>2
  <2>2. /\ NewerLoadable(s) \subseteq NewerLoadable(s)'
        /\ NewerLoadable(s) \in SUBSET Steps /\ NewerLoadable(s)' \in SUBSET Steps
    BY <2>1 DEF NewerLoadable
  <2> QED
    BY <2>2, MoreNewerCover DEF Covered
<1> QED
  BY <1>1, <1>2, <1>3, <1>4 DEF Commits

-------------------------------------------------------------------------------
(* Types, and what the variables of the process say of each other.         *)

(* A new manager: no save, no purge thread, whatever the folder holds.     *)
LEMMA TypeInit == Init => TypeOK /\ ProcessInv
<1> SUFFICES ASSUME Init PROVE TypeOK /\ ProcessInv
  OBVIOUS
<1>1. PICK left \in Earlier :
        disk = [s \in Steps |-> IF s \notin left THEN Absent
                                ELSE IF s = 0 THEN Seed ELSE Full]
  BY DEF Init
<1>2. disk \in [Steps -> [marker : {"none", "dcp", "hf"},
                          data : {"absent", "partial", "torn", "model", "full"}]]
  BY <1>1 DEF Absent, Seed, Full
<1>3. queue \in Seq(Steps \union {Sentinel})
  BY EmptySeq DEF Init
<1>4. step \in Steps /\ deaths \in 0..MaxDeaths
  BY CheckpointerAssumption DEF Init, Steps
<1> QED
  BY <1>2, <1>3, <1>4 DEF Init, TypeOK, ProcessInv, NoStep

(* What a save writes, and what is marked partial, is a directory.         *)
LEMMA SavedFilesType ==
  TypeOK /\ saveStep \in Steps =>
    SavedFiles \in [marker : {"none", "dcp", "hf"},
                    data : {"absent", "partial", "torn", "model", "full"}]
  BY DEF TypeOK, SavedFiles, Full

(* Marking a directory as partial leaves the folder well typed.            *)
LEMMA PartialType ==
  ASSUME TypeOK, NEW s \in Steps
  PROVE  [disk EXCEPT ![s].data = "partial"] \in
           [Steps -> [marker : {"none", "dcp", "hf"},
                      data : {"absent", "partial", "torn", "model", "full"}]]
  BY DEF TypeOK

(* The lists that a purge adds to the queue are lists of steps.            *)
LEMMA PurgeListTypes ==
  ASSUME NEW s \in Steps
  PROVE  /\ StaleCheckpoints(ValidSteps \ {s}) \in SUBSET Steps
         /\ AbandonedSaves(s) \in SUBSET Steps
         /\ SortedSteps(StaleCheckpoints(ValidSteps \ {s})) \in Seq(Steps)
         /\ SortedSteps(AbandonedSaves(s)) \in Seq(Steps)
<1>1. /\ StaleCheckpoints(ValidSteps \ {s}) \in SUBSET Steps
      /\ AbandonedSaves(s) \in SUBSET Steps
  BY DEF StaleCheckpoints, AbandonedSaves, ValidSteps
<1> QED
  BY <1>1, SortedStepsList

(* The purge queue holds steps and sentinels after a save has started.     *)
LEMMA QueueType ==
  ASSUME TypeOK, PurgeStaleCheckpoints(step)
  PROVE  queue' \in Seq(Steps \union {Sentinel})
<1> DEFINE stale == SortedSteps(StaleCheckpoints(ValidSteps \ {step}))
           abandoned == SortedSteps(AbandonedSaves(step))
<1>1. stale \in Seq(Steps) /\ abandoned \in Seq(Steps)
  BY PurgeListTypes DEF TypeOK
<1>2. queue' = IF KeepLatestK = 0 THEN queue ELSE queue \o stale \o abandoned
  BY DEF PurgeStaleCheckpoints
<1> HIDE DEF stale, abandoned
<1>3. /\ stale \in Seq(Steps \union {Sentinel})
      /\ abandoned \in Seq(Steps \union {Sentinel})
  BY <1>1
<1>4. queue \o stale \in Seq(Steps \union {Sentinel})
  BY <1>3, ConcatProperties DEF TypeOK
<1>5. queue \o stale \o abandoned \in Seq(Steps \union {Sentinel})
  BY <1>3, <1>4, ConcatProperties
<1> QED
  BY <1>2, <1>5 DEF TypeOK

(* Every step keeps the types and what the process variables say.          *)
LEMMA TypeStep ==
  TypeOK /\ ProcessInv /\ [Next]_vars => TypeOK' /\ ProcessInv'
<1> SUFFICES ASSUME TypeOK, ProcessInv, [Next]_vars
             PROVE  TypeOK' /\ ProcessInv'
  OBVIOUS
<1>0. /\ LastStep \in Nat \ {0} /\ MaxDeaths \in Nat /\ KeepLatestK \in Nat
      /\ deaths \in 0..MaxDeaths /\ deaths \in Int /\ step \in 0..LastStep
  BY CheckpointerAssumption DEF TypeOK, Steps
<1>a. CASE Start
  <2>1. FindLoadStep = NoStep \/ FindLoadStep \in Steps
    BY LatestStep DEF ValidSteps
  <2>2. LoadStep = NoStep \/ LoadStep \in Steps
    BY CheckpointerAssumption DEF NoStep, Steps
  <2>3. step' \in Steps /\ jobPc' \in {"ready", "load_failed"}
    BY <1>a, <1>0, <2>1, <2>2 DEF Start, Steps, TypeOK
  <2> QED
    BY <1>a, <2>3 DEF Start, TypeOK, ProcessInv, Alive, diskVars, saveVars
<1>b. CASE StepBegins
  BY <1>b, <1>0 DEF StepBegins, ShouldContinueTraining, TypeOK, ProcessInv, Alive, Steps,
                    diskVars, saveVars, purgeVars
<1>c. CASE OptimizerStep
  BY <1>c DEF OptimizerStep, TypeOK, ProcessInv, Alive, diskVars, purgeVars
<1>d. CASE StepRaises
  BY <1>d, <1>0 DEF StepRaises, Raise, TypeOK, ProcessInv, Alive, diskVars, saveVars, purgeVars
<1>e. CASE DataRunsOut
  BY <1>e DEF DataRunsOut, TypeOK, ProcessInv, Alive, diskVars, saveVars, purgeVars
<1>f. CASE TrainingEnds
  BY <1>f DEF TrainingEnds, TypeOK, ProcessInv, Alive, diskVars, saveVars, purgeVars
<1>g. CASE SaveSkipped
  BY <1>g DEF SaveSkipped, TypeOK, ProcessInv, Alive, diskVars, saveVars, purgeVars
<1>h. CASE SaveStarts
  <2>1. queue' \in Seq(Steps \union {Sentinel})
    BY <1>h, QueueType DEF SaveStarts
  <2>2. disk' \in [Steps -> [marker : {"none", "dcp", "hf"},
                             data : {"absent", "partial", "torn", "model", "full"}]]
    <3>1. disk' = disk \/ disk' = [disk EXCEPT ![step].data = "partial"]
      BY <1>h DEF SaveStarts
    <3> QED
      BY <3>1, PartialType DEF TypeOK
  <2>3. /\ save' \in {"staging", "writing"} /\ jobPc' \in {"ready", "writing"}
        /\ saveStep' = step /\ torn' = FALSE
        /\ UNCHANGED <<mode, step, raised, deaths, deleting, thread>>
        /\ jobPc = "saving"
    BY <1>h DEF SaveStarts
  <2> QED
    BY <2>1, <2>2, <2>3 DEF TypeOK, ProcessInv, Alive
<1>i. CASE SaveRaises
  BY <1>i, <1>0 DEF SaveRaises, Raise, TypeOK, ProcessInv, Alive, diskVars, saveVars, purgeVars
<1>j. CASE SaveReturns
  <2>0. ~raised
    BY <1>j DEF SaveReturns, ProcessInv
  <2>1. /\ deaths' \in 0..MaxDeaths /\ jobPc' \in {"ready", "closing"}
        /\ raised' \in BOOLEAN /\ (raised' => jobPc' = "closing")
    <3>1. CASE save = "done"
      BY <1>j, <3>1, <2>0, <1>0 DEF SaveReturns, TypeOK
    <3>2. CASE save = "failed"
      BY <1>j, <3>2, <2>0, <1>0 DEF SaveReturns, Raise, ProcessInv
    <3> QED
      BY <1>j, <3>1, <3>2 DEF SaveReturns
  <2>2. /\ UNCHANGED <<diskVars, step, saveStep, torn, purgeVars>>
        /\ save' = "none"
    BY <1>j DEF SaveReturns, Raise
  <2> QED
    BY <2>1, <2>2 DEF TypeOK, ProcessInv, Alive, diskVars, purgeVars
<1>k. CASE Staged
  <2>1. disk' \in [Steps -> [marker : {"none", "dcp", "hf"},
                             data : {"absent", "partial", "torn", "model", "full"}]]
    BY <1>k, PartialType DEF Staged, ProcessInv
  <2> QED
    BY <1>k, <2>1 DEF Staged, TypeOK, ProcessInv, Alive, jobVars, purgeVars
<1>l. CASE Written
  <2>1. disk' \in [Steps -> [marker : {"none", "dcp", "hf"},
                             data : {"absent", "partial", "torn", "model", "full"}]]
    <3>1. saveStep \in Steps /\ disk' = [disk EXCEPT ![saveStep] = SavedFiles]
      BY <1>l DEF Written, ProcessInv
    <3> QED
      BY <3>1, SavedFilesType DEF TypeOK
  <2> QED
    BY <1>l, <2>1 DEF Written, TypeOK, ProcessInv, Alive, jobVars, purgeVars
<1>m. CASE SaveFails
  BY <1>m DEF SaveFails, TypeOK, ProcessInv, Alive, diskVars, jobVars, purgeVars
<1>n. CASE PurgeTakes
  <2>1. Head(queue) \in Steps \union {Sentinel} /\ Tail(queue) \in Seq(Steps \union {Sentinel})
    BY <1>n, HeadTailProperties DEF PurgeTakes, TypeOK
  <2>2. thread = "alive"
    BY <1>n DEF PurgeTakes
  <2> QED
    BY <1>n, <2>1, <2>2 DEF PurgeTakes, TypeOK, ProcessInv, Alive, diskVars, jobVars, saveVars
<1>o. CASE DeletesSome
  <2>1. deleting \in Steps
    BY <1>o DEF DeletesSome, TypeOK
  <2>2. PICK marker \in {"none", disk[deleting].marker} :
          disk' = [disk EXCEPT ![deleting] = [marker |-> marker, data |-> "partial"]]
    BY <1>o DEF DeletesSome
  <2>3. marker \in {"none", "dcp", "hf"}
    BY <2>1, <2>2 DEF TypeOK
  <2>4. disk' \in [Steps -> [marker : {"none", "dcp", "hf"},
                             data : {"absent", "partial", "torn", "model", "full"}]]
    BY <2>1, <2>2, <2>3 DEF TypeOK
  <2> QED
    BY <1>o, <2>4 DEF DeletesSome, TypeOK, ProcessInv, Alive, jobVars, saveVars, purgeVars
<1>p. CASE Deleted
  <2>1. disk' \in [Steps -> [marker : {"none", "dcp", "hf"},
                             data : {"absent", "partial", "torn", "model", "full"}]]
    BY <1>p DEF Deleted, TypeOK, Absent
  <2> QED
    BY <1>p, <2>1 DEF Deleted, TypeOK, ProcessInv, Alive, jobVars, saveVars
<1>q. CASE DeletionFails
  BY <1>q DEF DeletionFails, TypeOK, ProcessInv, Alive, diskVars, jobVars, saveVars
<1>r. CASE CloseAwaited
  <2>1. Append(queue, Sentinel) \in Seq(Steps \union {Sentinel})
    BY AppendProperties DEF TypeOK
  <2>2. queue' \in Seq(Steps \union {Sentinel})
    BY <1>r, <2>1 DEF CloseAwaited, TypeOK
  <2>3. raised' \in BOOLEAN
    BY <1>r DEF CloseAwaited, TypeOK
  <2>4. deaths' \in 0..MaxDeaths
    BY <1>r, <1>0 DEF CloseAwaited, TypeOK, ProcessInv
  <2> QED
    BY <1>r, <2>2, <2>3, <2>4 DEF CloseAwaited, TypeOK, ProcessInv, Alive, diskVars
<1>s. CASE Joined
  BY <1>s DEF Joined, TypeOK, ProcessInv, Alive, diskVars, saveVars, purgeVars
<1>t. CASE Killed
  <2>1. queue' \in Seq(Steps \union {Sentinel})
    BY <1>t, EmptySeq DEF Killed
  <2>2. deaths' \in 0..MaxDeaths
    BY <1>t, <1>0 DEF Killed
  <2>3. /\ jobPc' = "down" /\ raised' = FALSE /\ save' = "none" /\ saveStep' = NoStep
        /\ torn' = FALSE /\ deleting' = NoStep /\ thread' = "ended"
        /\ UNCHANGED <<mode, disk, step>>
    BY <1>t DEF Killed, diskVars
  <2> QED
    BY <2>1, <2>2, <2>3 DEF TypeOK, ProcessInv, Alive
<1>u. CASE UNCHANGED vars
  BY <1>u DEF TypeOK, ProcessInv, Alive, vars, diskVars, jobVars, saveVars, purgeVars
<1> QED
  BY <1>a, <1>b, <1>c, <1>d, <1>e, <1>f, <1>g, <1>h, <1>i, <1>j, <1>k, <1>l, <1>m,
     <1>n, <1>o, <1>p, <1>q, <1>r, <1>s, <1>t, <1>u DEF Next, Over

-------------------------------------------------------------------------------
(* Steps that leave the folder as it is.                                   *)

(* What is still to be purged, step by step.                               *)
LEMMA TakenIsNotAdded ==
  ASSUME TypeOK, PurgeTakes
  PROVE  ToPurge' \intersect Steps \subseteq ToPurge
<1>1. /\ queue # <<>> /\ queue' = Tail(queue) /\ queue \in Seq(Steps \union {Sentinel})
      /\ deleting' = deleting \/ deleting' = Head(queue)
  BY DEF PurgeTakes, TypeOK
<1>2. /\ Len(queue) \in Nat \ {0} /\ Head(queue) = queue[1]
      /\ Len(queue') = Len(queue) - 1
      /\ \A i \in 1..Len(queue') : queue'[i] = queue[i + 1]
  BY <1>1, HeadTailProperties
<1>3. ASSUME NEW i \in 1..Len(queue') PROVE queue'[i] \in ToPurge
  <2>1. i + 1 \in 1..Len(queue)
    BY <1>2
  <2> QED
    BY <1>2, <2>1 DEF ToPurge
<1>4. deleting' \in ToPurge
  <2>1. 1 \in 1..Len(queue)
    BY <1>2
  <2>2. Head(queue) \in ToPurge
    BY <1>2, <2>1 DEF ToPurge
  <2>3. deleting \in ToPurge
    BY DEF ToPurge
  <2> QED
    BY <1>1, <2>2, <2>3
<1> QED
  BY <1>3, <1>4 DEF ToPurge

(* The sentinel of close() is no directory.                                *)
LEMMA SentinelIsNoStep ==
  ASSUME TypeOK, deleting' = deleting, queue' = Append(queue, Sentinel)
  PROVE  ToPurge' \intersect Steps \subseteq ToPurge
<1>1. /\ Len(queue') = Len(queue) + 1 /\ Len(queue) \in Nat
      /\ \A i \in 1..Len(queue) : queue'[i] = queue[i]
      /\ queue'[Len(queue) + 1] = Sentinel
  BY AppendProperties DEF TypeOK
<1>2. Sentinel \notin Steps
  BY CheckpointerAssumption DEF Sentinel, Steps
<1>3. ASSUME NEW i \in 1..Len(queue'), queue'[i] \in Steps PROVE queue'[i] \in ToPurge
  <2>1. i \in 1..Len(queue)
    BY <1>1, <1>2, <1>3
  <2> QED
    BY <1>1, <2>1 DEF ToPurge
<1> QED
  BY <1>3 DEF ToPurge

(* The folder's part of the invariant when nothing is written or deleted.  *)
LEMMA QuietFolder ==
  ASSUME WholeInv, PurgeInv, AbandonedInv, NoTornSnapshot,
         disk' = disk, ToPurge' \intersect Steps \subseteq ToPurge
  PROVE  SameView /\ WholeInv' /\ PurgeInv' /\ AbandonedInv' /\ NoTornSnapshot'
<1>1. SameView
  BY UnmarkedWritesKeepView
<1>2. WholeInv'
  <2>1. \A s \in ValidSteps : CanLoad(s)' \/ Covered(s)'
    BY <1>1 DEF SameView, WholeInv, ValidSteps
  <2> QED
    BY <2>1, <1>1 DEF SameView, WholeInv
<1>3. PurgeInv'
  <2> SUFFICES ASSUME NEW s \in Steps, s \in ToPurge'
               PROVE  /\ KeepLatestK > 0
                      /\ s < FindLoadStep'
                      /\ IsValidCheckpoint(s)' => Covered(s)'
    BY DEF PurgeInv
  <2>1. /\ KeepLatestK > 0 /\ s < FindLoadStep
        /\ IsValidCheckpoint(s) => Covered(s)
    BY DEF PurgeInv
  <2> QED
    BY <1>1, <2>1 DEF SameView
<1>4. AbandonedInv'
  <2> SUFFICES ASSUME NEW s \in Steps, disk'[s].data # "absent", ~IsValidCheckpoint(s)'
               PROVE  s < FindLoadStep' \/ NextSave(s)'
    BY DEF AbandonedInv
  <2>1. s < FindLoadStep \/ NextSave(s)
    BY <1>1 DEF AbandonedInv, SameView
  <2> QED
    BY <1>1, <2>1 DEF SameView
<1>5. NoTornSnapshot'
  BY DEF NoTornSnapshot
<1> QED
  BY <1>1, <1>2, <1>3, <1>4, <1>5

(* NextSave of the step being saved, and of a name for it.                 *)
LEMMA NextSaveArgument ==
  ASSUME NEW w
  PROVE  /\ saveStep = w => (NextSave(saveStep) <=> NextSave(w))
         /\ saveStep' = w => (NextSave(saveStep)' <=> NextSave(w)')
  BY DEF NextSave, ScheduledSave

(* The save in progress goes on while the loop does.                       *)
LEMMA QuietSaving ==
  ASSUME TypeOK, TypeOK', ProcessInv, SavingInv, SameView, disk' = disk,
         jobPc' = "writing" => saveStep' = step',
         save' \in {"staging", "writing"} =>
           /\ save' = save /\ saveStep' = saveStep /\ step <= step'
           /\ jobPc' \in {"stepping", "saving"} =>
                jobPc \in {"stepping", "saving"} \/ step < step'
  PROVE  SavingInv'
<1> SUFFICES ASSUME save' \in {"staging", "writing"}
             PROVE  /\ NextSave(saveStep)'
                    /\ saveStep' <= step'
                    /\ jobPc' \in {"stepping", "saving"} => saveStep' < step'
                    /\ save' = "writing" =>
                         disk'[saveStep'] = [marker |-> "none", data |-> "partial"]
  BY DEF SavingInv
<1>1. PICK w \in Steps : w = saveStep
  BY DEF ProcessInv
<1>2. NextSave(w)
  BY <1>1, NextSaveArgument DEF SavingInv
<1>3. NextSave(saveStep)'
  BY <1>1, <1>2, NextSaveArgument DEF SameView
<1>4. step \in Int /\ step' \in Int /\ saveStep \in Int
  BY <1>1, CheckpointerAssumption DEF TypeOK, Steps
<1> QED
  BY <1>3, <1>4 DEF SavingInv

FolderInv == WholeInv /\ PurgeInv /\ AbandonedInv /\ NoTornSnapshot

(* A job starts at the latest checkpoint, so every step scheduled so far   *)
(* is covered.                                                             *)
LEMMA StartKeeps ==
  ASSUME CheckpointerInv, Resumable, TypeOK', Start
  PROVE  FolderInv' /\ SavingInv' /\ ScheduleInv' /\ RestartLoads'
<1>0. /\ TypeOK /\ ProcessInv /\ FolderInv /\ SavingInv
  BY DEF CheckpointerInv, FolderInv
<1>1. /\ disk' = disk /\ queue' = queue /\ deleting' = deleting
      /\ save' = save /\ saveStep' = saveStep /\ jobPc = "down"
  BY DEF Start, diskVars, saveVars
<1>2. SameView /\ FolderInv'
  <2>1. ToPurge' \intersect Steps \subseteq ToPurge
    BY <1>1 DEF ToPurge
  <2> QED
    BY <1>0, <1>1, <2>1, QuietFolder DEF FolderInv
<1>3. save = "none"
  BY <1>0, <1>1 DEF ProcessInv, Alive
<1>4. PICK m \in Int : m = FindLoadStep
  BY LatestStep
<1>5. /\ m = NoStep => step' = 0 /\ jobPc' = "ready"
      /\ m # NoStep => step' = m /\ jobPc' = "ready"
  <2>1. LatestLoads
    BY <1>0, LatestIsWhole DEF FolderInv
  <2> QED
    BY <1>4, <2>1 DEF Start, Resumable, LatestLoads
<1>6. SavingInv'
  BY <1>1, <1>3, <1>5 DEF SavingInv
<1>7. FindLoadStep' = m /\ m >= -1
  BY <1>2, <1>4, LatestStep DEF SameView
<1>8. ScheduleInv'
  <2>1. CASE m = NoStep
    BY <2>1, <1>5, <1>7 DEF ScheduleInv, NoStep
  <2>2. CASE m # NoStep
    BY <2>2, <1>5, <1>7 DEF ScheduleInv
  <2> QED
    BY <2>1, <2>2
<1> QED
  BY <1>2, <1>5, <1>6, <1>8 DEF RestartLoads

(* The steps of the loop between saves.                                    *)
LEMMA LoopKeeps ==
  ASSUME CheckpointerInv, TypeOK',
         \/ StepBegins \/ OptimizerStep \/ StepRaises \/ DataRunsOut \/ TrainingEnds
         \/ SaveSkipped \/ SaveRaises \/ SaveReturns \/ SaveFails
  PROVE  FolderInv' /\ SavingInv' /\ ScheduleInv' /\ RestartLoads'
<1>0. /\ TypeOK /\ ProcessInv /\ FolderInv /\ SavingInv /\ ScheduleInv
      /\ step \in Int /\ step' \in Int /\ step >= 0
  BY CheckpointerAssumption DEF CheckpointerInv, FolderInv, TypeOK, Steps
<1>1. disk' = disk /\ queue' = queue /\ deleting' = deleting /\ saveStep' = saveStep
  BY DEF StepBegins, OptimizerStep, StepRaises, DataRunsOut, TrainingEnds, SaveSkipped,
         SaveRaises, SaveReturns, SaveFails, Raise, diskVars, saveVars, purgeVars, jobVars
<1>2. SameView /\ FolderInv'
  <2>1. ToPurge' \intersect Steps \subseteq ToPurge
    BY <1>1 DEF ToPurge
  <2> QED
    BY <1>0, <1>1, <2>1, QuietFolder DEF FolderInv
<1>3. PICK m \in Int : m = FindLoadStep /\ FindLoadStep' = m
  BY <1>2, LatestStep DEF SameView
<1>4. /\ Looping => m <= step
      /\ jobPc \in {"stepping", "saving"} => m < step /\ step > 0
      /\ Looping => \A t \in 1..step : ScheduledSave(t) =>
           \/ t <= m
           \/ t = saveStep /\ save \in {"staging", "writing", "failed", "staging_failed"}
           \/ t = step /\ jobPc \in {"stepping", "saving"}
  BY <1>0, <1>3 DEF ScheduleInv, Looping
<1>5. ASSUME jobPc' = "closing", save' = save \/ save' = "none", UNCHANGED step
      PROVE  SavingInv' /\ ScheduleInv' /\ RestartLoads'
  <2>1. SavingInv'
    BY <1>0, <1>1, <1>2, <1>5, QuietSaving
  <2> QED
    BY <2>1, <1>5 DEF ScheduleInv, Looping, RestartLoads
<1>a. CASE StepBegins
  <2>1. /\ jobPc = "ready" /\ jobPc' = "stepping" /\ step' = step + 1 /\ save' = save
    BY <1>a DEF StepBegins, saveVars
  <2>2. SavingInv'
    BY <1>0, <1>1, <1>2, <2>1, QuietSaving
  <2>3. ScheduleInv'
    <3>1. m < step' /\ step' > 0
      BY <1>0, <1>4, <2>1 DEF Looping
    <3>2. ASSUME NEW t \in 1..step', ScheduledSave(t)
          PROVE  \/ t <= m
                 \/ t = saveStep' /\ save' \in {"staging", "writing", "failed", "staging_failed"}
                 \/ t = step'
      <4>1. CASE t = step'
        BY <4>1
      <4>2. CASE t # step'
        <5>1. t \in 1..step
          BY <4>2, <2>1, <1>0
        <5> QED
          BY <5>1, <3>2, <1>4, <2>1, <1>1 DEF Looping
      <4> QED
        BY <4>1, <4>2
    <3> QED
      BY <3>1, <3>2, <1>3, <2>1, <1>0 DEF ScheduleInv, Looping, ScheduledSave
  <2> QED
    BY <1>2, <2>1, <2>2, <2>3 DEF RestartLoads
<1>b. CASE OptimizerStep
  <2>1. jobPc = "stepping" /\ jobPc' = "saving" /\ step' = step /\ save' = save
    BY <1>b DEF OptimizerStep
  <2>2. SavingInv'
    BY <1>0, <1>1, <1>2, <2>1, QuietSaving
  <2>3. ScheduleInv'
    BY <1>1, <1>3, <1>4, <2>1 DEF ScheduleInv, Looping, ScheduledSave
  <2> QED
    BY <1>2, <2>1, <2>2, <2>3 DEF RestartLoads
<1>c. CASE StepRaises
  BY <1>2, <1>c, <1>5 DEF StepRaises, Raise, saveVars
<1>d. CASE DataRunsOut
  BY <1>2, <1>d, <1>5 DEF DataRunsOut, saveVars
<1>e. CASE TrainingEnds
  BY <1>2, <1>e, <1>5 DEF TrainingEnds, saveVars
<1>f. CASE SaveSkipped
  <2>1. /\ jobPc = "saving" /\ jobPc' = "ready" /\ step' = step /\ save' = save
        /\ ~ScheduledSave(step)
    BY <1>f DEF SaveSkipped, ShouldSave, saveVars
  <2>2. SavingInv'
    BY <1>0, <1>1, <1>2, <2>1, QuietSaving
  <2>3. ScheduleInv'
    BY <1>0, <1>1, <1>3, <1>4, <2>1 DEF ScheduleInv, Looping, ScheduledSave
  <2> QED
    BY <1>2, <2>1, <2>2, <2>3 DEF RestartLoads
<1>g. CASE SaveRaises
  BY <1>2, <1>g, <1>5 DEF SaveRaises, Raise, saveVars
<1>h. CASE SaveReturns
  <2>1. /\ jobPc = "writing" /\ save \in {"done", "failed"} /\ save' = "none" /\ step' = step
    BY <1>h DEF SaveReturns, Raise
  <2>2. CASE save = "done"
    <3>1. jobPc' = "ready"
      BY <1>h, <2>2 DEF SaveReturns
    <3>2. SavingInv'
      BY <1>0, <1>1, <1>2, <2>1, <3>1, QuietSaving
    <3>3. ScheduleInv'
      BY <1>0, <1>1, <1>3, <1>4, <2>1, <2>2, <3>1 DEF ScheduleInv, Looping, ScheduledSave
    <3> QED
      BY <1>2, <3>1, <3>2, <3>3 DEF RestartLoads
  <2>3. CASE save = "failed"
    BY <1>2, <1>h, <2>1, <2>3, <1>5 DEF SaveReturns, Raise
  <2> QED
    BY <2>1, <2>2, <2>3
<1>i. CASE SaveFails
  <2>1. /\ save \in {"staging", "writing"} /\ save' \in {"failed", "staging_failed"}
        /\ jobPc' = jobPc /\ step' = step
    BY <1>i DEF SaveFails, jobVars
  <2>2. SavingInv'
    BY <1>0, <1>1, <2>1 DEF SavingInv
  <2>3. ScheduleInv'
    BY <1>1, <1>3, <1>4, <2>1 DEF ScheduleInv, Looping, ScheduledSave
  <2> QED
    BY <1>2, <2>1, <2>2, <2>3 DEF RestartLoads, CheckpointerInv
<1> QED
  BY <1>a, <1>b, <1>c, <1>d, <1>e, <1>f, <1>g, <1>h, <1>i

(* The purge thread takes the next directory or gives one up; the process  *)
(* closes, is joined or killed.                                            *)
LEMMA QuietEndKeeps ==
  ASSUME CheckpointerInv, TypeOK',
         PurgeTakes \/ DeletionFails \/ CloseAwaited \/ Joined \/ Killed \/ UNCHANGED vars
  PROVE  FolderInv' /\ SavingInv' /\ ScheduleInv' /\ RestartLoads'
<1>0. /\ TypeOK /\ ProcessInv /\ FolderInv /\ SavingInv /\ ScheduleInv /\ RestartLoads
      /\ step \in Int
  BY CheckpointerAssumption DEF CheckpointerInv, FolderInv, TypeOK, Steps
<1>1. disk' = disk
  BY DEF PurgeTakes, DeletionFails, CloseAwaited, Joined, Killed, diskVars, vars
<1>2. ToPurge' \intersect Steps \subseteq ToPurge
  <2>1. CASE PurgeTakes
    BY <2>1, <1>0, TakenIsNotAdded
  <2>2. CASE DeletionFails
    <3>1. NoStep \notin Steps
      BY CheckpointerAssumption DEF NoStep, Steps
    <3> QED
      BY <2>2, <3>1 DEF DeletionFails, ToPurge
  <2>3. CASE CloseAwaited
    <3>1. CASE queue' = queue
      BY <2>3, <3>1 DEF CloseAwaited, ToPurge
    <3>2. CASE queue' = Append(queue, Sentinel)
      BY <2>3, <3>2, <1>0, SentinelIsNoStep DEF CloseAwaited
    <3> QED
      BY <2>3, <3>1, <3>2 DEF CloseAwaited
  <2>4. CASE Joined
    BY <2>4 DEF Joined, purgeVars, ToPurge
  <2>5. CASE Killed
    <3>1. NoStep \notin Steps
      BY CheckpointerAssumption DEF NoStep, Steps
    <3>2. Len(queue') = 0 /\ deleting' = NoStep
      BY <2>5 DEF Killed
    <3> QED
      BY <3>1, <3>2 DEF ToPurge
  <2>6. CASE UNCHANGED vars
    BY <2>6 DEF vars, purgeVars, ToPurge
  <2> QED
    BY <2>1, <2>2, <2>3, <2>4, <2>5, <2>6
<1>3. SameView /\ FolderInv'
  BY <1>0, <1>1, <1>2, QuietFolder DEF FolderInv
<1>4. /\ step' = step
      /\ jobPc' # "load_failed"
      /\ \/ jobPc' \in {"joining", "done", "down"} /\ save' \notin {"staging", "writing"}
         \/ jobPc' = jobPc /\ save' = save /\ saveStep' = saveStep
  <2>1. CASE PurgeTakes \/ DeletionFails \/ UNCHANGED vars
    BY <2>1, <1>0 DEF PurgeTakes, DeletionFails, vars, jobVars, saveVars, RestartLoads
  <2>2. CASE CloseAwaited
    BY <2>2 DEF CloseAwaited
  <2>3. CASE Joined
    BY <2>3, <1>0 DEF Joined, saveVars, ProcessInv
  <2>4. CASE Killed
    BY <2>4 DEF Killed
  <2> QED
    BY <2>1, <2>2, <2>3, <2>4
<1>5. SavingInv'
  <2>1. CASE jobPc' = jobPc /\ save' = save /\ saveStep' = saveStep
    <3>1. jobPc' = "writing" => saveStep' = step'
      BY <2>1, <1>0, <1>4 DEF SavingInv
    <3> QED
      BY <2>1, <3>1, <1>0, <1>1, <1>3, <1>4, QuietSaving
  <2>2. CASE jobPc' \in {"joining", "done", "down"} /\ save' \notin {"staging", "writing"}
    BY <2>2 DEF SavingInv
  <2> QED
    BY <2>1, <2>2, <1>4
<1>6. ScheduleInv'
  <2>1. FindLoadStep' = FindLoadStep
    BY <1>3 DEF SameView
  <2>2. CASE jobPc' = jobPc /\ save' = save /\ saveStep' = saveStep
    BY <2>1, <2>2, <1>0, <1>4 DEF ScheduleInv, Looping, ScheduledSave
  <2>3. CASE jobPc' \in {"joining", "done", "down"}
    BY <2>3 DEF ScheduleInv, Looping
  <2> QED
    BY <2>2, <2>3, <1>4
<1> QED
  BY <1>3, <1>4, <1>5, <1>6 DEF RestartLoads

-------------------------------------------------------------------------------
(* Steps that change the folder.                                           *)

(* The parts of the invariant that look at the folder only through what    *)
(* SameView keeps.                                                         *)
LEMMA SameViewKeeps ==
  ASSUME SameView
  PROVE  /\ WholeInv => WholeInv'
         /\ PurgeInv => \A s \in ToPurge \intersect Steps :
              /\ KeepLatestK > 0
              /\ s < FindLoadStep'
              /\ IsValidCheckpoint(s)' => Covered(s)'
<1>1. ASSUME WholeInv PROVE WholeInv'
  <2>1. \A s \in ValidSteps : CanLoad(s)' \/ Covered(s)'
    BY <1>1 DEF SameView, WholeInv, ValidSteps
  <2> QED
    BY <2>1 DEF SameView, WholeInv
<1>2. ASSUME PurgeInv, NEW s \in ToPurge \intersect Steps
      PROVE  /\ KeepLatestK > 0
             /\ s < FindLoadStep'
             /\ IsValidCheckpoint(s)' => Covered(s)'
  BY <1>2 DEF PurgeInv, SameView
<1> QED
  BY <1>1, <1>2

(* What a save puts on the queue is older than the latest checkpoint; what *)
(* it puts there of the valid ones the retention policy can spare.         *)
LEMMA PurgesOnlyOld ==
  ASSUME CheckpointerInv, SaveStarts, KeepLatestK # 0,
         NEW s \in StaleCheckpoints(ValidSteps \ {step}) \union AbandonedSaves(step)
  PROVE  /\ KeepLatestK > 0
         /\ s < FindLoadStep
         /\ IsValidCheckpoint(s) => Covered(s)
<1>0. /\ KeepLatestK \in Nat /\ KeepLatestK >= 2
      /\ WholeInv /\ AbandonedInv /\ ScheduleInv
      /\ jobPc = "saving" /\ ScheduledSave(step) /\ save \in {"none", "done"}
      /\ step \in Steps
  BY CheckpointerAssumption DEF CheckpointerInv, SaveStarts, ShouldSave, TypeOK
<1>1. PICK m \in Int : /\ m = FindLoadStep /\ m <= LastStep
                       /\ m # NoStep => m \in ValidSteps
                       /\ \A t \in ValidSteps : t <= m
  BY LatestStep
<1>2. /\ m < step /\ step > 0
      /\ \A t \in 1..step : ScheduledSave(t) => t <= m \/ t = step
  BY <1>0, <1>1 DEF ScheduleInv, Looping
<1>3. step \notin ValidSteps /\ step \in Int /\ ValidSteps \subseteq Steps
  BY <1>0, <1>1, <1>2, CheckpointerAssumption DEF Steps, ValidSteps
<1>4. CASE s \in StaleCheckpoints(ValidSteps \ {step})
  <2>1. ValidSteps \ {step} = ValidSteps
    BY <1>3
  <2> DEFINE newer == {t \in ValidSteps : t > s}
  <2>2. s \in ValidSteps /\ Cardinality(newer) + 1 >= KeepLatestK
    BY <1>4, <2>1 DEF StaleCheckpoints
  <2>3. newer \in SUBSET Steps /\ newer # {}
    <3>1. newer \in SUBSET Steps
      BY <1>3
    <3> HIDE DEF newer
    <3>2. newer # {}
      BY <2>2, <1>0, FS_EmptySet
    <3> QED
      BY <3>1, <3>2
  <2>4. s < m
    <3>1. PICK t \in ValidSteps : t > s
      BY <2>3
    <3>2. t <= m /\ t \in Int /\ s \in Int
      BY <3>1, <2>2, <1>1, <1>3, CheckpointerAssumption DEF Steps
    <3> QED
      BY <3>1, <3>2
  <2>5. Covered(s)
    <3>1. NewerLoadable(s) \in SUBSET Steps
      BY DEF NewerLoadable
    <3>2. CASE \A t \in newer : CanLoad(t)
      <4>1. newer \subseteq NewerLoadable(s)
        BY <3>2, <1>3 DEF NewerLoadable
      <4> HIDE DEF newer
      <4> QED
        BY <4>1, <3>1, <2>2, <2>3, <1>0, MoreNewerCover DEF Covered
    <3>3. CASE \E t \in newer : ~CanLoad(t)
      <4>1. PICK t \in ValidSteps : t > s /\ ~CanLoad(t)
        BY <3>3
      <4>2. Cardinality(NewerLoadable(t)) + 1 >= KeepLatestK
        BY <4>1, <1>0 DEF WholeInv, Covered
      <4>3. NewerLoadable(t) \subseteq NewerLoadable(s) /\ NewerLoadable(t) \in SUBSET Steps
        <5> SUFFICES ASSUME NEW u \in Steps, u > t PROVE u > s
          BY DEF NewerLoadable
        <5>1. u \in Int /\ t \in Int /\ s \in Int
          BY <4>1, <2>2, <1>3, CheckpointerAssumption DEF Steps
        <5> QED
          BY <5>1, <4>1
      <4> QED
        BY <4>2, <4>3, <3>1, <1>0, MoreNewerCover DEF Covered
    <3> QED
      BY <3>2, <3>3
  <2> QED
    BY <2>4, <2>5, <1>0, <1>1
<1>5. CASE s \in AbandonedSaves(step)
  <2>1. /\ s \in Steps /\ s # step /\ ~IsValidCheckpoint(s)
        /\ disk[s].data # "absent"
    BY <1>5 DEF AbandonedSaves
  <2>0. s < m \/ NextSave(s)
    BY <2>1, <1>0, <1>1 DEF AbandonedInv
  <2>2. ASSUME NextSave(s) PROVE FALSE
    <3>1. /\ s \in 1..LastStep /\ m < s /\ ScheduledSave(s) /\ s \in Int
          /\ \A t \in 1..(s - 1) : ScheduledSave(t) => t <= m
      BY <2>2, <1>1 DEF NextSave
    <3>2. CASE s < step
      <4>1. s \in 1..step
        BY <3>1, <3>2, <1>3
      <4> QED
        BY <4>1, <3>1, <1>2, <2>1, <1>1
    <3>3. CASE s > step
      <4>1. step \in 1..(s - 1)
        BY <1>2, <3>1, <3>3, <1>3
      <4> QED
        BY <4>1, <3>1, <1>0, <1>1, <1>2, <1>3
    <3> QED
      BY <3>1, <3>2, <3>3, <2>1, <1>3
  <2> QED
    BY <2>0, <2>1, <2>2, <1>0, <1>1
<1> QED
  BY <1>4, <1>5

(* The queue after _purge_stale_checkpoints holds what it held and the two *)
(* lists.                                                                  *)
LEMMA QueueAfterPurge ==
  ASSUME TypeOK, PurgeStaleCheckpoints(step), deleting' = deleting,
         NEW s \in ToPurge', s \notin ToPurge
  PROVE  /\ KeepLatestK # 0
         /\ s \in StaleCheckpoints(ValidSteps \ {step}) \union AbandonedSaves(step)
<1> DEFINE staleSet == StaleCheckpoints(ValidSteps \ {step})
           abandonedSet == AbandonedSaves(step)
           stale == SortedSteps(staleSet)
           abandoned == SortedSteps(abandonedSet)
<1>1. /\ staleSet \in SUBSET Steps /\ abandonedSet \in SUBSET Steps
  BY PurgeListTypes DEF TypeOK
<1>2. queue' = IF KeepLatestK = 0 THEN queue ELSE queue \o stale \o abandoned
  BY DEF PurgeStaleCheckpoints
<1> HIDE DEF staleSet, abandonedSet
<1>3. /\ stale \in Seq(Steps) /\ \A i \in 1..Len(stale) : stale[i] \in staleSet
      /\ abandoned \in Seq(Steps) /\ \A i \in 1..Len(abandoned) : abandoned[i] \in abandonedSet
  BY <1>1, SortedStepsList
<1> HIDE DEF stale, abandoned
<1>4. KeepLatestK # 0
  BY <1>2 DEF ToPurge
<1>5. PICK i \in 1..Len(queue') : queue'[i] = s
  BY DEF ToPurge
<1>6. queue \in Seq(Steps \union {Sentinel}) /\ stale \in Seq(Steps \union {Sentinel})
      /\ abandoned \in Seq(Steps \union {Sentinel})
  BY <1>3 DEF TypeOK
<1> DEFINE front == queue \o stale
<1>7. /\ front \in Seq(Steps \union {Sentinel})
      /\ Len(front) = Len(queue) + Len(stale)
      /\ \A j \in 1..Len(front) :
           front[j] = IF j <= Len(queue) THEN queue[j] ELSE stale[j - Len(queue)]
  BY <1>6, ConcatProperties
<1> HIDE DEF front
<1>8. /\ queue' = front \o abandoned
      /\ Len(queue') = Len(front) + Len(abandoned)
      /\ \A j \in 1..Len(queue') :
           queue'[j] = IF j <= Len(front) THEN front[j] ELSE abandoned[j - Len(front)]
  <2>1. queue' = front \o abandoned
    BY <1>2, <1>4 DEF front
  <2> DEFINE both == front \o abandoned
  <2>2. /\ Len(both) = Len(front) + Len(abandoned)
        /\ \A j \in 1..Len(both) :
             both[j] = IF j <= Len(front) THEN front[j] ELSE abandoned[j - Len(front)]
    <3>1. front \in Seq(Steps \union {Sentinel}) /\ abandoned \in Seq(Steps \union {Sentinel})
      BY <1>6, <1>7
    <3>2. Len(both) = Len(front) + Len(abandoned)
      BY <3>1, ConcatProperties
    <3>3. Len(front) \in Nat /\ Len(abandoned) \in Nat
      BY <3>1
    <3> QED
      BY <3>1, <3>2, <3>3, ConcatProperties
  <2> HIDE DEF both
  <2>3. queue' = both
    BY <2>1 DEF both
  <2> QED
    BY <2>1, <2>2, <2>3
<1>9. Len(queue) \in Nat /\ Len(stale) \in Nat /\ Len(abandoned) \in Nat
  BY <1>6
<1>10. CASE i <= Len(queue)
  <2>1. s = queue[i] /\ i \in 1..Len(queue)
    BY <1>5, <1>7, <1>8, <1>9, <1>10
  <2> QED
    BY <2>1 DEF ToPurge
<1>11. CASE Len(queue) < i /\ i <= Len(front)
  <2>1. s = stale[i - Len(queue)] /\ i - Len(queue) \in 1..Len(stale)
    BY <1>5, <1>7, <1>8, <1>9, <1>11
  <2> QED
    BY <2>1, <1>3, <1>4 DEF staleSet
<1>12. CASE Len(front) < i
  <2>1. s = abandoned[i - Len(front)] /\ i - Len(front) \in 1..Len(abandoned)
    BY <1>5, <1>7, <1>8, <1>9, <1>12
  <2> QED
    BY <2>1, <1>3, <1>4 DEF abandonedSet
<1> QED
  BY <1>5, <1>7, <1>9, <1>10, <1>11, <1>12

(* A directory that is not a checkpoint, once marked partial.              *)
LEMMA MarkedPartial ==
  ASSUME TypeOK, NEW s \in Steps, ~IsValidCheckpoint(s),
         disk' = [disk EXCEPT ![s].data = "partial"]
  PROVE  /\ disk'[s] = [marker |-> "none", data |-> "partial"]
         /\ \A t \in Steps : t # s => disk'[t] = disk[t]
<1>1. disk[s] \in [marker : {"none", "dcp", "hf"},
                   data : {"absent", "partial", "torn", "model", "full"}]
  BY DEF TypeOK
<1>2. disk[s].marker = "none"
  BY DEF IsValidCheckpoint
<1>3. disk'[s] = [disk[s] EXCEPT !.data = "partial"]
  BY DEF TypeOK
<1> QED
  BY <1>1, <1>2, <1>3 DEF TypeOK

(* Marking it so changes nothing a restart or the purge looks at, if it is *)
(* the directory of the next save.                                         *)
LEMMA MarkingKeepsFolder ==
  ASSUME CheckpointerInv, NEW s \in Steps, ~IsValidCheckpoint(s), NextSave(s),
         disk' = disk \/ disk' = [disk EXCEPT ![s].data = "partial"]
  PROVE  SameView /\ WholeInv' /\ AbandonedInv' /\ NoTornSnapshot'
<1>0. TypeOK /\ WholeInv /\ AbandonedInv /\ NoTornSnapshot
  BY DEF CheckpointerInv
<1>1. /\ \A t \in Steps : t # s => disk'[t] = disk[t]
      /\ disk'[s].marker = "none" /\ disk[s].marker = "none"
      /\ disk'[s].data = "partial" \/ disk'[s] = disk[s]
  <2>1. CASE disk' = disk
    BY <2>1 DEF IsValidCheckpoint
  <2>2. CASE disk' = [disk EXCEPT ![s].data = "partial"]
    BY <2>2, <1>0, MarkedPartial DEF IsValidCheckpoint
  <2> QED
    BY <2>1, <2>2
<1>2. \A t \in Steps : /\ disk'[t].marker = disk[t].marker
                       /\ disk[t].marker = "none" \/ disk'[t].data = disk[t].data
  <2> TAKE t \in Steps
  <2>1. CASE t = s
    BY <2>1, <1>1
  <2>2. CASE t # s
    BY <2>2, <1>1
  <2> QED
    BY <2>1, <2>2
<1>3. SameView
  BY <1>2, UnmarkedWritesKeepView
<1>4. AbandonedInv'
  <2> SUFFICES ASSUME NEW t \in Steps, disk'[t].data # "absent", ~IsValidCheckpoint(t)'
               PROVE  t < FindLoadStep' \/ NextSave(t)'
    BY DEF AbandonedInv
  <2>1. CASE t = s
    BY <2>1, <1>3 DEF SameView
  <2>2. CASE t # s
    <3>1. disk[t].data # "absent" /\ ~IsValidCheckpoint(t)
      BY <2>2, <1>1, <1>3 DEF SameView
    <3>2. t < FindLoadStep \/ NextSave(t)
      BY <3>1, <1>0 DEF AbandonedInv
    <3> QED
      BY <3>2, <1>3 DEF SameView
  <2> QED
    BY <2>1, <2>2
<1>5. NoTornSnapshot'
  BY <1>0, <1>1 DEF NoTornSnapshot
<1> QED
  BY <1>0, <1>3, <1>4, <1>5, SameViewKeeps

(* A save that starts: the first scheduled one after the latest            *)
(* checkpoint.                                                             *)
LEMMA SaveStartsKeeps ==
  ASSUME CheckpointerInv, TypeOK', SaveStarts
  PROVE  SameView /\ FolderInv' /\ SavingInv' /\ ScheduleInv' /\ RestartLoads'
<1>0. TypeOK /\ PurgeInv /\ ScheduleInv /\ step \in Steps /\ step \in Int
  BY CheckpointerAssumption DEF CheckpointerInv, TypeOK, Steps
<1>1. /\ jobPc = "saving" /\ ScheduledSave(step) /\ save \in {"none", "done"}
      /\ PurgeStaleCheckpoints(step)
      /\ saveStep' = step /\ step' = step /\ deleting' = deleting
      /\ jobPc' \in {"ready", "writing"} /\ save' \in {"staging", "writing"}
      /\ disk' = IF save' = "writing" THEN [disk EXCEPT ![step].data = "partial"] ELSE disk
  BY DEF SaveStarts, ShouldSave
<1>2. PICK m \in Int : m = FindLoadStep
  BY LatestStep
<1>3. /\ m < step /\ step > 0
      /\ \A t \in 1..step : ScheduledSave(t) => t <= m \/ t = step
  BY <1>0, <1>1, <1>2 DEF ScheduleInv, Looping
<1>4. ~IsValidCheckpoint(step)
  BY <1>0, <1>2, <1>3, LatestStep DEF ValidSteps
<1>5. NextSave(step)
  <2>1. step \in 1..LastStep
    BY <1>0, <1>3, CheckpointerAssumption DEF Steps
  <2>2. ASSUME NEW t \in 1..(step - 1), ScheduledSave(t) PROVE t <= m
    BY <2>2, <1>0, <1>3
  <2> QED
    BY <2>1, <2>2, <1>1, <1>2, <1>3 DEF NextSave
<1>6. SameView /\ WholeInv' /\ AbandonedInv' /\ NoTornSnapshot'
  <2>1. disk' = disk \/ disk' = [disk EXCEPT ![step].data = "partial"]
    BY <1>1
  <2> QED
    BY <2>1, <1>0, <1>4, <1>5, MarkingKeepsFolder
<1>7. PurgeInv'
  <2> SUFFICES ASSUME NEW s \in Steps, s \in ToPurge'
               PROVE  /\ KeepLatestK > 0
                      /\ s < FindLoadStep'
                      /\ IsValidCheckpoint(s)' => Covered(s)'
    BY DEF PurgeInv
  <2>1. CASE s \in ToPurge
    BY <2>1, <1>0, <1>6, SameViewKeeps
  <2>2. CASE s \notin ToPurge
    <3>1. /\ KeepLatestK # 0
          /\ s \in StaleCheckpoints(ValidSteps \ {step}) \union AbandonedSaves(step)
      BY <2>2, <1>0, <1>1, QueueAfterPurge
    <3>2. /\ KeepLatestK > 0
          /\ s < FindLoadStep
          /\ IsValidCheckpoint(s) => Covered(s)
      BY <3>1, PurgesOnlyOld
    <3> QED
      BY <3>2, <1>6 DEF SameView
  <2> QED
    BY <2>1, <2>2
<1>8. SavingInv'
  <2>1. PICK w \in Steps : w = step
    BY <1>0
  <2>2. NextSave(w)
    BY <2>1, <1>5 DEF NextSave, ScheduledSave
  <2>3. NextSave(saveStep)'
    BY <2>1, <2>2, <1>1, <1>6, NextSaveArgument DEF SameView
  <2>4. save' = "writing" => disk'[saveStep'] = [marker |-> "none", data |-> "partial"]
    BY <1>0, <1>1, <1>4, MarkedPartial
  <2> QED
    BY <2>3, <2>4, <1>0, <1>1 DEF SavingInv
<1>9. ScheduleInv'
  <2>1. FindLoadStep' = m
    BY <1>2, <1>6 DEF SameView
  <2> QED
    BY <2>1, <1>0, <1>1, <1>3 DEF ScheduleInv, Looping, ScheduledSave
<1> QED
  BY <1>1, <1>6, <1>7, <1>8, <1>9 DEF FolderInv, RestartLoads

(* The weights are copied, and the copy is being written.                  *)
LEMMA StagedKeeps ==
  ASSUME CheckpointerInv, TypeOK', Staged
  PROVE  SameView /\ FolderInv' /\ SavingInv' /\ ScheduleInv' /\ RestartLoads'
<1>0. TypeOK /\ ProcessInv /\ PurgeInv /\ SavingInv /\ ScheduleInv /\ RestartLoads
  BY DEF CheckpointerInv
<1>1. /\ save = "staging" /\ save' = "writing"
      /\ disk' = [disk EXCEPT ![saveStep].data = "partial"]
      /\ saveStep' = saveStep /\ step' = step /\ jobPc' = jobPc
      /\ queue' = queue /\ deleting' = deleting
  BY DEF Staged, jobVars, purgeVars
<1>2. PICK w \in Steps : w = saveStep
  BY <1>0, <1>1 DEF ProcessInv
<1>3. NextSave(w)
  BY <1>0, <1>1, <1>2, NextSaveArgument DEF SavingInv
<1>4. ~IsValidCheckpoint(w)
  <2>1. w > FindLoadStep /\ FindLoadStep \in Int /\ w \in Int
    BY <1>3, LatestStep, CheckpointerAssumption DEF NextSave, Steps
  <2> HIDE DEF FindLoadStep
  <2>2. w \notin ValidSteps
    BY <2>1, LatestStep
  <2> QED
    BY <2>2 DEF ValidSteps
<1>5. SameView /\ WholeInv' /\ AbandonedInv' /\ NoTornSnapshot'
  BY <1>1, <1>2, <1>3, <1>4, MarkingKeepsFolder
<1>6. PurgeInv'
  <2>1. ToPurge' = ToPurge
    BY <1>1 DEF ToPurge
  <2> QED
    BY <2>1, <1>0, <1>5, SameViewKeeps DEF PurgeInv
<1>7. SavingInv'
  <2>1. NextSave(saveStep)'
    BY <1>1, <1>2, <1>3, <1>5, NextSaveArgument DEF SameView
  <2>2. disk'[saveStep'] = [marker |-> "none", data |-> "partial"]
    BY <1>0, <1>1, <1>2, <1>4, MarkedPartial
  <2> QED
    BY <2>1, <2>2, <1>0, <1>1 DEF SavingInv
<1>8. ScheduleInv'
  <2>1. FindLoadStep' = FindLoadStep
    BY <1>5 DEF SameView
  <2> QED
    BY <2>1, <1>0, <1>1 DEF ScheduleInv, Looping, ScheduledSave
<1> QED
  BY <1>0, <1>1, <1>5, <1>6, <1>7, <1>8 DEF FolderInv, RestartLoads

(* A save that ends: no other save is left for the same place, so what     *)
(* stopped half-way before is now older than the latest checkpoint.        *)
LEMMA WrittenKeeps ==
  ASSUME CheckpointerInv, Resumable, TypeOK', Written
  PROVE  /\ FindLoadStep' = saveStep /\ FindLoadStep < saveStep /\ saveStep <= step
         /\ FolderInv' /\ SavingInv' /\ ScheduleInv' /\ RestartLoads'
<1>0. /\ TypeOK /\ ProcessInv /\ WholeInv /\ PurgeInv /\ AbandonedInv /\ SavingInv
      /\ ScheduleInv /\ RestartLoads /\ NoTornSnapshot
  BY DEF CheckpointerInv
<1>1. /\ save = "writing" /\ save' = "done"
      /\ disk' = [disk EXCEPT ![saveStep] = SavedFiles]
      /\ saveStep' = saveStep /\ step' = step /\ jobPc' = jobPc
      /\ queue' = queue /\ deleting' = deleting
  BY DEF Written, jobVars, purgeVars
<1>2. PICK w \in Steps : w = saveStep
  BY <1>0, <1>1 DEF ProcessInv
<1>3. NextSave(w) /\ disk[w].data = "partial" /\ w <= step
  BY <1>0, <1>1, <1>2, NextSaveArgument DEF SavingInv
<1>4. SavedFiles = Full
  BY <1>0, <1>2, <1>3 DEF SavedFiles, ProcessInv, Resumable
<1>5. disk'[w] = Full /\ \A s \in Steps : s # w => disk'[s] = disk[s]
  BY <1>0, <1>1, <1>2, <1>4 DEF TypeOK
<1>6. PICK m \in Int : m = FindLoadStep
  BY LatestStep
<1>7. m < w /\ w \in Int
  BY <1>3, <1>6, CheckpointerAssumption DEF NextSave, Steps
<1>8. Commits(w)
  BY <1>5, <1>6, <1>7, WholeSaveCommits
<1>9. WholeInv'
  <2> SUFFICES ASSUME NEW s \in Steps, IsValidCheckpoint(s)' PROVE CanLoad(s)' \/ Covered(s)'
    BY DEF WholeInv, ValidSteps
  <2>1. CASE s = w
    BY <2>1, <1>8 DEF Commits
  <2>2. CASE s # w
    <3>1. CanLoad(s) \/ Covered(s)
      BY <2>2, <1>0, <1>8 DEF Commits, WholeInv, ValidSteps
    <3> QED
      BY <2>2, <3>1, <1>8 DEF Commits
  <2> QED
    BY <2>1, <2>2
<1>10. PurgeInv'
  <2> SUFFICES ASSUME NEW s \in Steps, s \in ToPurge'
               PROVE  /\ KeepLatestK > 0
                      /\ s < FindLoadStep'
                      /\ IsValidCheckpoint(s)' => Covered(s)'
    BY DEF PurgeInv
  <2>1. s \in ToPurge
    BY <1>1 DEF ToPurge
  <2>2. /\ KeepLatestK > 0 /\ s < m
        /\ IsValidCheckpoint(s) => Covered(s)
    BY <2>1, <1>0, <1>6 DEF PurgeInv
  <2>3. s \in Int
    BY CheckpointerAssumption DEF Steps
  <2>4. s # w /\ s < w
    BY <2>2, <2>3, <1>7
  <2> QED
    BY <2>2, <2>4, <1>8 DEF Commits
<1>11. AbandonedInv'
  <2> SUFFICES ASSUME NEW s \in Steps, disk'[s].data # "absent", ~IsValidCheckpoint(s)'
               PROVE  s < w
    BY <1>8 DEF AbandonedInv, Commits
  <2>1. s # w
    BY <1>8 DEF Commits, CanLoad, IsValidCheckpoint
  <2>2. s < m \/ NextSave(s)
    BY <2>1, <1>0, <1>5, <1>6, <1>8 DEF AbandonedInv, Commits
  <2>3. s \in Int
    BY CheckpointerAssumption DEF Steps
  <2>4. ASSUME NextSave(s), w < s PROVE FALSE
    <3>1. w \in 1..(s - 1) /\ ScheduledSave(w)
      BY <2>3, <2>4, <1>3, <1>7 DEF NextSave
    <3>2. w <= m
      BY <3>1, <2>4, <1>6 DEF NextSave
    <3> QED
      BY <3>2, <1>6, <1>7
  <2> QED
    BY <2>1, <2>2, <2>3, <2>4, <1>6, <1>7
<1>12. NoTornSnapshot'
  <2>1. \A s \in Steps : disk'[s].data # "torn"
    BY <1>0, <1>5 DEF NoTornSnapshot, Full
  <2> QED
    BY <2>1 DEF NoTornSnapshot
<1>13. SavingInv'
  BY <1>0, <1>1 DEF SavingInv
<1>14. ScheduleInv'
  <2> SUFFICES ASSUME Looping
               PROVE  /\ w <= step
                      /\ jobPc \in {"stepping", "saving"} => w < step /\ step > 0
                      /\ \A t \in 1..step : ScheduledSave(t) =>
                           \/ t <= w
                           \/ t = step /\ jobPc \in {"stepping", "saving"}
    BY <1>1, <1>8 DEF ScheduleInv, Looping, Commits, ScheduledSave
  <2>1. jobPc \in {"stepping", "saving"} => w < step /\ step > 0
    BY <1>0, <1>1, <1>2 DEF SavingInv, ScheduleInv
  <2>2. ASSUME NEW t \in 1..step, ScheduledSave(t)
        PROVE  t <= w \/ (t = step /\ jobPc \in {"stepping", "saving"})
    <3>1. t <= m \/ t = w \/ (t = step /\ jobPc \in {"stepping", "saving"})
      BY <2>2, <1>0, <1>2, <1>6 DEF ScheduleInv
    <3>2. t \in Int
      BY <1>0, CheckpointerAssumption DEF TypeOK, Steps
    <3> QED
      BY <3>1, <3>2, <1>6, <1>7
  <2> QED
    BY <2>1, <2>2, <1>3
<1> QED
  BY <1>0, <1>1, <1>2, <1>3, <1>6, <1>7, <1>8, <1>9, <1>10, <1>11, <1>12, <1>13, <1>14
  DEF Commits, FolderInv, RestartLoads

(* The purge thread removes some or all files of a directory.              *)
LEMMA DeletionKeeps ==
  ASSUME CheckpointerInv, TypeOK', DeletesSome \/ Deleted
  PROVE  /\ FindLoadStep' = FindLoadStep
         /\ FolderInv' /\ SavingInv' /\ ScheduleInv' /\ RestartLoads'
<1>0. /\ TypeOK /\ ProcessInv /\ WholeInv /\ PurgeInv /\ AbandonedInv /\ SavingInv
      /\ ScheduleInv /\ RestartLoads /\ NoTornSnapshot
  BY DEF CheckpointerInv
<1>1. /\ deleting \in Steps
      /\ save' = save /\ saveStep' = saveStep /\ step' = step /\ jobPc' = jobPc
      /\ queue' = queue /\ deleting' \in {deleting, NoStep}
  BY <1>0 DEF DeletesSome, Deleted, jobVars, saveVars, purgeVars, TypeOK
<1>2. /\ \A s \in Steps : s # deleting => disk'[s] = disk[s]
      /\ disk'[deleting].marker \in {"none", disk[deleting].marker}
      /\ disk'[deleting].data \in {"absent", "partial"}
  <2>1. CASE DeletesSome
    <3>1. PICK marker \in {"none", disk[deleting].marker} :
            disk' = [disk EXCEPT ![deleting] = [marker |-> marker, data |-> "partial"]]
      BY <2>1 DEF DeletesSome
    <3> QED
      BY <3>1, <1>0, <1>1 DEF TypeOK
  <2>2. CASE Deleted
    <3>1. disk' = [disk EXCEPT ![deleting] = Absent]
      BY <2>2 DEF Deleted
    <3> QED
      BY <3>1, <1>0, <1>1 DEF TypeOK, Absent
  <2> QED
    BY <2>1, <2>2
<1>3. Spares
  BY <1>0, <1>1, <1>2, DeletionSpares
<1>4. /\ KeepLatestK > 0
      /\ deleting < FindLoadStep
      /\ IsValidCheckpoint(deleting) => Covered(deleting)
  BY <1>0, <1>1 DEF PurgeInv, ToPurge
<1>5. WholeInv'
  <2> SUFFICES ASSUME NEW s \in Steps, IsValidCheckpoint(s)' PROVE CanLoad(s)' \/ Covered(s)'
    BY DEF WholeInv, ValidSteps
  <2>1. IsValidCheckpoint(s) /\ (CanLoad(s) \/ Covered(s))
    BY <1>0, <1>3 DEF Spares, WholeInv, ValidSteps
  <2>2. CASE s = deleting
    BY <2>1, <2>2, <1>3, <1>4 DEF Spares
  <2>3. CASE s # deleting
    BY <2>1, <2>3, <1>3 DEF Spares
  <2> QED
    BY <2>2, <2>3
<1>6. PurgeInv'
  <2> SUFFICES ASSUME NEW s \in Steps, s \in ToPurge'
               PROVE  /\ KeepLatestK > 0
                      /\ s < FindLoadStep'
                      /\ IsValidCheckpoint(s)' => Covered(s)'
    BY DEF PurgeInv
  <2>1. NoStep \notin Steps
    BY CheckpointerAssumption DEF NoStep, Steps
  <2>2. s \in ToPurge
    BY <2>1, <1>1 DEF ToPurge
  <2>3. /\ KeepLatestK > 0 /\ s < FindLoadStep
        /\ IsValidCheckpoint(s) => Covered(s)
    BY <2>2, <1>0 DEF PurgeInv
  <2> QED
    BY <2>3, <1>3 DEF Spares
<1>7. AbandonedInv'
  <2> SUFFICES ASSUME NEW s \in Steps, disk'[s].data # "absent", ~IsValidCheckpoint(s)'
               PROVE  s < FindLoadStep' \/ NextSave(s)'
    BY DEF AbandonedInv
  <2>1. CASE s = deleting
    BY <2>1, <1>3, <1>4 DEF Spares
  <2>2. CASE s # deleting
    <3>1. disk[s].data # "absent" /\ ~IsValidCheckpoint(s)
      BY <2>2, <1>2 DEF IsValidCheckpoint
    <3>2. s < FindLoadStep \/ NextSave(s)
      BY <3>1, <1>0 DEF AbandonedInv
    <3> QED
      BY <3>2, <1>3 DEF Spares
  <2> QED
    BY <2>1, <2>2
<1>8. NoTornSnapshot'
  BY <1>0, <1>2 DEF NoTornSnapshot
<1>9. SavingInv'
  <2>1. ASSUME save \in {"staging", "writing"}
        PROVE  /\ NextSave(saveStep)'
               /\ saveStep # deleting /\ saveStep \in Steps
    <3>1. PICK w \in Steps : w = saveStep
      BY <2>1, <1>0 DEF ProcessInv
    <3>2. NextSave(w)
      BY <2>1, <3>1, <1>0, NextSaveArgument DEF SavingInv
    <3>3. NextSave(saveStep)'
      BY <3>1, <3>2, <1>1, <1>3, NextSaveArgument DEF Spares
    <3>4. FindLoadStep < w /\ FindLoadStep \in Int /\ w \in Int /\ deleting \in Int
      BY <3>2, <1>1, LatestStep, CheckpointerAssumption DEF NextSave, Steps
    <3> HIDE DEF FindLoadStep
    <3>5. w # deleting
      BY <3>4, <1>4
    <3> QED
      BY <3>1, <3>3, <3>5
  <2>2. save = "writing" => disk'[saveStep] = disk[saveStep]
    BY <2>1, <1>2
  <2> QED
    BY <2>1, <2>2, <1>0, <1>1 DEF SavingInv
<1>10. ScheduleInv'
  BY <1>0, <1>1, <1>3 DEF ScheduleInv, Looping, ScheduledSave, Spares
<1> QED
  BY <1>0, <1>1, <1>3, <1>5, <1>6, <1>7, <1>8, <1>9, <1>10 DEF Spares, FolderInv, RestartLoads

-------------------------------------------------------------------------------
(* The invariant and what follows from it.                                 *)

(* The invariant holds when the first process starts.                      *)
LEMMA CheckpointerInit == Init => CheckpointerInv
<1> SUFFICES ASSUME Init PROVE CheckpointerInv
  OBVIOUS
<1>1. TypeOK /\ ProcessInv
  BY TypeInit
<1>2. PICK left \in Earlier :
        disk = [s \in Steps |-> IF s \notin left THEN Absent
                                ELSE IF s = 0 THEN Seed ELSE Full]
  BY DEF Init
<1>3. \A s \in Steps : disk[s] \in {Absent, Full} \/ (s = 0 /\ disk[s] = Seed)
  BY <1>2
<1>4. WholeInv
  BY <1>3 DEF WholeInv, ValidSteps, IsValidCheckpoint, CanLoad, Absent, Seed, Full
<1>5. AbandonedInv /\ NoTornSnapshot
  BY <1>3 DEF AbandonedInv, NoTornSnapshot, IsValidCheckpoint, Absent, Seed, Full
<1>6. PurgeInv
  <2>1. NoStep \notin Steps
    BY CheckpointerAssumption DEF NoStep, Steps
  <2>2. queue = <<>> /\ deleting = NoStep
    BY DEF Init
  <2> QED
    BY <2>1, <2>2 DEF PurgeInv, ToPurge
<1>7. SavingInv /\ ScheduleInv /\ RestartLoads
  BY DEF Init, SavingInv, ScheduleInv, Looping, RestartLoads
<1> QED
  BY <1>1, <1>4, <1>5, <1>6, <1>7 DEF CheckpointerInv

(* Every step keeps the invariant.                                         *)
LEMMA CheckpointerStep ==
  ASSUME Resumable, CheckpointerInv, [Next]_vars
  PROVE  CheckpointerInv'
<1>1. TypeOK' /\ ProcessInv'
  BY TypeStep DEF CheckpointerInv
<1>2. CASE Start
  BY <1>1, <1>2, StartKeeps DEF CheckpointerInv, FolderInv
<1>3. CASE \/ StepBegins \/ OptimizerStep \/ StepRaises \/ DataRunsOut \/ TrainingEnds
           \/ SaveSkipped \/ SaveRaises \/ SaveReturns \/ SaveFails
  BY <1>1, <1>3, LoopKeeps DEF CheckpointerInv, FolderInv
<1>4. CASE SaveStarts
  BY <1>1, <1>4, SaveStartsKeeps DEF CheckpointerInv, FolderInv
<1>5. CASE Staged
  BY <1>1, <1>5, StagedKeeps DEF CheckpointerInv, FolderInv
<1>6. CASE Written
  BY <1>1, <1>6, WrittenKeeps DEF CheckpointerInv, FolderInv
<1>7. CASE DeletesSome \/ Deleted
  BY <1>1, <1>7, DeletionKeeps DEF CheckpointerInv, FolderInv
<1>8. CASE PurgeTakes \/ DeletionFails \/ CloseAwaited \/ Joined \/ Killed \/ UNCHANGED vars
  BY <1>1, <1>8, QuietEndKeeps DEF CheckpointerInv, FolderInv
<1> QED
  BY <1>2, <1>3, <1>4, <1>5, <1>6, <1>7, <1>8 DEF Next, Over

(* The inductive invariant, for a job that resumes from its latest         *)
(* checkpoint and saves all of its state at the last step.  A restart of   *)
(* it never fails to load.                                                 *)
THEOREM CheckpointerInvariant ==
  ASSUME Resumable
  PROVE  Spec => [](CheckpointerInv /\ RestartLoads)
<1>1. Init => CheckpointerInv
  BY CheckpointerInit
<1>2. CheckpointerInv /\ [Next]_vars => CheckpointerInv'
  BY CheckpointerStep
<1>3. CheckpointerInv => RestartLoads
  BY DEF CheckpointerInv
<1> QED
  BY <1>1, <1>2, <1>3, PTL DEF Spec

(* What a restart would pick is a checkpoint it can load, whatever saves   *)
(* and deletions are under way or were cut short.                          *)
THEOREM LatestAlwaysLoads ==
  ASSUME Resumable
  PROVE  Spec => []LatestLoads
<1>1. CheckpointerInv => LatestLoads
  BY LatestIsWhole DEF CheckpointerInv
<1> QED
  BY <1>1, CheckpointerInvariant, PTL

(* The purge takes a whole checkpoint only while keep_latest_k - 1 newer   *)
(* whole ones are on disk.                                                 *)
THEOREM LatestKAreKept ==
  ASSUME Resumable
  PROVE  Spec => []KeepsLatestK
<1>1. CheckpointerInv => KeepsLatestK
  <2> SUFFICES ASSUME PurgeInv, NEW s \in ToPurge \intersect Steps, CanLoad(s)
               PROVE  Cardinality({t \in Steps : t > s /\ CanLoad(t)}) + 1 >= KeepLatestK
    BY DEF CheckpointerInv, KeepsLatestK
  <2>1. IsValidCheckpoint(s)
    BY DEF CanLoad, IsValidCheckpoint
  <2> QED
    BY <2>1 DEF PurgeInv, Covered, NewerLoadable
<1> QED
  BY <1>1, CheckpointerInvariant, PTL

(* The purge thread is never given the directory of the save in progress.  *)
THEOREM SavesAreUndisturbed ==
  ASSUME Resumable
  PROVE  Spec => []SaveUndisturbed
<1>1. CheckpointerInv => SaveUndisturbed
  <2> SUFFICES ASSUME CheckpointerInv, save \in {"staging", "writing"}, saveStep \in ToPurge
               PROVE  FALSE
    BY DEF SaveUndisturbed
  <2>1. saveStep \in Steps /\ saveStep < FindLoadStep /\ FindLoadStep < saveStep
    BY DEF CheckpointerInv, ProcessInv, PurgeInv, SavingInv, NextSave
  <2>2. FindLoadStep \in Int /\ saveStep \in Int
    BY <2>1, LatestStep, CheckpointerAssumption DEF Steps
  <2> HIDE DEF FindLoadStep
  <2> QED
    BY <2>1, <2>2
<1> QED
  BY <1>1, CheckpointerInvariant, PTL

(* No checkpoint on disk mixes the weights of two steps.                   *)
THEOREM SnapshotsAreWhole ==
  ASSUME Resumable
  PROVE  Spec => []NoTornSnapshot
<1>1. CheckpointerInv => NoTornSnapshot
  BY DEF CheckpointerInv
<1> QED
  BY <1>1, CheckpointerInvariant, PTL

-------------------------------------------------------------------------------
(* The folder implements a register of the latest saved step.              *)

(* The mapping takes initial states to initial states.                     *)
LEMMA RegisterInit == Init => Register!Init
<1> SUFFICES ASSUME Init PROVE Register!Init
  OBVIOUS
<1>1. FindLoadStep \in Int /\ FindLoadStep >= -1
  BY LatestStep
<1> QED
  BY <1>1 DEF Init, Register!Init

(* The mapping takes a step to a step of the register or to a stutter.     *)
LEMMA RegisterStep ==
  ASSUME Resumable, CheckpointerInv, [Next]_vars
  PROVE  [Register!Next]_(Register!vars)
<1>0. /\ TypeOK /\ TypeOK' /\ ProcessInv /\ WholeInv
      /\ step \in Int /\ step' \in Int
  BY TypeStep, CheckpointerAssumption DEF CheckpointerInv, TypeOK, Steps
<1> DEFINE still == FindLoadStep' = FindLoadStep
           stops == /\ jobPc # "down" /\ jobPc' = "down" /\ step' = step
           stays == /\ (jobPc # "down") = (jobPc' # "down") /\ step' = step
<1>1. ASSUME still, stays PROVE UNCHANGED Register!vars
  BY <1>1 DEF Register!vars
<1>2. ASSUME still, stops PROVE Register!Next
  BY <1>2 DEF Register!Next, Register!Stop
<1>3. ASSUME disk' = disk PROVE still
  BY <1>3 DEF FindLoadStep, ValidSteps, IsValidCheckpoint
<1>a. CASE Start
  <2>1. still
    BY <1>a, <1>3 DEF Start, diskVars
  <2>2. LatestLoads
    BY <1>0, LatestIsWhole
  <2>3. /\ jobPc = "down" /\ jobPc' = "ready"
        /\ step' = IF FindLoadStep = -1 THEN 0 ELSE FindLoadStep
    BY <1>a, <2>2 DEF Start, Resumable, LatestLoads, NoStep
  <2> QED
    BY <2>1, <2>3 DEF Register!Next, Register!Resume
<1>b. CASE StepBegins
  <2>1. still
    BY <1>b, <1>3 DEF StepBegins, diskVars
  <2>2. jobPc # "down" /\ jobPc' # "down" /\ step' = step + 1
    BY <1>b DEF StepBegins
  <2> QED
    BY <2>1, <2>2 DEF Register!Next, Register!Advance
<1>c. CASE \/ OptimizerStep \/ StepRaises \/ DataRunsOut \/ TrainingEnds \/ SaveSkipped
           \/ SaveRaises \/ SaveReturns \/ SaveFails
  <2>1. still
    BY <1>c, <1>3 DEF OptimizerStep, StepRaises, DataRunsOut, TrainingEnds, SaveSkipped,
      SaveRaises, SaveReturns, SaveFails, Raise, diskVars
  <2>2. stays
    BY <1>c DEF OptimizerStep, StepRaises, DataRunsOut, TrainingEnds, SaveSkipped,
      SaveRaises, SaveReturns, SaveFails, Raise, jobVars
  <2> QED
    BY <2>1, <2>2, <1>1
<1>d. CASE SaveStarts
  <2>1. still
    BY <1>d, <1>0, SaveStartsKeeps DEF SameView
  <2>2. stays
    BY <1>d DEF SaveStarts
  <2> QED
    BY <2>1, <2>2, <1>1
<1>e. CASE Staged
  <2>1. still
    BY <1>e, <1>0, StagedKeeps DEF SameView
  <2>2. stays
    BY <1>e DEF Staged, jobVars
  <2> QED
    BY <2>1, <2>2, <1>1
<1>f. CASE Written
  <2>1. FindLoadStep' = saveStep /\ FindLoadStep < saveStep /\ saveStep <= step
    BY <1>f, <1>0, WrittenKeeps
  <2>2. jobPc # "down" /\ jobPc' = jobPc /\ step' = step /\ saveStep \in Int
    BY <1>f, <1>0, CheckpointerAssumption DEF Written, jobVars, ProcessInv, Alive, Steps
  <2>3. FindLoadStep \in Int
    BY LatestStep
  <2>4. FindLoadStep' \in (FindLoadStep + 1)..step
    <3> HIDE DEF FindLoadStep
    <3> QED
      BY <2>1, <2>2, <2>3, <1>0
  <2> QED
    BY <2>2, <2>4 DEF Register!Next, Register!Commit
<1>g. CASE DeletesSome \/ Deleted
  <2>1. still
    BY <1>g, <1>0, DeletionKeeps
  <2>2. stays
    BY <1>g DEF DeletesSome, Deleted, jobVars
  <2> QED
    BY <2>1, <2>2, <1>1
<1>h. CASE PurgeTakes \/ DeletionFails \/ CloseAwaited \/ UNCHANGED vars
  <2>1. still
    BY <1>h, <1>3 DEF PurgeTakes, DeletionFails, CloseAwaited, vars, diskVars
  <2>2. stays
    BY <1>h DEF PurgeTakes, DeletionFails, CloseAwaited, vars, jobVars
  <2> QED
    BY <2>1, <2>2, <1>1
<1>i. CASE Joined
  <2>1. still
    BY <1>i, <1>3 DEF Joined, diskVars
  <2>2. stays \/ stops
    BY <1>i DEF Joined
  <2> QED
    BY <2>1, <2>2, <1>1, <1>2
<1>j. CASE Killed
  <2>1. still
    BY <1>j, <1>3 DEF Killed, diskVars
  <2>2. stops
    BY <1>j DEF Killed
  <2> QED
    BY <2>1, <2>2, <1>2
<1> QED
  BY <1>a, <1>b, <1>c, <1>d, <1>e, <1>f, <1>g, <1>h, <1>i, <1>j DEF Next, Over

(* Saving, purging, dying and resuming are, from outside, a register of    *)
(* the latest saved step: it only moves forward, a job resumes from it,    *)
(* and a save commits a step of the running job.                           *)
THEOREM FolderIsRegister ==
  ASSUME Resumable
  PROVE  Spec => ImplementsRegister
<1>1. Init => Register!Init
  BY RegisterInit
<1>2. CheckpointerInv /\ [Next]_vars => [Register!Next]_(Register!vars)
  BY RegisterStep
<1> QED
  BY <1>1, <1>2, CheckpointerInvariant, PTL DEF Spec, ImplementsRegister, Register!Spec
================================================================================
