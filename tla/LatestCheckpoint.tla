--------------------------- MODULE LatestCheckpoint ---------------------------
(***************************************************************************)
(* What checkpointing promises a training job: a register that holds the   *)
(* latest saved step, that only moves forward, whatever happens to the     *)
(* job, and that the job resumes from.                                     *)
(***************************************************************************)
EXTENDS Integers

VARIABLES latest, running, at

vars == <<latest, running, at>>

Init ==
  /\ latest \in Int
  /\ latest >= -1
  /\ running = FALSE
  /\ at = 0

(* The job starts where the register says, or afresh.                      *)
Resume ==
  /\ ~running
  /\ running' = TRUE
  /\ at' = IF latest = -1 THEN 0 ELSE latest
  /\ UNCHANGED latest

Advance ==
  /\ running
  /\ at' = at + 1
  /\ UNCHANGED <<latest, running>>

(* A save ends, maybe some steps after it began.                           *)
Commit ==
  /\ running
  /\ latest' \in (latest + 1)..at
  /\ UNCHANGED <<running, at>>

Stop ==
  /\ running
  /\ running' = FALSE
  /\ UNCHANGED <<latest, at>>

Next == Resume \/ Advance \/ Commit \/ Stop

Spec == Init /\ [][Next]_vars
===============================================================================
