--------------------------- MODULE MCPretrainingSteps ---------------------------
(* Finite instances of PretrainingSteps: every valid configuration over     *)
(* small values, with the replayer off, for the first step, or for all, and *)
(* schedules with three phases, cut to a warm-up, and longer than the run.  *)
(* What does not touch a row is not combined with every kind of row.        *)
EXTENDS PretrainingSteps

ThreePhases == [warmup |-> 2, decay |-> 2, total |-> Unset]
OnlyWarmup == [warmup |-> 7, decay |-> 3, total |-> Unset]
LongerThanTheRun == [warmup |-> 1, decay |-> Unset, total |-> 6]

MCConfigs ==
  {c \in [repeat : BOOLEAN, shuffle : BOOLEAN, graphs : BOOLEAN,
          accumulation : {1, 2}, sdcSteps : {0, 1, -1}, replays : {0, 1, 2},
          schedule : {ThreePhases, OnlyWarmup, LongerThanTheRun},
          source : {"stream", "dataset"}] :
     /\ ConfigOK(c)
     /\ (c.sdcSteps = 0) = (c.replays = 0)
     /\ c.schedule # ThreePhases => c.sdcSteps = 0 /\ ~c.shuffle
     /\ c.source = "dataset" => c.sdcSteps = 0 /\ ~c.graphs}
===============================================================================
