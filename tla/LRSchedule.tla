------------------------------- MODULE LRSchedule -------------------------------
(***************************************************************************)
(* The learning-rate schedule (components/optimizer/lr_scheduler.py):      *)
(* warm-up, stable, decay.  A rate is [phase, num, den]: the fraction of   *)
(* the base rate reached by the warm-up, or the progress of the decay,     *)
(* whose curve falls from the base rate at 0 to the minimum at 1.          *)
(***************************************************************************)
EXTENDS Integers

Unset == -1   \* a setting that is None

(* The config's schedule is [warmup, decay, total], in steps.              *)
ScheduleOK(schedule) ==
  /\ schedule.warmup \in Nat
  /\ schedule.decay \in Nat \union {Unset}
  /\ schedule.total \in Nat \union {Unset}

TotalSteps(schedule, trainingSteps) ==
  IF schedule.total = Unset THEN trainingSteps ELSE schedule.total

RampSteps(schedule, total) == IF schedule.warmup > total THEN total ELSE schedule.warmup

DecaySteps(schedule, total) ==
  LET room == total - RampSteps(schedule, total)
  IN IF schedule.decay = Unset \/ schedule.decay > room THEN room ELSE schedule.decay

(* A virtual last step keeps the rate of the last real one from dropping   *)
(* to the minimum.                                                         *)
StableSteps(schedule, total) ==
  total + 1 - RampSteps(schedule, total) - DecaySteps(schedule, total)

(* linear_warmup_stable_decay of the steps already taken.                  *)
Rate(schedule, trainingSteps, taken) ==
  LET total == TotalSteps(schedule, trainingSteps)
      ramp == RampSteps(schedule, total)
      decayStart == ramp + StableSteps(schedule, total)
  IN IF taken < ramp THEN [phase |-> "warmup", num |-> taken + 1, den |-> ramp]
     ELSE IF taken < decayStart THEN [phase |-> "stable", num |-> 1, den |-> 1]
     ELSE [phase |-> "decay", num |-> taken + 1 - decayStart,
           den |-> DecaySteps(schedule, total)]

(* A rate of the curves: not beyond the base rate, and above the minimum.  *)
WithinCurve(rate) ==
  CASE rate.phase = "warmup" -> 0 < rate.num /\ rate.num <= rate.den
    [] rate.phase = "stable" -> TRUE
    [] rate.phase = "decay" -> 0 < rate.num /\ rate.num < rate.den
===============================================================================
