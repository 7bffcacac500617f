--------------------------- MODULE RewardSchedule ---------------------------
(***************************************************************************)
(* get_belief_reward_weight of RebelRewardCalculator (belief_tracker.py):  *)
(* how much the rewards for beliefs count in an epoch.  They are warmed up *)
(* from nothing, then decay with the epochs or, in adaptive mode, with the *)
(* success rate of the last validation as well.                            *)
(*                                                                         *)
(* Weights are integers out of Unit.  Curve is the decay of the configured *)
(* method (linear, cosine, exponential) by epochs since decay_start, and   *)
(* Factor that of the adaptive rule by success rate: any curve that falls. *)
(***************************************************************************)
EXTENDS Integers

CONSTANTS
  Unit,          \* the weight 1.0
  MinWeight,     \* belief_reward_min_weight
  Warmup,        \* belief_reward_warmup_epochs
  DecayStart,    \* belief_reward_decay_start_epoch
  DecayEpochs,   \* belief_reward_decay_end_epoch - decay_start_epoch
  Curve,
  Adaptive,      \* belief_reward_adaptive_decay
  Rates,         \* success rates, out of anything that is ordered
  Factor,
  NoRate         \* current_success_rate is None

\* decay_end = decay_start would divide by zero once decay_start has passed.
ASSUME ScheduleAssumption ==
  /\ Unit \in Nat \ {0}
  /\ MinWeight \in 0 .. Unit
  /\ Warmup \in Nat /\ DecayStart \in Nat
  /\ DecayEpochs \in Nat \ {0}
  /\ Curve \in [0 .. DecayEpochs -> 0 .. Unit]
  /\ \A j, k \in 0 .. DecayEpochs : j <= k => Curve[k] <= Curve[j]
  /\ Adaptive \in BOOLEAN
  /\ Rates \subseteq Int
  /\ Factor \in [Rates -> 0 .. Unit]
  /\ \A r, s \in Rates : r <= s => Factor[s] <= Factor[r]
  /\ NoRate \notin Rates

AtLeast(w) == IF w < MinWeight THEN MinWeight ELSE w

\* The adaptive factor; nothing is known before the first validation.
ByRate(rate) == IF Adaptive /\ rate # NoRate THEN AtLeast(Factor[rate]) ELSE Unit

Elapsed(epoch) ==
  IF epoch - DecayStart > DecayEpochs THEN DecayEpochs ELSE epoch - DecayStart

\* The curve only takes over after decay_start, and in adaptive mode only if
\* it is below the factor.
Decayed(epoch, rate) ==
  LET curve == AtLeast(Curve[Elapsed(epoch)])
  IN  IF epoch <= DecayStart THEN ByRate(rate)
      ELSE IF curve < ByRate(rate) THEN curve ELSE ByRate(rate)

Weight(epoch, rate) ==
  IF epoch < Warmup THEN (Unit * epoch) \div Warmup
  ELSE AtLeast(Decayed(epoch, rate))

-----------------------------------------------------------------------------
\* From the end of the warm-up on the weight stays between the minimum and 1.
WeightInRange ==
  \A epoch \in Nat, rate \in Rates \cup {NoRate} :
    epoch >= Warmup => Weight(epoch, rate) \in MinWeight .. Unit

NotBetter(r, s) == r = s \/ (r \in Rates /\ s \in Rates /\ r <= s)

\* A later epoch never counts beliefs more than an earlier one, whatever the
\* curve, and a better success rate never more than a worse one.
WeightFalls ==
  \A d, e \in Nat, r, s \in Rates \cup {NoRate} :
    Warmup <= d /\ d <= e /\ NotBetter(r, s) => Weight(e, s) <= Weight(d, r)
=============================================================================
