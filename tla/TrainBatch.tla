----------------------------- MODULE TrainBatch -----------------------------
(***************************************************************************)
(* From rollout to advantages: RayPPOTrainer.fit takes the rows that       *)
(* gather_rollout_data has collected through a pipeline of steps that each *)
(* see only the batch, never the episodes.  Between them adjust_batch      *)
(* duplicates rows until the batch divides evenly and _balance_batch       *)
(* reorders it.  The estimators then read a bag of rows: GiGPO and ReBel   *)
(* take the order of the rows for the order of time, GRPO, RLOO and Pass@k *)
(* take every row, copies too, for a sample of its prompt.                 *)
(*                                                                         *)
(* Rewards are integers and means are kept as fractions [num, den]; the    *)
(* advantages are those without the division by a standard deviation, for  *)
(* rows instead of tokens.                                                 *)
(***************************************************************************)
EXTENDS Integers, SequencesExt, Ordering

CONSTANTS
  Trajs,          \* the trajectories of a rollout: 1 .. n
  Uids,           \* the ways the trajectories can be grouped by prompt
  Plays,          \* how an episode can go: won or not and, by step, r_cons,
                  \* validity of the action and the state it is grouped by
  WinReward,      \* what the environment pays for a won game
  Gamma,          \* config.algorithm.gamma
  Penalty,        \* invalid_action_penalty_coef, 0 for none
  Divisor,        \* size_divisor of adjust_batch
  WorldSize,      \* data parallel ranks of the actor
  BalanceBatch    \* config.trainer.balance_batch

ASSUME TrainBatchAssumption ==
  /\ IsFiniteSet(Trajs) /\ Trajs = 1 .. Cardinality(Trajs) /\ Trajs # {}
  /\ \A u \in Uids : DOMAIN u = Trajs
  /\ WorldSize \in Nat \ {0}
  /\ Divisor \in Nat \ {0} /\ Divisor % WorldSize = 0
  /\ BalanceBatch \in BOOLEAN
  /\ {Gamma, WinReward, Penalty} \subseteq Int
  /\ \A e \in Plays :
       /\ DOMAIN e = {"won", "cons", "valid", "state"}
       /\ e.won \in BOOLEAN
       /\ e.cons \in Seq(Int) /\ e.cons # <<>>
       /\ Len(e.cons) = Len(e.valid) /\ Len(e.cons) = Len(e.state)

VARIABLES
  pc,        \* where fit stands
  est,       \* adv_estimator
  uid,       \* uid[i]: the prompt that trajectory i answers
  play,      \* how each episode went
  batch      \* the rows, with the columns computed so far

vars == <<pc, est, uid, play, batch>>

-----------------------------------------------------------------------------
(* The columns that come with a row from the rollout.                      *)

Length(i) == Len(play[i].cons)

\* episode_rewards: what the environment paid, r_cons not included.
EnvReward(i) == IF play[i].won THEN WinReward ELSE 0

\* The intrinsic reward of step t.
RCons(i, t) == play[i].cons[t]

\* rewards: the environment pays with the step that ends the episode.
Reward(i, t) == RCons(i, t) + (IF t = Length(i) THEN EnvReward(i) ELSE 0)

PenaltyOf(row) == IF play[row.traj].valid[row.t] THEN 0 ELSE Penalty

Row(i, t) == [traj |-> i, t |-> t, stepReward |-> 0, score |-> 0,
              task |-> [num |-> 0, den |-> 1], step |-> [num |-> 0, den |-> 1]]

\* gather_rollout_data: trajectory by trajectory, each in time order.
Gathered ==
  FlattenSeq([i \in Trajs |-> [t \in 1 .. Length(i) |-> Row(i, t)]])

-----------------------------------------------------------------------------
(* Reading a batch.                                                        *)

Positions(i) == {p \in DOMAIN batch : batch[p].traj = i}
Present(u) == {i \in Trajs : uid[i] = u /\ Positions(i) # {}}

InOrder(i) == Ordered(Positions(i))

\* The powers of Gamma.
Discount[n \in Nat] == IF n = 0 THEN 1 ELSE Gamma * Discount[n - 1]

\* Mutant: the running return is carried forward.
BugReturns(v) ==
  LET g[k \in 0 .. Len(v)] == IF k = 0 THEN 0 ELSE v[k] + Gamma * g[k - 1]
  IN  [k \in DOMAIN v |-> g[k]]

\* Discounted sums of v, backward over a sequence: g[k] is over the last k.
Returns(v) ==
  LET g[k \in 0 .. Len(v)] ==
        IF k = 0 THEN 0 ELSE v[Len(v) + 1 - k] + Gamma * g[k - 1]
  IN  [k \in DOMAIN v |-> g[Len(v) + 1 - k]]

\* Rank of row p among the rows of its trajectory.
Rank(p) == Cardinality({q \in Positions(batch[p].traj) : q <= p})

\* The discounted return at row p of a column, over the rows of its
\* trajectory in batch order.
ReturnAt(column, p) ==
  LET own == InOrder(batch[p].traj)
  IN  Returns([k \in DOMAIN own |-> column[own[k]]])[Rank(p)]

DivisorOfMean(S) == Cardinality(S)

\* f[p] minus the mean of f; a lone row's mean is left to the caller.
MinusMean(f, p) ==
  [num |-> DivisorOfMean(DOMAIN f) * f[p] - SumFunction(f),
   den |-> DivisorOfMean(DOMAIN f)]

-----------------------------------------------------------------------------
(* What the estimators read.                                               *)

\* R_g of compute_rebel_advantage: the score of the trajectory's last row
\* in the batch, less the r_cons of all its rows.
SumCons(i) == SumFunction([p \in Positions(i) |-> RCons(i, batch[p].t)])
TaskScore(i) == batch[Max(Positions(i))].score - SumCons(i)

\* Mutant: the mean is taken over rows, as without traj_index.
BugRebelTask(p) ==
  LET group == {q \in DOMAIN batch : uid[batch[q].traj] = uid[batch[p].traj]}
  IN  MinusMean([q \in group |-> TaskScore(batch[q].traj)], p)

\* _norm_scores_by_uid: one score for each trajectory of the prompt.
RebelTask(p) ==
  LET i == batch[p].traj
      group == Present(uid[i])
  IN  IF Cardinality(group) = 1 THEN [num |-> TaskScore(i), den |-> 1]
      ELSE MinusMean([j \in group |-> TaskScore(j)], i)

\* id2score[index[i]] of the estimators that compute_advantage calls without
\* compute_mean_std_cross_steps: every row is a sample of its prompt.
RowScore(p) == batch[p].score
PromptRows(p) == {q \in DOMAIN batch : uid[batch[q].traj] = uid[batch[p].traj]}

\* episode_norm_reward of GiGPO, and GRPO with norm_adv_by_std_in_grpo off.
GrpoTask(p) ==
  LET group == PromptRows(p)
  IN  IF Cardinality(group) = 1 THEN [num |-> RowScore(p), den |-> 1]
      ELSE MinusMean([q \in group |-> RowScore(q)], p)

\* RLOO: the score less the mean of the other rows' scores.
RlooTask(p) ==
  LET group == PromptRows(p)
      n == Cardinality(group)
  IN  IF n = 1 THEN [num |-> RowScore(p), den |-> 1]
      ELSE [num |-> n * RowScore(p) - SumFunction([q \in group |-> RowScore(q)]),
            den |-> n - 1]

\* Pass@k: only the best row of a prompt, by what it is ahead of the second;
\* topk settles a tie either way, but then both are equally good.
PasskTask(p) ==
  LET others == PromptRows(p) \ {p}
      ahead == RowScore(p) - Max({RowScore(q) : q \in others})
  IN  [num |-> IF ahead > 0 THEN ahead ELSE 0, den |-> 1]
TooFewForPassk == est = "passk" /\ \E p \in DOMAIN batch : Cardinality(PromptRows(p)) < 2

\* build_belief_group, build_step_group: equal states of one prompt.
StateOf(row) == play[row.traj].state[row.t]
SameGroup(r, s) == /\ uid[r.traj] = uid[s.traj]
                   /\ StateOf(r) = StateOf(s)

\* Mutant: equal states are grouped across prompts.
BugStepGroup(p) == {q \in DOMAIN batch : StateOf(batch[q]) = StateOf(batch[p])}

StepGroup(p) == {q \in DOMAIN batch : SameGroup(batch[q], batch[p])}

\* compute_discounted_returns: R_env and R_belief.
EnvReturn(p) ==
  LET i == batch[p].traj
  IN  Discount[Cardinality(Positions(i)) - Rank(p)] * TaskScore(i)
BeliefReturn(p) ==
  ReturnAt([q \in DOMAIN batch |-> RCons(batch[q].traj, batch[q].t)], p)

\* The two are normalised apart and added; means add up likewise.
RebelStep(p) ==
  MinusMean([q \in StepGroup(p) |-> EnvReturn(q) + BeliefReturn(q)], p)
GigpoStep(p) ==
  MinusMean([q \in StepGroup(p) |-> batch[q].stepReward], p)

-----------------------------------------------------------------------------
Init ==
  /\ pc = "idle"
  /\ est \in {"gigpo", "rebel", "grpo", "rloo", "passk"}
  /\ uid \in Uids
  /\ play \in [Trajs -> Plays]
  /\ batch = <<>>

\* multi_turn_loop hands over the rows of a finished rollout.
Gather ==
  /\ pc = "idle"
  /\ batch' = Gathered
  /\ pc' = IF est = "gigpo" THEN "returns" ELSE "adjust"
  /\ UNCHANGED <<est, uid, play>>

\* compute_step_discounted_returns, for GiGPO only.
StepReturns ==
  /\ pc = "returns"
  /\ batch' = LET reward == [q \in DOMAIN batch |-> Reward(batch[q].traj, batch[q].t)]
              IN  [p \in DOMAIN batch |->
                     [batch[p] EXCEPT !.stepReward = ReturnAt(reward, p)]]
  /\ pc' = "adjust"
  /\ UNCHANGED <<est, uid, play>>

\* Mutant: the remainder is added, not what it lacks.
BugToAdd == Len(batch) % Divisor

\* adjust_batch, mode copy: pad to a multiple of Divisor with distinct rows
\* in random order; np.random.choice raises if there are too few of them.
ToAdd == (Divisor - (Len(batch) % Divisor)) % Divisor
Padded(dups) == batch \o [k \in DOMAIN dups |-> batch[dups[k]]]

AdjustBatch ==
  /\ pc = "adjust"
  /\ \/ /\ ToAdd > Len(batch)
        /\ pc' = "failed"
        /\ UNCHANGED batch
     \/ /\ \E D \in kSubset(ToAdd, DOMAIN batch) :
             \E dups \in SetToSeqs(D) : batch' = Padded(dups)
        /\ pc' = IF BalanceBatch THEN "balance" ELSE "score"
  /\ UNCHANGED <<est, uid, play>>

\* _balance_batch: get_seqlen_balanced_partitions deals the rows out to the
\* ranks, equally many to each and in order within each.  Which row goes
\* where depends on the lengths in tokens and is left open.
Deals ==
  {deal \in [DOMAIN batch -> 1 .. WorldSize] :
     \A r \in 1 .. WorldSize :
       Cardinality({p \in DOMAIN batch : deal[p] = r})
         = Len(batch) \div WorldSize}
Dealt(deal) ==
  FlattenSeq([r \in 1 .. WorldSize |->
    LET own == Ordered({p \in DOMAIN batch : deal[p] = r})
    IN  [k \in DOMAIN own |-> batch[own[k]]]])

Balance ==
  /\ pc = "balance"
  /\ \E deal \in Deals : batch' = Dealt(deal)
  /\ pc' = "score"
  /\ UNCHANGED <<est, uid, play>>

\* EpisodeRewardManager puts the environment's reward on the last token of
\* every row, apply_invalid_action_penalty takes the penalty off the row's
\* score and off its step reward.
Score ==
  /\ pc = "score"
  /\ batch' = [p \in DOMAIN batch |->
                 [batch[p] EXCEPT
                    !.score = EnvReward(batch[p].traj) - PenaltyOf(batch[p]),
                    !.stepReward = IF est = "gigpo"
                                   THEN @ - PenaltyOf(batch[p]) ELSE @]]
  /\ pc' = "advantage"
  /\ UNCHANGED <<est, uid, play>>

TaskOf(p) == CASE est \in {"gigpo", "grpo"} -> GrpoTask(p)
               [] est = "rebel" -> RebelTask(p)
               [] est = "rloo"  -> RlooTask(p)
               [] est = "passk" -> PasskTask(p)

\* compute_advantage; only GiGPO and ReBel have a step advantage, and Pass@k
\* raises on a prompt with a single row.
Advantage ==
  /\ pc = "advantage"
  /\ IF TooFewForPassk
     THEN pc' = "failed" /\ UNCHANGED batch
     ELSE /\ batch' = [p \in DOMAIN batch |->
                 [batch[p] EXCEPT
                    !.task = TaskOf(p),
                    !.step = IF est = "gigpo" THEN GigpoStep(p)
                             ELSE IF est = "rebel" THEN RebelStep(p) ELSE @]]
          /\ pc' = "done"
  /\ UNCHANGED <<est, uid, play>>

Next == Gather \/ StepReturns \/ AdjustBatch \/ Balance \/ Score \/ Advantage

Spec == Init /\ [][Next]_vars

-----------------------------------------------------------------------------
(* What the batch promises.                                                *)

Occurrences(i, t) == {p \in DOMAIN batch : batch[p].traj = i /\ batch[p].t = t}
Steps == UNION {{i} \X (1 .. Length(i)) : i \in Trajs}

\* However the batch was padded and dealt out, every step of the rollout is
\* trained on once or twice, and the ranks get equally many rows.
EveryStepTrains ==
  pc \in {"score", "advantage", "done"} =>
    /\ Len(batch) % Divisor = 0
    /\ \A s \in Steps : Cardinality(Occurrences(s[1], s[2])) \in {1, 2}

\* The discounted sum of a reward per step, from step t on.
FromStep(reward, t) ==
  SumFunction([k \in t .. Len(reward) |-> Discount[k - t] * reward[k]])
Rewards(i) == [t \in 1 .. Length(i) |-> Reward(i, t)]

\* No row was copied or moved.
Untouched ==
  /\ Len(batch) = Len(Gathered)
  /\ \A p, q \in DOMAIN batch :
       batch[p].traj = batch[q].traj /\ p < q => batch[p].t < batch[q].t

\* The return of a step is the discounted sum over the later steps of its
\* own episode, whatever copies the batch holds and in whatever order: for
\* GiGPO, which computes it before the batch is padded, always; for ReBel
\* as long as no row was copied or moved.
ReturnsFollowTime ==
  pc = "done" =>
    \A p \in DOMAIN batch :
      LET row == batch[p]
      IN  /\ est = "gigpo" =>
               row.stepReward = FromStep(Rewards(row.traj), row.t) - PenaltyOf(row)
          /\ est = "rebel" /\ Untouched =>
               BeliefReturn(p) = FromStep(play[row.traj].cons, row.t)

\* ReBel's task advantages of one prompt cancel out, every trajectory
\* counted once in the mean however many rows it has and whatever copies
\* were made of them, and the rows of a trajectory agree on it.  The score
\* that is averaged does depend on copies: TaskScore takes the r_cons of a
\* copied row twice.
TrajectoriesCancel ==
  pc = "done" /\ est = "rebel" =>
    /\ \A p, q \in DOMAIN batch :
         batch[p].traj = batch[q].traj => batch[p].task = batch[q].task
    /\ \A i \in Trajs :
         LET group == {j \in Trajs : uid[j] = uid[i]}
         IN  Cardinality(group) > 1 =>
               SumFunction([j \in group |-> batch[Max(Positions(j))].task.num]) = 0

\* With the other estimators it is the rows of a prompt that cancel out, a
\* long episode weighing as much as it has rows and a copied row twice.
RowsCancel ==
  pc = "done" /\ est \in {"gigpo", "grpo", "rloo"} =>
    \A p \in DOMAIN batch :
      LET group == PromptRows(p)
      IN  Cardinality(group) > 1 => SumFunction([q \in group |-> batch[q].task.num]) = 0

\* The advantages of a prompt are relative to one another: they sum to
\* nothing, over the trajectories or over the rows that were averaged.
TaskAdvantagesCancel == TrajectoriesCancel /\ RowsCancel

\* A step whose state no other step of its prompt shares has nothing to be
\* compared with and gets no step advantage, be it copied (GiGPO: a copy has
\* the same return) or not.
LoneStepsAreNeutral ==
  pc = "done" /\ est \in {"gigpo", "rebel"} =>
    \A p \in DOMAIN batch :
      LET row == batch[p]
      IN  /\ \A q \in DOMAIN batch : SameGroup(batch[q], row) =>
               batch[q].traj = row.traj /\ batch[q].t = row.t
          /\ est = "gigpo" \/ Len(batch) = Len(Gathered)
          => row.step.num = 0

\* core_rebel.py:636: R_g is the environment's reward, without the rewards
\* for beliefs (where no action was invalid, so that no penalty applies).
TaskScoreIsTheEnvs ==
  pc = "done" /\ est = "rebel" =>
    \A i \in Trajs :
      (\A t \in 1 .. Length(i) : play[i].valid[t]) => TaskScore(i) = EnvReward(i)

\* core_algos.py:188: of a group the best response gets the advantage
\* r_max - r_second_max.  A response is a whole trajectory here: one whose
\* rows all score more than any row of the others of its prompt, of which
\* there must be one, ought to be rewarded somewhere.
BestResponseIsRewarded ==
  pc = "done" /\ est = "passk" =>
    \A i \in Trajs :
      LET rivals == {q \in DOMAIN batch : /\ uid[batch[q].traj] = uid[i]
                                         /\ batch[q].traj # i}
      IN  /\ rivals # {}
          /\ \A p \in Positions(i), q \in rivals : batch[p].score > batch[q].score
          => \E p \in Positions(i) : batch[p].task.num > 0

\* core_rebel.py:463: R_belief[t] = belief_reward[t] + gamma * R_belief[t+1].
BeliefReturnsFollowTime ==
  pc = "done" /\ est = "rebel" =>
    \A p \in DOMAIN batch :
      BeliefReturn(p) = FromStep(play[batch[p].traj].cons, batch[p].t)
=============================================================================
