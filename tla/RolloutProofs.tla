--------------------------- MODULE RolloutProofs ---------------------------
(***************************************************************************)
(* For every batch size, step budget, action set and reward: the rollout   *)
(* loop keeps its types, books exactly what the games paid, implements a   *)
(* set of independent episodes, and hands the trainer what each of them    *)
(* did.                                                                    *)
(*                                                                         *)
(* TypeOK is not inductive: that success_evaluator finds an active row,    *)
(* and that lengths stay within the budget, rests on how rows follow the   *)
(* episodes; and the books match the games at the loop's boundaries only   *)
(* because, inside an iteration, they differ by the answer just given.     *)
(***************************************************************************)
EXTENDS Rollout, ProofLemmas

\* The loop is only ever inside an iteration it has budget for, and the
\* first iteration is active in every environment.
Progress ==
  /\ pc \in {"generate", "step"} => step < MaxSteps
  /\ pc = "evaluate" => step > 0
  /\ \A i \in Envs :
       /\ pc = "step" => response[i] \in Actions
       /\ step > 0 => episodeLengths[i] > 0
       /\ isDone[i] => step > 0

\* Inside an iteration a worker's answer is ahead of the books.
Unbooked(i) ==
  IF pc = "step" /\ ~isDone[i] THEN EnvReward(answer[i]) ELSE 0

Books ==
  \A i \in Envs :
    /\ over[i] <=> isDone[i] \/ (pc = "step" /\ answer[i] \in {"lost", "won"})
    /\ envEpisodeRewards[i] =
         IF UseResultReward THEN score[i] - Unbooked(i) ELSE 0

IInv == TypeOK /\ RowsFollowEpisodes /\ Progress /\ Books

-----------------------------------------------------------------------------
LEMMA EnvRewardType == \A ans : EnvReward(ans) \in Int
  BY RolloutAssumption DEF EnvReward

\* success_evaluator finds its row: the last of the active prefix.
LEMMA DecisiveRow ==
  ASSUME TypeOK, RowsFollowEpisodes, NEW i \in Envs, episodeLengths[i] > 0
  PROVE  /\ Decisive(i) \in DOMAIN rows[i]
         /\ Decisive(i) = episodeLengths[i]
<1> DEFINE active == {k \in DOMAIN rows[i] : rows[i][k].active}
<1>1. rows[i] \in Seq(RowType) /\ Len(rows[i]) \in Nat
  BY DEF TypeOK
<1>2. DOMAIN rows[i] = 1 .. Len(rows[i])
  BY <1>1
<1>3. episodeLengths[i] \in Nat /\ episodeLengths[i] <= Len(rows[i])
  BY RolloutAssumption DEF TypeOK, RowsFollowEpisodes
<1>4. active = 1 .. episodeLengths[i]
  BY <1>1, <1>2, <1>3 DEF RowsFollowEpisodes
<1>5. Decisive(i) = CHOOSE k \in active : \A m \in active : m <= k
  BY DEF Decisive
<1>6. episodeLengths[i] \in active /\ \A m \in active : m <= episodeLengths[i]
  BY <1>3, <1>4
<1>7. Decisive(i) \in active /\ \A m \in active : m <= Decisive(i)
  <2> HIDE DEF active
  <2> QED BY <1>5, <1>6
<1> QED BY <1>2, <1>3, <1>4, <1>6, <1>7

LEMMA InitIInv == Init => IInv
  BY RolloutAssumption
  DEF Init, IInv, TypeOK, RowsFollowEpisodes, Progress, Books, Unbooked,
      EnvReward, Pending, Outcomes, Envs

LEMMA ResetIInv == IInv /\ Reset => IInv'
  BY RolloutAssumption
  DEF Reset, IInv, TypeOK, RowsFollowEpisodes, Progress, Books, Unbooked,
      EnvReward, Pending, Outcomes, Envs

LEMMA GenerateIInv == IInv /\ Generate => IInv'
<1> SUFFICES ASSUME IInv, Generate PROVE IInv'
  OBVIOUS
<1> USE DEF IInv, Generate, loopVars, gameVars
<1>1. TypeOK'
  BY DEF TypeOK, Outcomes, Pending
<1>2. RowsFollowEpisodes'
  BY DEF RowsFollowEpisodes
<1>3. Progress'
  BY DEF Progress
<1>4. Books'
  BY DEF Books, Unbooked, EnvReward, Pending, TypeOK
<1> QED BY <1>1, <1>2, <1>3, <1>4

LEMMA WorkerStepIInv ==
  ASSUME IInv, NEW i \in Envs, WorkerStep(i) PROVE IInv'
<1> USE DEF IInv, loopVars
<1> PICK ans \in Outcomes :
       /\ answer' = [answer EXCEPT ![i] = ans]
       /\ over' = [over EXCEPT ![i] = @ \/ ans # "playing"]
       /\ score' = [score EXCEPT
                      ![i] = IF over[i] THEN @ ELSE @ + EnvReward(ans)]
  BY DEF WorkerStep
<1>0. /\ pc = "step" /\ answer[i] = Pending
      /\ UNCHANGED <<pc, step, response, loopVars, success, output>>
  BY DEF WorkerStep
<1>1. TypeOK'
  BY <1>0, EnvRewardType DEF TypeOK, Outcomes
<1>2. RowsFollowEpisodes'
  BY <1>0 DEF RowsFollowEpisodes
<1>3. Progress'
  BY <1>0 DEF Progress
<1>4. Books'
  <2> SUFFICES ASSUME NEW j \in Envs
               PROVE  /\ over'[j] <=> isDone[j] \/ answer'[j] \in {"lost", "won"}
                      /\ envEpisodeRewards[j] =
                           IF UseResultReward
                             THEN score'[j] - (IF ~isDone[j]
                                                 THEN EnvReward(answer'[j])
                                                 ELSE 0)
                             ELSE 0
    BY <1>0 DEF Books, Unbooked, EnvReward
  <2>1. CASE j # i
    <3>1. answer'[j] = answer[j] /\ over'[j] = over[j] /\ score'[j] = score[j]
      BY <2>1 DEF TypeOK
    <3> QED BY <3>1, <1>0 DEF Books, Unbooked
  <2>2. CASE j = i
    <3>1. over[i] <=> isDone[i]
      BY <1>0 DEF Books, Pending
    <3>2. envEpisodeRewards[i] = IF UseResultReward THEN score[i] ELSE 0
        <4>1. Unbooked(i) = 0
        BY <1>0 DEF Unbooked, EnvReward, Pending
      <4>2. score[i] \in Int
        BY DEF TypeOK
      <4> QED BY <4>1, <4>2 DEF Books
    <3>3. answer'[i] = ans
      BY DEF TypeOK
    <3>4. over'[i] <=> isDone[i] \/ ans # "playing"
      BY <3>1 DEF TypeOK
    <3>5. score'[i] = IF isDone[i] THEN score[i] ELSE score[i] + EnvReward(ans)
      BY <3>1 DEF TypeOK
    <3>6. EnvReward(ans) \in Int /\ score[i] \in Int
      BY EnvRewardType DEF TypeOK
    <3>7. over'[j] <=> isDone[j] \/ answer'[j] \in {"lost", "won"}
      BY <2>2, <3>3, <3>4 DEF Outcomes
    <3>8. score[i] = score'[i] - (IF ~isDone[i] THEN EnvReward(ans) ELSE 0)
      BY <3>5, <3>6
    <3> QED
      BY <2>2, <3>2, <3>3, <3>7, <3>8
  <2> QED BY <2>1, <2>2
<1> QED BY <1>1, <1>2, <1>3, <1>4

LEMMA AccountIInv == IInv /\ Account => IInv'
<1> SUFFICES ASSUME IInv, Account PROVE IInv'
  OBVIOUS
<1> USE DEF IInv
<1> PICK intr \in [Envs -> Intrinsics] :
       /\ rows' = [i \in Envs |-> Append(rows[i], Row(i))]
       /\ episodeRewards' =
            [i \in Envs |-> episodeRewards[i]
                            + Masked(i, StepReward(answer[i], intr[i]))]
       /\ envEpisodeRewards' =
            [i \in Envs |-> envEpisodeRewards[i]
               + Masked(i, EnvOnly(StepReward(answer[i], intr[i]), intr[i]))]
  BY DEF Account
<1>0. /\ pc = "step" /\ step' = step + 1 /\ step < MaxSteps
      /\ \A i \in Envs : answer[i] \in Outcomes
      /\ episodeLengths' =
           [i \in Envs |-> episodeLengths[i] + Masked(i, 1)]
      /\ prevAction' =
           [i \in Envs |-> IF Active(i) THEN response[i] ELSE prevAction[i]]
      /\ isDone' = [i \in Envs |-> isDone[i] \/ answer[i] # "playing"]
      /\ pc' = IF LoopEnds(step', isDone') THEN "evaluate" ELSE "generate"
      /\ UNCHANGED <<response, answer, success, output, over, score>>
  BY DEF Account, gameVars, Progress, TypeOK
<1>1. \A i \in Envs : StepReward(answer[i], intr[i]) \in Int /\ intr[i] \in Int
  <2> SUFFICES ASSUME NEW i \in Envs
               PROVE  StepReward(answer[i], intr[i]) \in Int /\ intr[i] \in Int
    OBVIOUS
  <2>1. intr[i] \in Int
    BY RolloutAssumption
  <2>2. EnvReward(answer[i]) \in Int
    BY EnvRewardType
  <2> QED BY <2>1, <2>2 DEF StepReward
<1>2. \A i \in Envs : /\ episodeLengths[i] \in Nat
                      /\ episodeLengths[i] <= step
                      /\ ~isDone[i] => episodeLengths[i] = step
                      /\ step \in Nat /\ MaxSteps \in Nat
                      /\ rows[i] \in Seq(RowType)
                      /\ Len(rows[i]) = step
  BY RolloutAssumption DEF TypeOK, RowsFollowEpisodes
<1>3. \A i \in Envs : Row(i) \in RowType
  <2> SUFFICES ASSUME NEW i \in Envs PROVE Row(i) \in RowType
    OBVIOUS
  <2>1. response[i] \in Actions
    BY <1>0 DEF Progress
  <2> QED
    BY <2>1, <1>2 DEF Row, RowType, Active, IsRepeat, StepIndex, TypeOK
<1>4. TypeOK'
  <2>1. rows' \in [Envs -> Seq(RowType)]
    BY <1>2, <1>3
  <2>2. episodeRewards' \in [Envs -> Int] /\ envEpisodeRewards' \in [Envs -> Int]
    <3>1. ASSUME NEW i \in Envs
          PROVE  /\ episodeRewards[i] + Masked(i, StepReward(answer[i], intr[i]))
                      \in Int
                 /\ envEpisodeRewards[i]
                      + Masked(i, EnvOnly(StepReward(answer[i], intr[i]), intr[i]))
                      \in Int
      <4>1. episodeRewards[i] \in Int /\ envEpisodeRewards[i] \in Int
        BY DEF TypeOK
      <4>2. StepReward(answer[i], intr[i]) \in Int /\ intr[i] \in Int
        BY <1>1
      <4> QED BY <4>1, <4>2 DEF EnvOnly, Masked
    <3> QED BY <3>1
  <2>3. episodeLengths' \in [Envs -> 0 .. MaxSteps] /\ step' \in 0 .. MaxSteps
    <3>1. ASSUME NEW i \in Envs
          PROVE  episodeLengths[i] + Masked(i, 1) \in 0 .. MaxSteps
      BY <1>0, <1>2 DEF Masked
    <3>2. step' \in 0 .. MaxSteps
      BY <1>0, RolloutAssumption DEF TypeOK
    <3> QED BY <1>0, <3>1, <3>2
  <2>4. prevAction' \in [Envs -> Actions \cup {NoAction}]
    BY <1>0 DEF TypeOK
  <2>5. isDone' \in [Envs -> BOOLEAN]
    BY <1>0 DEF TypeOK
  <2> QED
    BY <1>0, <2>1, <2>2, <2>3, <2>4, <2>5 DEF TypeOK
<1>5. RowsFollowEpisodes'
  <2> SUFFICES ASSUME NEW i \in Envs
               PROVE  /\ Len(rows'[i]) = step'
                      /\ episodeLengths'[i] <= step'
                      /\ ~isDone'[i] => episodeLengths'[i] = step'
                      /\ \A k \in DOMAIN rows'[i] :
                           /\ rows'[i][k].active <=> k <= episodeLengths'[i]
                           /\ rows'[i][k].active => rows'[i][k].index = k - 1
    BY DEF RowsFollowEpisodes
  <2>1. /\ rows'[i] = Append(rows[i], Row(i))
        /\ Row(i).active = ~isDone[i]
        /\ Row(i).index = episodeLengths[i]
        /\ isDone'[i] <=> isDone[i] \/ answer[i] # "playing"
        /\ episodeLengths'[i] = episodeLengths[i] + (IF isDone[i] THEN 0 ELSE 1)
    BY <1>0 DEF Row, Active, StepIndex, Masked
  <2>2. /\ Len(rows'[i]) = step + 1
        /\ DOMAIN rows'[i] = 1 .. step + 1
        /\ rows'[i][step + 1] = Row(i)
        /\ \A k \in 1 .. step : rows'[i][k] = rows[i][k] /\ k \in DOMAIN rows[i]
    BY <1>2, <1>3, <2>1
  <2>3. ASSUME NEW k \in 1 .. step
        PROVE  /\ rows'[i][k].active <=> k <= episodeLengths'[i]
               /\ rows'[i][k].active => rows'[i][k].index = k - 1
    <3>1. /\ rows'[i][k] = rows[i][k]
          /\ rows[i][k].active <=> k <= episodeLengths[i]
          /\ rows[i][k].active => rows[i][k].index = k - 1
      BY <2>2 DEF RowsFollowEpisodes
    <3>2. k <= episodeLengths'[i] <=> k <= episodeLengths[i]
      BY <1>2, <2>1
    <3> QED BY <3>1, <3>2
  <2>4. /\ rows'[i][step + 1].active <=> step + 1 <= episodeLengths'[i]
        /\ rows'[i][step + 1].active => rows'[i][step + 1].index = step
    <3>1. step + 1 <= episodeLengths'[i] <=> ~isDone[i]
      BY <1>2, <2>1
    <3> QED BY <1>2, <2>1, <2>2, <3>1
  <2> QED BY <1>0, <1>2, <2>1, <2>2, <2>3, <2>4
<1>6. Progress'
  <2>1. \A i \in Envs : episodeLengths'[i] > 0
    BY <1>0, <1>2 DEF Progress, Active, Masked
  <2>2. pc' = "generate" => step' < MaxSteps
    BY <1>0, <1>2, RolloutAssumption DEF LoopEnds, TypeOK
  <2>3. step' > 0 /\ pc' \in {"generate", "evaluate"}
    BY <1>0 DEF TypeOK
  <2> QED BY <2>1, <2>2, <2>3 DEF Progress
<1>7. Books'
  <2> SUFFICES ASSUME NEW i \in Envs
               PROVE  /\ over[i] <=> isDone'[i]
                      /\ envEpisodeRewards'[i] =
                           IF UseResultReward THEN score[i] ELSE 0
    <3>1. pc' # "step" /\ over' = over /\ score' = score
      BY <1>0
    <3>2. \A i \in Envs : Unbooked(i)' = 0 /\ score[i] - 0 = score[i]
      BY <3>1 DEF Unbooked, TypeOK
    <3> QED BY <3>1, <3>2 DEF Books
  <2>1. over[i] <=> isDone[i] \/ answer[i] \in {"lost", "won"}
    BY <1>0 DEF Books
  <2>2. over[i] <=> isDone'[i]
    BY <1>0, <2>1 DEF Outcomes
  <2>3. envEpisodeRewards[i] =
          IF UseResultReward
            THEN score[i] - (IF ~isDone[i] THEN EnvReward(answer[i]) ELSE 0)
            ELSE 0
    BY <1>0 DEF Books, Unbooked
  <2>4. EnvOnly(StepReward(answer[i], intr[i]), intr[i]) =
          IF UseResultReward THEN EnvReward(answer[i]) ELSE 0
    BY <1>1, EnvRewardType DEF EnvOnly, StepReward
  <2>5. envEpisodeRewards'[i] =
          IF ~isDone[i]
            THEN envEpisodeRewards[i]
                 + (IF UseResultReward THEN EnvReward(answer[i]) ELSE 0)
            ELSE envEpisodeRewards[i]
    BY <2>4, <1>1 DEF Active, Masked, TypeOK
  <2>6. score[i] \in Int /\ EnvReward(answer[i]) \in Int
    BY EnvRewardType DEF TypeOK
  <2> QED BY <2>2, <2>3, <2>5, <2>6
<1> QED BY <1>4, <1>5, <1>6, <1>7

LEMMA GatherIInv == IInv /\ Gather => IInv'
<1> SUFFICES ASSUME IInv, Gather PROVE IInv'
  OBVIOUS
<1> USE DEF IInv
<1>0. /\ pc = "evaluate" /\ pc' = "idle"
      /\ success' = [i \in Envs |-> rows[i][Decisive(i)].won]
      /\ UNCHANGED <<step, response, answer, loopVars, gameVars>>
  BY DEF Gather
<1>1. success' \in [Envs -> BOOLEAN]
  <2> SUFFICES ASSUME NEW i \in Envs PROVE rows[i][Decisive(i)].won \in BOOLEAN
    BY <1>0
  <2>1. episodeLengths[i] > 0
    BY <1>0 DEF Progress
  <2>2. Decisive(i) \in DOMAIN rows[i]
    BY <2>1, DecisiveRow
  <2>3. rows[i] \in Seq(RowType)
    BY DEF TypeOK
  <2>4. rows[i][Decisive(i)] \in RowType
    BY <2>2, <2>3
  <2> QED BY <2>4 DEF RowType
<1>2. TypeOK'
  BY <1>0, <1>1 DEF TypeOK, loopVars, gameVars
<1>3. RowsFollowEpisodes'
  BY <1>0 DEF RowsFollowEpisodes, loopVars
<1>4. Progress'
  BY <1>0 DEF Progress, loopVars
<1>5. Books'
  BY <1>0 DEF Books, Unbooked, loopVars, gameVars
<1> QED BY <1>2, <1>3, <1>4, <1>5

\* Every step keeps the inductive invariant.
LEMMA StepIInv == IInv /\ [Next]_vars => IInv'
<1> SUFFICES ASSUME IInv, [Next]_vars PROVE IInv'
  OBVIOUS
<1>1. CASE Reset
  BY <1>1, ResetIInv
<1>2. CASE Generate
  BY <1>2, GenerateIInv
<1>3. CASE \E i \in Envs : WorkerStep(i)
  BY <1>3, WorkerStepIInv
<1>4. CASE Account
  BY <1>4, AccountIInv
<1>5. CASE Gather
  BY <1>5, GatherIInv
<1>6. CASE UNCHANGED vars
  BY <1>6 DEF vars, loopVars, gameVars, IInv, TypeOK, RowsFollowEpisodes,
              Progress, Books, Unbooked, EnvReward
<1> QED
  BY <1>1, <1>2, <1>3, <1>4, <1>5, <1>6 DEF Next

LEMMA Invariance == Spec => []IInv
  BY InitIInv, StepIInv, PTL DEF Spec

\* The loop, its arrays and the environments keep their types.
THEOREM TypeCorrect == Spec => []TypeOK
<1>1. IInv => TypeOK
  BY DEF IInv
<1> QED BY <1>1, Invariance, PTL

\* One row per iteration, active prefix, contiguous step indices, and
\* episode_lengths counts exactly the active rows.
THEOREM RowsCorrect == Spec => []RowsFollowEpisodes
<1>1. IInv => RowsFollowEpisodes
  BY DEF IInv
<1> QED BY <1>1, Invariance, PTL

\* At the loop's boundaries env_episode_rewards is what the games paid while
\* they ran, however many steps their environments took afterwards.
THEOREM RewardsCorrect == Spec => []RewardsMatchGames
<1>1. IInv => RewardsMatchGames
  <2> SUFFICES ASSUME IInv, pc # "step", NEW i \in Envs
               PROVE  /\ isDone[i] = over[i]
                      /\ envEpisodeRewards[i] =
                           IF UseResultReward THEN score[i] ELSE 0
    BY DEF RewardsMatchGames, AtBoundary
  <2>1. over[i] <=> isDone[i]
    BY DEF IInv, Books
  <2>2. over[i] \in BOOLEAN /\ isDone[i] \in BOOLEAN /\ score[i] \in Int
    BY DEF IInv, TypeOK
  <2>3. Unbooked(i) = 0
    BY DEF Unbooked
  <2>4. envEpisodeRewards[i] = IF UseResultReward THEN score[i] ELSE 0
    BY <2>2, <2>3 DEF IInv, Books
  <2> QED BY <2>1, <2>2, <2>4
<1> QED BY <1>1, Invariance, PTL

\* Between two resets no step moves the totals of a finished episode.
THEOREM FinishedStayFrozen == Spec => FinishedEpisodesAreFrozen
<1> DEFINE Frozen ==
      \A i \in Envs :
        isDone[i] /\ pc # "idle" =>
          /\ isDone'[i]
          /\ UNCHANGED <<episodeRewards[i], envEpisodeRewards[i],
                         episodeLengths[i], prevAction[i]>>
<1>1. IInv /\ Next => Frozen
  <2> SUFFICES ASSUME IInv, Next, NEW i \in Envs, isDone[i], pc # "idle"
               PROVE  /\ isDone'[i]
                      /\ UNCHANGED <<episodeRewards[i], envEpisodeRewards[i],
                                     episodeLengths[i], prevAction[i]>>
    OBVIOUS
  <2>1. CASE Reset
    BY <2>1 DEF Reset
  <2>2. CASE Generate \/ Gather \/ \E j \in Envs : WorkerStep(j)
    BY <2>2 DEF Generate, Gather, WorkerStep, loopVars
  <2>3. CASE Account
    <3>1. /\ episodeRewards[i] \in Int /\ envEpisodeRewards[i] \in Int
          /\ episodeLengths[i] \in Int
      BY RolloutAssumption DEF IInv, TypeOK
    <3>2. \A x : Masked(i, x) = 0
      BY DEF Masked, Active
    <3>3. isDone'[i] /\ prevAction'[i] = prevAction[i]
      BY <2>3 DEF Account, Active
    <3>4. episodeLengths'[i] = episodeLengths[i] + Masked(i, 1)
      BY <2>3 DEF Account
    <3>5. \E x, y : /\ episodeRewards'[i] = episodeRewards[i] + Masked(i, x)
                    /\ envEpisodeRewards'[i] = envEpisodeRewards[i] + Masked(i, y)
      BY <2>3 DEF Account
    <3> QED BY <3>1, <3>2, <3>3, <3>4, <3>5
  <2> QED BY <2>1, <2>2, <2>3 DEF Next
<1>2. IInv /\ [Next]_vars => [Frozen]_vars
  BY <1>1
<1> QED BY <1>2, Invariance, PTL DEF Spec, FinishedEpisodesAreFrozen

-----------------------------------------------------------------------------
(* The loop implements a set of unrelated episodes.                        *)

LEMMA InitRefines == Init => Abstract!Init
  BY DEF Init, Abstract!Init

\* One iteration is, in every environment, a step of a running episode or a
\* rest of an ended one.
LEMMA AccountRefines == IInv /\ Account => Abstract!Next
<1> SUFFICES ASSUME IInv, Account, NEW i \in Envs
             PROVE  Abstract!Play(i) \/ Abstract!Rest(i)
  BY DEF Abstract!Next, Abstract!Move
<1>1. /\ episodeLengths[i] \in Nat /\ episodeLengths[i] <= step
      /\ ~isDone[i] => episodeLengths[i] = step
      /\ step \in Nat /\ step < MaxSteps
      /\ isDone[i] => episodeLengths[i] > 0
  BY RolloutAssumption
  DEF IInv, TypeOK, RowsFollowEpisodes, Progress, Account
<1>2. PICK intr \in [Envs -> Intrinsics] :
        envEpisodeRewards' =
          [j \in Envs |-> envEpisodeRewards[j]
             + Masked(j, EnvOnly(StepReward(answer[j], intr[j]), intr[j]))]
  BY DEF Account
<1>3. /\ episodeLengths'[i] = episodeLengths[i] + Masked(i, 1)
      /\ isDone'[i] = (isDone[i] \/ answer[i] # "playing")
  BY DEF Account
<1>4. /\ envEpisodeRewards[i] \in Int /\ EnvReward(answer[i]) \in Int
      /\ intr[i] \in Int
  BY EnvRewardType, RolloutAssumption DEF IInv, TypeOK
<1>5. CASE isDone[i]
  <2>1. \A x : Masked(i, x) = 0
    BY <1>5 DEF Masked, Active
  <2>2. UNCHANGED <<episodeLengths[i], envEpisodeRewards[i]>>
    BY <1>1, <1>2, <1>3, <1>4, <2>1
  <2>3. isDone'[i] = isDone[i]
    BY <1>3, <1>5 DEF IInv, TypeOK
  <2> QED BY <1>1, <1>5, <2>2, <2>3 DEF Abstract!Rest
<1>6. CASE ~isDone[i]
  <2> DEFINE r == IF UseResultReward THEN EnvReward(answer[i]) ELSE 0
  <2>1. EnvOnly(StepReward(answer[i], intr[i]), intr[i]) = r
    BY <1>4 DEF EnvOnly, StepReward
  <2>2. envEpisodeRewards'[i] = envEpisodeRewards[i] + r
    BY <1>2, <1>6, <2>1 DEF Masked, Active
  <2>3. r \in (IF UseResultReward THEN {0, WinReward} ELSE {0})
    BY DEF EnvReward
  <2>4. r # 0 => isDone'[i]
    BY <1>3 DEF EnvReward
  <2>5. episodeLengths'[i] = episodeLengths[i] + 1
    BY <1>3, <1>6 DEF Masked, Active
  <2> HIDE DEF r
  <2> QED BY <1>1, <1>6, <2>2, <2>3, <2>4, <2>5 DEF Abstract!Play
<1> QED BY <1>5, <1>6

\* The batched, masked loop cannot be told from independent episodes.
THEOREM RolloutImplementsEpisodes == Spec => ImplementsEpisodes
<1>1. IInv /\ [Next]_vars => [Abstract!Next]_(Abstract!vars)
  <2> SUFFICES ASSUME IInv, [Next]_vars
               PROVE  Abstract!Next \/ UNCHANGED Abstract!vars
    OBVIOUS
  <2>1. CASE Reset
    BY <2>1 DEF Reset, Abstract!Next, Abstract!Restart
  <2>2. CASE Account
    BY <2>2, AccountRefines
  <2>3. CASE Generate \/ Gather \/ (\E i \in Envs : WorkerStep(i))
    BY <2>3 DEF Generate, Gather, WorkerStep, loopVars, Abstract!vars
  <2>4. CASE UNCHANGED vars
    BY <2>4 DEF vars, loopVars, Abstract!vars
  <2> QED BY <2>1, <2>2, <2>3, <2>4 DEF Next
<1> QED
  BY <1>1, InitRefines, Invariance, PTL DEF Spec, ImplementsEpisodes, Abstract!Spec

-----------------------------------------------------------------------------
(* The batch.                                                              *)

StampType ==
  [traj : Envs, uid : Nat, index : Nat, rewards : Int, total : Int, length : Nat]

\* The row of step x of episode i.
StampAt(i, x) ==
  [ traj    |-> i,
    uid     |-> Uid(i),
    index   |-> x,
    rewards |-> envEpisodeRewards[i],
    total   |-> episodeRewards[i],
    length  |-> episodeLengths[i] ]

LEMMA EpisodeFacts ==
  ASSUME TypeOK, RowsFollowEpisodes, NEW i \in Envs
  PROVE  /\ episodeLengths[i] \in Nat /\ step \in Nat
         /\ rows[i] \in Seq(RowType)
         /\ Len(rows[i]) = step /\ DOMAIN rows[i] = 1 .. step
         /\ episodeLengths[i] <= step
         /\ \A k \in 1 .. step :
              /\ KeepRow(rows[i][k]) <=> k <= episodeLengths[i]
              /\ KeepRow(rows[i][k]) => Stamp(i, rows[i][k]) = StampAt(i, k - 1)
<1>1. rows[i] \in Seq(RowType) /\ Len(rows[i]) = step /\ episodeLengths[i] <= step
      /\ step \in Nat /\ episodeLengths[i] \in Nat
  BY RolloutAssumption DEF TypeOK, RowsFollowEpisodes
<1>2. DOMAIN rows[i] = 1 .. step
  BY <1>1
<1> QED BY <1>1, <1>2 DEF RowsFollowEpisodes, KeepRow, Stamp, StampAt

LEMMA StampTyped ==
  ASSUME TypeOK, NEW i \in Envs, NEW x \in Nat
  PROVE  StampAt(i, x) \in StampType
<1>1. i \in Nat /\ envEpisodeRewards[i] \in Int /\ episodeRewards[i] \in Int
      /\ episodeLengths[i] \in Nat
  BY RolloutAssumption DEF TypeOK, Envs
<1>2. Uid(i) \in Nat
  BY <1>1, RolloutAssumption DEF Uid
<1> QED BY <1>1, <1>2 DEF StampAt, StampType

\* gather_rollout_data keeps of an episode its steps in time order.
LEMMA TrajRowsAre ==
  ASSUME TypeOK, RowsFollowEpisodes, NEW i \in Envs, step > 0
  PROVE  /\ TrajRows(i) \in Seq(StampType)
         /\ Len(TrajRows(i)) = episodeLengths[i]
         /\ \A k \in 1 .. episodeLengths[i] : TrajRows(i)[k] = StampAt(i, k - 1)
<1> DEFINE s == [k \in DOMAIN rows[i] |->
                   IF KeepRow(rows[i][k]) THEN <<Stamp(i, rows[i][k])>> ELSE <<>>]
           n == step
           L == episodeLengths[i]
<1>1. L \in Nat /\ n \in Nat /\ n > 0 /\ L <= n /\ DOMAIN rows[i] = 1 .. n
      /\ \A k \in 1 .. n : /\ KeepRow(rows[i][k]) <=> k <= L
                           /\ KeepRow(rows[i][k]) => Stamp(i, rows[i][k]) = StampAt(i, k - 1)
  BY EpisodeFacts
<1>2. ASSUME NEW k \in 1 .. n
      PROVE  s[k] = IF k <= L THEN <<StampAt(i, k - 1)>> ELSE <<>>
  BY <1>1
<1>3. \A k \in 1 .. n : StampAt(i, k - 1) \in StampType
  BY <1>1, StampTyped
<1>4. s \in Seq(Seq(StampType)) /\ Len(s) = n
  <2>1. DOMAIN s = 1 .. n
    BY <1>1
  <2>2. ASSUME NEW k \in 1 .. n PROVE s[k] \in Seq(StampType)
    <3>1. <<>> \in Seq(StampType) /\ <<StampAt(i, k - 1)>> \in Seq(StampType)
      <4>1. StampAt(i, k - 1) \in StampType
        BY <1>3
      <4> HIDE DEF StampAt
      <4> QED BY <4>1
    <3>2. s[k] = <<>> \/ s[k] = <<StampAt(i, k - 1)>>
      BY <1>2
    <3> HIDE DEF s
    <3> QED BY <3>1, <3>2
  <2>3. s = [k \in 1 .. n |-> s[k]]
    BY <1>1
  <2> HIDE DEF s
  <2> QED BY <1>1, <2>1, <2>2, <2>3
<1>5. TrajRows(i) = FlattenSeq(s)
  BY DEF TrajRows
<1> HIDE DEF s, n, L
<1>6. PICK f \in [1 .. n -> Seq(StampType)] :
        /\ f[1] = s[1]
        /\ \A k \in 2 .. n : f[k] = f[k - 1] \o s[k]
        /\ FlattenSeq(s) = f[n]
  <2>1. Len(s) > 0
    BY <1>1, <1>4
  <2> QED BY <1>4, <2>1, FlattenParts
<1> DEFINE Upto(m) == IF m <= L THEN m ELSE L
           T == {m \in Nat : m > 0 => /\ Len(f[m]) = Upto(m)
                                      /\ \A k \in 1 .. Upto(m) : f[m][k] = StampAt(i, k - 1)}
<1>7. 0 \in T
  OBVIOUS
<1>8. ASSUME NEW m \in 1 .. n, m - 1 \in T PROVE m \in T
  <2>1. CASE m = 1
    <3>1. f[1] = IF 1 <= L THEN <<StampAt(i, 0)>> ELSE <<>>
      BY <1>1, <1>2, <1>6
    <3>2. CASE 1 <= L
      <4>1. Len(f[1]) = 1 /\ f[1][1] = StampAt(i, 0)
        BY <3>1, <3>2
      <4>2. Upto(1) = 1 /\ \A k \in 1 .. 1 : k = 1
        BY <3>2
      <4>3. \A k \in 1 .. Upto(1) : f[1][k] = StampAt(i, k - 1)
        BY <4>1, <4>2
      <4> QED BY <2>1, <4>1, <4>2, <4>3
    <3>3. CASE ~(1 <= L)
      <4>1. L = 0 /\ f[1] = <<>>
        BY <1>1, <3>1, <3>3
      <4>2. Len(f[1]) = 0 /\ Upto(1) = 0 /\ 1 .. 0 = {}
        BY <4>1
      <4> QED BY <2>1, <4>2
    <3> QED BY <3>2, <3>3
  <2>2. CASE m # 1
    <3>1. m \in 2 .. n /\ m - 1 \in 1 .. n /\ m \in Nat
      BY <1>1, <2>2
    <3>2. f[m] = f[m - 1] \o s[m] /\ f[m - 1] \in Seq(StampType)
      BY <1>6, <3>1
    <3>3. Len(f[m - 1]) = Upto(m - 1)
          /\ \A k \in 1 .. Upto(m - 1) : f[m - 1][k] = StampAt(i, k - 1)
      BY <1>8, <3>1
    <3> HIDE DEF T
    <3>4. CASE m <= L
      <4>1. s[m] = <<StampAt(i, m - 1)>> /\ Upto(m - 1) = m - 1 /\ Upto(m) = m
        <5>1. s[m] = <<StampAt(i, m - 1)>>
          BY <1>2, <3>4
        <5>2. m - 1 <= L
          BY <1>1, <3>1, <3>4
        <5> QED BY <3>4, <5>1, <5>2
      <4>2. Len(f[m]) = m
        BY <3>1, <3>2, <3>3, <4>1
      <4>3. ASSUME NEW k \in 1 .. m PROVE f[m][k] = StampAt(i, k - 1)
        <5>1. CASE k = m
          BY <3>1, <3>2, <3>3, <4>1, <5>1
        <5>2. CASE k # m
          <6>1. k \in 1 .. m - 1
            BY <3>1, <5>2
          <6>2. f[m][k] = f[m - 1][k]
            BY <3>1, <3>2, <3>3, <4>1, <6>1
          <6> QED BY <3>3, <4>1, <6>1, <6>2
        <5> QED BY <5>1, <5>2
      <4> QED BY <3>1, <4>1, <4>2, <4>3 DEF T
    <3>5. CASE ~(m <= L)
      <4>1. s[m] = <<>> /\ Upto(m - 1) = L /\ Upto(m) = L
        <5>1. s[m] = <<>>
          BY <1>2, <3>5
        <5>2. m - 1 <= L => m - 1 = L
          BY <1>1, <3>1, <3>5
        <5> QED BY <3>5, <5>1, <5>2
      <4>2. f[m] = f[m - 1]
        BY <3>2, <4>1
      <4> QED BY <3>1, <3>3, <4>1, <4>2 DEF T
    <3> QED BY <3>4, <3>5
  <2> QED BY <2>1, <2>2
<1>9. n \in T
  <2>1. n \in Nat /\ n \in 0 .. n
    BY <1>1
  <2> HIDE DEF T
  <2>2. \A m \in 0 .. n : m \in T
    BY <1>7, <1>8, <2>1, Induct
  <2> QED BY <2>1, <2>2
<1>10. Upto(n) = L
  BY <1>1
<1>11. Len(f[n]) = L /\ \A k \in 1 .. L : f[n][k] = StampAt(i, k - 1)
  BY <1>1, <1>9, <1>10
<1>12. f[n] \in Seq(StampType)
  BY <1>1, <1>6
<1> QED BY <1>5, <1>6, <1>11, <1>12 DEF L

\* Where two rows of the batch stand to each other.
Before(u, v) == u.traj < v.traj \/ (u.traj = v.traj /\ u.index < v.index)

\* The rows of the first m episodes, in order, each once.
BatchOf(out, m) ==
  /\ \A p \in DOMAIN out : \E i \in 0 .. m - 1 : \E x \in 0 .. episodeLengths[i] - 1 :
       out[p] = StampAt(i, x)
  /\ \A p, q \in DOMAIN out : p < q => Before(out[p], out[q])
  /\ \A i \in 0 .. m - 1 : \A x \in 0 .. episodeLengths[i] - 1 :
       \E p \in DOMAIN out : out[p] = StampAt(i, x)

\* One more episode.
LEMMA BatchExtends ==
  ASSUME TypeOK, RowsFollowEpisodes, step > 0, NEW m \in Envs,
         NEW out \in Seq(StampType), BatchOf(out, m)
  PROVE  BatchOf(out \o TrajRows(m), m + 1)
<1> DEFINE t == TrajRows(m)
           new == out \o t
           L == episodeLengths[m]
<1>1. /\ m \in Nat /\ 0 <= m /\ m \in Int /\ L \in Nat
      /\ t \in Seq(StampType) /\ Len(t) = L /\ Len(out) \in Nat
      /\ DOMAIN out = 1 .. Len(out)
      /\ \A k \in 1 .. L : t[k] = StampAt(m, k - 1)
  <2>1. m \in Nat /\ 0 <= m /\ m \in Int
    BY RolloutAssumption DEF Envs
  <2>2. L \in Nat
    BY EpisodeFacts
  <2>3. t \in Seq(StampType) /\ Len(t) = L
        /\ \A k \in 1 .. L : t[k] = StampAt(m, k - 1)
    BY TrajRowsAre
  <2>4. Len(out) \in Nat /\ DOMAIN out = 1 .. Len(out)
    OBVIOUS
  <2> HIDE DEF t, L
  <2> QED BY <2>1, <2>2, <2>3, <2>4
<1>2. \A i \in 0 .. m - 1 : i \in Int /\ i < m /\ i \in 0 .. (m + 1) - 1
  BY <1>1
<1>3. m \in 0 .. (m + 1) - 1 /\ (m + 1) - 1 = m
  BY <1>1
<1> HIDE DEF t, L
<1>4. /\ Len(new) = Len(out) + L /\ DOMAIN new = 1 .. Len(out) + L
      /\ \A p \in 1 .. Len(out) : p \in DOMAIN new /\ new[p] = out[p]
      /\ \A k \in 1 .. L : Len(out) + k \in DOMAIN new /\ new[Len(out) + k] = t[k]
  BY <1>1
<1>5. ASSUME NEW p \in DOMAIN new
      PROVE  \/ p \in 1 .. Len(out) /\ new[p] = out[p]
             \/ p - Len(out) \in 1 .. L /\ new[p] = StampAt(m, p - Len(out) - 1)
  <2>1. p \in Int
    BY <1>1, <1>4
  <2>2. CASE p <= Len(out)
    BY <1>1, <1>4, <2>1, <2>2
  <2>3. CASE ~(p <= Len(out))
    <3>1. p - Len(out) \in 1 .. L /\ Len(out) + (p - Len(out)) = p
      BY <1>1, <1>4, <2>1, <2>3
    <3>2. new[p] = t[p - Len(out)]
      BY <1>4, <3>1
    <3> QED BY <1>1, <3>1, <3>2
  <2> QED BY <2>2, <2>3
<1> HIDE DEF new
<1>6. ASSUME NEW p \in DOMAIN new
      PROVE  \E i \in 0 .. (m + 1) - 1 : \E x \in 0 .. episodeLengths[i] - 1 :
               new[p] = StampAt(i, x)
  <2>1. CASE p \in 1 .. Len(out) /\ new[p] = out[p]
    <3>1. \E i \in 0 .. m - 1 : \E x \in 0 .. episodeLengths[i] - 1 : out[p] = StampAt(i, x)
      BY <1>1, <2>1 DEF BatchOf
    <3> QED BY <1>2, <2>1, <3>1
  <2>2. CASE p - Len(out) \in 1 .. L /\ new[p] = StampAt(m, p - Len(out) - 1)
    <3>1. p - Len(out) - 1 \in 0 .. L - 1
      BY <1>1, <2>2
    <3> QED BY <1>3, <2>2, <3>1 DEF L
  <2> QED BY <1>5, <2>1, <2>2
<1>7. ASSUME NEW p \in DOMAIN new, NEW q \in DOMAIN new, p < q
      PROVE  Before(new[p], new[q])
  <2>0. p \in Int /\ q \in Int
    BY <1>1, <1>4
  <2>1. CASE q \in 1 .. Len(out) /\ new[q] = out[q]
    <3>1. p \in 1 .. Len(out) /\ p \in DOMAIN out /\ q \in DOMAIN out
      BY <1>1, <1>4, <1>7, <2>0, <2>1
    <3>2. new[p] = out[p]
      BY <1>4, <3>1
    <3> QED BY <1>7, <2>1, <3>1, <3>2 DEF BatchOf
  <2>2. CASE q - Len(out) \in 1 .. L /\ new[q] = StampAt(m, q - Len(out) - 1)
    <3>1. CASE p \in 1 .. Len(out) /\ new[p] = out[p]
      <4>1. PICK i \in 0 .. m - 1 : \E x \in 0 .. episodeLengths[i] - 1 :
              new[p] = StampAt(i, x)
        BY <1>1, <3>1 DEF BatchOf
      <4>2. new[p].traj = i /\ new[q].traj = m
        BY <2>2, <4>1 DEF StampAt
      <4> QED BY <1>2, <4>2 DEF Before
    <3>2. CASE p - Len(out) \in 1 .. L /\ new[p] = StampAt(m, p - Len(out) - 1)
      <4>1. new[p].traj = m /\ new[q].traj = m /\ new[p].index = p - Len(out) - 1
            /\ new[q].index = q - Len(out) - 1
        BY <2>2, <3>2 DEF StampAt
      <4>2. p - Len(out) - 1 < q - Len(out) - 1
        BY <1>1, <1>7, <2>0
      <4> QED BY <4>1, <4>2 DEF Before
    <3> QED BY <1>5, <3>1, <3>2
  <2> QED BY <1>5, <2>1, <2>2
<1>8. ASSUME NEW i \in 0 .. (m + 1) - 1, NEW x \in 0 .. episodeLengths[i] - 1
      PROVE  \E p \in DOMAIN new : new[p] = StampAt(i, x)
  <2>1. CASE i = m
    <3>1. x + 1 \in 1 .. L /\ (x + 1) - 1 = x
      BY <1>1, <2>1 DEF L
    <3>2. t[x + 1] = StampAt(m, x)
      BY <1>1, <3>1
    <3> QED BY <1>4, <2>1, <3>1, <3>2 DEF new
  <2>2. CASE i # m
    <3>1. i \in 0 .. m - 1
      BY <1>1, <2>2
    <3>2. PICK p \in DOMAIN out : out[p] = StampAt(i, x)
      BY <3>1 DEF BatchOf
    <3> QED BY <1>1, <1>4, <3>2 DEF new
  <2> QED BY <2>1, <2>2
<1> QED BY <1>6, <1>7, <1>8 DEF BatchOf, new, t

\* What Gather hands on holds every step of every episode once, in order.
LEMMA GatheredInOrder ==
  ASSUME TypeOK, RowsFollowEpisodes, step > 0, NEW out,
         out = FlattenSeq([n \in 1 .. BatchSize |-> TrajRows(n - 1)])
  PROVE  out \in Seq(StampType) /\ BatchOf(out, BatchSize)
<1> DEFINE s == [k \in 1 .. BatchSize |-> TrajRows(k - 1)]
           n == BatchSize
<1>1. n \in Nat /\ n > 0 /\ \A k \in 1 .. n : k \in Nat /\ k - 1 \in Envs
  BY RolloutAssumption DEF Envs
<1>2. \A k \in 1 .. n : s[k] = TrajRows(k - 1) /\ s[k] \in Seq(StampType)
  BY <1>1, TrajRowsAre
<1>3. s \in Seq(Seq(StampType)) /\ Len(s) = n
  <2>1. DOMAIN s = 1 .. n /\ s = [k \in 1 .. n |-> s[k]]
    OBVIOUS
  <2> HIDE DEF s, n
  <2> QED BY <1>1, <1>2, <2>1
<1>4. out = FlattenSeq(s)
  OBVIOUS
<1> HIDE DEF s, n
<1>5. PICK f \in [1 .. n -> Seq(StampType)] :
        /\ f[1] = s[1]
        /\ \A k \in 2 .. n : f[k] = f[k - 1] \o s[k]
        /\ FlattenSeq(s) = f[n]
  <2>1. Len(s) > 0
    BY <1>1, <1>3
  <2> QED BY <1>3, <2>1, FlattenParts
<1> DEFINE T == {m \in Nat : m > 0 => BatchOf(f[m], m)}
<1>6. 0 \in T
  OBVIOUS
<1>7. ASSUME NEW m \in 1 .. n, m - 1 \in T PROVE m \in T
  <2>1. m \in Nat /\ m - 1 \in Envs /\ (m - 1) + 1 = m
    BY <1>1
  <2>2. CASE m = 1
    <3>1. <<>> \in Seq(StampType) /\ BatchOf(<<>>, 0)
      <4>1. 0 .. 0 - 1 = {} /\ DOMAIN <<>> = {}
        OBVIOUS
      <4>2. BatchOf(<<>>, 0)
        <5> DEFINE e == <<>>
        <5>1. DOMAIN e = {} /\ 0 .. 0 - 1 = {}
          BY <4>1
        <5> HIDE DEF e
        <5>2. BatchOf(e, 0)
          BY <5>1 DEF BatchOf
        <5> QED BY <5>2 DEF e
      <4> QED BY <4>2
    <3>2. BatchOf(<<>> \o TrajRows(0), 1)
      <4>1. 0 \in Envs /\ 0 + 1 = 1
        <5>1. 1 \in 1 .. n
          BY <1>1
        <5>2. 1 - 1 \in Envs
          BY <1>1, <5>1
        <5> QED BY <5>2
      <4>2. BatchOf(<<>> \o TrajRows(0), 0 + 1)
        BY <3>1, <4>1, BatchExtends
      <4> QED BY <4>1, <4>2
    <3>3. f[1] = TrajRows(0) /\ TrajRows(0) \in Seq(StampType)
      BY <1>1, <1>2, <1>5
    <3>4. <<>> \o TrajRows(0) = TrajRows(0)
      BY <3>3
    <3>5. BatchOf(f[1], 1)
      BY <3>2, <3>3, <3>4
    <3> QED BY <2>1, <2>2, <3>5
  <2>3. CASE m # 1
    <3>1. m \in 2 .. n /\ m - 1 \in 1 .. n /\ m - 1 > 0
      BY <1>1, <2>3
    <3>2. f[m] = f[m - 1] \o TrajRows(m - 1) /\ f[m - 1] \in Seq(StampType)
      BY <1>2, <1>5, <3>1
    <3>3. BatchOf(f[m - 1], m - 1)
      BY <1>7, <3>1
    <3> HIDE DEF T
    <3>4. BatchOf(f[m - 1] \o TrajRows(m - 1), (m - 1) + 1)
      BY <2>1, <3>2, <3>3, BatchExtends
    <3>5. BatchOf(f[m], m)
      BY <2>1, <3>2, <3>4
    <3> QED BY <2>1, <3>5 DEF T
  <2> QED BY <2>2, <2>3
<1>8. n \in T
  <2>1. n \in Nat /\ n \in 0 .. n
    BY <1>1
  <2> HIDE DEF T
  <2>2. \A m \in 0 .. n : m \in T
    BY <1>6, <1>7, <2>1, Induct
  <2> QED BY <2>1, <2>2
<1>9. BatchOf(f[n], n)
  BY <1>1, <1>8
<1>10. f[n] \in Seq(StampType)
  BY <1>1, <1>5
<1> QED BY <1>4, <1>5, <1>9, <1>10 DEF n

\* The rows of one episode are as many as it has steps: their indices count them.
LEMMA RowsOfOne ==
  ASSUME TypeOK, NEW out \in Seq(StampType), BatchOf(out, BatchSize), NEW i \in Envs
  PROVE  Cardinality({p \in DOMAIN out : out[p].traj = i}) = episodeLengths[i]
<1> DEFINE P == {p \in DOMAIN out : out[p].traj = i}
           L == episodeLengths[i]
           f == [p \in P |-> out[p].index]
<1>1. L \in Nat /\ BatchSize \in Nat /\ i \in 0 .. BatchSize - 1
  BY RolloutAssumption DEF TypeOK, Envs
<1>2. Len(out) \in Nat /\ DOMAIN out = 1 .. Len(out)
  OBVIOUS
<1>3. ASSUME NEW p \in P PROVE out[p].index \in 0 .. L - 1
  <2>1. PICK j \in 0 .. BatchSize - 1 : \E x \in 0 .. episodeLengths[j] - 1 :
          out[p] = StampAt(j, x)
    BY DEF BatchOf
  <2>2. PICK x \in 0 .. episodeLengths[j] - 1 : out[p] = StampAt(j, x)
    BY <2>1
  <2>3. j = i /\ out[p].index = x
    BY <2>2 DEF StampAt
  <2> QED BY <2>2, <2>3
<1>4. ASSUME NEW x \in 0 .. L - 1 PROVE \E p \in P : out[p].index = x
  <2>1. PICK p \in DOMAIN out : out[p] = StampAt(i, x)
    BY <1>1 DEF BatchOf
  <2>2. out[p].traj = i /\ out[p].index = x
    BY <2>1 DEF StampAt
  <2> QED BY <2>2
<1>5. ASSUME NEW p \in P, NEW q \in P, out[p].index = out[q].index PROVE p = q
  <2>1. p \in Int /\ q \in Int /\ out[p].index \in Int /\ out[p].traj = i /\ out[q].traj = i
        /\ i \in Int
    BY <1>1, <1>2, <1>3
  <2>2. ~Before(out[p], out[q]) /\ ~Before(out[q], out[p])
    BY <1>5, <2>1 DEF Before
  <2>3. ~(p < q) /\ ~(q < p)
    BY <2>2 DEF BatchOf
  <2> QED BY <2>1, <2>3
<1>6. IsFiniteSet(P)
  <2>1. IsFiniteSet(1 .. Len(out))
    BY <1>2, FS_Interval
  <2>2. P \in SUBSET (1 .. Len(out))
    BY <1>2
  <2> HIDE DEF P
  <2> QED BY <2>1, <2>2, FS_Subset
<1> HIDE DEF P, L
<1>7. f \in Bijection(P, 0 .. L - 1)
  <2>1. f \in [P -> 0 .. L - 1]
    BY <1>3
  <2>2. \A p, q \in P : f[p] = f[q] => p = q
    BY <1>5
  <2>3. \A x \in 0 .. L - 1 : \E p \in P : f[p] = x
    BY <1>4
  <2> HIDE DEF f
  <2>4. f \in Injection(P, 0 .. L - 1)
    BY <2>1, <2>2 DEF Injection, IsInjective
  <2>5. f \in Surjection(P, 0 .. L - 1)
    BY <2>1, <2>3 DEF Surjection
  <2> QED BY <2>4, <2>5 DEF Bijection
<1>8. ExistsBijection(P, 0 .. L - 1)
  BY <1>7 DEF ExistsBijection
<1>9. Cardinality(0 .. L - 1) = Cardinality(P)
  BY <1>6, <1>8, FS_Bijection
<1>10. Cardinality(0 .. L - 1) = L
  <2>1. 0 \in Int /\ L - 1 \in Int
    BY <1>1
  <2>2. Cardinality(0 .. L - 1) = IF 0 > L - 1 THEN 0 ELSE (L - 1) - 0 + 1
    BY <2>1, FS_Interval
  <2> QED BY <1>1, <2>2
<1> QED BY <1>9, <1>10 DEF P, L

LEMMA BatchInOrder == IInv /\ Gather => StepsInOrder'
<1> SUFFICES ASSUME IInv, Gather PROVE StepsInOrder'
  OBVIOUS
<1>1. /\ step > 0 /\ TypeOK /\ RowsFollowEpisodes
      /\ episodeLengths' = episodeLengths
      /\ output' = FlattenSeq([n \in 1 .. BatchSize |-> TrajRows(n - 1)])
  BY DEF Gather, IInv, Progress, loopVars
<1> DEFINE out == output'
<1>2. out \in Seq(StampType) /\ BatchOf(out, BatchSize)
  BY <1>1, GatheredInOrder
<1> HIDE DEF out
<1>3. BatchSize \in Nat /\ Envs = 0 .. BatchSize - 1
  BY RolloutAssumption DEF Envs
<1>4. ASSUME NEW i \in Envs
      PROVE  /\ \A s \in 0 .. episodeLengths[i] - 1 :
                  \E p \in DOMAIN out : out[p].traj = i /\ out[p].index = s
             /\ Cardinality({p \in DOMAIN out : out[p].traj = i}) = episodeLengths[i]
  <2>1. Cardinality({p \in DOMAIN out : out[p].traj = i}) = episodeLengths[i]
    BY <1>1, <1>2, RowsOfOne
  <2>2. ASSUME NEW s \in 0 .. episodeLengths[i] - 1
        PROVE  \E p \in DOMAIN out : out[p].traj = i /\ out[p].index = s
    <3>1. PICK p \in DOMAIN out : out[p] = StampAt(i, s)
      BY <1>2, <1>3 DEF BatchOf
    <3> QED BY <3>1 DEF StampAt
  <2> QED BY <2>1, <2>2
<1>5. ASSUME NEW p \in DOMAIN out
      PROVE  \E i \in Envs : \E x : out[p] = StampAt(i, x)
  BY <1>2, <1>3 DEF BatchOf
<1>6. ASSUME NEW p \in DOMAIN out, NEW q \in DOMAIN out
      PROVE  /\ p < q => \/ out[p].traj < out[q].traj
                         \/ /\ out[p].traj = out[q].traj
                            /\ out[p].index < out[q].index
             /\ out[p].traj = out[q].traj =>
                  /\ out[p].rewards = out[q].rewards
                  /\ out[p].total = out[q].total
                  /\ out[p].length = out[q].length
             /\ (out[p].uid = out[q].uid) <=>
                  (GroupN > 0 => out[p].traj \div GroupN = out[q].traj \div GroupN)
  <2>1. PICK i \in Envs : \E x : out[p] = StampAt(i, x)
    BY <1>5
  <2>2. PICK j \in Envs : \E x : out[q] = StampAt(j, x)
    BY <1>5
  <2>3. /\ out[p].traj = i /\ out[p].uid = Uid(i) /\ out[p].rewards = envEpisodeRewards[i]
        /\ out[p].total = episodeRewards[i] /\ out[p].length = episodeLengths[i]
    BY <2>1 DEF StampAt
  <2>4. /\ out[q].traj = j /\ out[q].uid = Uid(j) /\ out[q].rewards = envEpisodeRewards[j]
        /\ out[q].total = episodeRewards[j] /\ out[q].length = episodeLengths[j]
    BY <2>2 DEF StampAt
  <2>5. p < q => Before(out[p], out[q])
    BY <1>2 DEF BatchOf
  <2> QED BY <2>3, <2>4, <2>5 DEF Before, Uid
<1> QED BY <1>1, <1>4, <1>6 DEF StepsInOrder, out

-----------------------------------------------------------------------------
(* Repeats and success.                                                    *)

\* prev_action_text is the last action of the episode.
Previous ==
  \A i \in Envs :
    prevAction[i] = IF episodeLengths[i] = 0 THEN NoAction
                    ELSE rows[i][episodeLengths[i]].action

LastWon(i) == episodeLengths[i] > 0 /\ rows[i][episodeLengths[i]].won

\* A game has paid what its last row says, and the answer not yet booked.
Paid ==
  \A i \in Envs :
    /\ score[i] = (IF LastWon(i) THEN WinReward ELSE 0) + Unbooked(i)
    /\ ~isDone[i] => ~LastWon(i)

BInv == Previous /\ Paid /\ BatchIsEpisodes

LEMMA InitBatch == Init => BInv
<1> SUFFICES ASSUME Init PROVE BInv
  OBVIOUS
<1>1. Previous /\ StepsInOrder /\ RepeatsAreConsecutive /\ SuccessIsTheGamesOwn
  BY DEF Init, Previous, StepsInOrder, RepeatsAreConsecutive, SuccessIsTheGamesOwn
<1>2. Paid
  BY DEF Init, Paid, LastWon, Unbooked
<1> QED BY <1>1, <1>2 DEF BInv, BatchIsEpisodes

LEMMA ResetBatch == Reset => BInv'
<1> SUFFICES ASSUME Reset PROVE BInv'
  OBVIOUS
<1>1. Previous' /\ StepsInOrder' /\ RepeatsAreConsecutive' /\ SuccessIsTheGamesOwn'
  BY DEF Reset, Previous, StepsInOrder, RepeatsAreConsecutive, SuccessIsTheGamesOwn
<1>2. Paid'
  BY DEF Reset, Paid, LastWon, Unbooked
<1> QED BY <1>1, <1>2 DEF BInv, BatchIsEpisodes

LEMMA GenerateBatch == IInv /\ BInv /\ Generate => BInv'
<1> SUFFICES ASSUME IInv, BInv, Generate PROVE BInv'
  OBVIOUS
<1>1. Previous' /\ StepsInOrder' /\ RepeatsAreConsecutive' /\ SuccessIsTheGamesOwn'
  BY DEF Generate, BInv, BatchIsEpisodes, loopVars, Previous, StepsInOrder,
         RepeatsAreConsecutive, SuccessIsTheGamesOwn
<1>2. \A i \in Envs : Unbooked(i) = 0 /\ Unbooked(i)' = 0
  BY DEF Generate, Unbooked, EnvReward, Pending
<1>3. Paid'
  BY <1>2 DEF Generate, BInv, Paid, LastWon, loopVars, gameVars
<1> QED BY <1>1, <1>3 DEF BInv, BatchIsEpisodes

LEMMA WorkerBatch ==
  ASSUME IInv, BInv, NEW i \in Envs, WorkerStep(i) PROVE BInv'
<1>1. Previous' /\ StepsInOrder' /\ RepeatsAreConsecutive' /\ SuccessIsTheGamesOwn'
  BY DEF WorkerStep, BInv, BatchIsEpisodes, loopVars, Previous, StepsInOrder,
         RepeatsAreConsecutive, SuccessIsTheGamesOwn
<1> PICK ans \in Outcomes :
       /\ answer' = [answer EXCEPT ![i] = ans]
       /\ over' = [over EXCEPT ![i] = @ \/ ans # "playing"]
       /\ score' = [score EXCEPT
                      ![i] = IF over[i] THEN @ ELSE @ + EnvReward(ans)]
  BY DEF WorkerStep
<1>2. pc = "step" /\ pc' = "step" /\ answer[i] = Pending
      /\ UNCHANGED <<isDone, rows, episodeLengths>>
  BY DEF WorkerStep, loopVars
<1>3. Paid'
  <2> SUFFICES ASSUME NEW j \in Envs
               PROVE  /\ score'[j] = (IF LastWon(j) THEN WinReward ELSE 0) + Unbooked(j)'
                      /\ ~isDone[j] => ~LastWon(j)
    BY <1>2 DEF Paid, LastWon
  <2>1. /\ score[j] = (IF LastWon(j) THEN WinReward ELSE 0) + Unbooked(j)
        /\ ~isDone[j] => ~LastWon(j)
    BY DEF BInv, Paid
  <2>2. CASE j # i
    <3>1. answer'[j] = answer[j] /\ score'[j] = score[j]
      BY <2>2 DEF IInv, TypeOK
    <3>2. Unbooked(j)' = Unbooked(j)
      BY <1>2, <3>1 DEF Unbooked
    <3> QED BY <2>1, <3>1, <3>2
  <2>3. CASE j = i
    <3>1. over[i] <=> isDone[i]
      BY <1>2 DEF IInv, Books, Pending
    <3>2. score'[i] = IF isDone[i] THEN score[i] ELSE score[i] + EnvReward(ans)
      BY <3>1 DEF IInv, TypeOK
    <3>3. Unbooked(i) = 0
      BY <1>2 DEF Unbooked, EnvReward, Pending
    <3>4. Unbooked(i)' = IF isDone[i] THEN 0 ELSE EnvReward(ans)
      BY <1>2 DEF Unbooked, EnvReward, IInv, TypeOK
    <3>5. EnvReward(ans) \in Int /\ WinReward \in Int
      BY EnvRewardType, RolloutAssumption
    <3> QED BY <2>1, <2>3, <3>2, <3>3, <3>4, <3>5
  <2> QED BY <2>2, <2>3
<1> QED BY <1>1, <1>3 DEF BInv, BatchIsEpisodes

LEMMA AccountBatch == IInv /\ BInv /\ Account => BInv'
<1> SUFFICES ASSUME IInv, BInv, Account PROVE BInv'
  OBVIOUS
<1>1. /\ pc = "step" /\ pc' \in {"evaluate", "generate"} /\ score' = score
      /\ rows' = [i \in Envs |-> Append(rows[i], Row(i))]
      /\ episodeLengths' = [i \in Envs |-> episodeLengths[i] + Masked(i, 1)]
      /\ prevAction' = [i \in Envs |-> IF Active(i) THEN response[i] ELSE prevAction[i]]
      /\ isDone' = [i \in Envs |-> isDone[i] \/ answer[i] # "playing"]
  BY DEF Account, gameVars
<1>2. ASSUME NEW i \in Envs
      PROVE  /\ episodeLengths[i] \in Nat /\ step \in Nat
             /\ rows[i] \in Seq(RowType) /\ Len(rows[i]) = step
             /\ DOMAIN rows[i] = 1 .. step
             /\ episodeLengths[i] <= step
             /\ ~isDone[i] => episodeLengths[i] = step
             /\ response[i] \in Actions
             /\ Row(i) \in RowType
             /\ Row(i).active = ~isDone[i]
             /\ Row(i).action = response[i]
             /\ Row(i).repeat = (~isDone[i] /\ prevAction[i] = response[i])
             /\ Row(i).won = (answer[i] = "won")
  <2>1. response[i] \in Actions
    BY <1>1 DEF IInv, Progress
  <2>2. episodeLengths[i] \in Nat
    BY EpisodeFacts DEF IInv
  <2>3. Row(i) \in RowType
    BY <2>1, <2>2 DEF Row, RowType, Active, IsRepeat, StepIndex, IInv, TypeOK
  <2>4. ~isDone[i] => episodeLengths[i] = step
    BY DEF IInv, RowsFollowEpisodes
  <2> QED
    BY <2>1, <2>2, <2>3, <2>4, EpisodeFacts DEF IInv, Row, Active, IsRepeat
<1>3. ASSUME NEW i \in Envs
      PROVE  /\ DOMAIN rows'[i] = 1 .. step + 1
             /\ rows'[i][step + 1] = Row(i)
             /\ \A k \in 1 .. step : rows'[i][k] = rows[i][k]
  <2>1. rows'[i] = Append(rows[i], Row(i))
    BY <1>1
  <2> QED BY <1>2, <2>1
<1>4. ASSUME NEW i \in Envs
      PROVE  /\ isDone[i] => /\ episodeLengths'[i] = episodeLengths[i]
                             /\ episodeLengths[i] > 0
                             /\ rows'[i][episodeLengths[i]] = rows[i][episodeLengths[i]]
                             /\ prevAction'[i] = prevAction[i]
                             /\ isDone'[i]
             /\ ~isDone[i] => /\ episodeLengths'[i] = step + 1
                              /\ prevAction'[i] = response[i]
                              /\ isDone'[i] <=> answer[i] # "playing"
  <2>1. CASE isDone[i]
    <3>1. episodeLengths[i] > 0
      BY <1>2, <2>1 DEF IInv, Progress
    <3>2. episodeLengths[i] \in 1 .. step
      BY <1>2, <3>1
    <3>3. rows'[i][episodeLengths[i]] = rows[i][episodeLengths[i]]
      BY <1>3, <3>2
    <3>4. episodeLengths'[i] = episodeLengths[i]
      BY <1>1, <1>2, <2>1 DEF Masked, Active
    <3> QED BY <1>1, <2>1, <3>1, <3>3, <3>4 DEF Active
  <2>2. CASE ~isDone[i]
    BY <1>1, <1>2, <2>2 DEF Masked, Active
  <2> QED BY <2>1, <2>2
<1>5. Previous'
  <2> SUFFICES ASSUME NEW i \in Envs
               PROVE  prevAction'[i] = IF episodeLengths'[i] = 0 THEN NoAction
                                       ELSE rows'[i][episodeLengths'[i]].action
    BY DEF Previous
  <2>1. CASE isDone[i]
    <3>1. episodeLengths[i] # 0
      BY <1>2, <1>4, <2>1
    <3> QED BY <1>4, <2>1, <3>1 DEF BInv, Previous
  <2>2. CASE ~isDone[i]
    <3>1. episodeLengths'[i] = step + 1 /\ step + 1 # 0
      BY <1>2, <1>4, <2>2
    <3> QED BY <1>2, <1>3, <1>4, <2>2, <3>1
  <2> QED BY <2>1, <2>2
<1>6. Paid'
  <2> SUFFICES ASSUME NEW i \in Envs
               PROVE  /\ score[i] = (IF LastWon(i)' THEN WinReward ELSE 0) + Unbooked(i)'
                      /\ ~isDone'[i] => ~LastWon(i)'
    BY <1>1 DEF Paid
  <2>0. Unbooked(i)' = 0 /\ WinReward \in Int
    BY <1>1, RolloutAssumption DEF Unbooked
  <2>a. /\ score[i] = (IF LastWon(i) THEN WinReward ELSE 0) + Unbooked(i)
        /\ ~isDone[i] => ~LastWon(i)
    BY DEF BInv, Paid
  <2>1. CASE isDone[i]
    <3>1. LastWon(i)' <=> LastWon(i)
      BY <1>4, <2>1 DEF LastWon
    <3>2. Unbooked(i) = 0
      BY <2>1 DEF Unbooked
    <3> QED BY <1>4, <2>0, <2>1, <2>a, <3>1, <3>2
  <2>2. CASE ~isDone[i]
    <3>1. LastWon(i)' <=> answer[i] = "won"
      <4>1. episodeLengths'[i] = step + 1 /\ step + 1 > 0
        BY <1>2, <1>4, <2>2
      <4>2. rows'[i][step + 1].won = (answer[i] = "won")
        BY <1>2, <1>3
      <4> QED BY <4>1, <4>2 DEF LastWon
    <3>2. Unbooked(i) = IF answer[i] = "won" THEN WinReward ELSE 0
      BY <1>1, <2>2 DEF Unbooked, EnvReward
    <3>3. answer[i] = "won" => isDone'[i]
      BY <1>4, <2>2
    <3> QED BY <2>0, <2>2, <2>a, <3>1, <3>2, <3>3
  <2> QED BY <2>1, <2>2
<1>7. RepeatsAreConsecutive'
  <2> SUFFICES ASSUME NEW i \in Envs, NEW k \in DOMAIN rows'[i]
               PROVE  rows'[i][k].repeat <=>
                        /\ rows'[i][k].active
                        /\ k > 1
                        /\ rows'[i][k - 1].action = rows'[i][k].action
    BY DEF RepeatsAreConsecutive
  <2>1. k \in 1 .. step + 1 /\ step \in Nat
    BY <1>2, <1>3
  <2>2. CASE k <= step
    <3>1. k \in 1 .. step /\ k \in DOMAIN rows[i] /\ (k > 1 => k - 1 \in 1 .. step)
      BY <1>2, <2>1, <2>2
    <3>2. rows'[i][k] = rows[i][k] /\ (k > 1 => rows'[i][k - 1] = rows[i][k - 1])
      BY <1>3, <3>1
    <3> QED BY <3>1, <3>2 DEF BInv, BatchIsEpisodes, RepeatsAreConsecutive
  <2>3. CASE ~(k <= step)
    <3>1. k = step + 1 /\ (k > 1 => step > 0 /\ step \in 1 .. step /\ k - 1 = step)
          /\ (step > 0 => k > 1)
      BY <2>1, <2>3
    <3>2. rows'[i][k] = Row(i)
      BY <1>3, <3>1
    <3>3. CASE isDone[i]
      BY <1>2, <3>2, <3>3
    <3>4. CASE ~isDone[i]
      <4>1. episodeLengths[i] = step
        BY <1>2, <3>4
      <4>2. CASE step = 0
        <5>1. prevAction[i] = NoAction
          BY <4>1, <4>2 DEF BInv, Previous
        <5>2. prevAction[i] # response[i]
          BY <1>2, <5>1, RolloutAssumption
        <5>3. ~(k > 1)
          BY <3>1, <4>2
        <5> QED BY <1>2, <3>2, <5>2, <5>3
      <4>3. CASE step # 0
        <5>1. k > 1 /\ step > 0 /\ step \in 1 .. step /\ k - 1 = step
          BY <2>1, <3>1, <4>3
        <5>2. prevAction[i] = rows[i][step].action
          BY <4>1, <4>3 DEF BInv, Previous
        <5>3. rows'[i][k - 1] = rows[i][step]
          BY <1>3, <5>1
        <5>4. Row(i).active /\ Row(i).action = response[i]
              /\ (Row(i).repeat <=> prevAction[i] = response[i])
          BY <1>2, <3>4
        <5>5. rows'[i][k - 1].action = prevAction[i]
          BY <5>2, <5>3
        <5> QED BY <3>2, <5>1, <5>4, <5>5
      <4> QED BY <4>2, <4>3
    <3> QED BY <3>3, <3>4
  <2> QED BY <2>2, <2>3
<1>8. StepsInOrder' /\ SuccessIsTheGamesOwn'
  BY <1>1 DEF StepsInOrder, SuccessIsTheGamesOwn
<1> QED BY <1>5, <1>6, <1>7, <1>8 DEF BInv, BatchIsEpisodes

LEMMA GatherBatch == IInv /\ BInv /\ Gather => BInv'
<1> SUFFICES ASSUME IInv, BInv, Gather PROVE BInv'
  OBVIOUS
<1>1. /\ pc = "evaluate" /\ pc' = "idle"
      /\ success' = [i \in Envs |-> rows[i][Decisive(i)].won]
      /\ UNCHANGED <<isDone, rows, episodeLengths, prevAction, score, answer>>
  BY DEF Gather, loopVars, gameVars
<1>2. Previous' /\ RepeatsAreConsecutive'
  BY <1>1 DEF BInv, BatchIsEpisodes, Previous, RepeatsAreConsecutive
<1>3. \A i \in Envs : Unbooked(i) = 0 /\ Unbooked(i)' = 0
  BY <1>1 DEF Unbooked
<1>4. Paid'
  BY <1>1, <1>3 DEF BInv, Paid, LastWon
<1>5. ASSUME NEW i \in Envs PROVE success'[i] <=> score'[i] = WinReward
  <2>1. episodeLengths[i] > 0
    BY <1>1 DEF IInv, Progress
  <2>2. Decisive(i) = episodeLengths[i]
    BY <2>1, DecisiveRow DEF IInv
  <2>3. success'[i] <=> LastWon(i)
    BY <1>1, <2>1, <2>2 DEF LastWon
  <2>4. score[i] = IF LastWon(i) THEN WinReward ELSE 0
    BY <1>3, RolloutAssumption DEF BInv, Paid
  <2> QED BY <1>1, <2>3, <2>4, RolloutAssumption
<1>6. SuccessIsTheGamesOwn'
  BY <1>5 DEF SuccessIsTheGamesOwn
<1> QED BY <1>2, <1>4, <1>6, BatchInOrder DEF BInv, BatchIsEpisodes

LEMMA StepBatch == IInv /\ BInv /\ [Next]_vars => BInv'
<1> SUFFICES ASSUME IInv, BInv, [Next]_vars PROVE BInv'
  OBVIOUS
<1>1. CASE Next
  BY <1>1, ResetBatch, GenerateBatch, WorkerBatch, AccountBatch, GatherBatch DEF Next
<1>2. CASE UNCHANGED vars
  BY <1>2 DEF vars, loopVars, gameVars, BInv, Previous, Paid, LastWon, Unbooked,
              BatchIsEpisodes, StepsInOrder, RepeatsAreConsecutive, SuccessIsTheGamesOwn
<1> QED BY <1>1, <1>2

\* The trainer is handed what each episode did, for any batch and budget: every
\* step once and in order, stamped with its episode's totals, repeats flagged
\* against the episode's own last response, and success as the game had it
\* when it ended.
THEOREM BatchCorrect == Spec => []BatchIsEpisodes
<1>1. BInv => BatchIsEpisodes
  BY DEF BInv
<1> QED BY <1>1, InitBatch, StepBatch, Invariance, PTL DEF Spec
=============================================================================
