----------------------------- MODULE TurnReward -----------------------------
(***************************************************************************)
(* The intrinsic reward of one AlfWorld turn (env_package/alfworld/        *)
(* belief_tracker.py): r_task, r_pred and r_format beside r_state, and     *)
(* their sum weighted by the schedule.  The circumstances of the turn are  *)
(* fixed; a step revises what the model writes, so that action properties  *)
(* can say what a revision may do to the reward.                           *)
(*                                                                         *)
(* A text is a sequence of words.  Two tests read the model's output: the  *)
(* projection (projection.py), which decides whether the format is valid,  *)
(* and parse_belief, which decides whether there is a belief to score.     *)
(* They accept different texts: a single quote inside a JSON string fails  *)
(* the one, a block that only has keys of an older schema the other.       *)
(***************************************************************************)
EXTENDS StateReward, Integers, Ordering

CONSTANTS Vocabulary,   \* the words a prediction may have
          Short,        \* words that are no token: stop words, numbers, three letters or less
          Noise,        \* _HIGH_NOISE_UNIGRAMS
          Texts,        \* the observations that may answer the turn
          GamePhases,   \* what extract_phase_gt_alfworld may return (see Tracker)
          Full,         \* the weight 1.0
          Kept,         \* [weights -> component -> weight]: compute_component_weights
          MaxWords      \* bound: words of a prediction

Readers == {"projection", "parse_belief"}
Components == {"state", "task", "pred"}

ASSUME TurnAssumption ==
    /\ Short \cap Noise = {} /\ Full \in Nat \ {0}
    /\ \A w \in DOMAIN Kept : w \in 0..Full /\ Kept[w] \in [Components -> 0..Full]
    /\ {0, Full} \subseteq DOMAIN Kept /\ Kept[0] = [c \in Components |-> 0]
    /\ "find" \in GamePhases
    /\ MaxWords \in 1..3    \* at most five features: Scale is a multiple of their number

VARIABLES turn,     \* [told, gamePhase, won, weight]: what the environment and the schedule say
          output    \* [acceptedBy, tidy, available, phase, prediction]: what the model writes

turnVars == <<beliefVars, turn, output>>

\* The turn's own terms are varied where r_state is not.
TurnInit ==
    /\ BeliefInit
    /\ \/ /\ topic = "turn"
          /\ turn \in [told : Texts, gamePhase : GamePhases, won : BOOLEAN, weight : DOMAIN Kept]
          /\ output \in [acceptedBy : SUBSET Readers, tidy : BOOLEAN, available : BOOLEAN,
                         phase : {""}, prediction : {<<>>}]
       \/ /\ topic # "turn"
          /\ turn = [told |-> <<>>, gamePhase |-> "find", won |-> FALSE, weight |-> Full]
          /\ output = [acceptedBy |-> Readers, tidy |-> TRUE, available |-> TRUE,
                      phase |-> "", prediction |-> <<>>]

-----------------------------------------------------------------------------
(***************************************************************************)
(* r_pred                                                                  *)
(***************************************************************************)
Tokens ==
    LET long == Ordered({i \in DOMAIN output.prediction : output.prediction[i] \notin Short})
    IN [k \in DOMAIN long |-> output.prediction[long[k]]]

\* pairs of a position and the words that count there
Singles == {<<i, <<Tokens[i]>>>> : i \in DOMAIN Tokens}
Bigrams == {<<i, <<Tokens[i], Tokens[i + 1]>>>> : i \in 1..(Len(Tokens) - 1)}

\* mutant: the noise words count by themselves
BugFeatures == Singles \cup Bigrams
Features ==
    LET built == {f \in Singles : f[2][1] \notin Noise} \cup Bigrams
    IN IF built = {} THEN Singles ELSE built

Occurs(words) ==
    \E i \in 0..(Len(turn.told) - Len(words)) : SubSeq(turn.told, i + 1, i + Len(words)) = words

Found == {f \in Features : Occurs(f[2])}

PredReward ==
    IF turn.told = <<>> \/ Tokens = <<>> THEN 0
    ELSE (Scale * Cardinality(Found)) \div Cardinality(Features)

(***************************************************************************)
(* r_task and r_format                                                     *)
(***************************************************************************)
TaskReward == IF output.phase = (IF turn.won THEN "done" ELSE turn.gamePhase) THEN 1 ELSE 0

FormatValid == output.tidy /\ "projection" \in output.acceptedBy

\* in hundredths; delta = 0.1
FormatReward == IF ~FormatValid THEN -5 ELSE IF output.available THEN 1 ELSE -1

(***************************************************************************)
(* The sum, as a fraction over 1000 * Scale * Full: 0.3 r_state, 0.4       *)
(* r_task, 0.3 r_pred, each by the weight of the epoch, and 0.1 r_format.  *)
(***************************************************************************)
FormatPart == Scale * Full * FormatReward

BeliefPart ==
    LET kept == Kept[turn.weight] IN
    3 * StateReward * kept["state"]
      + 400 * Scale * TaskReward * kept["task"]
      + 300 * PredReward * kept["pred"]

\* mutant: the weight of the epoch applies to the format too
BugIntrinsic ==
    IF "parse_belief" \in output.acceptedBy
    THEN BeliefPart + (FormatPart * turn.weight) \div Full ELSE FormatPart
Intrinsic ==
    IF "parse_belief" \in output.acceptedBy THEN BeliefPart + FormatPart ELSE FormatPart

-----------------------------------------------------------------------------
Say(w) ==
    /\ topic = "turn"
    /\ Len(output.prediction) < MaxWords
    /\ output' = [output EXCEPT !.prediction = Append(@, w)]
    /\ UNCHANGED <<beliefVars, turn>>

NamePhase(p) ==
    /\ topic = "turn"
    /\ output' = [output EXCEPT !.phase = p]
    /\ UNCHANGED <<beliefVars, turn>>

TurnNext ==
    \/ BeliefNext /\ UNCHANGED <<turn, output>>
    \/ \E w \in Vocabulary : Say(w)
    \/ \E p \in GamePhases \cup {"done"} : NamePhase(p)

TurnSpec == TurnInit /\ [][TurnNext]_turnVars
-----------------------------------------------------------------------------
\* Each term is between 0 and 1 whatever the model writes, so that a belief
\* that can be read is worth something between nothing and 1 beside the reward
\* or penalty of the format, which is the same at every weight: leaving the
\* belief out, or making it unreadable, never pays.
BeliefsAreWorthWriting ==
    /\ ScoresInUnit
    /\ PredReward \in 0..Scale
    /\ Intrinsic - FormatPart \in 0..(1000 * Scale * Full)

\* "High-noise singleton words are only counted when they appear as part of a
\* matched bigram": one that the observation does not show next to the token
\* before it never raises r_pred.  A word that it does show there never lowers
\* it, and a word that is no token leaves it alone.
PredictionsPay ==
    [][\A w \in Vocabulary : Say(w) =>
          /\ w \in Short => PredReward' = PredReward
          /\ w \notin Short /\ Tokens # <<>> =>
               IF Occurs(<<Last(Tokens), w>>) THEN PredReward' >= PredReward
               ELSE w \in Noise => PredReward' <= PredReward]_turnVars

\* Telling the truth, or guessing, never lowers the reward, in the part about
\* the state and in the prediction.
TruthPays == RevisionsPay /\ PredictionsPay
=============================================================================
