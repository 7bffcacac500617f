------------------------------- MODULE Belief -------------------------------
(***************************************************************************)
(* The belief pipeline of AlfWorldEnvironmentManager (environments/        *)
(* env_manager.py) for one environment: what reset and step keep between   *)
(* two turns of the model, how a parsed belief is merged into the          *)
(* cumulative belief, and what the next prompt is built from.  step treats *)
(* each environment's entries alone, so one environment stands for all.    *)
(*                                                                         *)
(* The observation of turn t is the number t.  A dict of the belief        *)
(* ("objects"; "states" is merged in the same way) is a function, a list   *)
(* without repetitions a set.  A field the model wrote with another JSON   *)
(* type than the one asked for is NotAList.                                *)
(***************************************************************************)
EXTENDS Naturals, Sequences, FiniteSets, SequencesExt

CONSTANTS Places, Things,
          Phases,         \* the non-empty values of task.phase; "find" is one
          ObjectMaps,     \* the "objects" dicts the model may write
          NotAList, None,
          AlwaysLists,    \* TRUE: the model writes lists where lists are asked for
          MaxTurns        \* bound: turns of an episode

ASSUME BeliefAssumption ==
    /\ "find" \in Phases /\ "" \notin Phases
    /\ \A m \in ObjectMaps : DOMAIN m \subseteq Things
    /\ \A S \in SUBSET Places : NotAList # S
    /\ AlwaysLists \in BOOLEAN /\ MaxTurns \in Nat

Lists == SUBSET Places \cup (IF AlwaysLists THEN {} ELSE {NotAList})
\* BeliefStateParser.parse_belief: a record, or None
Beliefs == [objects : ObjectMaps, visited : Lists, candidates : Lists, phase : Phases \cup {""}]

VARIABLES
    cum,        \* cumulative_beliefs[i]
    buffer,     \* buffers[i]: the records of save_to_history_buffer
    pre,        \* pre_text_obs[i]
    beliefs,    \* belief_history[i]
    gtLen,      \* len(gt_history[i])
    stepCount,  \* step_counts[i]
    infos,      \* the info['cumulative_belief_state'] returned so far
    prompt      \* what the last text observation was built from

vars == <<cum, buffer, pre, beliefs, gtLen, stepCount, infos, prompt>>

HistoryLength == 2

-----------------------------------------------------------------------------
(***************************************************************************)
(* _update_cumulative_belief                                               *)
(***************************************************************************)
\* dict.update: the last write wins
MergeDict(old, new) == [x \in DOMAIN old \cup DOMAIN new |-> IF x \in DOMAIN new THEN new[x] ELSE old[x]]

MergeVisited(b) == IF b.visited = NotAList THEN cum.visited ELSE cum.visited \cup b.visited

MergeCandidates(b) ==
    IF b.candidates = NotAList THEN cum.candidates
    ELSE (cum.candidates \cup b.candidates) \ MergeVisited(b)

Merge(b) == [objects    |-> MergeDict(cum.objects, b.objects),
             visited    |-> MergeVisited(b),
             candidates |-> MergeCandidates(b),
             phase      |-> IF b.phase = "" THEN cum.phase ELSE b.phase]

(***************************************************************************)
(* build_text_obs                                                          *)
(***************************************************************************)
InitialPrompt == [belief |-> None, window |-> <<>>, obs |-> 0]
Window(buf) == SubSeq(buf, IF Len(buf) > HistoryLength THEN Len(buf) - HistoryLength + 1 ELSE 1, Len(buf))
PromptOf(c, buf, obs) == [belief |-> c, window |-> Window(buf), obs |-> obs]

(***************************************************************************)
(* reset: every receptacle of the room is visible and none visited.        *)
(***************************************************************************)
FreshCum == [objects |-> <<>>, visited |-> {}, candidates |-> Places, phase |-> "find"]

Init ==
    /\ cum = FreshCum
    /\ buffer = <<>> /\ pre = 0
    /\ beliefs = <<>> /\ gtLen = 1 /\ stepCount = 0
    /\ infos = <<>>
    /\ prompt = InitialPrompt

\* mutant: the cumulative beliefs of the last episode are kept
BugCumAtReset == cum
CumAtReset == FreshCum

Reset ==
    /\ cum' = CumAtReset
    /\ buffer' = <<>> /\ pre' = 0
    /\ beliefs' = <<>> /\ gtLen' = 1 /\ stepCount' = 0
    /\ infos' = <<>>
    /\ prompt' = InitialPrompt

\* mutant: pre_text_obs is replaced before the record is saved
BugSaved == Append(buffer, [obs |-> pre + 1])
\* save_to_history_buffer(self.pre_text_obs, ...)
Saved == Append(buffer, [obs |-> pre])

Counted(b) == IF b = None THEN stepCount ELSE stepCount + 1

Step(b) ==
    /\ Len(buffer) < MaxTurns
    /\ buffer' = Saved
    /\ pre' = pre + 1
    /\ prompt' = PromptOf(cum, buffer', pre')
    /\ gtLen' = gtLen + 1
    /\ beliefs' = Append(beliefs, b)
    /\ cum' = IF b = None THEN cum ELSE Merge(b)
    /\ infos' = Append(infos, cum')
    /\ stepCount' = Counted(b)

Next == Reset \/ \E b \in Beliefs \cup {None} : Step(b)

Spec == Init /\ [][Next]_vars
-----------------------------------------------------------------------------
\* The turns whose belief could be parsed.
Parsed == {k \in DOMAIN beliefs : beliefs[k] # None}

\* The four records of an episode stay aligned, whatever the model writes: one
\* entry per turn in the buffer, the belief history and the infos, one more in
\* the ground-truth history, and step_counts counts the parsed beliefs.
HistoriesAligned ==
    /\ Len(beliefs) = Len(buffer) /\ Len(infos) = Len(buffer)
    /\ gtLen = Len(buffer) + 1
    /\ stepCount = Cardinality(Parsed)

(***************************************************************************)
(* A declarative reading of the beliefs of the whole episode.              *)
(***************************************************************************)
VisitedBy(n) ==
    UNION {beliefs[k].visited : k \in {j \in Parsed : j <= n /\ beliefs[j].visited # NotAList}}
Listings == {k \in Parsed : beliefs[k].candidates # NotAList}
Named == UNION {beliefs[k].candidates : k \in Listings}
Mentions(o) == {k \in Parsed : o \in DOMAIN beliefs[k].objects}
Phased == {k \in Parsed : beliefs[k].phase # ""}

\* The last turn of a set of turns, if there is one.
Latest(S) == {k \in S : \A j \in S : j <= k}

\* The belief carried from turn to turn is a function of what the model wrote
\* in this episode and of nothing else: each object is where it was last said to
\* be, the visits add up, a candidate is one ever named and not visited by the
\* last list of candidates, the phase is the last one given; a turn without a
\* readable belief changes nothing, and nothing survives a reset.
CumulativeIsReplay ==
    /\ DOMAIN cum.objects = {o \in Things : Mentions(o) # {}}
    /\ \A o \in Things : \A k \in Latest(Mentions(o)) : cum.objects[o] = beliefs[k].objects[o]
    /\ cum.visited = VisitedBy(Len(beliefs))
    /\ cum.candidates = (Places \cup Named) \ UNION {VisitedBy(k) : k \in Latest(Listings)}
    /\ Phased = {} => cum.phase = "find"
    /\ \A k \in Latest(Phased) : cum.phase = beliefs[k].phase

\* The prompt of turn t shows the observation of turn t, the at most two turns
\* before it, each with the observation it answered, and the cumulative belief
\* as it stood one turn earlier (the one of reset at turn 1, none at turn 0).
PromptIsOneTurnBehind ==
    LET t == Len(buffer) IN
    /\ prompt.obs = t
    /\ Len(prompt.window) = (IF t < HistoryLength THEN t ELSE HistoryLength)
    /\ \A j \in DOMAIN prompt.window : prompt.window[j].obs = t - Len(prompt.window) + j - 1
    /\ prompt.belief = CASE t = 0 -> None [] t = 1 -> FreshCum [] OTHER -> infos[t - 1]

\* The manager's records of an episode agree with what the model wrote in it,
\* and so does what the model is shown of them.
EpisodeIsReplayed == HistoriesAligned /\ CumulativeIsReplay /\ PromptIsOneTurnBehind
=============================================================================
