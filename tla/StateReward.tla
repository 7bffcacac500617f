---------------------------- MODULE StateReward ----------------------------
(***************************************************************************)
(* calculate_state_reward (env_package/alfworld/belief_tracker.py): the    *)
(* reward r_state of one belief against one ground truth.                  *)
(*                                                                         *)
(* The ground truth is fixed; a step revises one entry of the belief, so   *)
(* that action properties can say what a revision may do to the reward.    *)
(* Scores are fractions with denominator Scale; the weighted sum is over   *)
(* 100 * Scale.  The ids are compared by substring in the code: Includes   *)
(* is the set of pairs <<long, short>> of ids one of which contains the    *)
(* other: "knife 1" and "butterknife 1", or an object and the key that the *)
(* ground truth files its treatment under, "the apple 1 using the fridge 1".*)
(***************************************************************************)
EXTENDS Naturals, FiniteSets, SequencesExt

CONSTANTS Things, Places,
          Includes,          \* {<<long, short>>}: pairs of ids, each pair of distinct ones
          Treatments,        \* [ground truth word -> word of the prompt]
          Carried, Unknown,   \* the two locations that are no receptacle
          Nothing,
          MaxKnown           \* bound: objects that the ground truth knows, of either kind

Scale == 60
GTWords == DOMAIN Treatments
Words == GTWords \cup {Treatments[w] : w \in GTWords}

ASSUME NamesAssumption ==
    /\ Includes \subseteq Things \X Things
    /\ Carried \notin Places /\ Unknown \notin Places /\ Nothing \notin Things
    /\ IsFiniteSet(Things) /\ IsFiniteSet(Places) /\ MaxKnown \in Nat

VARIABLES topic,    \* the part of the belief this behaviour revises
          gt,       \* [objects, states, visited, inventory]
          belief,   \* [objects, states, visited, candidates]
          step      \* len(self.buffers[i]) when the belief is scored, at least 1

fixed == <<topic, gt, step>>
beliefVars == <<topic, gt, belief, step>>

\* A dict of the ground truth, object_locations or object_states, in the order
\* its keys were first written.
Facts(S) == {s \in UNION {[1..n -> Things \X S] : n \in 0..MaxKnown} :
                \A i, j \in DOMAIN s : s[i][1] = s[j][1] => i = j}

\* r_state is a sum of four scores, each of which reads only its own entries:
\* a behaviour varies those of one topic, or (TurnReward) the rest of the turn.
BeliefInit ==
    /\ topic \in {"objects", "states", "places", "turn"}
    /\ gt \in [objects   : IF topic = "objects" THEN Facts(Places) ELSE {<<>>},
               inventory : IF topic = "objects" THEN Things \cup {Nothing} ELSE {Nothing},
               states    : IF topic = "states" THEN Facts(GTWords) ELSE {<<>>},
               visited   : IF topic = "places" THEN SUBSET Places ELSE {{}}]
    /\ belief = [objects |-> <<>>, states |-> <<>>, visited |-> {}, candidates |-> {}]
    /\ step \in IF topic = "turn" THEN {2} ELSE 1..2

-----------------------------------------------------------------------------
\* a.lower() in b.lower() or b.lower() in a.lower()
Matches(a, b) == a = b \/ <<a, b>> \in Includes \/ <<b, a>> \in Includes

Lenient == step < 2

\* mutant: max(0.0, ...) is dropped
BugScore(hits, total) == Scale - (Scale * hits) \div total
Score(hits, total) == IF hits >= total THEN 0 ELSE Scale - (Scale * hits) \div total

\* the loop over the facts stops at the first id that matches
FirstMatch(o, facts) == SelectInSeq(facts, LAMBDA e : Matches(o, e[1]))

\* the facts that no id of the belief matches
Missed(facts, table) ==
    {i \in DOMAIN facts : ~\E o \in DOMAIN table : Matches(facts[i][1], o)}

(***************************************************************************)
(* 1. objects                                                              *)
(***************************************************************************)
\* mutant: an id the ground truth does not know counts as a contradiction
BugContradictsLocation(o) ==
    LET k == FirstMatch(o, gt.objects) IN k = 0 \/ gt.objects[k][2] # belief.objects[o]
ContradictsLocation(o) ==
    IF belief.objects[o] = Carried
    THEN gt.inventory = Nothing \/ (gt.inventory # o /\ <<gt.inventory, o>> \notin Includes)
    ELSE LET k == FirstMatch(o, gt.objects) IN k > 0 /\ gt.objects[k][2] # belief.objects[o]

ObjectsScore ==
    LET known == Len(gt.objects)
        wrong == Cardinality({o \in DOMAIN belief.objects : ContradictsLocation(o)})
    IN IF Lenient THEN (IF belief.objects = <<>> THEN 24 ELSE 36)
       ELSE IF belief.objects = <<>> THEN (IF known = 0 THEN 30 ELSE 0)
       ELSE IF known = 0 THEN 42
       ELSE Score(wrong + Cardinality(Missed(gt.objects, belief.objects)), known)

(***************************************************************************)
(* 2. states: the two words are compared as they are                       *)
(***************************************************************************)
\* mutant: the comparison is the wrong way round
BugContradictsState(o) ==
    LET k == FirstMatch(o, gt.states) IN k > 0 /\ gt.states[k][2] = belief.states[o]
ContradictsState(o) ==
    LET k == FirstMatch(o, gt.states) IN k > 0 /\ gt.states[k][2] # belief.states[o]

StatesScore ==
    LET known == Len(gt.states)
        wrong == Cardinality({o \in DOMAIN belief.states : ContradictsState(o)})
    IN IF Lenient THEN (IF belief.states = <<>> THEN 30 ELSE 36)
       ELSE IF belief.states = <<>> THEN (IF known = 0 THEN 30 ELSE 0)
       ELSE IF known = 0 THEN 42
       ELSE Score(wrong + Cardinality(Missed(gt.states, belief.states)), known)

(***************************************************************************)
(* 3. visited: F1 less 0.1 for every false visit                           *)
(***************************************************************************)
F1(tp, b, g) == (2 * Scale * tp) \div (b + g)

VisitedScore ==
    LET b == belief.visited
        fp == Cardinality(b \ gt.visited)
        f1 == F1(Cardinality(b \cap gt.visited), Cardinality(b), Cardinality(gt.visited))
    IN IF Lenient THEN (IF b = {} THEN 30 ELSE 36)
       ELSE IF b # {} /\ gt.visited # {} THEN (IF f1 > 6 * fp THEN f1 - 6 * fp ELSE 0)
       ELSE IF b = {} /\ gt.visited = {} THEN 36
       ELSE 18

(***************************************************************************)
(* 4. unvisited_candidates                                                 *)
(***************************************************************************)
FalseCandidates == belief.candidates \cap gt.visited

CandidatesScore ==
    IF Lenient THEN (IF belief.candidates = {} THEN 30 ELSE 36)
    ELSE IF belief.candidates # {}
    THEN Score(Cardinality(FalseCandidates), Cardinality(belief.candidates))
    ELSE IF Places \subseteq gt.visited THEN 48 ELSE 24

StateReward ==
    35 * ObjectsScore + 25 * StatesScore + 25 * VisitedScore + 15 * CandidatesScore

-----------------------------------------------------------------------------
(***************************************************************************)
(* Revisions of the belief.                                                *)
(***************************************************************************)
Assign(f, x, v) == [y \in DOMAIN f \cup {x} |-> IF y = x THEN v ELSE f[y]]

AssertLocation(o, p) ==
    /\ topic = "objects"
    /\ belief' = [belief EXCEPT !.objects = Assign(@, o, p)]
    /\ UNCHANGED fixed

AssertState(o, w) ==
    /\ topic = "states"
    /\ belief' = [belief EXCEPT !.states = Assign(@, o, w)]
    /\ UNCHANGED fixed

AddVisit(p) ==
    /\ topic = "places"
    /\ p \notin belief.visited
    /\ belief' = [belief EXCEPT !.visited = @ \cup {p}]
    /\ UNCHANGED fixed

DropVisit(p) ==
    /\ topic = "places"
    /\ p \in belief.visited
    /\ belief' = [belief EXCEPT !.visited = @ \ {p}]
    /\ UNCHANGED fixed

AddCandidate(p) ==
    /\ topic = "places"
    /\ p \notin belief.candidates
    /\ belief' = [belief EXCEPT !.candidates = @ \cup {p}]
    /\ UNCHANGED fixed

DropCandidate(p) ==
    /\ topic = "places"
    /\ p \in belief.candidates
    /\ belief' = [belief EXCEPT !.candidates = @ \ {p}]
    /\ UNCHANGED fixed

BeliefNext ==
    \/ \E o \in Things, p \in Places \cup {Carried, Unknown} : AssertLocation(o, p)
    \/ \E o \in Things, w \in Words : AssertState(o, w)
    \/ \E p \in Places : AddVisit(p)
    \/ \E p \in Places : DropVisit(p)
    \/ \E p \in Places : AddCandidate(p)
    \/ \E p \in Places : DropCandidate(p)

BeliefSpec == BeliefInit /\ [][BeliefNext]_beliefVars
-----------------------------------------------------------------------------
\* Each score is a number between 0 and 1 for every belief, also one with more
\* contradictions and omissions than there are confirmed facts, and so is r_state.
ScoresInUnit ==
    /\ {ObjectsScore, StatesScore, VisitedScore, CandidatesScore} \subseteq 0..Scale
    /\ StateReward \in 0..(100 * Scale)

\* "LLM inferences about unvisited locations are NOT penalized": writing down
\* where an object might be never lowers r_state, when the ground truth has
\* not seen the place and has located nothing that the id matches.  (An id that
\* contains a located one, as "butterknife 1" does "knife 1", is scored by the
\* place of the other object.)
GuessesAreFree ==
    [][\A o \in Things, p \in Places :
          /\ o \notin DOMAIN belief.objects
          /\ \A k \in DOMAIN gt.objects : ~Matches(gt.objects[k][1], o)
          /\ p \notin gt.visited
          /\ AssertLocation(o, p)
          => StateReward' >= StateReward]_beliefVars

\* Taking over from the ground truth the location or the state of an object it
\* knows, in its own word, never lowers r_state, whatever else the belief says,
\* if the id of the object matches no other.  (The scan stops at the first id
\* that matches: with a knife and a butterknife known, both true entries together
\* score less than one of them.  And a true state costs in the words that the
\* prompt asks for: "heated", "cooled" and "cleaned" are not the "hot", "cold" and
\* "clean" of the ground truth, so that each counts as a contradiction.)
Alone(o) == \A x \in Things : Matches(x, o) => x = o
CorrectionsPay ==
    [][/\ \A k \in DOMAIN gt.objects :
             /\ gt.objects[k][1] # gt.inventory /\ Alone(gt.objects[k][1])
             /\ AssertLocation(gt.objects[k][1], gt.objects[k][2])
             => StateReward' >= StateReward
       /\ \A k \in DOMAIN gt.states :
             /\ Alone(gt.states[k][1])
             /\ AssertState(gt.states[k][1], gt.states[k][2])
             => StateReward' >= StateReward]_beliefVars

\* After the lenient first step, the truth about a place never costs: adding a
\* true visit or candidate and dropping a false one do not lower r_state.
\* (With six or more visited places the first true visit of an empty list
\* would: F1 = 2/7 is below the 0.3 of an empty list.)
HonestyPays ==
    [][\A p \in Places :
          /\ ~Lenient
          /\ \/ p \in gt.visited /\ (AddVisit(p) \/ DropCandidate(p))
             \/ p \notin gt.visited /\ (DropVisit(p) \/ AddCandidate(p))
          => StateReward' >= StateReward]_beliefVars

\* Revising a belief by telling the truth, or by guessing, never lowers r_state.
RevisionsPay == GuessesAreFree /\ CorrectionsPay /\ HonestyPays
=============================================================================
