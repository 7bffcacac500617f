-------------------------- MODULE MCBeliefTracker --------------------------
(* The kitchen of MCTracker; beliefs about three objects, two of them with  *)
(* overlapping ids; two observations, in one of which a number stands       *)
(* between what a prediction puts together.                                 *)
EXTENDS BeliefTracker, MCTracker

CONSTANTS knife, butterknife, apple

PromptWords  == "hot" :> "heated" @@ "cold" :> "cooled"
\* "knife 1" is a substring of "butterknife 1"
KnifeOverlap == {<<butterknife, knife>>}

TwoTexts == {<<"open", "drawer", "1", "apple">>, <<"drawer", "closed", "open", "drawer">>}
\* 0.1 to the power of 0.7 is 0.2
ThreeWeights == 0 :> [c \in Components |-> 0]
             @@ 1 :> [c \in Components |-> IF c = "state" THEN 1 ELSE 2]
             @@ 10 :> [c \in Components |-> 10]
=============================================================================
