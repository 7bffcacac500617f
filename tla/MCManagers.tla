----------------------------- MODULE MCManagers -----------------------------
(* AlfWorld: one object and two receptacles.  WebShop: two products on two  *)
(* pages of results, of which one has a flavour too and is described in blue. *)
EXTENDS Managers, TLC

CONSTANTS apple, p1, p2, InHand, tee, mug, red, blue, mint
SomeObjects == {<<>>, apple :> p1, apple :> InHand}
TwoPhases == {"find", "place"}

TheOptions == red :> "color" @@ mint :> "flavor"
TheOffers == tee :> {red, mint} @@ mug :> {red}
TheGoals == {"redTee", "anyMug"}
TheGoalOptions == "redTee" :> ("color" :> red @@ "flavor" :> mint) @@ "anyMug" :> <<>>
TheSuits == "redTee" :> {tee} @@ "anyMug" :> {mug, tee}
SomeSloppy == {"cup", red}
TheHits == "cup" :> <<tee, mug>>
TheDescriptions == tee :> ("color" :> blue) @@ mug :> <<>>
TheBeliefs == {
  [confirmed |-> "color" :> red, unconfirmed |-> Malformed, phase |-> "buying"],
  [confirmed |-> Malformed, unconfirmed |-> <<"flavor", "color", "flavor">>, phase |-> ""]}
=============================================================================
