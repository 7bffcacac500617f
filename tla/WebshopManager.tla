--------------------------- MODULE WebshopManager ---------------------------
(***************************************************************************)
(* One environment of WebshopEnvironmentManager in ReBel mode              *)
(* (environments/env_manager.py) and its tracker and rewards               *)
(* (env_package/webshop/belief_tracker.py), on top of the shop: which page *)
(* an action is judged by, what the tracker remembers of the pages, how    *)
(* the beliefs add up, and what the model is shown.                        *)
(*                                                                         *)
(* What a page prints is reduced to what the regular expressions can tell  *)
(* apart.  The history of actions, the count of steps and the belief in    *)
(* the prompt are as in Belief; the prompt also has task and the actions   *)
(* of lastInfos.                                                           *)
(***************************************************************************)
EXTENDS Shop, SequencesExt

CONSTANTS Watched,      \* the names of options that the expressions know: color, size, ...
          Says,         \* [Products -> functions on names of options]: "color: red" in its description
          Thankful,     \* products whose description contains "thank you"
          ShopBeliefs,  \* what parse_belief may return
          Malformed,    \* a field of another JSON type than the one asked for
          MaxPage       \* bound: pages of results

ASSUME ManagerAssumption ==
    /\ \A p \in Products : DOMAIN Says[p] \subseteq Watched
    /\ Thankful \subseteq Products
    /\ Malformed \notin Seq(Range(OptionOf))
    /\ Nothing \notin ShopBeliefs
    /\ MaxPage \in Nat \ {0}

VARIABLES
    task,       \* tasks[i]
    known,      \* ground_truth_trackers[i]
    held,       \* cumulative_beliefs[i]
    lastInfos,  \* _last_infos[i]['available_actions']
    turn,       \* what step has put into the last infos, and what it was about
    over,       \* history: the episode has had its done
    chosen,     \* history: product and options that the agent has on the page
    result      \* history: what was bought at the first done, and info['won']

shopVars == <<site, task, known, held, lastInfos, turn, over, chosen, result>>

-----------------------------------------------------------------------------
(***************************************************************************)
(* What the texts of a page say.                                           *)
(***************************************************************************)
\* The instruction of the session is on every page but the last.
Instructed(s) ==
    IF s.at = "done" THEN <<>>
    ELSE [o \in DOMAIN GoalOptions[s.goal] \cap Watched |-> GoalOptions[s.goal][o]]

\* dict.update
Overlaid(old, new) == [x \in DOMAIN old \cup DOMAIN new |-> IF x \in DOMAIN new THEN new[x] ELSE old[x]]

\* "color: red", the last one on the page
Printed(s) == Overlaid(Instructed(s), IF s.at = "item_sub_page" THEN Says[s.asin] ELSE <<>>)

Mentioned(s) == DOMAIN GoalOptions[s.goal] \cup {OptionOf[v] : v \in Offers[s.asin]}

\* extract_phase_gt_webshop
Thanks(s) == s.at = "done" \/ (s.at = "item_sub_page" /\ s.asin \in Thankful)
PhaseOf(s) ==
    CASE Thanks(s) -> "done"
      [] ~Thanks(s) /\ s.at = "item_page" ->
           IF Mentioned(s) \cap Watched # {} THEN "selecting" ELSE "viewing"
      [] ~Thanks(s) /\ s.at \in {"search_results", "item_sub_page"} -> "browsing"
      [] OTHER -> "searching"

(***************************************************************************)
(* update_from_observation                                                 *)
(***************************************************************************)
\* Whatever the model clicks, on the page or not and however it is written,
\* unless it looks like a product or a button; "search" and "description" count
\* too, but are no values.
OptionsClicked(a) ==
    IF a.kind = "click" /\ a.arg \in Values THEN known.options \cup {a.arg} ELSE known.options

Track(s, a, available) ==
    [pageType   |-> PhaseOf(s),
     attrs      |-> Overlaid(known.attrs, Printed(s)),
     options    |-> OptionsClicked(a),
     clickables |-> available.clickables]

\* A tracker that has seen the page of reset alone.
FirstTrack(s) == [pageType |-> PhaseOf(s), attrs |-> Printed(s), options |-> {},
                  clickables |-> Clickables(s)]

(***************************************************************************)
(* calculate_state_reward: what a confirmed attribute counts for.          *)
(***************************************************************************)
Evidence(t) == t.options \cup t.clickables \cup DOMAIN t.attrs \cup Range(t.attrs)

Verdict(t, o, v) ==
    IF o \in DOMAIN t.attrs /\ t.attrs[o] # v THEN "contradicted"
    ELSE IF {o, v} \cap Evidence(t) # {} THEN "supported"
    ELSE IF {o, v} \cap (DOMAIN GoalOptions[task] \cup Range(GoalOptions[task])) # {} THEN "relevant"
    ELSE IF t.pageType \in {"viewing", "selecting", "buying"} THEN "hallucinated"
    ELSE "inferred"

Claims(b) == IF b = Nothing \/ b.confirmed = Malformed THEN <<>> ELSE b.confirmed
Verdicts(t, b) == [o \in DOMAIN Claims(b) |-> Verdict(t, o, Claims(b)[o])]

\* calculate_task_reward: done and success ask for "done", which the page says too
TaskReward(s, b) ==
    IF b = Nothing THEN 0
    ELSE IF b.phase = (IF Won(s) THEN "done" ELSE PhaseOf(s)) THEN 1 ELSE 0

(***************************************************************************)
(* webshop_projection_rebel: is the action one of those the page offers?   *)
(***************************************************************************)
ActionAvailable(a, available) ==
    /\ a.form # "trailing"
    /\ \/ a.kind = "search" /\ available.bar
       \/ a.kind = "click" /\ a.arg \in available.clickables

\* mutant: the page that answers is asked
BugPageOfTheTurn(after) == after
PageOfTheTurn(after) == lastInfos

-----------------------------------------------------------------------------
(***************************************************************************)
(* _update_cumulative_belief                                               *)
(***************************************************************************)
FreshHeld == [confirmed |-> <<>>, open |-> <<>>, phase |-> "searching"]

MergeConfirmed(b) == Overlaid(held.confirmed, Claims(b))

\* mutant: what is confirmed stays open
BugStillOpen(b) == held.open
StillOpen(b) ==
    IF DOMAIN Claims(b) = {} THEN held.open
    ELSE SelectSeq(held.open, LAMBDA o : o \notin DOMAIN MergeConfirmed(b))

Opened(open, o, b) ==
    IF o \in Range(open) \cup DOMAIN MergeConfirmed(b) THEN open ELSE Append(open, o)

MergeOpen(b) ==
    IF b.unconfirmed = Malformed THEN StillOpen(b)
    ELSE FoldLeft(LAMBDA open, o : Opened(open, o, b), StillOpen(b), b.unconfirmed)

MergeShopBelief(b) ==
    [confirmed |-> MergeConfirmed(b),
     open      |-> MergeOpen(b),
     phase     |-> IF b.phase = "" THEN held.phase ELSE b.phase]

-----------------------------------------------------------------------------
NoProduct == [product |-> Nothing, options |-> <<>>]

\* history: what a click that works does to what the agent has chosen
ChosenBy(a, s) ==
    IF s.at \in {"index", "search_results"} THEN NoProduct
    ELSE IF ~Acts(site, a) THEN chosen
    ELSE IF a.arg \in Products THEN [product |-> a.arg, options |-> <<>>]
    ELSE IF a.arg \in Values THEN [chosen EXCEPT !.options = Chosen(@, a.arg)]
    ELSE chosen

\* reset
StartEpisode(g) ==
    /\ site' = Index(g)
    /\ task' = g
    /\ known' = FirstTrack(Index(g))
    /\ held' = FreshHeld
    /\ lastInfos' = Available(Index(g))
    /\ turn' = Nothing
    /\ over' = FALSE /\ chosen' = NoProduct /\ result' = Nothing

ShopReset == \E g \in Goals : StartEpisode(g)

ShopInit ==
    /\ \E g \in Goals :
         /\ site = Index(g)
         /\ task = g
         /\ known = FirstTrack(Index(g))
         /\ lastInfos = Available(Index(g))
    /\ held = FreshHeld
    /\ turn = Nothing
    /\ over = FALSE /\ chosen = NoProduct /\ result = Nothing

\* step: the model answers with action a and belief b.
ShopStep(a, b) ==
    LET s == Served(site, a) IN
    /\ (Acts(site, a) /\ a.kind = "click" /\ a.arg = "next >") => site.page < MaxPage
    /\ site' \in NextSites(s)
    /\ known' = Track(s, a, Available(site'))
    /\ turn' = [kind      |-> IF a.kind = "click" /\ a.arg = "search" THEN "search button" ELSE a.kind,
                form      |-> a.form,
                page      |-> site.at,
                available |-> ActionAvailable(a, PageOfTheTurn(Available(site'))),
                acted     |-> Acts(site, a),
                printed   |-> Printed(s),
                claims    |-> Claims(b),
                verdicts  |-> Verdicts(known', b),
                rTask     |-> TaskReward(s, b)]
    /\ held' = IF b = Nothing THEN held ELSE MergeShopBelief(b)
    /\ lastInfos' = Available(site')
    /\ over' = (over \/ s.at = "done")
    /\ chosen' = ChosenBy(a, s)
    /\ result' = IF s.at = "done" /\ ~over THEN [bought |-> chosen, won |-> Won(s)] ELSE result
    /\ UNCHANGED task

ShopNext ==
    \/ ShopReset
    \/ \E a \in Actions, b \in ShopBeliefs \cup {Nothing} : ShopStep(a, b)

-----------------------------------------------------------------------------
\* What the format reward calls available is what the page of the prompt
\* offered, which is what the shop acts on: for a text that both read alike, a
\* click works exactly if it was available.  Where they differ, there is a
\* reason: an available action does nothing only if it is "click[search]" or
\* has a blank or a bracket too many, and one that was not available works only
\* if it is a search off the page that offers one, or has words behind it.
AvailableIsWhatActs ==
    turn # Nothing =>
      /\ turn.available /\ ~turn.acted => turn.form = "inexact" \/ turn.kind = "search button"
      /\ turn.acted /\ ~turn.available =>
           turn.form = "trailing" \/ (turn.kind = "search" /\ turn.page # "index")
      /\ turn.available /\ turn.kind \in {"search", "search button"} => turn.page = "index"
      /\ turn.kind = "other" => ~turn.available /\ ~turn.acted

\* A confirmed attribute is judged by the page that answered the turn where
\* that page prints it, whatever the tracker remembers of earlier products.
EvidenceKeepsUp ==
    turn # Nothing =>
      \A o \in DOMAIN turn.claims \cap DOMAIN turn.printed :
        turn.verdicts[o] = IF turn.claims[o] = turn.printed[o] THEN "supported" ELSE "contradicted"

\* Each part of a turn is judged by the page it is about: the action by the
\* one it was chosen on, the belief by the one that came of it.
TurnsAreJudgedByTheirPages == AvailableIsWhatActs /\ EvidenceKeepsUp

\* While the agent looks at a product, the session holds that product, the
\* options it has clicked since it opened it and no others, and the page of
\* results that "< prev" leads back to lists it.
SessionIsTheAgents ==
    site.at \in {"item_page", "item_sub_page"} =>
      /\ site.asin = chosen.product /\ site.options = chosen.options
      /\ site.asin \in OnPage(site.keywords, site.page)

\* The episode's success is decided by what the agent had chosen and by the
\* task its prompts have shown, although the shop goes on with another goal.
PurchaseIsWhatWasChosen ==
    /\ SessionIsTheAgents
    /\ ~over => site.goal = task
    /\ over => /\ result.won <=> FullScore(task, result.bought.product, result.bought.options)
               /\ result.bought # NoProduct

Open == Range(held.open)

\* In an episode an attribute that the model has listed stays open until it is
\* confirmed, and one that is confirmed stays so and is never open again.
BeliefsAreSettled ==
    [][/\ IsInjective(held'.open)
       /\ Open' \cap DOMAIN held'.confirmed = {}
       /\ ~ShopReset =>
            /\ DOMAIN held.confirmed \subseteq DOMAIN held'.confirmed
            /\ Open \subseteq Open' \cup DOMAIN held'.confirmed]_shopVars
=============================================================================
