-------------------------------- MODULE Shop --------------------------------
(***************************************************************************)
(* One session of the WebShop simulator (env_package/webshop): the pages   *)
(* that SimServer serves, what SimBrowser shows, and what WebAgentTextEnv  *)
(* and WebshopWorker make of an action.  A page is named after its URL; it *)
(* is rendered from the session, so that the session and the name of the   *)
(* page say all that can be read on it.                                    *)
(*                                                                         *)
(* A session that is not the current one is never looked at again: one     *)
(* with the same number is reset by index before it is used.               *)
(***************************************************************************)
EXTENDS Naturals, Sequences, FiniteSets, Functions

CONSTANTS Products,
          Values,      \* what can be chosen: the values of options
          OptionOf,    \* [Values -> names of options]
          Offers,      \* [Products -> SUBSET Values]
          Goals,
          GoalOptions, \* [Goals -> functions from names of options to values]
          Suits,       \* [Goals -> SUBSET Products]: type, attributes and price are right
          Hits,        \* [queries -> Seq(Products)]: the search engine
          PageSize,    \* PRODUCT_WINDOW
          Sloppy,      \* bound: the arguments that are also written inexactly or trailing
          Nothing

Buttons == {"search", "buy now", "back to search", "next >", "< prev", "description"}
SubPages == {"description"}

ASSUME ShopAssumption ==
    /\ PageSize \in Nat \ {0}
    /\ Offers \in [Products -> SUBSET Values] /\ Suits \in [Goals -> SUBSET Products]
    /\ DOMAIN OptionOf = Values /\ DOMAIN GoalOptions = Goals
    /\ \A q \in DOMAIN Hits : Hits[q] \in Seq(Products)
    /\ Goals # {} /\ Nothing \notin Products
    /\ Products \cap Values = {} /\ (Products \cup Values) \cap Buttons = {}

VARIABLE site   \* user_sessions[session_id], with the page that the browser shows

-----------------------------------------------------------------------------
(***************************************************************************)
(* The pages.                                                              *)
(***************************************************************************)
OnPage(q, n) == {Hits[q][i] : i \in DOMAIN Hits[q] \cap ((n - 1) * PageSize + 1 .. n * PageSize)}

\* index, and the session that receive resets with it
Index(g) == [at |-> "index", goal |-> g, keywords |-> Nothing, page |-> Nothing,
             asin |-> Nothing, options |-> <<>>]

\* mutant: the options outlive the product they were chosen for
BugSearchResults(s, q, n) ==
    [s EXCEPT !.at = "search_results", !.keywords = q, !.page = n, !.asin = Nothing]
SearchResults(s, q, n) ==
    [s EXCEPT !.at = "search_results", !.keywords = q, !.page = n,
              !.asin = Nothing, !.options = <<>>]

Chosen(options, v) == [o \in DOMAIN options \cup {OptionOf[v]} |->
                          IF o = OptionOf[v] THEN v ELSE options[o]]

ItemPage(s, x) ==
    [s EXCEPT !.at = "item_page",
              !.asin = IF x \in Products THEN x ELSE @,
              !.options = IF x \in Values THEN Chosen(@, x) ELSE @]

ItemSubPage(s) == [s EXCEPT !.at = "item_sub_page"]

Done(s) == [s EXCEPT !.at = "done"]

\* receive, for a click
Clicked(s, x) ==
    CASE x = "buy now" -> Done(s)
      [] x = "back to search" -> Index(s.goal)
      [] x = "next >" /\ s.at = "search_results" -> SearchResults(s, s.keywords, s.page + 1)
      [] x = "< prev" /\ s.at = "search_results" -> SearchResults(s, s.keywords, s.page - 1)
      [] x = "< prev" /\ s.at = "item_page" -> SearchResults(s, s.keywords, s.page)
      [] x \in SubPages -> ItemSubPage(s)
      [] OTHER -> ItemPage(s, x)

-----------------------------------------------------------------------------
(***************************************************************************)
(* An action of the agent: search[query], click[text] or anything else,    *)
(* and how its text is written.                                            *)
(***************************************************************************)
Clickables(s) ==
    CASE s.at = "index" -> {"search"}
      [] s.at = "search_results" ->
           {"back to search", "next >"} \cup OnPage(s.keywords, s.page)
             \cup (IF s.page > 1 THEN {"< prev"} ELSE {})
      [] s.at = "item_page" ->
           {"back to search", "< prev", "buy now"} \cup SubPages \cup Offers[s.asin]
      [] s.at = "item_sub_page" -> {"back to search", "< prev"}
      [] OTHER -> {}

\* get_available_actions
Available(s) == [bar |-> s.at = "index", clickables |-> Clickables(s)]

\* Two expressions read the text.  The projection's is anchored at both ends and
\* strips what it finds in a click; the shop's is not anchored at the end, takes
\* the argument from the last "[" and does not strip.  So a text is read alike
\* ("exact"); as something else by the shop alone, because of a blank inside the
\* brackets of a click or a bracket inside those of a search ("inexact"); or as
\* no action by the projection alone, because of words behind the bracket or of
\* missing tags ("trailing").
Forms == {"exact", "inexact", "trailing"}

Search(q, form) == [kind |-> "search", arg |-> q, form |-> form]
Click(x, form) == [kind |-> "click", arg |-> x, form |-> form]
OtherText == [kind |-> "other", arg |-> Nothing, form |-> "exact"]
FormsOf(x) == IF x \in Sloppy THEN Forms ELSE {"exact"}
Searches == UNION {{Search(q, form) : form \in FormsOf(q)} : q \in DOMAIN Hits}
Clicks == UNION {{Click(x, form) : form \in FormsOf(x)} : x \in Buttons \cup Products \cup Values}
Actions == Searches \cup Clicks \cup {OtherText}

\* The tests of WebAgentTextEnv.step: a search is served on every page.
Acts(s, a) ==
    /\ a.form # "inexact"
    /\ \/ a.kind = "search"
       \/ a.kind = "click" /\ a.arg \in Clickables(s) /\ a.arg # "search"

Served(s, a) ==
    IF ~Acts(s, a) THEN s
    ELSE IF a.kind = "search" THEN SearchResults(s, a.arg, 1)
    ELSE Clicked(s, a.arg)

\* get_reward returns 1.0
FullScore(g, p, options) ==
    p \in Suits[g] /\ Range(GoalOptions[g]) \subseteq Range(options)

\* WebshopWorker.step
Won(s) == s.at = "done" /\ FullScore(s.goal, s.asin, s.options)

\* step resets the environment when the session is done: to a goal of its own choice
NextSites(s) == IF s.at = "done" THEN {Index(g) : g \in Goals} ELSE {s}
=============================================================================
