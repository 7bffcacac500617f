------------------------------ MODULE Tracker ------------------------------
(***************************************************************************)
(* GroundTruthTracker (env_package/alfworld/belief_tracker.py): the facts  *)
(* that r_state trusts, accumulated by running regular expressions over    *)
(* the observation text of one ALFWorld game.                              *)
(*                                                                         *)
(* The game is a small household: receptacles, some with doors, and        *)
(* objects that are carried, put down and treated at a station.  An        *)
(* observation is a record that keeps what the expressions can tell apart; *)
(* its text forms are those of agents/controller/oracle.py.  A name that   *)
(* an expression captures together with its article or with the rest of    *)
(* its sentence is a different key of the tracker, so a name is a tuple.   *)
(* A command the game refuses prints "Nothing happens.", which matches no  *)
(* expression: it is a stuttering step here.                               *)
(***************************************************************************)
EXTENDS Naturals, FiniteSets

CONSTANTS Surfaces,     \* receptacles without a door
          Openables,    \* receptacles with a door, closed at reset
          Objects,      \* portable objects
          Treats,       \* [station -> the condition it gives an object]
          Nowhere,      \* curr_recep = "nothing", before the first "go to"
          InHand,       \* where an object is while it is carried
          None,         \* current_inventory is None
          Spells,       \* [name -> the words of a phase that its text contains]
          Ends          \* [name -> those of them that are followed by a space]

Recs == Surfaces \cup Openables
Conditions == {"hot", "cold", "clean"}
PhaseWords == {"put", "heat", "cool", "clean", "slice"}

ASSUME RoomAssumption ==
    /\ Surfaces \cap Openables = {}
    /\ DOMAIN Treats \subseteq Recs /\ \A r \in DOMAIN Treats : Treats[r] \in Conditions
    /\ Nowhere \notin Recs /\ InHand \notin Recs /\ None \notin Objects
    /\ {Spells, Ends} \subseteq [Recs \cup Objects -> SUBSET PhaseWords]
    /\ \A n \in Recs \cup Objects : Ends[n] \subseteq Spells[n]

VARIABLES
    \* the game
    at,          \* curr_recep
    open,        \* the receptacles whose 'closed' flag is FALSE
    where,       \* [object -> receptacle or InHand]
    cond,        \* [object -> its last treatment, or "none"]
    \* the tracker
    visible,     \* visible_receptacles
    visited,     \* visited_locations
    objLoc,      \* object_locations
    objState,    \* object_states
    cleared,     \* cleared_receptacles
    inventory,   \* current_inventory
    \* history, read by the properties only
    shown,       \* receptacles whose inside the game has shown
    moved        \* objects the agent has taken

game    == <<at, open, where, cond>>
tracker == <<visible, visited, objLoc, objState, cleared, inventory>>
history == <<shown, moved>>
vars    == <<game, tracker, history>>

Plain(x) == <<x>>                           \* "fridge 1"
The(x)   == <<"the", x>>                    \* "the fridge 1"
Using(o, r) == <<"the", o, "using", r>>     \* "the apple 1 using the microwave 1"

HasInside(r) == r \in Surfaces \/ r \in open'
Inside(r)    == {o \in Objects : where'[o] = r}

(***************************************************************************)
(* Observations.  "shows" holds the receptacle of an "On the X, you see"   *)
(* sentence, "door" that of a "The X is open/closed" sentence.             *)
(***************************************************************************)
Silent == [kind |-> "other", shows |-> {}, items |-> {}, door |-> {},
           obj |-> None, rel |-> "", rec |-> Nowhere]
Frame(r) == IF HasInside(r) THEN [Silent EXCEPT !.shows = {r}, !.items = Inside(r)]
                            ELSE Silent
ArrivalObs(r) == [Frame(r) EXCEPT !.kind = "arrive",
                                  !.door = IF r \in Openables THEN {r} ELSE {}]
\* "You open the X. The X is open. In it, you see ...": no "On the X" sentence
OpeningObs(r) == [Silent EXCEPT !.kind = "open", !.door = {r}]
FacingObs(r)  == [Silent EXCEPT !.kind = "look", !.rec = r]
TakeObs(o, r) == [Silent EXCEPT !.kind = "take", !.obj = o, !.rec = r]
PutObs(o, rel, r) == [Silent EXCEPT !.kind = "put", !.obj = o, !.rel = rel, !.rec = r]
TreatObs(o, r) == [Silent EXCEPT !.kind = "treat", !.obj = o, !.rec = r]

(***************************************************************************)
(* What the expressions of update_from_observation extract.                *)
(***************************************************************************)
Facing(obs) == IF obs.kind = "look" THEN {The(obs.rec)} ELSE {}
Shown(obs)  == {Plain(r) : r \in obs.shows}
\* mutant: "is open" no longer counts as a visit
BugOpenDoors(obs) == {}
OpenDoors(obs) == {Plain(r) : r \in obs.door \cap open'}
\* `you put ([\w\s]+\d+) (?:in|on) ...` does not match "in/on"
PutMatches(obs) == obs.kind = "put" /\ obs.rel \in {"in", "on"}

\* a dict update: the entries of "new" win, the others of "table" stay
Updated(table, new) == [n \in DOMAIN table \cup DOMAIN new |->
                           IF n \in DOMAIN new THEN new[n] ELSE table[n]]
OneFact(yes, name, fact) == [n \in (IF yes THEN {name} ELSE {}) |-> fact]

LocationFacts(obs) ==
    Updated(OneFact(PutMatches(obs), The(obs.obj), The(obs.rec)),
            [n \in {Plain(o) : o \in obs.items} |-> Plain(CHOOSE r \in obs.shows : TRUE)])

StateFacts(obs) ==
    Updated(OneFact(obs.kind = "treat", Using(obs.obj, obs.rec), Treats[obs.rec]),
            [n \in {Plain(r) : r \in obs.door} |->
                IF n \in OpenDoors(obs) THEN "open" ELSE "closed"])

NextInventory(obs) == IF obs.kind = "take" THEN obs.obj
                      ELSE IF PutMatches(obs) THEN None ELSE inventory

\* mutant: the first fact recorded about a name is kept
BugRecord(facts, table) == Updated(facts, table)
\* a dict assignment: the last write wins
Record(facts, table) == Updated(table, facts)

UpdateFromObservation(obs) ==
    /\ visited'   = visited \cup Shown(obs) \cup OpenDoors(obs)
    /\ visible'   = visible \cup Facing(obs) \cup Shown(obs) \cup OpenDoors(obs)
    /\ objLoc'    = Record(LocationFacts(obs), objLoc)
    /\ objState'  = Record(StateFacts(obs), objState)
    /\ inventory' = NextInventory(obs)
    /\ cleared'   = cleared \cup (IF obs.items = {} THEN Shown(obs) ELSE {})

\* get_ground_truth_state()["unvisited_candidates"]
UnvisitedCandidates == visible \ visited

-----------------------------------------------------------------------------
(***************************************************************************)
(* Reset: the first observation lists every receptacle of the room.        *)
(***************************************************************************)
Init ==
    /\ at = Nowhere /\ open = {}
    /\ where \in [Objects -> Recs] /\ cond = [o \in Objects |-> "none"]
    /\ visible = {Plain(r) : r \in Recs} /\ visited = {}
    /\ objLoc = <<>> /\ objState = <<>> /\ cleared = {} /\ inventory = None
    /\ shown = {} /\ moved = {}

Held == {o \in Objects : where[o] = InHand}

GoTo(r) ==
    /\ r # at
    /\ at' = r
    /\ UNCHANGED <<open, where, cond, moved>>
    /\ shown' = IF HasInside(r) THEN shown \cup {r} ELSE shown
    /\ UpdateFromObservation(ArrivalObs(r))

OpenDoor ==
    /\ at \in Openables \ open
    /\ open' = open \cup {at}
    /\ shown' = shown \cup {at}
    /\ UNCHANGED <<at, where, cond, moved>>
    /\ UpdateFromObservation(OpeningObs(at))

\* "You close the X." matches no expression
CloseDoor ==
    /\ at \in open
    /\ open' = open \ {at}
    /\ UNCHANGED <<at, where, cond, shown, moved>>
    /\ UpdateFromObservation(Silent)

Take(o) ==
    /\ at \in Recs /\ where[o] = at /\ (at \in Surfaces \/ at \in open)
    /\ Held = {}
    /\ where' = [where EXCEPT ![o] = InHand]
    /\ moved' = moved \cup {o}
    /\ UNCHANGED <<at, open, cond, shown>>
    /\ UpdateFromObservation(TakeObs(o, at))

\* the sentence repeats the preposition of the command
Put(o, rel) ==
    /\ o \in Held /\ at \in Recs /\ (at \in Surfaces \/ at \in open)
    /\ where' = [where EXCEPT ![o] = at]
    /\ UNCHANGED <<at, open, cond, shown, moved>>
    /\ UpdateFromObservation(PutObs(o, rel, at))

\* heat, cool and clean
Treat(o) ==
    /\ o \in Held /\ at \in DOMAIN Treats
    /\ cond' = [cond EXCEPT ![o] = Treats[at]]
    /\ UNCHANGED <<at, open, where, shown, moved>>
    /\ UpdateFromObservation(TreatObs(o, at))

Look ==
    /\ at \in Recs
    /\ UNCHANGED <<game, history>>
    /\ UpdateFromObservation(FacingObs(at))

Examine ==
    /\ at \in Recs
    /\ UNCHANGED <<game, history>>
    /\ UpdateFromObservation(Frame(at))

Next == \/ \E r \in Recs : GoTo(r)
        \/ OpenDoor \/ CloseDoor
        \/ \E o \in Objects : Take(o)
        \/ \E o \in Objects, rel \in {"in", "on", "in/on"} : Put(o, rel)
        \/ \E o \in Objects : Treat(o)
        \/ Look \/ Examine

Spec == Init /\ [][Next]_vars
-----------------------------------------------------------------------------
(***************************************************************************)
(* The admissible commands (agents/utils/misc.py) and the phase that is    *)
(* read off them by searching their joined text for words: once for        *)
(* grouping (env_manager.py), once for r_task (belief_tracker.py).  A word *)
(* is found in a verb or inside a name ("breadsliced 1" has "slice").  Of  *)
(* the ids that constants.py lists only those of sliced objects have one;  *)
(* lamps, whose only command is "use", are left out.  A blank in a verb is  *)
(* written as an underscore.                                               *)
(***************************************************************************)
TreatVerb == [c \in Conditions |-> CASE c = "hot"   -> "heat"
                                     [] c = "cold"  -> "cool"
                                     [] c = "clean" -> "clean"]

ObjectsInReach == {o \in Objects : where[o] = at /\ (at \in Surfaces \/ at \in open)}

\* mutant: the verb the phase looks for
BugPutVerb == "put"
PutVerb == "move"

Command(verb, names) == [verb |-> verb, names |-> names]

\* at a station, with every station of its kind
TreatCommands ==
    IF at \in DOMAIN Treats
    THEN {Command(TreatVerb[Treats[at]], {o, r}) :
             o \in Held, r \in {q \in DOMAIN Treats : Treats[q] = Treats[at]}}
    ELSE {}

AdmissibleCommands ==
    {Command(v, {}) : v \in {"inventory", "look", "help"}}
    \cup {Command("go_to", {r}) : r \in Recs \ {at}}
    \cup {Command(v, {r}) : v \in {"open", "close"}, r \in Openables \cap {at}}
    \cup {Command("examine", {x}) : x \in Held \cup (Recs \cap {at})}
    \cup {Command("take", {o, at}) : o \in {x \in ObjectsInReach : at \in Recs /\ Held = {}}}
    \cup {Command(PutVerb, {o, r}) : o \in Held, r \in Recs \cap {at}}
    \cup TreatCommands

Named(commands) == UNION {c.names : c \in commands}

\* w in cmds; an argument follows every verb that is looked for
InText(w, commands, within) ==
    \/ \E c \in commands : c.verb = w
    \/ \E n \in Named(commands) : w \in within[n]

PhaseGT(commands) ==
    IF InText("put", commands, Spells) THEN "place"
    ELSE IF \E w \in {"heat", "cool", "clean", "slice"} : InText(w, commands, Spells) THEN "transform"
    ELSE IF InText("pick_up", commands, Spells) THEN "pickup"
    ELSE "find"

\* the words with the space behind them; holding: some object of the belief is in_hand
RewardPhase(commands, holding) ==
    IF \E w \in {"heat", "cool", "clean"} : InText(w, commands, Ends) THEN "transform"
    ELSE IF InText("put", commands, Ends) /\ holding THEN "place"
    ELSE IF InText("pick_up", commands, Ends) THEN "pickup"
    ELSE "find"

-----------------------------------------------------------------------------
\* visited_locations holds exactly the receptacles whose inside the game has
\* shown, whether it was met open, opened, or examined, and
\* unvisited_candidates every other one: F1 on "visited" and the penalty on
\* "unvisited_candidates" in r_state compare the belief with the truth.
CandidatesAreUnseen ==
    /\ {r \in Recs : Plain(r) \in visited} = shown
    /\ {r \in Recs : Plain(r) \in UnvisitedCandidates} = Recs \ shown

\* A recorded fact can only be made stale by the agent's own later act: an
\* object never taken is where the tracker has it, and a door recorded as
\* closed is closed (one recorded as open may have been closed since, because
\* "You close the X." is not read).
FactsHoldUntilDisturbed ==
    /\ \A o \in Objects \ moved : Plain(o) \in DOMAIN objLoc => objLoc[Plain(o)] = Plain(where[o])
    /\ \A r \in Openables : Plain(r) \in DOMAIN objState /\ objState[Plain(r)] = "closed" => r \notin open

\* A listing of what is on a receptacle brings every object on it up to date,
\* also one that was taken and put down again.
ListingRefreshes ==
    \A r \in Recs : GoTo(r) /\ HasInside(r) =>
        \A o \in Inside(r) : Plain(o) \in DOMAIN objLoc' /\ objLoc'[Plain(o)] = Plain(r)

\* What the tracker knows of the game is right until the agent changes it, and
\* right again with the next listing.
FactsTrackTheGame == [][FactsHoldUntilDisturbed' /\ ListingRefreshes]_vars

\* The phase tells whether the agent stands with something at a station, and
\* beyond that only what the names in its reach are spelled with: the commands
\* are "take" and "move", the words looked for "pick up" and "put", so that
\* pickup is never reported and place only for a name with "put" in it.  Where
\* no name ends in a word that is looked for, r_task goes by the station alone:
\* what the belief claims to hold changes nothing.  So it rewards the phase that
\* the steps are grouped by, unless a name only contains such a word.
PhaseKnowsStationsOnly ==
    LET station  == Held # {} /\ at \in DOMAIN Treats
        commands == AdmissibleCommands
        spelled(S) == \E n \in Named(commands) : Spells[n] \cap S # {}
    IN /\ PhaseGT(commands) = IF spelled({"put"}) THEN "place"
                              ELSE IF station \/ spelled(PhaseWords) THEN "transform"
                              ELSE "find"
       /\ (\A n \in Named(commands) : Ends[n] = {}) =>
             \A holding \in BOOLEAN :
                 RewardPhase(commands, holding) = IF station THEN "transform" ELSE "find"

\* "Maps to 4 values: find/pickup/transform/place", of which pickup "means there
\* is a pickupable object in reach" and place that the agent "is holding an
\* object and near a receptacle" (extract_phase_gt_alfworld in env_manager.py):
\* what the two conditions promise, away from stations and from names with a
\* word of a phase.
FourPhases ==
    (at \in Recs \ DOMAIN Treats /\ \A n \in Named(AdmissibleCommands) : Spells[n] = {}) =>
        /\ Held = {} /\ ObjectsInReach # {} => PhaseGT(AdmissibleCommands) = "pickup"
        /\ Held # {} => PhaseGT(AdmissibleCommands) = "place"
=============================================================================
